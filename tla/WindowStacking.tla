--------------------------- MODULE WindowStacking ---------------------------
(***************************************************************************)
(* The stacking operations of src/win/layers.h: lower_window,             *)
(* raise_window, raise_or_lower_client, restack and                       *)
(* restack_client_under_active.  They edit the space's                    *)
(* unconstrained_stacking_order (front = bottom, back = top) and its      *)
(* most_recently_raised pointer; every operation ends with the space's    *)
(* updateStackingOrder (the StackingUpdatesBlocker going out of scope, or *)
(* the explicit call in restack), so the constrained stacking_order is    *)
(* a function of the unconstrained one between operations.               *)
(*                                                                         *)
(* The space members that layers.h only calls (stacking_order,            *)
(* ensureStackingOrder, topClientOnDesktop, belong_to_same_client,        *)
(* is_special_window) are not in src/; they are given the contract        *)
(* layers.h relies on.  Windows come, get activated, close and go through *)
(* the Workspace, also outside src/: those are the environment actions.  *)
(***************************************************************************)
EXTENDS Naturals, Sequences, SequencesExt, FiniteSets

CONSTANTS
  Windows,      \* the windows a session may manage
  NoWindow,     \* nullptr
  LayerOf,      \* window -> layer
  LayerOrder,   \* the layers, bottom to top
  ClientOf,     \* window -> the client (application) it belongs to
  LeadOf,       \* window -> transient()->lead(), or NoWindow
  GroupOf,      \* window -> the members of its X11 group ({} = no group)
  Special       \* the windows is_special_window holds for (docks, desktops, ...)

ASSUME NoWindow \notin Windows
ASSUME LeadOf \in [Windows -> Windows \cup {NoWindow}]
ASSUME GroupOf \in [Windows -> SUBSET Windows]

VARIABLES
  unconstrained_stacking_order,  \* Seq of windows, bottom first
  most_recently_raised,          \* window or NoWindow
  active_client,                 \* window or NoWindow
  control,                       \* windows that have a control (managed, not closed)
  op                             \* the stacking operation of the last step (for properties)

stacking_vars == <<unconstrained_stacking_order, most_recently_raised, active_client,
                   control, op>>

Ops == {"raise", "lower", "restack", "under_active", "none"}

TypeOK ==
  /\ unconstrained_stacking_order \in Seq(Windows)
  /\ IsInjective(unconstrained_stacking_order)
  /\ control \subseteq Range(unconstrained_stacking_order)
  /\ most_recently_raised \in control \cup {NoWindow}
  /\ active_client \in control \cup {NoWindow}
  /\ op \in [kind : Ops, win : Windows \cup {NoWindow}]

-----------------------------------------------------------------------------
(* Helpers of the space that are not in src/.                              *)

(* Space::updateStackingOrder: the constrained order, layer by layer,      *)
(* keeping the unconstrained order inside a layer.                          *)
stacking_order(o) ==
  FlattenSeq([i \in 1 .. Len(LayerOrder) |-> SelectSeq(o, LAMBDA w : LayerOf[w] = LayerOrder[i])])

(* Space::ensureStackingOrder: the given windows in stacking order.         *)
ensureStackingOrder(o, S) == SelectSeq(stacking_order(o), LAMBDA w : w \in S)

belong_to_same_client(a, b) == ClientOf[a] = ClientOf[b]

is_special_window(w) == w \in Special

(* Space::topClientOnDesktop: the topmost shown window with a control that  *)
(* is not special (every window is on the current desktop in this model).  *)
topClientOnDesktop(o, ctl) ==
  LET cand == SelectSeq(stacking_order(o), LAMBDA w : w \in ctl /\ ~is_special_window(w))
  IN IF cand = <<>> THEN NoWindow ELSE Last(cand)

isTransient(w) == LeadOf[w] /= NoWindow

(* transient()->leads(), each followed down its lead() chain, as far as    *)
(* the leads are still in the stacking order.                              *)
RECURSIVE LeadChain(_, _)
LeadChain(o, w) ==
  IF LeadOf[w] = NoWindow \/ LeadOf[w] \notin Range(o) THEN {}
  ELSE {LeadOf[w]} \cup LeadChain(o, LeadOf[w])

-----------------------------------------------------------------------------
(* The two list edits of layers.h.                                         *)

do_lower(o, w) == Cons(w, Remove(o, w))

(* Mutant: push_back without remove_all.                                  *)
do_raise_no_remove(o, w) == Append(o, w)

do_raise(o, w) == Append(Remove(o, w), w)

(* The loops: do_raise, or do_lower, of each window of a list in turn.    *)
RECURSIVE raise_each(_, _)
raise_each(o, ws) == IF ws = <<>> THEN o ELSE raise_each(do_raise(o, Head(ws)), Tail(ws))

RECURSIVE lower_each(_, _)
lower_each(o, ws) == IF ws = <<>> THEN o ELSE lower_each(do_lower(o, Head(ws)), Tail(ws))

(* Mutant: the leads raised walking the stacking order from the top.      *)
Raised_reversed_leads(o, mrr, ctl, w) ==
  LET leads  == IF isTransient(w) THEN Reverse(ensureStackingOrder(o, LeadChain(o, w))) ELSE <<>>
      seq    == SelectSeq(leads, LAMBDA l : l \in ctl) \o <<w>>
      rec    == SelectSeq(seq, LAMBDA l : ~is_special_window(l))
  IN [order |-> raise_each(o, seq),
      mrr   |-> IF rec = <<>> THEN mrr ELSE Last(rec)]

(* raise_window's effect on <<order, most_recently_raised>>: the leads in  *)
(* stacking order, skipping those without a control, then the window; each *)
(* raise of a window that is not special records it.                       *)
Raised(o, mrr, ctl, w) ==
  LET leads  == IF isTransient(w) THEN ensureStackingOrder(o, LeadChain(o, w)) ELSE <<>>
      seq    == SelectSeq(leads, LAMBDA l : l \in ctl) \o <<w>>
      rec    == SelectSeq(seq, LAMBDA l : ~is_special_window(l))
  IN [order |-> raise_each(o, seq),
      mrr   |-> IF rec = <<>> THEN mrr ELSE Last(rec)]

(* Mutant: the group lowered in stacking order instead of reversed.       *)
Lowered_forward(o, mrr, ctl, w) ==
  LET wins  == IF isTransient(w) /\ GroupOf[w] /= {}
               THEN ensureStackingOrder(o, (GroupOf[w] \cap ctl) \ {w}) ELSE <<>>
      order == lower_each(do_lower(o, w), wins)
  IN [order |-> order,
      mrr   |-> IF mrr \in Range(wins) \cup {w} THEN NoWindow ELSE mrr]

(* lower_window's effect: the window to the bottom, then, for a transient  *)
(* with a group, every other member in reversed stacking order; a lowered  *)
(* most_recently_raised is forgotten.                                      *)
Lowered(o, mrr, ctl, w) ==
  LET wins  == IF isTransient(w) /\ GroupOf[w] /= {}
               THEN ensureStackingOrder(o, (GroupOf[w] \cap ctl) \ {w}) ELSE <<>>
      order == lower_each(do_lower(o, w), Reverse(wins))
  IN [order |-> order,
      mrr   |-> IF mrr \in Range(wins) \cup {w} THEN NoWindow ELSE mrr]

(* restack's effect on the order: unless forced or of the same client, the *)
(* window goes below the topmost window with a control of under's client   *)
(* in the window's layer; then it is moved in front of under.              *)
Restacked(o, w, under) ==
  LET r   == Remove(o, w)
      pos == SelectInSeq(r, LAMBDA x : x = under)
  IN IF under = NoWindow THEN o
     ELSE IF pos = 0 THEN Append(r, w) ELSE InsertAt(r, pos, w)

restackTarget(o, ctl, w, under, force) ==
  LET hits == {i \in 1 .. Len(o) : o[i] \in ctl /\ LayerOf[o[i]] = LayerOf[w]
                                   /\ belong_to_same_client(under, o[i])}
      top  == o[Max(hits)]
  IN IF force \/ belong_to_same_client(under, w) \/ hits = {} THEN under
     ELSE IF top = w THEN NoWindow ELSE top

-----------------------------------------------------------------------------
(* The operations.  Each one is a whole call of layers.h, including the    *)
(* updateStackingOrder that ends it.                                       *)

Apply(r, kind, w) ==
  /\ unconstrained_stacking_order' = r.order
  /\ most_recently_raised' = r.mrr
  /\ op' = [kind |-> kind, win |-> w]

lower_window(w) ==
  /\ w \in control
  /\ Apply(Lowered(unconstrained_stacking_order, most_recently_raised, control, w), "lower", w)
  /\ UNCHANGED <<active_client, control>>

raise_window(w) ==
  /\ w \in control
  /\ Apply(Raised(unconstrained_stacking_order, most_recently_raised, control, w), "raise", w)
  /\ UNCHANGED <<active_client, control>>

(* The window it compares with: most_recently_raised while it is still     *)
(* stacked and shown, else the top client of the desktop.                  *)
topmost(o, mrr, ctl) ==
  IF mrr /= NoWindow /\ mrr \in Range(stacking_order(o)) /\ mrr \in ctl
  THEN mrr ELSE topClientOnDesktop(o, ctl)

raise_or_lower_client(w) ==
  /\ w \in control
  /\ IF w = topmost(unconstrained_stacking_order, most_recently_raised, control)
     THEN Apply(Lowered(unconstrained_stacking_order, most_recently_raised, control, w), "lower", w)
     ELSE Apply(Raised(unconstrained_stacking_order, most_recently_raised, control, w), "raise", w)
  /\ UNCHANGED <<active_client, control>>

restack(w, under, force) ==
  /\ w \in control
  /\ under \in Range(unconstrained_stacking_order)
  /\ unconstrained_stacking_order' =
       Restacked(unconstrained_stacking_order, w,
                 restackTarget(unconstrained_stacking_order, control, w, under, force))
  /\ op' = [kind |-> "restack", win |-> w]
  /\ UNCHANGED <<most_recently_raised, active_client, control>>

(* restack_client_under_active's effect on <<order, mrr>>, and which of    *)
(* the two calls it made.  It takes the order as an argument because a     *)
(* window being managed is appended before it is placed.                   *)
UnderActive(o, mrr, ctl, ac, w) ==
  IF ac = NoWindow \/ ac = w \/ LayerOf[ac] /= LayerOf[w]
  THEN Raised(o, mrr, ctl, w) @@ [kind |-> "raise"]
  ELSE [order |-> Restacked(o, w, restackTarget(o, ctl, w, ac, FALSE)),
        mrr   |-> mrr,
        kind  |-> "under_active"]

restack_client_under_active(w) ==
  /\ w \in control
  /\ LET r == UnderActive(unconstrained_stacking_order, most_recently_raised, control,
                          active_client, w)
     IN Apply(r, r.kind, w)
  /\ UNCHANGED <<active_client, control>>

-----------------------------------------------------------------------------
(* The Workspace around layers.h (not in src/).  A managed window is       *)
(* appended and then raised, or, when focus stealing prevention keeps it   *)
(* from the front, restacked under the active client.  Closing a window    *)
(* takes its control and forgets it as active and most recently raised;   *)
(* its Deleted stays stacked until it is released.  A released window may *)
(* be managed again: it stands for a new window in the same role.         *)

manage(w) ==
  /\ w \notin Range(unconstrained_stacking_order)
  /\ control' = control \cup {w}
  /\ \E allow \in BOOLEAN :
       LET o == Append(unconstrained_stacking_order, w)
           r == IF allow THEN Raised(o, most_recently_raised, control', w) @@ [kind |-> "raise"]
                ELSE UnderActive(o, most_recently_raised, control', active_client, w)
       IN Apply(r, r.kind, w)
  /\ UNCHANGED active_client

activate(w) ==
  /\ w \in control
  /\ active_client' = w
  /\ op' = [kind |-> "none", win |-> NoWindow]
  /\ UNCHANGED <<unconstrained_stacking_order, most_recently_raised, control>>

close(w) ==
  /\ w \in control
  /\ control' = control \ {w}
  /\ most_recently_raised' = IF most_recently_raised = w THEN NoWindow ELSE most_recently_raised
  /\ active_client' = IF active_client = w THEN NoWindow ELSE active_client
  /\ op' = [kind |-> "none", win |-> NoWindow]
  /\ UNCHANGED unconstrained_stacking_order

release(w) ==
  /\ w \in Range(unconstrained_stacking_order) \ control
  /\ unconstrained_stacking_order' = Remove(unconstrained_stacking_order, w)
  /\ op' = [kind |-> "none", win |-> NoWindow]
  /\ UNCHANGED <<most_recently_raised, active_client, control>>

StackingInit ==
  /\ unconstrained_stacking_order = <<>>
  /\ most_recently_raised = NoWindow
  /\ active_client = NoWindow
  /\ control = {}
  /\ op = [kind |-> "none", win |-> NoWindow]

StackingNext ==
  \E w \in Windows :
    \/ lower_window(w)
    \/ raise_window(w)
    \/ raise_or_lower_client(w)
    \/ \E under \in Windows, force \in BOOLEAN : restack(w, under, force)
    \/ restack_client_under_active(w)
    \/ manage(w)
    \/ activate(w)
    \/ close(w)
    \/ release(w)

StackingSpec == StackingInit /\ [][StackingNext]_stacking_vars

-----------------------------------------------------------------------------
(* Properties.                                                             *)

Before(o, x, y) ==
  SelectInSeq(o, LAMBDA v : v = x) < SelectInSeq(o, LAMBDA v : v = y)

(* raise_window raises a transient together with its leads: afterwards the *)
(* window is the top of the unconstrained order, every lead with a control  *)
(* (down the whole lead() chain) lies above every other window, and the     *)
(* leads keep the order the constrained stacking order had them in before   *)
(* the call.  This is what the leads loop, ensureStackingOrder and the      *)
(* StackingUpdatesBlocker (which keeps the constrained order from the call  *)
(* before) have to achieve between them, also when the raise comes from    *)
(* raise_or_lower_client, restack_client_under_active or a newly managed    *)
(* window.                                                                 *)
RaiseStacksLeadsBeneath ==
  [][op'.kind = "raise" =>
       LET o  == unconstrained_stacking_order
           o2 == unconstrained_stacking_order'
           w  == op'.win
           L  == LeadChain(o2, w) \cap control
       IN /\ Last(o2) = w
          /\ \A l \in L, x \in Range(o2) \ (L \cup {w}) : Before(o2, x, l)
          /\ \A l1, l2 \in L : Before(stacking_order(o), l1, l2) => Before(o2, l1, l2)
    ]_stacking_vars

(* lower_window lowers a transient of a group with its group: afterwards    *)
(* the other members with a control and the window are the bottom of the   *)
(* unconstrained order, the members below the window, in the order the      *)
(* constrained stacking order had them in before the call.  The reversed    *)
(* loop of push_front calls is what has to get this right.                  *)
LowerStacksGroupBeneath ==
  [][op'.kind = "lower" =>
       LET o  == unconstrained_stacking_order
           o2 == unconstrained_stacking_order'
           w  == op'.win
           G  == IF isTransient(w) THEN (GroupOf[w] \cap control) \ {w} ELSE {}
       IN /\ \A g \in G : Before(o2, g, w)
          /\ \A g \in G \cup {w}, x \in Range(o2) \ (G \cup {w}) : Before(o2, g, x)
          /\ \A g1, g2 \in G : Before(stacking_order(o), g1, g2) => Before(o2, g1, g2)
    ]_stacking_vars


(* restack's comment: a window of another application restacked under the *)
(* active client goes "below _all_ windows belonging to the active         *)
(* application" of its layer.                                              *)
(* It is about restack_client_under_active (also when a window is managed  *)
(* under focus stealing prevention): afterwards the window lies below      *)
(* every window with a control of the active client's application in the  *)
(* window's layer, the active window among them.                           *)
RestackBelowActiveApp ==
  [][op'.kind = "under_active" /\ ~belong_to_same_client(op'.win, active_client) =>
       \A x \in control :
         belong_to_same_client(x, active_client) /\ LayerOf[x] = LayerOf[op'.win]
           => Before(unconstrained_stacking_order', op'.win, x)
    ]_stacking_vars

=============================================================================
