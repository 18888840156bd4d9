----------------------------- MODULE ClientModel -----------------------------
(***************************************************************************)
(* The scripting window model of src/scripting/v2/clientmodel.cpp: a tree  *)
(* of levels built from a list of restrictions (per screen, per virtual    *)
(* desktop, per activity) whose leaves, the ClientLevels, list the windows *)
(* that pass the model's exclusions and the leaf's restrictions.  Levels   *)
(* and window entries share one id space (nextId); Qt views address them   *)
(* through ClientModel::index / parent, which search the tree recursively. *)
(*                                                                         *)
(* Everything runs on the event-loop thread: each signal of the workspace, *)
(* a window, the desktop manager or the screens runs all its connected     *)
(* slots, in connection order, as one step.  The leaves answer in the      *)
(* order they were created, which is the order of their ids.               *)
(***************************************************************************)
EXTENDS Integers, Sequences, FiniteSets, SequencesExt

CONSTANTS
  Windows,      \* the workspace's windows (WindowWrapper)
  Traits,       \* Traits[w]: the fixed window types and flags the exclusions test
  LevelLists,   \* the restriction lists of the CLIENT_MODEL_WRAPPER models
  Flags,        \* the exclusion flags a script may set
  MaxScreens,   \* bound on screens()->count()
  MaxDesktops,  \* bound on VirtualDesktopManager::count()
  MaxEvents     \* bound on the events of a behaviour

None == 0          \* quint32 0: no id (idForRow past the end), nullptr for a level
OnAllDesktops == 0 \* the desktop of a window on all desktops

(***************************************************************************)
(* The exclusion flag -> the trait of the windows it excludes: a window   *)
(* type (win::is_desktop, is_dock, is_utility, is_special_window) or a    *)
(* window flag (skipTaskbar, skipPager, skipSwitcher, !wantsInput).  The  *)
(* levels never hear of a flag changing, so a trait is fixed per window.  *)
(***************************************************************************)
TraitOf == [desktopWindows |-> "desktop", dockWindows |-> "dock",
            utilityWindows |-> "utility", specialWindows |-> "special",
            skipTaskbar |-> "skipTaskbar", skipPager |-> "skipPager",
            switchSwitcher |-> "skipSwitcher", notAcceptingFocus |-> "noInput"]

ASSUME /\ Flags \subseteq DOMAIN TraitOf \cup {"otherDesktops", "minimized"}
       /\ \A w \in Windows : Traits[w] \subseteq {TraitOf[f] : f \in DOMAIN TraitOf}
       /\ MaxScreens \in Nat \ {0} /\ MaxDesktops \in Nat \ {0}

VARIABLES
  levels,      \* level id -> the level (ForkLevel or ClientLevel)
  root,        \* ClientModel::m_root
  counter,     \* the static counter of nextId()
  notices,     \* beginInsert/beginRemove of the last step, as Qt reads them
  clientList,  \* WorkspaceWrapper::clientList()
  wdesk,       \* a window's desktop
  wscreen,     \* a window's screen
  minimized,   \* a window is minimized (hidden)
  current,     \* VirtualDesktopManager::current()
  ndesk,       \* VirtualDesktopManager::count()
  nscreen,     \* screens()->count()
  exclusions,  \* ClientModel::m_exclusions
  events

vars == <<levels, root, counter, notices, clientList, wdesk, wscreen, minimized,
          current, ndesk, nscreen, exclusions, events>>

(***************************************************************************)
(* A level: its parent (m_parent), restriction (ForkLevel's own, "none"    *)
(* for a ClientLevel), the restrictions left for its children, the         *)
(* accumulated restrictions (m_restrictions), m_screen, m_virtualDesktop,  *)
(* a fork's m_children and a leaf's m_clients, a QMap from id to window    *)
(* whose rows are in key order.                                            *)
(***************************************************************************)
LevelRec(p, r, crs, rs) ==
  [parent |-> p, restriction |-> r, childRs |-> crs, restrictions |-> rs,
   screen |-> 0, desktop |-> 0, children |-> <<>>, clients |-> <<>>]

IsFork(l) == l.restriction /= "none"

RECURSIVE Ascending(_)
Ascending(S) == IF S = {} THEN <<>> ELSE <<Min(S)>> \o Ascending(S \ {Min(S)})

Count(l) == IF IsFork(l) THEN Len(l.children) ELSE Cardinality(DOMAIN l.clients)

(* The row of a key in a QMap: the number of smaller keys. *)
KeyRow(m, k) == Cardinality({j \in DOMAIN m : j < k})

(* ClientLevel::idForRow / ForkLevel::idForRow. *)
idForRow(l, row) ==
  IF row >= Count(l) THEN None
  ELSE IF IsFork(l) THEN l.children[row + 1]
  ELSE Ascending(DOMAIN l.clients)[row + 1]

(* Variant that looks at the level's own rows and direct children only. *)
rowForId_no_recursion(lv, x, c) ==
  IF ~IsFork(lv[x])
  THEN IF c \in DOMAIN lv[x].clients THEN KeyRow(lv[x].clients, c) ELSE -1
  ELSE IF c = x THEN 0
  ELSE IF \E i \in DOMAIN lv[x].children : lv[x].children[i] = c
       THEN (CHOOSE i \in DOMAIN lv[x].children : lv[x].children[i] = c) - 1
       ELSE -1

(***************************************************************************)
(* rowForId: a leaf answers the row of a window entry; a fork answers 0    *)
(* for its own id, the row of a direct child, or else the first answer of  *)
(* its children, in order.                                                 *)
(***************************************************************************)
RECURSIVE rowForId(_, _, _), FirstRow(_, _, _)
rowForId(lv, x, c) ==
  IF ~IsFork(lv[x])
  THEN IF c \in DOMAIN lv[x].clients THEN KeyRow(lv[x].clients, c) ELSE -1
  ELSE IF c = x THEN 0
  ELSE IF \E i \in DOMAIN lv[x].children : lv[x].children[i] = c
       THEN (CHOOSE i \in DOMAIN lv[x].children : lv[x].children[i] = c) - 1
       ELSE FirstRow(lv, lv[x].children, c)
FirstRow(lv, s, c) ==
  IF s = <<>> THEN -1
  ELSE LET r == rowForId(lv, Head(s), c) IN IF r /= -1 THEN r ELSE FirstRow(lv, Tail(s), c)

(* parentForId: the level holding c (a level's own id: its parent). *)
RECURSIVE parentForId(_, _, _), FirstParent(_, _, _)
parentForId(lv, x, c) ==
  IF c = x THEN lv[x].parent
  ELSE IF ~IsFork(lv[x]) THEN IF c \in DOMAIN lv[x].clients THEN x ELSE None
  ELSE FirstParent(lv, lv[x].children, c)
FirstParent(lv, s, c) ==
  IF s = <<>> THEN None
  ELSE LET p == parentForId(lv, Head(s), c) IN IF p /= None THEN p ELSE FirstParent(lv, Tail(s), c)

(* levelForId: the level with that id, searched below x. *)
RECURSIVE levelForId(_, _, _), FirstLevel(_, _, _)
levelForId(lv, x, id) ==
  IF id = x THEN x
  ELSE IF ~IsFork(lv[x]) THEN None
  ELSE FirstLevel(lv, lv[x].children, id)
FirstLevel(lv, s, id) ==
  IF s = <<>> THEN None
  ELSE LET y == levelForId(lv, Head(s), id) IN IF y /= None THEN y ELSE FirstLevel(lv, Tail(s), id)

RECURSIVE Subtree(_, _)
Subtree(lv, x) == {x} \cup UNION {Subtree(lv, lv[x].children[i]) : i \in DOMAIN lv[x].children}

-----------------------------------------------------------------------------
(* Model indexes: createIndex(row, 0, id), and the invalid QModelIndex. *)
Invalid == [valid |-> FALSE, row |-> -1, id |-> None]
Idx(r, i) == [valid |-> TRUE, row |-> r, id |-> i]

(* ClientModel::getLevel. *)
getLevel(lv, rt, idx) == IF ~idx.valid THEN rt ELSE levelForId(lv, rt, idx.id)

(* ClientModel::parentForId, behind ClientModel::parent. *)
ModelParentForId(lv, rt, c) ==
  IF c = rt THEN Invalid
  ELSE LET p == parentForId(lv, rt, c)
       IN  IF p = None \/ p = rt THEN Invalid
           ELSE LET row == rowForId(lv, rt, p) IN IF row = -1 THEN Invalid ELSE Idx(row, p)

(* ClientModel::index(row, 0, parent). *)
ModelIndex(lv, rt, row, parent) ==
  IF row < 0 THEN Invalid
  ELSE IF ~parent.valid
  THEN IF row >= Count(lv[rt]) THEN Invalid ELSE Idx(row, idForRow(lv[rt], row))
  ELSE LET pl == getLevel(lv, rt, parent)
       IN  IF pl = None \/ row >= Count(lv[pl]) THEN Invalid
           ELSE LET id == idForRow(lv[pl], row) IN IF id = None THEN Invalid ELSE Idx(row, id)

(* levelBeginInsert / levelBeginRemove: the parent index announced for id. *)
AnnouncedParent(lv, rt, id) ==
  LET row == rowForId(lv, rt, id) IN IF row = -1 THEN Invalid ELSE Idx(row, id)

(***************************************************************************)
(* The level a view takes an announced parent to be: the root for the      *)
(* invalid index, else the index's level if the index is one the model     *)
(* hands out for it (index(row, parent(idx)) = idx), else none.            *)
(***************************************************************************)
Designated(lv, rt, idx) ==
  IF ~idx.valid THEN rt
  ELSE IF ModelIndex(lv, rt, idx.row, ModelParentForId(lv, rt, idx.id)) = idx THEN idx.id
  ELSE None

-----------------------------------------------------------------------------
(* The windows' state a slot reads. *)
Env(list, dk, scr, mini, cur, excl) ==
  [list |-> list, desk |-> dk, scr |-> scr, min |-> mini, cur |-> cur, excl |-> excl]

isOnDesktop(e, w, d) == e.desk[w] \in {OnAllDesktops, d}

(* One exclusion flag against a window (ClientLevel::exclude's tests). *)
Excluded(e, w, f) ==
  CASE f = "otherDesktops" -> ~isOnDesktop(e, w, e.cur)
    [] f = "minimized"     -> e.min[w]
    [] OTHER               -> TraitOf[f] \in Traits[w]

exclude(e, w) == \E f \in e.excl : Excluded(e, w, f)

(* ClientLevel::shouldAdd: the leaf's desktop and screen restrictions. *)
shouldAdd(l, e, w) ==
  /\ "desktop" \in l.restrictions => isOnDesktop(e, w, l.desktop)
  /\ "screen" \in l.restrictions => e.scr[w] = l.screen

Admits(l, e, w) == ~exclude(e, w) /\ shouldAdd(l, e, w)

containsClient(l, w) == \E k \in DOMAIN l.clients : l.clients[k] = w

(***************************************************************************)
(* The world a step transforms: the levels, nextId's counter and the       *)
(* notices emitted so far.  Announce(st, rt, x) is emit beginInsert or     *)
(* beginRemove(..., x): the model computes the parent index at that point. *)
(***************************************************************************)
Announce(st, rt, x) ==
  [st EXCEPT !.notes = @ \cup {[level |-> x,
                                 shown |-> Designated(st.lv, rt, AnnouncedParent(st.lv, rt, x))]}]

(* ClientLevel::addClient: a new row with a fresh id, after the notice. *)
addClient(st, rt, x, w) ==
  IF containsClient(st.lv[x], w) THEN st
  ELSE LET s1 == Announce(st, rt, x)
           id == s1.n + 1
       IN  [s1 EXCEPT !.n = id, !.lv[x].clients = @ @@ (id :> w)]

(* ClientLevel::removeClient: the first entry holding the window. *)
removeClient(st, rt, x, w) ==
  LET m == st.lv[x].clients
  IN  IF ~containsClient(st.lv[x], w) THEN st
      ELSE LET k  == CHOOSE k \in DOMAIN m : m[k] = w /\ \A j \in DOMAIN m : m[j] = w => k <= j
               s1 == Announce(st, rt, x)
           IN  [s1 EXCEPT !.lv[x].clients = [j \in DOMAIN m \ {k} |-> m[j]]]

(* Variant that adds windows but never removes one. *)
checkClient_no_remove(st, rt, x, e, w) ==
  IF Admits(st.lv[x], e, w) /\ ~containsClient(st.lv[x], w) THEN addClient(st, rt, x, w) ELSE st

(* ClientLevel::checkClient. *)
checkClient(st, rt, x, e, w) ==
  LET should == Admits(st.lv[x], e, w)
      has    == containsClient(st.lv[x], w)
  IN  IF should /\ ~has THEN addClient(st, rt, x, w)
      ELSE IF ~should /\ has THEN removeClient(st, rt, x, w)
      ELSE st

LeafIds(lv) == Ascending({x \in DOMAIN lv : ~IsFork(lv[x])})
ForkIds(lv) == Ascending({x \in DOMAIN lv : IsFork(lv[x])})

(* A window signal connected to check in every leaf (clientAdded, desktopChanged, ...). *)
CheckEverywhere(st, rt, e, w) ==
  LET f(s, x) == checkClient(s, rt, x, e, w) IN FoldLeft(f, st, LeafIds(st.lv))

(* ClientLevel::reInit: check every window of the client list, in order. *)
reInit(st, rt, x, e) ==
  LET f(s, w) == checkClient(s, rt, x, e, w) IN FoldLeft(f, st, e.list)

(* currentChanged and exclusionsChanged: every leaf re-checks. *)
ReInitEverywhere(st, rt, e) ==
  LET f(s, x) == reInit(s, rt, x, e) IN FoldLeft(f, st, LeafIds(st.lv))

(* WorkspaceWrapper::clientRemoved: ClientLevel::removeClient in every leaf. *)
RemoveEverywhere(st, rt, w) ==
  LET f(s, x) == removeClient(s, rt, x, w) IN FoldLeft(f, st, LeafIds(st.lv))

(***************************************************************************)
(* ClientLevel::init (every window the filter admits gets a fresh id, no   *)
(* notice) and ForkLevel::init (the children's init, in order).            *)
(***************************************************************************)
RECURSIVE initLevel(_, _, _)
initLevel(st, x, e) ==
  IF IsFork(st.lv[x])
  THEN LET f(s, c) == initLevel(s, c, e) IN FoldLeft(f, st, st.lv[x].children)
  ELSE LET g(s, w) == IF Admits(s.lv[x], e, w)
                      THEN [s EXCEPT !.n = @ + 1, !.lv[x].clients = @ @@ (s.n + 1 :> w)]
                      ELSE s
       IN  FoldLeft(g, st, e.list)

(* AbstractLevel::setScreen / setVirtualDesktop, which forks pass down. *)
SetPos(st, y, r, i) ==
  LET sub == Subtree(st.lv, y)
  IN  [st EXCEPT !.lv = [z \in DOMAIN st.lv |->
                           IF z \notin sub THEN st.lv[z]
                           ELSE IF r = "screen" THEN [st.lv[z] EXCEPT !.screen = i]
                           ELSE [st.lv[z] EXCEPT !.desktop = i]]]

(* ForkLevel::addChild. *)
addChild(st, x, y) == [st EXCEPT !.lv[x].children = Append(@, y)]

(***************************************************************************)
(* AbstractLevel::create(restrictions, parentRestrictions, parent): a leaf *)
(* for an empty list; else a fork for the first restriction with a child   *)
(* per screen (0..count-1) or desktop (1..count), each created from the    *)
(* rest of the list and positioned.  An activity level is created (its id  *)
(* is taken) and dropped: create answers nullptr.  k holds the counts.     *)
(***************************************************************************)
RECURSIVE create(_, _, _, _, _), createChildren(_, _, _, _)
create(rs, prs, p, st, k) ==
  LET id == st.n + 1
  IN  IF rs = <<>>
      THEN [st |-> [st EXCEPT !.n = id, !.lv = @ @@ (id :> LevelRec(p, "none", <<>>, prs))],
            top |-> id]
      ELSE IF Head(rs) = "activity"
      THEN [st |-> [st EXCEPT !.n = id], top |-> None]
      ELSE LET r  == Head(rs)
               s1 == [st EXCEPT !.n = id,
                                !.lv = @ @@ (id :> LevelRec(p, r, Tail(rs), {r} \cup prs))]
               positions == IF r = "screen" THEN 0 .. k.screens - 1 ELSE 1 .. k.desktops
           IN  [st |-> createChildren(id, Ascending(positions), s1, k), top |-> id]
createChildren(x, is, st, k) ==
  IF is = <<>> THEN st
  ELSE LET l == st.lv[x]
           c == create(l.childRs, l.restrictions, x, st, k)
           s1 == IF c.top = None THEN c.st
                 ELSE addChild(SetPos(c.st, c.top, l.restriction, Head(is)), x, c.top)
       IN  createChildren(x, Tail(is), s1, k)

(* Variant that deletes the last children but keeps them in m_children. *)
TruncateChildren_keeps_pointers(st, x, n) ==
  LET gone == UNION {Subtree(st.lv, st.lv[x].children[i]) : i \in n + 1 .. Len(st.lv[x].children)}
  IN  [st EXCEPT !.lv = [z \in DOMAIN st.lv \ gone |-> st.lv[z]]]

(* delete m_children.takeLast() while there are more than n children. *)
TruncateChildren(st, x, n) ==
  LET gone == UNION {Subtree(st.lv, st.lv[x].children[i]) : i \in n + 1 .. Len(st.lv[x].children)}
      lv1  == [st.lv EXCEPT ![x].children = SubSeq(@, 1, n)]
  IN  [st EXCEPT !.lv = [z \in DOMAIN lv1 \ gone |-> lv1[z]]]

(***************************************************************************)
(* ForkLevel::desktopCountChanged and screenCountChanged on fork x: only   *)
(* a fork of that restriction that is in step with the old count acts; it  *)
(* announces the rows, then deletes the last children or creates, places,  *)
(* initialises and adds the new ones.  A new desktop child is given its    *)
(* desktop only; a new screen child its screen, which forks pass down.     *)
(***************************************************************************)
desktopCountChanged(st, rt, x, prev, new, e, k) ==
  LET l == st.lv[x]
      grow(s, i) == LET c == create(l.childRs, l.restrictions, x, s, k)
                    IN  IF c.top = None THEN c.st
                        ELSE addChild(initLevel(SetPos(c.st, c.top, "desktop", i), c.top, e), x, c.top)
  IN  IF l.restriction /= "desktop" \/ prev /= Len(l.children) THEN st
      ELSE IF prev > new THEN TruncateChildren(Announce(st, rt, x), x, new)
      ELSE FoldLeft(grow, Announce(st, rt, x), Ascending(prev + 1 .. new))

screenCountChanged(st, rt, x, prev, new, e, k) ==
  LET l == st.lv[x]
      grow(s, i) == LET c == create(l.childRs, l.restrictions, x, s, k)
                    IN  IF c.top = None THEN c.st
                        ELSE addChild(initLevel(SetPos(c.st, c.top, "screen", i), c.top, e), x, c.top)
  IN  IF l.restriction /= "screen" \/ new = prev \/ prev /= Len(l.children) THEN st
      ELSE IF prev > new THEN TruncateChildren(Announce(st, rt, x), x, new)
      ELSE FoldLeft(grow, Announce(st, rt, x), Ascending(prev .. new - 1))

(* A count signal reaches the forks that exist when it is emitted, in order. *)
ForksHandle(st, rt, count, prev, new, e, k) ==
  LET H(s, x) == IF count = "desktop" THEN desktopCountChanged(s, rt, x, prev, new, e, k)
                 ELSE screenCountChanged(s, rt, x, prev, new, e, k)
      f(s, x) == IF x \in DOMAIN s.lv THEN H(s, x) ELSE s
  IN  FoldLeft(f, st, ForkIds(st.lv))

-----------------------------------------------------------------------------
W == [lv |-> levels, n |-> counter, notes |-> {}]

Commit(st) == levels' = st.lv /\ counter' = st.n /\ notices' = st.notes

E0 == Env(clientList, wdesk, wscreen, minimized, current, exclusions)

SetEnv(e) ==
  /\ clientList' = e.list /\ wdesk' = e.desk /\ wscreen' = e.scr
  /\ minimized' = e.min /\ current' = e.cur /\ exclusions' = e.excl

Event == events < MaxEvents /\ events' = events + 1

DeskValues(n) == {OnAllDesktops} \cup 1 .. n

(* A window that is not in the client list: its state is irrelevant and fixed. *)
Unlisted(e, w) == [e EXCEPT !.desk[w] = 1, !.scr[w] = 0, !.min[w] = FALSE]

(***************************************************************************)
(* WorkspaceWrapper::clientAdded: every leaf connects the window's signals *)
(* and checks it (ClientLevel::clientAdded).                               *)
(***************************************************************************)
client_added ==
  /\ Event
  /\ \E w \in Windows \ Range(clientList), d \in DeskValues(ndesk), sc \in 0 .. nscreen - 1,
        m \in BOOLEAN :
       LET e == [E0 EXCEPT !.list = Append(@, w), !.desk[w] = d, !.scr[w] = sc, !.min[w] = m]
       IN  SetEnv(e) /\ Commit(CheckEverywhere(W, root, e, w))
  /\ UNCHANGED <<root, ndesk, nscreen>>

(* WorkspaceWrapper::clientRemoved: every leaf removes the window. *)
client_removed ==
  /\ Event
  /\ \E w \in Range(clientList) :
       /\ SetEnv(Unlisted([E0 EXCEPT !.list = SelectSeq(@, LAMBDA v : v /= w)], w))
       /\ Commit(RemoveEverywhere(W, root, w))
  /\ UNCHANGED <<root, ndesk, nscreen>>

(* WindowWrapper::desktopChanged: checkClient in every leaf. *)
window_desktop_changed ==
  /\ Event
  /\ \E w \in Range(clientList), d \in DeskValues(ndesk) :
       /\ d /= wdesk[w]
       /\ LET e == [E0 EXCEPT !.desk[w] = d] IN SetEnv(e) /\ Commit(CheckEverywhere(W, root, e, w))
  /\ UNCHANGED <<root, ndesk, nscreen>>

(* WindowWrapper::screenChanged: checkClient in every leaf. *)
window_screen_changed ==
  /\ Event
  /\ \E w \in Range(clientList), sc \in 0 .. nscreen - 1 :
       /\ sc /= wscreen[w]
       /\ LET e == [E0 EXCEPT !.scr[w] = sc] IN SetEnv(e) /\ Commit(CheckEverywhere(W, root, e, w))
  /\ UNCHANGED <<root, ndesk, nscreen>>

(* Toplevel::windowHidden / windowShown (minimize, unminimize): checkClient. *)
window_visibility_changed ==
  /\ Event
  /\ \E w \in Range(clientList) :
       LET e == [E0 EXCEPT !.min[w] = ~@] IN SetEnv(e) /\ Commit(CheckEverywhere(W, root, e, w))
  /\ UNCHANGED <<root, ndesk, nscreen>>

(* VirtualDesktopManager::currentChanged: every leaf's reInit. *)
current_desktop_changed ==
  /\ Event
  /\ \E d \in (1 .. ndesk) \ {current} :
       LET e == [E0 EXCEPT !.cur = d] IN SetEnv(e) /\ Commit(ReInitEverywhere(W, root, e))
  /\ UNCHANGED <<root, ndesk, nscreen>>

(* ClientModel::setExclusions: unless unchanged, exclusionsChanged reInits every leaf. *)
exclusions_changed ==
  /\ Event
  /\ \E x \in SUBSET Flags :
       /\ x /= exclusions
       /\ LET e == [E0 EXCEPT !.excl = x] IN SetEnv(e) /\ Commit(ReInitEverywhere(W, root, e))
  /\ UNCHANGED <<root, ndesk, nscreen>>

(***************************************************************************)
(* The desktop count changes.  On removal the desktop manager first moves  *)
(* the current desktop into range (currentChanged: reInit), the workspace  *)
(* sends the windows of removed desktops to the last one (desktopChanged:  *)
(* checkClient); then countChanged(previous, new) reaches the forks.       *)
(***************************************************************************)
desktop_count_changed ==
  /\ Event
  /\ \E new \in (1 .. MaxDesktops) \ {ndesk} :
       LET cur1  == IF current > new THEN new ELSE current
           e1    == [E0 EXCEPT !.cur = cur1]
           s1    == IF cur1 /= current THEN ReInitEverywhere(W, root, e1) ELSE W
           e2    == [e1 EXCEPT !.desk = [v \in Windows |-> IF wdesk[v] > new THEN new ELSE wdesk[v]]]
           moved == SelectSeq(clientList, LAMBDA v : wdesk[v] > new)
           check(s, v) == CheckEverywhere(s, root, e2, v)
           k     == [screens |-> nscreen, desktops |-> new]
       IN  /\ SetEnv(e2) /\ ndesk' = new
           /\ Commit(ForksHandle(FoldLeft(check, s1, moved), root, "desktop", ndesk, new, e2, k))
  /\ UNCHANGED <<root, nscreen>>

(***************************************************************************)
(* The screen count changes: Screens::countChanged reaches the forks; the  *)
(* windows of removed screens then move (where to is decided outside      *)
(* src/: the model sends them to the last screen) and screenChanged runs   *)
(* checkClient.                                                             *)
(***************************************************************************)
screen_count_changed ==
  /\ Event
  /\ \E new \in (1 .. MaxScreens) \ {nscreen} :
       LET k     == [screens |-> new, desktops |-> ndesk]
           e2    == [E0 EXCEPT !.scr = [v \in Windows |-> IF wscreen[v] >= new THEN new - 1 ELSE wscreen[v]]]
           moved == SelectSeq(clientList, LAMBDA v : wscreen[v] >= new)
           check(s, v) == CheckEverywhere(s, root, e2, v)
       IN  /\ SetEnv(e2) /\ nscreen' = new
           /\ Commit(FoldLeft(check, ForksHandle(W, root, "screen", nscreen, new, E0, k), moved))
  /\ UNCHANGED <<root, ndesk>>

(***************************************************************************)
(* A CLIENT_MODEL_WRAPPER model is constructed (exclusions none) on a     *)
(* workspace that may already hold windows (shown, each on one desktop;    *)
(* the actions reach the other window states): setLevels creates the tree  *)
(* and runs the root's init.                                               *)
(***************************************************************************)
Init ==
  /\ nscreen \in 1 .. MaxScreens /\ ndesk \in 1 .. MaxDesktops /\ current \in 1 .. ndesk
  /\ exclusions = {}
  /\ clientList \in UNION {SetToSeqs(S) : S \in SUBSET Windows}
  /\ wdesk \in {f \in [Windows -> 1 .. ndesk] : \A v \in Windows \ Range(clientList) : f[v] = 1}
  /\ wscreen \in {f \in [Windows -> 0 .. nscreen - 1] : \A v \in Windows \ Range(clientList) : f[v] = 0}
  /\ minimized = [v \in Windows |-> FALSE]
  /\ \E rs \in LevelLists :
       LET c == create(rs, {}, None, [lv |-> <<>>, n |-> 0, notes |-> {}],
                       [screens |-> nscreen, desktops |-> ndesk])
           s == initLevel(c.st, c.top, E0)
       IN  root = c.top /\ levels = s.lv /\ counter = s.n
  /\ notices = {}
  /\ events = 0

Next ==
  \/ client_added \/ client_removed
  \/ window_desktop_changed \/ window_screen_changed \/ window_visibility_changed
  \/ current_desktop_changed \/ exclusions_changed
  \/ desktop_count_changed \/ screen_count_changed

Spec == Init /\ [][Next]_vars

-----------------------------------------------------------------------------
TypeOK ==
  /\ root \in DOMAIN levels
  /\ counter \in Nat /\ DOMAIN levels \subseteq 1 .. counter
  /\ \A x \in DOMAIN levels :
       /\ levels[x].parent \in DOMAIN levels \cup {None}
       /\ levels[x].restriction \in {"none", "screen", "desktop"}
       /\ levels[x].restrictions \subseteq {"screen", "desktop"}
       /\ Range(levels[x].children) \subseteq DOMAIN levels
       /\ DOMAIN levels[x].clients \subseteq 1 .. counter
       /\ Range(levels[x].clients) \subseteq Windows
  /\ IsInjective(clientList) /\ Range(clientList) \subseteq Windows
  /\ wdesk \in [Windows -> DeskValues(ndesk)]
  /\ wscreen \in [Windows -> 0 .. nscreen - 1]
  /\ minimized \in [Windows -> BOOLEAN]
  /\ ndesk \in 1 .. MaxDesktops /\ current \in 1 .. ndesk /\ nscreen \in 1 .. MaxScreens
  /\ exclusions \subseteq Flags
  /\ events \in 0 .. MaxEvents

(***************************************************************************)
(* Every leaf lists, once each, exactly the windows of the client list     *)
(* that pass the exclusions and the leaf's own screen and desktop: the     *)
(* window, desktop, exclusion and count signals the levels connect to      *)
(* keep each leaf's filter current (checkClient, reInit, init of new       *)
(* levels) whatever their order.                                           *)
(***************************************************************************)
ContentsMatchRestrictions ==
  \A x \in DOMAIN levels :
    ~IsFork(levels[x]) =>
      /\ IsInjective(levels[x].clients)
      /\ Range(levels[x].clients) = {w \in Range(clientList) : Admits(levels[x], E0, w)}

Items == (DOMAIN levels \ {root}) \cup UNION {DOMAIN levels[x].clients : x \in DOMAIN levels}

(***************************************************************************)
(* Every level and window entry is addressable: its row (rowForId) and    *)
(* parent (ClientModel::parent) give back its own index through            *)
(* ClientModel::index, the round trip Qt views rely on.                    *)
(***************************************************************************)
IndexesRoundTrip ==
  \A y \in Items :
    LET r == rowForId(levels, root, y)
    IN  r >= 0 /\ ModelIndex(levels, root, r, ModelParentForId(levels, root, y)) = Idx(r, y)

(***************************************************************************)
(* Every beginInsertRows / beginRemoveRows names, as its parent index, the *)
(* level whose rows change (ClientModel::levelBeginInsert/levelBeginRemove *)
(* computing the index from m_root->rowForId).                             *)
(***************************************************************************)
AnnouncedParentIsLevel == \A n \in notices : n.shown = n.level

=============================================================================
