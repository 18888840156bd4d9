-------------------------- MODULE MCWindowStacking --------------------------
(***************************************************************************)
(* Window stacking (src/win/layers.h) composed with the highlight-window  *)
(* effect, which reads the stacking order the stacking operations make.    *)
(* Four windows:                                                           *)
(*   a, b, c  one application in one X11 group; c is a transient of b and *)
(*            b of a; c is kept above, in a layer of its own;              *)
(*   d        a window of a second application that is special (a dock or *)
(*            toolbar) in the normal layer; the effect does not highlight *)
(*            it.                                                          *)
(* A managed window reaches the effect (windowAdded) in a later step, as   *)
(* an X11 window does once it is ready for painting; closing it emits      *)
(* windowClosed and releasing its Deleted windowDeleted.  A window managed *)
(* again stands for a new EffectWindow: not one the effect still keeps a   *)
(* pointer to in m_highlightedWindows.                                     *)
(***************************************************************************)
EXTENDS WindowStacking, TLC

CONSTANTS a, b, c, d, appA, appB

(* At most this many windows are stacked at once (Deleted ones included):  *)
(* three hold the whole lead chain and group a, b, c, or two windows of    *)
(* one application and one of the other.                                   *)
CONSTANT MaxLive

VARIABLES m_highlightedWindows, m_animations, reverts, ready

HW == INSTANCE HighlightWindow
        WITH HighlightTypes <- {a, b, c},
             stackingOrder <- unconstrained_stacking_order,  \* only membership matters to the effect
             findable <- control,
             added <- ready

MCLayerOrder == <<"normal", "above">>
MCLayerOf == [w \in {a, b, c, d} |-> IF w = c THEN "above" ELSE "normal"]
MCClientOf == [w \in {a, b, c, d} |-> IF w = d THEN appB ELSE appA]
MCLeadOf == (a :> NoWindow) @@ (b :> a) @@ (c :> b) @@ (d :> NoWindow)
MCGroupOf == [w \in {a, b, c, d} |-> IF w = d THEN {} ELSE {a, b, c}]

effect_vars == <<m_highlightedWindows, m_animations, reverts>>
vars == <<stacking_vars, effect_vars, ready>>

Init == StackingInit /\ HW!HWInit /\ ready = {}

(* A stacking operation the effect does not hear about.                    *)
Stacking(w) ==
  /\ \/ lower_window(w)
     \/ raise_window(w)
     \/ raise_or_lower_client(w)
     \/ \E under \in Range(unconstrained_stacking_order), force \in BOOLEAN :
          restack(w, under, force)
     \/ restack_client_under_active(w)
     \/ manage(w) /\ w \notin m_highlightedWindows /\ Len(unconstrained_stacking_order) < MaxLive
     \/ activate(w)
  /\ UNCHANGED <<effect_vars, ready>>

window_added(w) ==
  /\ w \in control \ ready
  /\ ready' = ready \cup {w}
  /\ HW!slotWindowAdded(w)
  /\ UNCHANGED stacking_vars

window_closed(w) ==
  /\ close(w)
  /\ HW!slotWindowClosed(w)
  /\ ready' = ready \ {w}

window_deleted(w) ==
  /\ release(w)
  /\ HW!slotWindowDeleted(w)
  /\ UNCHANGED ready

(* A highlight request over D-Bus or through perform().                     *)
highlight_request ==
  /\ \E S \in SUBSET control : HW!highlightWindows(S)
  /\ UNCHANGED <<stacking_vars, ready>>

Next ==
  \E w \in Windows :
    \/ Stacking(w)
    \/ window_added(w)
    \/ window_closed(w)
    \/ window_deleted(w)
  \/ highlight_request

Spec == Init /\ [][Next]_vars

(* op and reverts are only read primed, in the step that sets them, so     *)
(* states that differ in them alone have the same futures.                 *)
StateView == <<unconstrained_stacking_order, most_recently_raised, active_client, control,
               m_highlightedWindows, m_animations, ready>>

TypeOKAll == TypeOK /\ HW!HWTypeOK /\ ready \subseteq control

HighlightStateShown == HW!HighlightStateShown
RevertStartsFromShown == HW!RevertStartsFromShown

=============================================================================
