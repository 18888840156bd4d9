------------------------- MODULE MCWindowSelection -------------------------
(***************************************************************************)
(* Three consumers of the workspace's windows, composed:                   *)
(*   - the stacking operations (WindowStacking), which order the windows   *)
(*     the selection filter's findToplevel searches, and the active window *)
(*     the thumbnail-aside shortcut takes;                                 *)
(*   - the thumbnail-aside effect (ThumbnailAside), told of every resize   *)
(*     and close;                                                          *)
(*   - the window selection filter (WindowSelector), started by requesters *)
(*     and fed by the user's buttons, keys, pointer and touch points.      *)
(* Two windows of two applications, in one layer without transients or   *)
(* groups; each has one of two sizes; a covers both of two positions and  *)
(* b one of them, so which is found there depends on the stacking.  The  *)
(* user's devices are environment state: the buttons held and the touch  *)
(* points down.  An input event reaches the filter only while a         *)
(* selection is active; otherwise it goes to the clients and changes no  *)
(* state modelled here.                                                    *)
(***************************************************************************)
EXTENDS WindowStacking, TLC

CONSTANTS a, b, appA, appB, p1, p2, t1, t2, NoPosition, NoRequest

(* At most this many selections are started in a behaviour: two, so a     *)
(* callback left over from the first could answer the second.             *)
CONSTANT MaxRequests

(* ThumbnailAsideConfig and the maximize area of the screen. *)
CONSTANTS MaxWidth, Spacing, AreaRight, AreaBottom, AreaHeight

VARIABLES
  windows, added, geometry,                               \* ThumbnailAside
  m_active, m_callback, m_pointSelectionFallback,         \* WindowSelector
  m_touchPoints, answers, started, pointer,
  buttons,                                                \* pointer buttons held
  touching                                                \* touch points down

Sizes == {[width |-> 2, height |-> 2], [width |-> 4, height |-> 4]}
Positions == {p1, p2}
TouchIds == {t1, t2}
Buttons == {"left", "right"}
Keys == {"escape", "enter", "arrow", "other"}

MCLayerOrder == <<"normal">>
MCLayerOf == [w \in {a, b} |-> "normal"]
MCClientOf == (a :> appA) @@ (b :> appB)
MCLeadOf == [w \in {a, b} |-> NoWindow]
MCGroupOf == [w \in {a, b} |-> {}]
MCCovers == (a :> {p1, p2}) @@ (b :> {p1})

TA == INSTANCE ThumbnailAside

(* findToplevel searches the stacked windows that have a control. *)
WS == INSTANCE WindowSelector
        WITH Requests <- 1 .. MaxRequests,
             Covers <- MCCovers,
             SupportsPointerWarping <- TRUE,
             stackingOrder <- SelectSeq(stacking_order(unconstrained_stacking_order),
                                        LAMBDA w : w \in control)

ta_vars == <<windows, added, geometry>>
sel_vars == <<m_active, m_callback, m_pointSelectionFallback, m_touchPoints, answers,
              started, pointer>>
device_vars == <<buttons, touching>>
vars == <<stacking_vars, ta_vars, sel_vars, device_vars>>

Init ==
  /\ StackingInit
  /\ TA!TAInit
  /\ geometry \in [Windows -> Sizes]
  /\ WS!WSInit
  /\ pointer \in Positions
  /\ buttons = {}
  /\ touching = {}

(* The stacking operations the effect and the filter only read. *)
Stacking(w) ==
  /\ \/ manage(w)
     \/ activate(w)
     \/ raise_window(w)
     \/ lower_window(w)
     \/ release(w)
  /\ UNCHANGED <<ta_vars, sel_vars, device_vars>>

(* A window closes: the effect's windowClosed slot runs. *)
window_closed(w) ==
  /\ close(w)
  /\ TA!slotWindowClosed(w)
  /\ UNCHANGED <<geometry, sel_vars, device_vars>>

(* A managed window is resized (windowFrameGeometryChanged). *)
window_resized(w) ==
  /\ w \in control
  /\ \E s \in Sizes \ {geometry[w]} :
       /\ geometry' = [geometry EXCEPT ![w] = s]
       /\ windows' = TA!slotWindowGeometryShapeChanged(w, geometry[w], geometry')
  /\ UNCHANGED <<stacking_vars, added, sel_vars, device_vars>>

(* The thumbnail-aside shortcut, for the active window. *)
toggle_thumbnail ==
  /\ TA!toggleCurrentThumbnail(active_client)
  /\ UNCHANGED <<stacking_vars, geometry, sel_vars, device_vars>>

(* A requester (kill window, or an effect) starts a selection. *)
start_selection ==
  /\ \E kind \in {"window", "point"} : WS!start(kind)
  /\ UNCHANGED <<stacking_vars, ta_vars, pointer, device_vars>>

(* Filtered(A): the event goes through the filter while it is active. *)
Filtered(A) == IF m_active THEN A ELSE UNCHANGED sel_vars

button_pressed(btn) ==
  /\ btn \notin buttons
  /\ buttons' = buttons \cup {btn}
  /\ Filtered(WS!button(FALSE, btn = "right", buttons') /\ UNCHANGED <<started, pointer>>)
  /\ UNCHANGED <<stacking_vars, ta_vars, touching>>

button_released(btn) ==
  /\ btn \in buttons
  /\ buttons' = buttons \ {btn}
  /\ Filtered(WS!button(TRUE, btn = "right", buttons') /\ UNCHANGED <<started, pointer>>)
  /\ UNCHANGED <<stacking_vars, ta_vars, touching>>

(* The pointer moves; the filter swallows the motion but keeps no state. *)
pointer_moved ==
  /\ \E p \in Positions \ {pointer} : pointer' = p
  /\ UNCHANGED <<stacking_vars, ta_vars, device_vars, m_active, m_callback,
                 m_pointSelectionFallback, m_touchPoints, answers, started>>

key_pressed(k) ==
  /\ Filtered(\E to \in Positions : WS!keyEvent(k, to) /\ UNCHANGED started)
  /\ UNCHANGED <<stacking_vars, ta_vars, device_vars>>

touch_down(id) ==
  /\ id \notin touching
  /\ touching' = touching \cup {id}
  /\ Filtered(\E p \in Positions : WS!touchDown(id, p) /\ UNCHANGED <<started, pointer>>)
  /\ UNCHANGED <<stacking_vars, ta_vars, buttons>>

touch_motion(id) ==
  /\ id \in touching
  /\ Filtered(\E p \in Positions : WS!touchMotion(id, p) /\ UNCHANGED <<started, pointer>>)
  /\ UNCHANGED <<stacking_vars, ta_vars, device_vars>>

touch_up(id) ==
  /\ id \in touching
  /\ touching' = touching \ {id}
  /\ Filtered(WS!touchUp(id) /\ UNCHANGED <<started, pointer>>)
  /\ UNCHANGED <<stacking_vars, ta_vars, buttons>>

Next ==
  \/ \E w \in Windows : Stacking(w) \/ window_closed(w) \/ window_resized(w)
  \/ toggle_thumbnail
  \/ start_selection
  \/ \E btn \in Buttons : button_pressed(btn) \/ button_released(btn)
  \/ pointer_moved
  \/ \E k \in Keys : key_pressed(k)
  \/ \E id \in TouchIds : touch_down(id) \/ touch_motion(id) \/ touch_up(id)

Spec == Init /\ [][Next]_vars

(* op is only read primed, by the stacking properties this run does not   *)
(* check, and no step reads the values logged in answers: states that     *)
(* differ only there have the same futures.                                *)
AnsweredRequests == [i \in DOMAIN answers |-> answers[i][1]]
StateView == <<unconstrained_stacking_order, most_recently_raised, active_client, control,
               ta_vars, m_active, m_callback, m_pointSelectionFallback, m_touchPoints,
               AnsweredRequests, started, pointer, device_vars>>

TypeOKAll ==
  /\ TypeOK
  /\ TA!TATypeOK
  /\ geometry \in [Windows -> Sizes]
  /\ WS!WSTypeOK
  /\ buttons \subseteq Buttons
  /\ touching \subseteq TouchIds

IndicesFollowAddOrder == TA!IndicesFollowAddOrder
ArrangedForCurrentSizes == TA!ArrangedForCurrentSizes
AnsweredOnce == WS!AnsweredOnce

=============================================================================
