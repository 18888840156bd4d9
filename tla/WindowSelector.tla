--------------------------- MODULE WindowSelector ---------------------------
(***************************************************************************)
(* The interactive window selection filter,                                *)
(* src/input/filters/window_selector.cpp.  A requester (kill window, or an *)
(* effect asking for a window or a point) starts a selection with a        *)
(* window callback or a point callback; while it is active the filter      *)
(* takes every pointer, key and touch event, and the selection ends with  *)
(* accept (the window under the pointer, or the point) or cancel.         *)
(*                                                                         *)
(* A callback is represented by the request it answers; `answers` logs    *)
(* every call of a callback as <<request, value>>.  findToplevel is the   *)
(* topmost window of the stacking order that covers the position.         *)
(* Keyboard focus, the seat and the window selection cursor are not      *)
(* state of the filter and are left out.                                  *)
(***************************************************************************)
EXTENDS Naturals, FiniteSets, Sequences, TLC

CONSTANTS
  Requests,        \* the requests a behaviour makes: 1 .. n, in order
  Positions,       \* pointer and touch positions
  TouchIds,        \* touch point ids
  Covers,          \* Covers[w] : the positions window w covers
  NoWindow,        \* nullptr
  NoPosition,      \* QPoint(-1, -1)
  NoRequest,       \* an empty std::function
  SupportsPointerWarping

VARIABLES
  m_active,
  m_callback,                \* the window callback: a request or NoRequest
  m_pointSelectionFallback,  \* the point callback: a request or NoRequest
  m_touchPoints,             \* touch id -> position
  answers,                   \* ghost: the callback calls, <<request, value>>
  started,                   \* ghost: the requests started so far
  pointer,                   \* the global pointer position
  stackingOrder              \* the windows, bottom first (the workspace's)

ws_vars == <<m_active, m_callback, m_pointSelectionFallback, m_touchPoints, answers, started>>

WSTypeOK ==
  /\ m_active \in BOOLEAN
  /\ m_callback \in Requests \cup {NoRequest}
  /\ m_pointSelectionFallback \in Requests \cup {NoRequest}
  /\ DOMAIN m_touchPoints \subseteq TouchIds
  /\ \A id \in DOMAIN m_touchPoints : m_touchPoints[id] \in Positions
  /\ started \in 0 .. Cardinality(Requests)
  /\ pointer \in Positions

(* input::redirect::findToplevel: the topmost window covering pos. *)
findToplevel(pos) ==
  LET hits == {i \in 1 .. Len(stackingOrder) : pos \in Covers[stackingOrder[i]]}
  IN  IF hits = {} THEN NoWindow
      ELSE stackingOrder[CHOOSE i \in hits : \A j \in hits : j <= i]

(* A callback called with value v, if it is set. *)
Called(log, r, v) == IF r = NoRequest THEN log ELSE Append(log, <<r, v>>)

(* Mutant: the point callback survives the end of a selection. *)
deactivate_keeps_fallback ==
  /\ m_active' = FALSE
  /\ m_callback' = NoRequest
  /\ m_touchPoints' = [id \in {} |-> NoPosition]
  /\ UNCHANGED m_pointSelectionFallback

(* deactivate: both callbacks and the touch points are dropped. *)
deactivate ==
  /\ m_active' = FALSE
  /\ m_callback' = NoRequest
  /\ m_pointSelectionFallback' = NoRequest
  /\ m_touchPoints' = [id \in {} |-> NoPosition]

(* cancel: the window callback gets nullptr, the point callback           *)
(* QPoint(-1, -1), then deactivate.                                        *)
cancel ==
  /\ answers' = Called(Called(answers, m_callback, NoWindow), m_pointSelectionFallback, NoPosition)
  /\ deactivate

(* accept(pos): the window callback gets the window under pos, the point  *)
(* callback pos, then deactivate.                                          *)
accept(pos) ==
  /\ answers' = Called(Called(answers, m_callback, findToplevel(pos)), m_pointSelectionFallback, pos)
  /\ deactivate

(* start(window callback) and start(point callback): asserted inactive;   *)
(* the other callback is left as it is.                                   *)
start(kind) ==
  /\ ~m_active
  /\ started + 1 \in Requests
  /\ started' = started + 1
  /\ m_active' = TRUE
  /\ IF kind = "window"
     THEN m_callback' = started + 1 /\ UNCHANGED m_pointSelectionFallback
     ELSE m_pointSelectionFallback' = started + 1 /\ UNCHANGED m_callback
  /\ UNCHANGED <<m_touchPoints, answers>>

Unchanged == UNCHANGED <<m_active, m_callback, m_pointSelectionFallback, m_touchPoints, answers>>

(***************************************************************************)
(* button, while active: a release that leaves no button pressed cancels *)
(* if it is the right button and accepts at the pointer otherwise; every  *)
(* other button event is only swallowed.  `held` is pointer->buttons()    *)
(* after the event.                                                       *)
(***************************************************************************)
button(released, isRight, held) ==
  /\ m_active
  /\ IF released /\ held = {}
     THEN IF isRight THEN cancel ELSE accept(pointer)
     ELSE Unchanged

(***************************************************************************)
(* keyEvent, while active (a press): Escape cancels; Enter, Return and    *)
(* Space accept at the pointer.  With pointer warping an arrow key moves  *)
(* the pointer by 10 (1 with Ctrl) pixels, which is abstracted to any     *)
(* position; every press warps, by nothing for a key that is no arrow.   *)
(***************************************************************************)
keyEvent(key, to) ==
  /\ m_active
  /\ CASE key = "escape" -> cancel
       [] key = "enter"  -> accept(pointer)
       [] OTHER          -> Unchanged
  /\ pointer' = IF SupportsPointerWarping /\ key = "arrow" THEN to ELSE pointer

(* touchDown, while active: the point is inserted (or moved). *)
touchDown(id, pos) ==
  /\ m_active
  /\ m_touchPoints' = (id :> pos) @@ m_touchPoints
  /\ UNCHANGED <<m_active, m_callback, m_pointSelectionFallback, answers>>

(* touchMotion, while active: a known point follows. *)
touchMotion(id, pos) ==
  /\ m_active
  /\ IF id \in DOMAIN m_touchPoints
     THEN m_touchPoints' = [m_touchPoints EXCEPT ![id] = pos]
     ELSE UNCHANGED m_touchPoints
  /\ UNCHANGED <<m_active, m_callback, m_pointSelectionFallback, answers>>

(* touchUp, while active: a known point is removed, and the last one to  *)
(* go accepts at its position.                                            *)
touchUp(id) ==
  /\ m_active
  /\ IF id \in DOMAIN m_touchPoints
     THEN LET rest == [t \in DOMAIN m_touchPoints \ {id} |-> m_touchPoints[t]]
          IN  IF rest = [t \in {} |-> NoPosition]
              THEN accept(m_touchPoints[id])
              ELSE /\ m_touchPoints' = rest
                   /\ UNCHANGED <<m_active, m_callback, m_pointSelectionFallback, answers>>
     ELSE Unchanged

WSInit ==
  /\ m_active = FALSE
  /\ m_callback = NoRequest
  /\ m_pointSelectionFallback = NoRequest
  /\ m_touchPoints = [id \in {} |-> NoPosition]
  /\ answers = <<>>
  /\ started = 0

-----------------------------------------------------------------------------
(* Every selection is answered exactly once, and only to its own          *)
(* requester: the callbacks are called in the order of the requests,     *)
(* each once, all but the running one's.  start() sets one of the two    *)
(* callbacks and leaves the other as the last deactivate() left it, and  *)
(* cancel and accept call both, so a callback that outlives its selection *)
(* answers the next one too.                                               *)
AnsweredOnce ==
  [i \in 1 .. Len(answers) |-> answers[i][1]]
    = [i \in 1 .. (IF m_active THEN started - 1 ELSE started) |-> i]

=============================================================================
