-------------------------- MODULE WaylandCompositor --------------------------
(***************************************************************************)
(* render::wayland::compositor (src/render/wayland/compositor.cpp): the    *)
(* map from outputs to their schedulers, the reentrant lock, the fan-out   *)
(* of repaint and frame-callback requests, output hotplug, and the         *)
(* schedulers' timer and frame events, all on the one event-loop thread:   *)
(* every step below is one handler run to completion.                      *)
(*                                                                         *)
(* Two ghost variables observe the clients: `requested`, the tiles asked   *)
(* for through addRepaint and not rendered yet, and `waiting`, the windows *)
(* that asked for a frame callback and have not had it.                    *)
(***************************************************************************)
EXTENDS WaylandOutput

CONSTANTS
  Outputs,          \* every output that may be plugged in
  InitialOutputs,   \* base.get_outputs() when the compositor is built
  HotplugOutputs,   \* outputs that may be added or removed later
  WindowRect,       \* WindowRect[w] : win::visible_rect(w), as tiles
  NoOutput,         \* model value: max_coverage_output found none
  MaxLock,          \* bound on the nesting depth of lock()
  MaxEvents         \* bound on client and hotplug events of a behaviour

ASSUME /\ InitialOutputs \subseteq Outputs /\ HotplugOutputs \subseteq Outputs
       /\ Geometry \in [Outputs -> SUBSET Tiles]
       /\ WindowRect \in [Windows -> SUBSET Tiles]
       /\ NoOutput \notin Outputs
       /\ MaxLock \in Nat /\ MaxEvents \in Nat

VARIABLES
  live,        \* the keys of compositor::outputs
  sched,       \* sched[o] : the render::wayland::output of o
  locked,      \* compositor::locked
  workspace,   \* the Workspace exists (not yet destroyed)
  requested,   \* ghost: requested[o], tiles asked for and not rendered
  waiting,     \* ghost: windows waiting for a frame callback
  events       \* client and hotplug events so far

vars == <<live, sched, locked, workspace, requested, waiting, events>>

TypeOK ==
  /\ live \subseteq Outputs
  /\ sched \in [Outputs -> SchedulerState(MaxEvents)]
  /\ locked \in 0 .. MaxLock
  /\ workspace \in BOOLEAN
  /\ requested \in [Outputs -> SUBSET Tiles]
  /\ waiting \subseteq Windows
  /\ events \in 0 .. MaxEvents

(***************************************************************************)
(* A step in which the schedulers become `new`: the frame callbacks that  *)
(* left an assigned set were delivered (or, for a removed output, dropped  *)
(* and to be asked for again), and repaints that left a scheduler were     *)
(* rendered.                                                               *)
(***************************************************************************)
Becomes(new) ==
  /\ sched' = new
  /\ waiting' = waiting \ UNION {sched[o].assigned \ new[o].assigned : o \in Outputs}
  /\ requested' = [o \in Outputs |-> requested[o] \ (sched[o].repaints \ new[o].repaints)]

(* The loop of compositor::addRepaint over the outputs, past its lock check. *)
RepaintOutputs(region) ==
  [o \in Outputs |-> IF o \in live THEN add_repaint(sched[o], o, region) ELSE sched[o]]

(* A client or hotplug event, within the bound. *)
Event ==
  /\ workspace
  /\ events < MaxEvents
  /\ events' = events + 1

(***************************************************************************)
(* compositor::addRepaint: dropped while locked, else every output         *)
(* accumulates its part of the region.                                     *)
(***************************************************************************)
addRepaint ==
  /\ Event
  /\ \E region \in (SUBSET Tiles) \ {{}} :
       /\ requested' = [o \in Outputs |->
                          IF o \in live THEN requested[o] \cup (region \cap Geometry[o])
                          ELSE requested[o]]
       /\ sched' = IF locked > 0 THEN sched ELSE RepaintOutputs(region)
  /\ UNCHANGED <<live, locked, workspace, waiting>>

(***************************************************************************)
(* compositor::schedule_repaint: unless locked, start the delay timer of   *)
(* every output the window's visible rect intersects.                      *)
(***************************************************************************)
schedule_repaint ==
  /\ Event
  /\ \E w \in Windows :
       sched' = IF locked > 0 THEN sched
                ELSE [o \in Outputs |->
                        IF o \in live /\ WindowRect[w] \cap Geometry[o] /= {}
                        THEN set_delay_timer(sched[o]) ELSE sched[o]]
  /\ UNCHANGED <<live, locked, workspace, requested, waiting>>

(***************************************************************************)
(* render::compositor::max_coverage_output: the output showing the largest *)
(* part of the window, NoOutput when it shows on none.                     *)
(***************************************************************************)
max_coverage_output(w) ==
  LET cover(o) == Cardinality(WindowRect[w] \cap Geometry[o])
  IN  IF \A o \in live : cover(o) = 0 THEN NoOutput
      ELSE CHOOSE o \in live : \A p \in live : cover(p) <= cover(o)

(***************************************************************************)
(* compositor::schedule_frame_callback: the window now waits for a frame   *)
(* callback; unless locked, it is registered with its max-coverage output. *)
(***************************************************************************)
schedule_frame_callback ==
  /\ Event
  /\ \E w \in Windows \ waiting :
       /\ waiting' = waiting \cup {w}
       /\ LET out == max_coverage_output(w)
          IN  sched' = IF locked > 0 \/ out = NoOutput THEN sched
                       ELSE [sched EXCEPT ![out] = request_frame(@, w)]
  /\ UNCHANGED <<live, locked, workspace, requested>>

(* compositor::lock *)
lock ==
  /\ Event
  /\ locked < MaxLock
  /\ locked' = locked + 1
  /\ UNCHANGED <<live, sched, workspace, requested, waiting>>

(* Variant of unlock without the addRepaintFull of the last unlock. *)
unlock_no_full_repaint ==
  /\ locked > 0
  /\ locked' = locked - 1
  /\ UNCHANGED <<live, workspace, events, sched, requested, waiting>>

(***************************************************************************)
(* compositor::unlock: the last unlock repaints everything                 *)
(* (addRepaintFull, i.e. addRepaint of the whole screen).                  *)
(***************************************************************************)
unlock ==
  /\ locked > 0
  /\ locked' = locked - 1
  /\ IF locked' = 0
     THEN Becomes(RepaintOutputs(Tiles))
     ELSE UNCHANGED <<sched, requested, waiting>>
  /\ UNCHANGED <<live, workspace, events>>

(* The output_added slot: a new scheduler for the output. *)
output_added ==
  /\ Event
  /\ \E o \in HotplugOutputs \ live :
       /\ live' = live \cup {o}
       /\ sched' = [sched EXCEPT ![o] = NewOutput]
       /\ requested' = [requested EXCEPT ![o] = {}]
  /\ UNCHANGED <<locked, workspace, waiting>>

(* Variant whose removed entry leaves its scheduler alive, region and timers included. *)
output_removed_leaks_scheduler ==
  /\ Event
  /\ \E o \in HotplugOutputs \cap live : live' = live \ {o}
  /\ UNCHANGED <<sched, requested, waiting, locked, workspace>>

(***************************************************************************)
(* The output_removed slot: the scheduler is erased from the map and      *)
(* destroyed with its timers; its frame callbacks are lost.                *)
(***************************************************************************)
output_removed ==
  /\ Event
  /\ \E o \in HotplugOutputs \cap live :
       /\ live' = live \ {o}
       /\ Becomes([sched EXCEPT ![o] = NewOutput])
  /\ UNCHANGED <<locked, workspace>>

(* The Workspace::destroyed slot: every delay timer stops. *)
workspace_destroyed ==
  /\ workspace
  /\ workspace' = FALSE
  /\ sched' = [o \in Outputs |-> [sched[o] EXCEPT !.delay_timer = FALSE]]
  /\ UNCHANGED <<live, locked, requested, waiting, events>>

(* output::timerEvent for the delay timer: run the output. *)
delay_timer_event(o) ==
  /\ o \in live
  /\ sched[o].delay_timer
  /\ \E outcome \in PresentOutcomes :
       Becomes([sched EXCEPT ![o] = run(@, o, outcome)])
  /\ UNCHANGED <<live, locked, workspace, events>>

(* output::timerEvent for the frame timer: dry-run the output. *)
frame_timer_event(o) ==
  /\ o \in live
  /\ sched[o].frame_timer
  /\ Becomes([sched EXCEPT ![o] = dry_run(@)])
  /\ UNCHANGED <<live, locked, workspace, events>>

(* The output's frame event after a commit: output::swapped. *)
frame_event(o) ==
  /\ o \in live
  /\ sched[o].flip
  /\ Becomes([sched EXCEPT ![o] = swapped(@)])
  /\ UNCHANGED <<live, locked, workspace, events>>

(* compositor::performCompositing: run every output. *)
performCompositing ==
  /\ \E outcome \in [live -> PresentOutcomes] :
       Becomes([o \in Outputs |-> IF o \in live THEN run(sched[o], o, outcome[o])
                                  ELSE sched[o]])
  /\ UNCHANGED <<live, locked, workspace, events>>

Init ==
  /\ live = InitialOutputs
  /\ sched = [o \in Outputs |-> NewOutput]
  /\ locked = 0
  /\ workspace = TRUE
  /\ requested = [o \in Outputs |-> {}]
  /\ waiting = {}
  /\ events = 0

Next ==
  \/ addRepaint \/ schedule_repaint \/ schedule_frame_callback
  \/ lock \/ unlock
  \/ output_added \/ output_removed \/ workspace_destroyed
  \/ performCompositing
  \/ \E o \in Outputs : delay_timer_event(o) \/ frame_timer_event(o) \/ frame_event(o)

(***************************************************************************)
(* Fairness: Qt fires a running timer, the hardware delivers the frame     *)
(* event of a commit, and every lock() is undone by its scoped blocker.    *)
(***************************************************************************)
Fairness ==
  /\ \A o \in Outputs : /\ WF_vars(delay_timer_event(o))
                        /\ WF_vars(frame_timer_event(o))
                        /\ WF_vars(frame_event(o))
  /\ WF_vars(unlock)

Spec == Init /\ [][Next]_vars /\ Fairness

-----------------------------------------------------------------------------
(***************************************************************************)
(* No damage is dropped: when the compositor is unlocked, every tile a     *)
(* client asked to repaint through addRepaint, and that no frame has       *)
(* rendered yet, is in its output's repaints_region -- requests that      *)
(* addRepaint dropped while locked included, which the last unlock's      *)
(* addRepaintFull must make up for, across nested locks, hotplug and      *)
(* frames rendered on timers that were running when the lock was taken.   *)
(***************************************************************************)
NoDamageDropped ==
  locked = 0 => \A o \in live : requested[o] \subseteq sched[o].repaints

(***************************************************************************)
(* Every repaint is eventually rendered: a live output with accumulated   *)
(* repaints eventually renders them (or is removed, or the workspace goes *)
(* away and stops the timers).  This needs every frame to end in either a *)
(* frame event or a cleared swap_pending, and swapped to restart the delay *)
(* timer for damage that arrived during the presentation.                  *)
(***************************************************************************)
RepaintServed ==
  \A o \in Outputs :
    (o \in live /\ sched[o].repaints /= {})
      ~> (o \notin live \/ sched[o].repaints = {} \/ ~workspace)

(***************************************************************************)
(* Every frame callback a window asks for through schedule_frame_callback  *)
(* is eventually delivered, unless the workspace is torn down (spec 4.5   *)
(* and 7: lock() only suspends repainting, and the last unlock() forces a  *)
(* full repaint as recovery).                                              *)
(***************************************************************************)
FrameRequestAnswered ==
  \A w \in Windows : w \in waiting ~> (w \notin waiting \/ ~workspace)

(***************************************************************************)
(* In every behaviour that never calls lock(), every frame callback a     *)
(* window asks for is eventually delivered: by the presentation of its     *)
(* output, by the frame timer's dry run of an idle output, or after a      *)
(* hotplug moves the window.  (With lock() it is not: the run             *)
(* compositor_locked_frame.)                                               *)
(***************************************************************************)
FrameRequestAnsweredUnlocked == [](locked = 0) => FrameRequestAnswered

(***************************************************************************)
(* While the compositor is locked no output renders (spec 3: "while       *)
(* nonzero, no repaints or schedule requests are serviced"): no step       *)
(* consumes the repaints of an output that stays plugged in.               *)
(***************************************************************************)
NoRenderWhileLocked ==
  [][locked > 0 => \A o \in live \cap live' : sched[o].repaints \subseteq sched'[o].repaints]_vars

-----------------------------------------------------------------------------
(* The phase of spec 4.4 a scheduler is in: swap_pending, else the delay timer. *)
Phase(s) ==
  IF s.swap_pending THEN "presentation_pending"
  ELSE IF s.delay_timer THEN "delay_scheduled" ELSE "idle"

Scheduler == INSTANCE OutputScheduler WITH
               outputs <- live,
               phase <- [o \in Outputs |-> Phase(sched[o])],
               pending <- [o \in Outputs |-> sched[o].repaints]

(***************************************************************************)
(* The schedulers implement the state machine of spec 4.4: every step of  *)
(* the coordinator, the timers and the frame events moves each output     *)
(* along an edge of that machine -- renders consume the whole accumulated *)
(* region and present only a nonempty one, damage arriving during a       *)
(* presentation waits for its completion and then starts the next         *)
(* deadline, and a presentation never ends without its completion -- and  *)
(* the coordinator's fan-out, hotplug and teardown touch only the         *)
(* schedulers in its map, a removed output's scheduler being discarded    *)
(* and never moved again (spec 4.5 and 5).  (The abstract fairness, a due deadline is      *)
(* rendered and a presentation completes, is checked at this level by      *)
(* RepaintServed.)                                                          *)
(***************************************************************************)
ImplementsOutputScheduler == Scheduler!SafetySpec

=============================================================================
