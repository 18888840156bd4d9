--------------------------- MODULE OutputScheduler ---------------------------
(***************************************************************************)
(* What an output's repaint scheduler promises (spec 4.4), for every      *)
(* output at once: a phase -- idle, delay_scheduled (the deadline timer   *)
(* runs) or presentation_pending (a frame was handed to the backend and    *)
(* its completion is awaited) -- and the region waiting to be rendered.    *)
(* Renders consume the whole pending region (the coalescing of spec 5).   *)
(*                                                                         *)
(* One step may move any number of outputs, each by one of its own        *)
(* transitions: the coordinator fans a request out to all outputs at once. *)
(* Only the coordinator's outputs move (spec 4.5): a scheduler is fresh    *)
(* when its output is plugged in, is discarded when it is removed, and    *)
(* nothing touches it in between (spec 5, cancellation).                  *)
(***************************************************************************)
CONSTANTS Outputs, Tiles, Geometry

VARIABLES
  outputs,   \* the outputs the coordinator owns a scheduler for
  phase,
  pending

avars == <<outputs, phase, pending>>

Phases == {"idle", "delay_scheduled", "presentation_pending"}

(* A repaint request adds a region; an idle output starts its deadline. *)
Accumulate(o) ==
  /\ \E r \in SUBSET Geometry[o] : pending'[o] = pending[o] \cup r
  /\ phase'[o] = IF phase[o] = "idle" /\ pending'[o] /= {} THEN "delay_scheduled" ELSE phase[o]

(* A window's repaint starts the deadline without a region of its own. *)
Arm(o) ==
  /\ phase[o] = "idle"
  /\ phase'[o] = "delay_scheduled"
  /\ pending'[o] = pending[o]

(***************************************************************************)
(* The render: at the deadline, or when the coordinator composites, the   *)
(* whole pending region is rendered; the frame is presented (awaiting its  *)
(* completion) or, failed, occluded or dry-run, the output is idle again.  *)
(* Nothing is presented without a region to render.                       *)
(***************************************************************************)
Render(o) ==
  /\ phase[o] \in {"idle", "delay_scheduled"}
  /\ pending'[o] = {}
  /\ phase'[o] \in {"idle", "presentation_pending"}
  /\ phase'[o] = "presentation_pending" => pending[o] /= {}

(* Presentation completes; damage that came meanwhile starts the next deadline. *)
Complete(o) ==
  /\ phase[o] = "presentation_pending"
  /\ pending'[o] = pending[o]
  /\ phase'[o] = IF pending[o] /= {} THEN "delay_scheduled" ELSE "idle"

(* Teardown cancels the deadline timer. *)
Cancel(o) ==
  /\ phase[o] = "delay_scheduled"
  /\ phase'[o] = "idle"
  /\ pending'[o] = pending[o]

(* The output is added or removed: its scheduler is a fresh one. *)
Fresh(o) ==
  /\ phase'[o] = "idle"
  /\ pending'[o] = {}

Stay(o) == phase'[o] = phase[o] /\ pending'[o] = pending[o]

(* A scheduler of an output the coordinator owns before and after the step. *)
Move(o) == Accumulate(o) \/ Arm(o) \/ Render(o) \/ Complete(o) \/ Cancel(o) \/ Stay(o)

(* Plugging or unplugging o. *)
Plugged(o) == (o \in outputs) /= (o \in outputs')

Init ==
  /\ outputs \subseteq Outputs
  /\ phase = [o \in Outputs |-> "idle"]
  /\ pending = [o \in Outputs |-> {}]

Next ==
  /\ outputs' \subseteq Outputs
  /\ phase' \in [Outputs -> Phases]
  /\ pending' \in [Outputs -> SUBSET Tiles]
  /\ \A o \in Outputs :
       CASE Plugged(o)             -> Fresh(o)
         [] o \in outputs \cap outputs' -> Move(o)
         [] OTHER                 -> Stay(o)

(* Only output o moves. *)
Others(o) == outputs' = outputs /\ \A p \in Outputs \ {o} : Stay(p)

(***************************************************************************)
(* A deadline that is due is rendered, and a presented frame completes    *)
(* (the deadline timer fires; the backend signals completion).            *)
(***************************************************************************)
Fairness ==
  \A o \in Outputs :
    /\ WF_avars(phase[o] = "delay_scheduled" /\ Render(o) /\ Others(o))
    /\ WF_avars(Complete(o) /\ Others(o))

(* The state machine alone: the safety part of Spec. *)
SafetySpec == Init /\ [][Next]_avars

Spec == SafetySpec /\ Fairness
=============================================================================
