---------------------------- MODULE WaylandOutput ----------------------------
(***************************************************************************)
(* The per-output repaint scheduler, render::wayland::output              *)
(* (src/render/wayland/output.h).  The bodies of its methods live in       *)
(* output.cpp, which is not part of src/: they are modelled from the spec  *)
(* (section 4.4), their state and method names from output.h.              *)
(*                                                                         *)
(* A scheduler's state is a record; every method is an operator from the  *)
(* record before the call to the record after it, so that the compositor   *)
(* can apply one method to many outputs in one step, as its loops do.     *)
(* The presentation backend's part of a frame (egl_backend.h,              *)
(* egl_output.cpp, qpainter_output.h) is code-mapped.                      *)
(***************************************************************************)
EXTENDS Naturals, FiniteSets

CONSTANTS
  Windows,          \* toplevel windows asking for frame callbacks
  Tiles,            \* the screen, as a set of tiles
  Geometry,         \* Geometry[o] : the tiles of output o
  Headless,         \* outputs that only dry-run (disabled or headless)
  Backend,          \* "egl" or "qpainter": the wlroots renderer in use
  PresentOutcomes   \* what a present may end in: "committed", "rejected", "occluded"

ASSUME /\ Backend \in {"egl", "qpainter"}
       /\ PresentOutcomes \subseteq {"committed", "rejected", "occluded"}

(***************************************************************************)
(* The fields: idle, swap_pending, delay_timer and frame_timer (is each  *)
(* running), the accumulated repaints_region, the windows in              *)
(* assigned_surfaces, msc, and `flip`: a commit reached the hardware and   *)
(* its frame event (which calls swapped) is still to come.                 *)
(***************************************************************************)
SchedulerState(MaxMsc) ==
  [idle : BOOLEAN, swap_pending : BOOLEAN, delay_timer : BOOLEAN,
   frame_timer : BOOLEAN, repaints : SUBSET Tiles, assigned : SUBSET Windows, msc : 0 .. MaxMsc,
   flip : BOOLEAN]

(* A scheduler as output's constructor leaves it. *)
NewOutput ==
  [idle |-> TRUE, swap_pending |-> FALSE, delay_timer |-> FALSE,
   frame_timer |-> FALSE, repaints |-> {}, assigned |-> {}, msc |-> 0, flip |-> FALSE]

(***************************************************************************)
(* set_delay_timer: start the delay timer unless it runs already or a     *)
(* presentation is in flight (the retarded mode of spec 4.3: the timer is  *)
(* started again at swap completion).                                      *)
(***************************************************************************)
set_delay_timer(s) ==
  IF s.delay_timer \/ s.swap_pending
  THEN s
  ELSE [s EXCEPT !.delay_timer = TRUE, !.idle = FALSE]

(* add_repaint: accumulate the part of the region on this output. *)
add_repaint(s, o, region) ==
  LET capped == region \cap Geometry[o]
  IN  IF capped = {} THEN s
      ELSE set_delay_timer([s EXCEPT !.repaints = @ \cup capped])

(* Variant that registers the window but never starts the frame timer. *)
request_frame_no_timer(s, w) == [s EXCEPT !.assigned = @ \cup {w}]

(***************************************************************************)
(* request_frame: the window's frame callback fires with this output's     *)
(* next frame.  An idle output has no frame coming, so the frame timer is *)
(* started: its dry run delivers the callback without a presentation.     *)
(***************************************************************************)
request_frame(s, w) ==
  [s EXCEPT !.assigned = @ \cup {w}, !.frame_timer = @ \/ s.idle]

(* Variant whose caller does not clear swap_pending after a rejected present. *)
EglPresentKeepsPending(s, outcome) ==
  [s EXCEPT !.swap_pending = (outcome /= "occluded"), !.flip = (outcome = "committed")]

(***************************************************************************)
(* egl_backend::endRenderingFrameForScreen with egl_output::present, as    *)
(* the scheduler sees them: present sets swap_pending; a rejected test or  *)
(* commit makes the caller clear it again; damage fully occluded on this  *)
(* output rolls the output back without presenting.                        *)
(***************************************************************************)
EglPresent(s, outcome) ==
  CASE outcome = "committed" -> [s EXCEPT !.swap_pending = TRUE, !.flip = TRUE]
    [] outcome = "rejected"  -> [s EXCEPT !.swap_pending = FALSE]
    [] outcome = "occluded"  -> s

(***************************************************************************)
(* qpainter_output::present: swap_pending is set before the atomic test;  *)
(* a failed test (rolled back) or commit returns without clearing it, and *)
(* present returns void, so the caller cannot clear it either.             *)
(***************************************************************************)
QPainterPresent(s, outcome) ==
  [s EXCEPT !.swap_pending = TRUE, !.flip = (outcome = "committed")]

Present(s, outcome) ==
  IF Backend = "egl" THEN EglPresent(s, outcome) ELSE QPainterPresent(s, outcome)

(***************************************************************************)
(* dry_run, on the frame timer: no presentation, but the assigned frame    *)
(* callbacks still fire so that clients do not stall.                      *)
(***************************************************************************)
dry_run(s) ==
  [s EXCEPT !.assigned = {}, !.frame_timer = FALSE]

(***************************************************************************)
(* An output left without a presentation in flight is idle; its assigned *)
(* frame callbacks then come from the frame timer's dry run.              *)
(***************************************************************************)
settle(s) ==
  IF s.swap_pending THEN s
  ELSE [s EXCEPT !.idle = TRUE, !.frame_timer = @ \/ s.assigned /= {}]

(***************************************************************************)
(* run, on the delay timer (or performCompositing): stop the timer; with a *)
(* presentation in flight skip the frame; with nothing to repaint become   *)
(* idle; a headless output dry-runs; otherwise render the coalesced        *)
(* repaints once and present them.                                         *)
(***************************************************************************)
run(s, o, outcome) ==
  LET stopped == [s EXCEPT !.delay_timer = FALSE]
  IN  CASE s.swap_pending  -> stopped
        [] s.repaints = {} -> settle(stopped)
        [] o \in Headless  -> [dry_run(stopped) EXCEPT !.repaints = {}, !.idle = TRUE]
        [] OTHER           -> settle(Present([stopped EXCEPT !.repaints = {}], outcome))

(* Variant that does not reset the frame-event flag: the frame completes again and again. *)
swapped_keeps_flip(s) ==
  LET done == [s EXCEPT !.swap_pending = FALSE, !.msc = @ + 1, !.assigned = {}]
  IN  IF done.repaints /= {} THEN set_delay_timer(done) ELSE [done EXCEPT !.idle = TRUE]

(***************************************************************************)
(* swapped, on the output's frame event: the presentation completed, msc  *)
(* counts it, the assigned frame callbacks fire, and damage that came in   *)
(* meanwhile starts the next cycle; otherwise the output is idle.          *)
(***************************************************************************)
swapped(s) ==
  LET done == [s EXCEPT !.swap_pending = FALSE, !.flip = FALSE,
                        !.msc = @ + 1, !.assigned = {}]
  IN  IF done.repaints /= {} THEN set_delay_timer(done)
      ELSE [done EXCEPT !.idle = TRUE]

=============================================================================
