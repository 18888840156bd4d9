----------------------------- MODULE EglBackend -----------------------------
(***************************************************************************)
(* The wlroots EGL presentation path of the Wayland compositor: buffer-age *)
(* driven partial repaint and the per-output damage history               *)
(* (src/lib/render/backend/wlroots/egl_backend.h, egl_output.cpp).         *)
(*                                                                         *)
(* Regions are sets of tiles.  Each output has a swapchain of Buffers whose *)
(* ages the wlroots swapchain maintains: a buffer committed to the output  *)
(* gets age 1, every other buffer that was ever committed ages by one, and *)
(* a fresh swapchain (after egl_output::reset) has all ages 0.  The ghost  *)
(* variable `missing` records, per buffer, the tiles whose pixels differ   *)
(* from the current scene: it is what a partial repaint must cover.        *)
(***************************************************************************)
EXTENDS Naturals, Sequences, SequencesExt, FiniteSets

CONSTANTS
  Outputs,             \* the wlroots outputs
  Tiles,               \* the screen, as a set of tiles
  Geometry,            \* Geometry[o] : the tiles output o shows
  Buffers,             \* the swapchain slots of an output
  NoBuffer,            \* model value: no buffer is on screen
  BufferAgeSupported,  \* supportsBufferAge(): EGL_EXT_buffer_age present
  HistoryDepth,        \* the literal 10 of endRenderingFrameForScreen
  ResetOutcomes,       \* what egl_output::reset() can return: {TRUE} or BOOLEAN
  MaxDamage            \* bound on the scene damage events of a behaviour

ASSUME /\ Geometry \in [Outputs -> SUBSET Tiles]
       /\ NoBuffer \notin Buffers
       /\ BufferAgeSupported \in BOOLEAN
       /\ HistoryDepth \in Nat
       /\ ResetOutcomes \subseteq BOOLEAN /\ TRUE \in ResetOutcomes
       /\ MaxDamage \in Nat

VARIABLES
  history,      \* egl_output::damageHistory, most recent first
  age,          \* the swapchain's buffer ages (wlroots)
  front,        \* the buffer the output scans out
  missing,      \* ghost: tiles in which a buffer is stale
  swapPending,  \* output::swap_pending
  repaints,     \* the region the scene repaints on the next frame
  damaged,      \* the part of repaints whose pixels changed (not occluded)
  damageCount   \* scene damage events so far (bounded by MaxDamage)

vars == <<history, age, front, missing, swapPending, repaints, damaged, damageCount>>

(* Buffer age as wlroots keeps it: 0 for a buffer never committed. *)
Ages == 0 .. MaxDamage + 1

TypeOK ==
  /\ history \in [Outputs -> BoundedSeq(SUBSET Tiles, HistoryDepth + 1)]
  /\ age \in [Outputs -> [Buffers -> Ages]]
  /\ front \in [Outputs -> Buffers \cup {NoBuffer}]
  /\ missing \in [Outputs -> [Buffers -> SUBSET Tiles]]
  /\ swapPending \in [Outputs -> BOOLEAN]
  /\ repaints \in [Outputs -> SUBSET Tiles]
  /\ damaged \in [Outputs -> SUBSET Tiles]
  /\ damageCount \in 0 .. MaxDamage

(* Variant with an off-by-one: the oldest history entry an age-a buffer needs is left out. *)
RenderRegionSkipsOldest(o, a) ==
  IF ~BufferAgeSupported \/ a = 0 \/ a > Len(history[o]) THEN Geometry[o]
  ELSE UNION {history[o][i] : i \in 1 .. (a - 2)}

(***************************************************************************)
(* get_output_render_region: the region to repaint in a back buffer of     *)
(* age a, beside the new damage.  Unknown contents (no buffer age support, *)
(* age 0, or an age older than the history) mean the whole output.         *)
(***************************************************************************)
get_output_render_region(o, a) ==
  IF \/ ~BufferAgeSupported
     \/ a = 0
     \/ a > Len(history[o])
  THEN Geometry[o]
  ELSE UNION {history[o][i] : i \in 1 .. (a - 1)}

(* The swapchain after buffer b was committed (wlroots). *)
AgedAfterCommit(ages, b) ==
  [x \in Buffers |-> IF x = b THEN 1 ELSE IF ages[x] = 0 THEN 0 ELSE ages[x] + 1]

(* Variant without the pop_back: the history grows with every frame. *)
RecordDamageUncapped(h, d) == Cons(d, h)

(***************************************************************************)
(* The damage history after a successful present: drop the oldest entry   *)
(* when the deque already holds more than HistoryDepth, then push the      *)
(* frame's damage, clipped to the output, to the front.                    *)
(***************************************************************************)
RecordDamage(h, d) ==
  Cons(d, IF Len(h) > HistoryDepth THEN Front(h) ELSE h)

(***************************************************************************)
(* egl_output::present, after the buffer is attached: swap_pending is set, *)
(* then the atomic test and commit.  `accepted` is the driver's answer.   *)
(* On rejection reset() recreates the surface (a fresh swapchain) and the  *)
(* buffer is dropped; endRenderingFrameForScreen then clears swap_pending. *)
(* reset()'s result is not looked at: when it fails the old swapchain, with *)
(* its ages, stays.  On success the history records the frame's damage.   *)
(***************************************************************************)
present(o, b, painted, accepted) ==
  IF accepted
  THEN /\ swapPending' = [swapPending EXCEPT ![o] = TRUE]
       /\ front' = [front EXCEPT ![o] = b]
       /\ age' = [age EXCEPT ![o] = AgedAfterCommit(age[o], b)]
       /\ missing' = [missing EXCEPT ![o][b] = @ \ painted]
       /\ history' = IF BufferAgeSupported
                     THEN [history EXCEPT ![o] = RecordDamage(@, damaged[o] \cap Geometry[o])]
                     ELSE history
  ELSE /\ swapPending' = [swapPending EXCEPT ![o] = FALSE]
       /\ UNCHANGED history
       /\ \E resetOk \in ResetOutcomes :
            IF resetOk
            THEN /\ age' = [age EXCEPT ![o] = [x \in Buffers |-> 0]]
                 /\ missing' = [missing EXCEPT ![o] = [x \in Buffers |-> Geometry[o]]]
                 /\ front' = [front EXCEPT ![o] = NoBuffer]
            ELSE /\ missing' = [missing EXCEPT ![o][b] = @ \ painted]
                 /\ UNCHANGED <<age, front>>

(***************************************************************************)
(* One frame of output o rendered into back buffer b:                      *)
(* set_render_target_to_output reads b's age, the scene paints its         *)
(* repaints plus get_output_render_region, and endRenderingFrameForScreen  *)
(* either rolls back (no damage on this output: the repaired back buffer   *)
(* is not posted) or presents.  The scene's repaints are consumed.         *)
(***************************************************************************)
PaintOutput(o) ==
  /\ ~swapPending[o]
  /\ repaints[o] /= {}
  /\ \E b \in Buffers \ {front[o]} :
       LET painted == get_output_render_region(o, age[o][b]) \cup repaints[o]
       IN  \/ /\ damaged[o] \cap Geometry[o] = {}
              /\ missing' = [missing EXCEPT ![o][b] = @ \ painted]
              /\ UNCHANGED <<history, age, front, swapPending>>
           \/ /\ damaged[o] \cap Geometry[o] /= {}
              /\ \E accepted \in BOOLEAN : present(o, b, painted, accepted)
  /\ repaints' = [repaints EXCEPT ![o] = {}]
  /\ damaged' = [damaged EXCEPT ![o] = {}]
  /\ UNCHANGED damageCount

(* The output's frame event after a commit: the buffer is on screen. *)
swapped(o) ==
  /\ swapPending[o]
  /\ swapPending' = [swapPending EXCEPT ![o] = FALSE]
  /\ UNCHANGED <<history, age, front, missing, repaints, damaged, damageCount>>

(***************************************************************************)
(* The scene's damage producer (windows, effects): region r of output o is *)
(* to be repainted; if `visible` its pixels changed, so every buffer of o  *)
(* is stale there.  An occluded change is repainted but changes nothing.  *)
(***************************************************************************)
Damage(o) ==
  /\ damageCount < MaxDamage
  /\ \E r \in (SUBSET Geometry[o]) \ {{}}, visible \in BOOLEAN :
       /\ repaints' = [repaints EXCEPT ![o] = @ \cup r]
       /\ IF visible
          THEN /\ damaged' = [damaged EXCEPT ![o] = @ \cup r]
               /\ missing' = [missing EXCEPT ![o] = [x \in Buffers |-> @[x] \cup r]]
          ELSE UNCHANGED <<damaged, missing>>
  /\ damageCount' = damageCount + 1
  /\ UNCHANGED <<history, age, front, swapPending>>

Init ==
  /\ history = [o \in Outputs |-> <<>>]
  /\ age = [o \in Outputs |-> [b \in Buffers |-> 0]]
  /\ front = [o \in Outputs |-> NoBuffer]
  /\ missing = [o \in Outputs |-> [b \in Buffers |-> Geometry[o]]]
  /\ swapPending = [o \in Outputs |-> FALSE]
  /\ repaints = [o \in Outputs |-> {}]
  /\ damaged = [o \in Outputs |-> {}]
  /\ damageCount = 0

Next ==
  \E o \in Outputs : Damage(o) \/ PaintOutput(o) \/ swapped(o)

Spec == Init /\ [][Next]_vars

-----------------------------------------------------------------------------
(***************************************************************************)
(* Buffer age soundness: whichever back buffer the swapchain hands out     *)
(* next, repainting the pending damage plus get_output_render_region for  *)
(* its age leaves no stale tile in it.  This is what makes the partial     *)
(* repaint of endRenderingFrameForScreen correct; it needs the damage      *)
(* history to stay aligned with the buffer ages across commits, rollbacks *)
(* and rejected presents.                                                  *)
(***************************************************************************)
BufferAgeSound ==
  \A o \in Outputs : \A b \in Buffers \ {front[o]} :
    missing[o][b] \subseteq damaged[o] \cup get_output_render_region(o, age[o][b])

=============================================================================
