--------------------------- MODULE HighlightWindow ---------------------------
(***************************************************************************)
(* The highlight-window effect of                                          *)
(* src/effects/highlightwindow/highlightwindow.cpp.  While a set of        *)
(* windows is highlighted (asked for over D-Bus or by perform()), every    *)
(* other normal window or dialog of the stacking order is faded to a ghost *)
(* opacity and the highlighted ones are shown fully, even when minimized.  *)
(* An empty request reverts every window to its own opacity.               *)
(*                                                                         *)
(* An opacity animation is represented by the opacity it holds the window  *)
(* at: m_animations maps a window to "highlight" (1.0) or "ghost"          *)
(* (m_ghostOpacity); set() and retarget() of AnimationEffect both leave    *)
(* the window at that target until the animation is cancelled.  A revert   *)
(* is an animate() from one opacity to another that AnimationEffect ends   *)
(* by itself; the reverts the effect's last call started are recorded by   *)
(* the opacity they start from, and how they run out is left out.  Where a *)
(* window starts or ends (isInitiallyHidden: minimized or on another       *)
(* desktop) changes no decision of the effect and is left out.            *)
(* m_highlightedIds is only ever cleared and m_monitorWindow   *)
(* only ever set to nullptr, so they are left out: the loop over the ids   *)
(* in slotWindowAdded never runs and slotWindowClosed never finishes.     *)
(***************************************************************************)
EXTENDS Naturals, Sequences, FiniteSets

CONSTANTS
  Windows,
  HighlightTypes   \* the windows isHighlightWindow holds for (normal windows, dialogs)

VARIABLES
  m_highlightedWindows,  \* the windows asked for; empty = not highlighting
  m_animations,          \* window -> "none" | "highlight" | "ghost"
  reverts,               \* window -> "none" | the opacity a revert of the last call starts from
  stackingOrder,         \* effects->stackingOrder(), a sequence of windows
  findable,              \* the windows effects->findWindow resolves
  added                  \* the live windows EffectsHandler has emitted windowAdded for

hw_vars == <<m_highlightedWindows, m_animations, reverts>>


HWTypeOK ==
  /\ m_highlightedWindows \subseteq Windows
  /\ m_animations \in [Windows -> {"none", "highlight", "ghost"}]
  /\ reverts \in [Windows -> {"none", "ghost", "full"}]

StackedWindows == {stackingOrder[i] : i \in 1 .. Len(stackingOrder)}

isHighlightWindow(w) == w \in HighlightTypes

NoReverts == [w \in Windows |-> "none"]

isHighlighted(w) == w \in m_highlightedWindows

(* startHighlightAnimation and startGhostAnimation: set() a new animation, *)
(* or retarget() the window's running one; either way it is held at the    *)
(* target.                                                                 *)
startHighlightAnimation(anims, w) == [anims EXCEPT ![w] = "highlight"]

startGhostAnimation(anims, w) == [anims EXCEPT ![w] = "ghost"]

(* prepareHighlighting: every highlight window of the stacking order to    *)
(* full or ghost opacity, by whether it is asked for.                      *)
prepareHighlighting(highlighted) ==
  [w \in Windows |->
     IF w \in StackedWindows /\ isHighlightWindow(w)
     THEN IF w \in highlighted THEN "highlight" ELSE "ghost"
     ELSE m_animations[w]]

(* startRevertAnimation of every highlight window of the stacking order:   *)
(* the animation is taken out of m_animations and, if there was one, an    *)
(* animate() from the highlighted or ghost opacity back to the window's   *)
(* own starts.                                                             *)
Reverted(w) ==
  w \in StackedWindows /\ isHighlightWindow(w) /\ m_animations[w] /= "none"

(* Mutant: m_highlightedWindows cleared before the windows are reverted.  *)
finishHighlighting_clears_first ==
  /\ reverts' = [w \in Windows |-> IF Reverted(w) THEN "ghost" ELSE "none"]
  /\ m_animations' = [w \in Windows |-> "none"]
  /\ m_highlightedWindows' = {}

finishHighlighting ==
  /\ reverts' = [w \in Windows |->
                   IF Reverted(w) THEN IF isHighlighted(w) THEN "full" ELSE "ghost"
                   ELSE "none"]
  \* the reverted animations are taken; the sanity check cancels the rest
  /\ m_animations' = [w \in Windows |-> "none"]
  /\ m_highlightedWindows' = {}

(* highlightWindows(QStringList), perform(HighlightWindows) and             *)
(* highlightWindows(QVector): the windows that resolve, then either finish *)
(* (none) or replace the highlighted set and prepare.                      *)
highlightWindows(S) ==
  /\ S \subseteq findable
  /\ IF S = {}
     THEN finishHighlighting
     ELSE /\ m_highlightedWindows' = S
          /\ m_animations' = prepareHighlighting(S)
          /\ reverts' = NoReverts

(* Mutant: a window appearing while highlighting is left alone.           *)
slotWindowAdded_no_ghost(w) ==
  /\ reverts' = NoReverts
  /\ UNCHANGED <<m_highlightedWindows, m_animations>>

(* slotWindowAdded: while highlighting, a window that is not asked for and *)
(* is a highlight window starts as a ghost.                                *)
slotWindowAdded(w) ==
  /\ m_animations' =
       IF m_highlightedWindows /= {} /\ ~isHighlighted(w) /\ isHighlightWindow(w)
       THEN startGhostAnimation(m_animations, w)
       ELSE m_animations
  /\ reverts' = NoReverts
  /\ UNCHANGED m_highlightedWindows

(* slotWindowClosed: m_monitorWindow is never a window, so nothing.         *)
slotWindowClosed(w) ==
  /\ reverts' = NoReverts
  /\ UNCHANGED <<m_highlightedWindows, m_animations>>

(* slotWindowDeleted drops the window's animation (but not the window     *)
(* from m_highlightedWindows).                                             *)
slotWindowDeleted(w) ==
  /\ m_animations' = [m_animations EXCEPT ![w] = "none"]
  /\ reverts' = NoReverts
  /\ UNCHANGED m_highlightedWindows

HWInit ==
  /\ m_highlightedWindows = {}
  /\ m_animations = [w \in Windows |-> "none"]
  /\ reverts = NoReverts

-----------------------------------------------------------------------------
(* The opacity a window is held at by its animation.                       *)
Held(w) == IF m_animations[w] = "highlight" THEN "full" ELSE "ghost"

(* While windows are highlighted, every highlight window of the stacking   *)
(* order that has been added is held at full opacity if it is asked for    *)
(* and at the ghost opacity if not; once highlighting is finished none is  *)
(* held at all.  prepareHighlighting, slotWindowAdded (a window appearing  *)
(* in the middle, or asked for before it appeared), the retargeting of a   *)
(* new request and the sanity check of finishHighlighting share this.      *)
HighlightStateShown ==
  \A w \in StackedWindows \cap added \cap HighlightTypes :
    IF m_highlightedWindows /= {}
    THEN /\ m_animations[w] /= "none"
         /\ Held(w) = IF isHighlighted(w) THEN "full" ELSE "ghost"
    ELSE m_animations[w] = "none"

(* A revert starts where the window was held: startRevertAnimation fades   *)
(* from full opacity exactly the windows its animation held at full, so    *)
(* the windows do not jump when highlighting ends.  finishHighlighting has *)
(* to revert before it clears m_highlightedWindows for this.               *)
RevertStartsFromShown ==
  [][\A w \in Windows :
       reverts'[w] /= "none" => m_animations[w] /= "none" /\ reverts'[w] = Held(w)]_hw_vars

=============================================================================
