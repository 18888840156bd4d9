--------------------------- MODULE ThumbnailAside ---------------------------
(***************************************************************************)
(* The thumbnail-aside effect of                                           *)
(* src/effects/thumbnailaside/thumbnailaside.cpp.  A shortcut toggles a    *)
(* thumbnail of the active window; the thumbnails are stacked upwards from *)
(* the bottom right corner of the screen's maximize area, scaled by one    *)
(* factor so that they fit its height and maxwidth, in the order they were *)
(* added.                                                                  *)
(*                                                                         *)
(* The QHash `windows` is a function from the thumbnailed windows to their *)
(* Data (index and rect).  A window's geometry is only its size: moves    *)
(* change no thumbnail.  arrange()'s double scale is kept as an exact     *)
(* fraction, and int() of a non-negative product is integer division.     *)
(* Painting and the repaints it asks for (addRepaint, repaintAll) change  *)
(* no state of the effect and are left out.                                *)
(***************************************************************************)
EXTENDS Integers, SequencesExt

CONSTANTS
  Windows,
  NoWindow,     \* nullptr: effects->activeWindow() without an active window
  MaxWidth,     \* ThumbnailAsideConfig::maxWidth()
  Spacing,      \* ThumbnailAsideConfig::spacing()
  AreaRight,    \* clientArea(MaximizeArea, screen, currentDesktop()).right()
  AreaBottom,   \* ... .bottom()
  AreaHeight    \* ... .height()

ASSUME MaxWidth > 0 /\ Spacing >= 0 /\ AreaHeight > 0

VARIABLES
  windows,   \* ThumbnailAsideEffect::windows : thumbnailed window -> [index, rect]
  added,     \* ghost: the thumbnailed windows in the order they were added
  geometry   \* each window's size, [width, height] (EffectWindow::size())

ta_vars == <<windows, added>>

NoRect == [x |-> 0, y |-> 0, width |-> 0, height |-> 0]

TATypeOK ==
  /\ DOMAIN windows \subseteq Windows
  /\ \A w \in DOMAIN windows :
       /\ windows[w].index \in 0 .. Cardinality(Windows) - 1
       /\ windows[w].rect \in [x : Int, y : Int, width : Nat, height : Nat]
  /\ added \in Seq(Windows)

(* The scale of arrange(): qMin of the area's height over the windows'    *)
(* total height and of maxwidth over the widest window, as a fraction.   *)
Scale(D, g) ==
  LET height == MapThenSumSet(LAMBDA w : g[w].height, D)
      mwidth == Max({g[w].width : w \in D})
  IN  IF AreaHeight * mwidth < MaxWidth * height
      THEN <<AreaHeight, height>>
      ELSE <<MaxWidth, mwidth>>

(* int(n * scale) *)
Scaled(n, s) == (n * s[1]) \div s[2]

(* pos[i] after arrange()'s second loop: the scaled heights of the        *)
(* thumbnails up to index i, each with the spacing below it.              *)
Offset(T, g, s, i) ==
  MapThenSumSet(LAMBDA v : Scaled(g[v].height, s) + Spacing,
                {v \in DOMAIN T : T[v].index <= i})

(***************************************************************************)
(* arrange: nothing to do without thumbnails; otherwise every thumbnail's *)
(* rect is its window scaled, right-aligned in the area, at the height   *)
(* its index gives it.  The trailing repaintAll is left out.             *)
(***************************************************************************)
arrange(T, g) ==
  IF DOMAIN T = {} THEN T
  ELSE LET s == Scale(DOMAIN T, g)
       IN  [w \in DOMAIN T |->
              [index |-> T[w].index,
               rect  |-> [x      |-> AreaRight - Scaled(g[w].width, s),
                          y      |-> AreaBottom - Offset(T, g, s, T[w].index),
                          width  |-> Scaled(g[w].width, s),
                          height |-> Scaled(g[w].height, s)]]]

(* Mutant: the new entry's index is one past count(). *)
addThumbnail_next_index(T, g, w) ==
  arrange((w :> [index |-> Cardinality(DOMAIN T) + 1, rect |-> NoRect]) @@ T, g)

(* addThumbnail: a new entry with the next index, then arrange. *)
addThumbnail(T, g, w) ==
  arrange((w :> [index |-> Cardinality(DOMAIN T), rect |-> NoRect]) @@ T, g)

(* Mutant: the entries above the removed one keep their indices. *)
removeThumbnail_keeps_indices(T, g, w) ==
  IF w \notin DOMAIN T THEN T
  ELSE arrange([v \in DOMAIN T \ {w} |-> T[v]], g)

(* removeThumbnail: nothing for a window without a thumbnail; otherwise   *)
(* the entry goes, every entry above it moves down one index, and the    *)
(* rest is arranged again.                                                *)
removeThumbnail(T, g, w) ==
  IF w \notin DOMAIN T THEN T
  ELSE LET i == T[w].index
       IN  arrange([v \in DOMAIN T \ {w} |->
                      IF T[v].index > i THEN [T[v] EXCEPT !.index = @ - 1] ELSE T[v]], g)

(* toggleCurrentThumbnail: nothing without an active window; otherwise    *)
(* remove its thumbnail if it has one, else add one.                      *)
toggleCurrentThumbnail(active) ==
  /\ active /= NoWindow
  /\ IF active \in DOMAIN windows
     THEN /\ windows' = removeThumbnail(windows, geometry, active)
          /\ added' = Remove(added, active)
     ELSE /\ windows' = addThumbnail(windows, geometry, active)
          /\ added' = Append(added, active)

(* slotWindowClosed *)
slotWindowClosed(w) ==
  /\ windows' = removeThumbnail(windows, geometry, w)
  /\ added' = Remove(added, w)

(* Mutant: a resized window's thumbnail is only repainted. *)
slotWindowGeometryShapeChanged_repaint_only(w, old, g) == windows

(***************************************************************************)
(* slotWindowGeometryShapeChanged, after w's geometry became g[w]: for a  *)
(* thumbnailed window, a move (same size) only repaints its thumbnail and *)
(* a resize arranges all of them again.                                  *)
(***************************************************************************)
slotWindowGeometryShapeChanged(w, old, g) ==
  IF w \in DOMAIN windows /\ g[w] /= old THEN arrange(windows, g) ELSE windows

(* The constructor's reconfigure() arranges an empty table. *)
TAInit ==
  /\ windows = [w \in {} |-> NoRect]
  /\ added = <<>>

-----------------------------------------------------------------------------
(* The thumbnails' indices number them 0, 1, ... in the order they were   *)
(* added: addThumbnail appends with index count() and removeThumbnail     *)
(* closes the gap it leaves.  arrange() writes pos[d.index] of a vector   *)
(* of count() entries, so a gap or a duplicate left by a removal puts two *)
(* thumbnails on one place or writes past the vector.                     *)
IndicesFollowAddOrder ==
  /\ DOMAIN windows = Range(added)
  /\ \A i \in 1 .. Len(added) : windows[added[i]].index = i - 1

(* Every thumbnail is laid out for the current sizes of all thumbnailed   *)
(* windows: a resize of one rescales and moves the others too, so         *)
(* slotWindowGeometryShapeChanged, like adding and removing, must arrange *)
(* again rather than repaint the old rects.                               *)
ArrangedForCurrentSizes == windows = arrange(windows, geometry)

=============================================================================
