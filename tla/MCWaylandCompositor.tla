------------------------- MODULE MCWaylandCompositor -------------------------
(* Two outputs of one tile each, side by side; two windows, one on the   *)
(* first output and one spanning both.                                   *)
EXTENDS WaylandCompositor

CONSTANTS o1, o2, t1, t2, w1, w2

MCGeometry == [o \in {o1, o2} |-> IF o = o1 THEN {t1} ELSE {t2}]

MCWindowRect == [w \in {w1, w2} |-> IF w = w1 THEN {t1} ELSE {t1, t2}]

=============================================================================
