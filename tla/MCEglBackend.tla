---------------------------- MODULE MCEglBackend ----------------------------
(* One output of two tiles (or of one, in the long runs) with a double- or *)
(* triple-buffered swapchain. *)
EXTENDS EglBackend

CONSTANTS o1, t1, t2, b1, b2, b3

MCGeometry == [o \in {o1} |-> {t1, t2}]

MCGeometryOneTile == [o \in {o1} |-> {t1}]

=============================================================================
