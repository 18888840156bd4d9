------------------------ MODULE MCClientModelByScreen ------------------------
(* ClientModelByScreen alone: the root level is the per-screen fork. *)
EXTENDS ClientModel

CONSTANTS u1, u2

MCTraits == [w \in {u1, u2} |-> {}]

MCLevelLists == {<<"screen">>}
=============================================================================
