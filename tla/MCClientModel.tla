--------------------------- MODULE MCClientModel ----------------------------
(* Two windows, one of them a dock; the four CLIENT_MODEL_WRAPPER models. *)
EXTENDS ClientModel

CONSTANTS u1, u2

MCTraits == [w \in {u1, u2} |-> IF w = u2 THEN {"dock"} ELSE {}]

(* SimpleClientModel, ClientModelByScreen, ...ByScreenAndDesktop, ...ByScreenAndActivity. *)
MCLevelLists == {<<>>, <<"screen">>, <<"screen", "desktop">>, <<"screen", "activity">>}
=============================================================================
