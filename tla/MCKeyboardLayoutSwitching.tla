--------------------- MODULE MCKeyboardLayoutSwitching ----------------------
(* Two windows of one client and application, a dock, two desktops. *)
EXTENDS KeyboardLayoutSwitching

CONSTANTS w1, w2, w3, c1, c2, a1, d1, d2

MCClientOf == [w \in {w1, w2, w3} |-> IF w = w3 THEN c2 ELSE c1]
MCAppOf == [w \in {w1, w2, w3} |-> IF w = w3 THEN NoApp ELSE a1]
=============================================================================
