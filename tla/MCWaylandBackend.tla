--------------------------- MODULE MCWaylandBackend ---------------------------
EXTENDS WaylandBackend

CONSTANTS s1, s2

(***************************************************************************)
(* Two parents: a fullscreen shell with a sub-compositor (the cursor is a  *)
(* sub-surface), and a plain shell without one (the seat installs the     *)
(* cursor on its pointer).  Both offer shm, a seat and an output.          *)
(***************************************************************************)
MCServers ==
  { {"compositor", "shm", "seat", "output", "fullscreenShell", "subCompositor"},
    {"compositor", "shm", "seat", "output", "shell"} }
=============================================================================
