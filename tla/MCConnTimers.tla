--------------------------- MODULE MCConnTimers ---------------------------
(* Model checking of ConnTimers: the instance is in the .cfg file.          *)
EXTENDS ConnTimers
=============================================================================
