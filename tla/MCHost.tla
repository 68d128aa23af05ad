------------------------------- MODULE MCHost -------------------------------
(* Model checking of Host: the instance is in the .cfg file.                *)
EXTENDS Host
=============================================================================
