---------------------------- MODULE MCRecvPath ----------------------------
(* Model checking of RecvPath: the instances are in the .cfg files.         *)
EXTENDS RecvPath
=============================================================================
