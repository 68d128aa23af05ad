---------------------------- MODULE MCSendPath ----------------------------
(* Model checking of SendPath: sendFile writes four bytes while the REPL's  *)
(* command s writes one to the same connection.                             *)
EXTENDS SendPath

CONSTANTS sf, s
MCWriteLen == [w \in {sf, s} |-> IF w = sf THEN 4 ELSE 1]
=============================================================================
