----------------------------- MODULE MCTcpConn -----------------------------
(* Model checking of TcpConn: the instances are in the .cfg files.  The     *)
(* server has a second connection to open, with a number far from the first.*)
EXTENDS TcpConn

MCServerIss == <<100, 180>>
=============================================================================
