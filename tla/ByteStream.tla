----------------------------- MODULE ByteStream -----------------------------
(***************************************************************************)
(* What the receive half of a connection promises: a bounded, lossless,    *)
(* first-in first-out pipe.  Byte i of the stream has the value i.         *)
(***************************************************************************)
EXTENDS Integers, Sequences

CONSTANT Capacity   \* bytes accepted and not yet handed out

VARIABLES taken,    \* how many bytes of the stream were accepted
          out       \* the bytes handed out, in order

Init == taken = 0 /\ out = << >>

Accept ==
    /\ taken' \in (taken + 1)..(Len(out) + Capacity)
    /\ out' = out

HandOut ==
    /\ \E n \in 1..(taken - Len(out)) :
          out' = out \o [i \in 1..n |-> Len(out) + i]
    /\ taken' = taken

Next == Accept \/ HandOut

Spec == Init /\ [][Next]_<<taken, out>>
=============================================================================
