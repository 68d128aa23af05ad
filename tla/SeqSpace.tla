------------------------------ MODULE SeqSpace ------------------------------
(***************************************************************************)
(* Sequence-number arithmetic of a connection.                             *)
(*                                                                         *)
(* The TCB keeps its pointers (sendUna, sendNxt, rcvNxt, ...) as 64-bit    *)
(* offsets from the initial sequence number, and wraps them to a 32-bit    *)
(* number only where a segment is built or compared (pkg/protocol/tcb.go,  *)
(* normalsocket.go).  The comparisons themselves are those of the code:    *)
(* plain unsigned < and <=, not comparisons modulo 2^32.                   *)
(***************************************************************************)
EXTENDS Integers

CONSTANTS SeqMod,   \* size of the sequence space: 2^32 in the code
          TcbSize   \* tcbSize: largest window, and largest ring index: 65535

ASSUME SeqSpaceAssumption ==
    /\ SeqMod \in Nat
    /\ TcbSize \in Nat \ {0}
    /\ TcbSize < SeqMod

\* The window fields are uint16, and the two ring buffers have one slot more
\* than tcbSize; both wrap at the same modulus.
WndMod == TcbSize + 1

wrapIndexShort(idx) == idx % TcbSize   \* mutant: the ring is one slot too short
wrapIndex(idx) == idx % WndMod

\* wrapFromIss and wrapFromIrs: the sequence number a pointer stands for.
wrapFrom(base, pointer) == (base + pointer) % SeqMod

wrappedDist(num1, num2) ==
    LET gap == IF num1 < num2 THEN num2 - num1 ELSE num1 - num2
    IN  IF gap < TcbSize THEN gap ELSE TcbSize

wrappedCompare(num1, num2) ==
    LET dist == wrappedDist(num1, num2)
    IN  IF dist = 0 THEN 0
        ELSE IF (num1 + dist) % SeqMod = num2 THEN -1
        ELSE 1

\* mutant: an old acknowledgement is taken again
isAckAcceptableOld(wrappedUna, wrappedSendNxt, ackNum) == ackNum <= wrappedSendNxt
\* SND.UNA < SEG.ACK <= SND.NXT, on wrapped numbers.
isAckAcceptable(wrappedUna, wrappedSendNxt, ackNum) ==
    /\ wrappedUna < ackNum
    /\ ackNum <= wrappedSendNxt

\* mutant: the number expected next is refused
InWindowStrict(num, wrappedRcvNxt, rcvWnd) ==
    /\ wrappedRcvNxt < num
    /\ num < (wrappedRcvNxt + rcvWnd) % SeqMod
\* A number inside the receive window [RCV.NXT, RCV.NXT + RCV.WND), both ends
\* wrapped first and compared afterwards.
InWindow(num, wrappedRcvNxt, rcvWnd) ==
    /\ wrappedRcvNxt <= num
    /\ num < (wrappedRcvNxt + rcvWnd) % SeqMod

\* mutant: old text is taken again
isSegmentAcceptableOld(wrappedRcvNxt, rcvWnd, seqNum, lenData) ==
    seqNum < (wrappedRcvNxt + rcvWnd) % SeqMod
isSegmentAcceptable(wrappedRcvNxt, rcvWnd, seqNum, lenData) ==
    IF rcvWnd = 0 THEN lenData = 0 /\ seqNum = wrappedRcvNxt
    ELSE \/ InWindow(seqNum, wrappedRcvNxt, rcvWnd)
         \/ /\ lenData > 0
            /\ InWindow((seqNum + lenData - 1) % SeqMod, wrappedRcvNxt, rcvWnd)
=============================================================================
