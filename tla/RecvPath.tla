------------------------------ MODULE RecvPath ------------------------------
(***************************************************************************)
(* The receive half of a TCB: the ring buffer rcvBuf, the goroutine        *)
(* tcbReadController that owns it, the segment handler that hands payloads *)
(* over with AddRead, and an application thread in VRead.                  *)
(*                                                                         *)
(* All four channels are unbuffered, so a send and its receive are one     *)
(* step.  AddRead returns at that rendezvous, BEFORE the controller has    *)
(* stored the payload: the handler of the next segment can run in between. *)
(*                                                                         *)
(* windowRecvSignal is only ever sent to by the controller itself, in a    *)
(* select with a default, while it is by construction not receiving: no    *)
(* such send succeeds.  A controller that waits on the channel therefore   *)
(* waits forever, and the model gives that wait no way out.                *)
(*                                                                         *)
(* Byte number i of the peer's stream has the value i.  Pointer i is the   *)
(* place of byte i, as rcvNxt starts at 1; a slot never written holds 0.   *)
(***************************************************************************)
EXTENDS Integers, Sequences, SeqSpace

CONSTANTS MaxBytes,   \* bound: bytes the peer sends
          MaxSegment, \* largest payload the peer sends (Mss)
          MaxRead,    \* largest buffer passed to VRead
          Overrun,    \* may the peer send past the advertised window?
          ReadEmpty,  \* may the application read an empty buffer?
          WithFin,    \* does the peer close its half?
          EagerFin    \* may the FIN's handler run before add2Read has?

ASSUME RecvAssumption ==
    /\ MaxBytes \in Nat
    /\ MaxSegment \in Nat \ {0}
    /\ MaxRead \in Nat \ {0}
    /\ {Overrun, ReadEmpty, WithFin, EagerFin} \subseteq BOOLEAN

VARIABLES
    rcvBuf, rcvNxt, rcvLbr, rcvWnd,  \* the TCB's fields
    ctl,        \* where tcbReadController is
    ctlData,    \* payload it took / bytes it is about to hand out
    ctlCount,   \* number of bytes the pending read asks for
    handler,    \* where the segment handler is
    payload,    \* payload the handler passes to AddRead
    reader,     \* where VRead is
    want,       \* length of VRead's buffer
    arrived,    \* history: bytes of the peer's stream handled so far
    fin,        \* history: 1 once the FIN was handled
    delivered   \* history: bytes VRead has returned

tcb == <<rcvBuf, rcvNxt, rcvLbr, rcvWnd>>
controller == <<ctl, ctlData, ctlCount>>
vars == <<tcb, controller, handler, payload, reader, want, arrived, fin, delivered>>

Smaller(a, b) == IF a < b THEN a ELSE b

\* createTCB and setSynReceivedState (or the SYN handling of handleSynSent).
Init ==
    /\ rcvBuf = [i \in 0..TcbSize |-> 0]
    /\ rcvNxt = 1
    /\ rcvLbr = 1
    /\ rcvWnd = TcbSize
    /\ ctl = "select"
    /\ ctlData = << >>
    /\ ctlCount = 0
    /\ handler = "idle"
    /\ payload = << >>
    /\ reader = "idle"
    /\ want = 0
    /\ arrived = 0
    /\ fin = 0
    /\ delivered = << >>

-----------------------------------------------------------------------------
(* The segment handler: handleOtherStates and handleFinOtherStates.         *)

\* A data segment of n bytes, the next of the stream, passes
\* isSegmentAcceptable and the handler calls AddRead.
HandleData(n) ==
    /\ handler = "idle"
    /\ fin = 0
    /\ arrived + n <= MaxBytes
    /\ rcvWnd > 0
    /\ arrived + 1 < rcvNxt + rcvWnd
    /\ Overrun \/ arrived + n < rcvNxt + rcvWnd
    /\ payload' = [i \in 1..n |-> arrived + i]
    /\ arrived' = arrived + n
    /\ handler' = "AddRead"
    /\ UNCHANGED <<tcb, controller, reader, want, fin, delivered>>

\* The FIN that follows the stream's last byte: rcvNxt moves by the distance
\* to the number after the FIN, as read at that moment.
HandleFin ==
    /\ WithFin
    /\ handler = "idle"
    /\ fin = 0
    /\ EagerFin \/ ctl # "add2Read"
    /\ rcvNxt' = rcvNxt + wrappedDist(rcvNxt, arrived + 2)
    /\ fin' = 1
    /\ UNCHANGED <<rcvBuf, rcvLbr, rcvWnd, controller, handler, payload,
                   reader, want, arrived, delivered>>

-----------------------------------------------------------------------------
(* The application: VRead and ReadRecv.                                     *)

VRead(n) ==
    /\ reader = "idle"
    /\ ReadEmpty \/ rcvWnd # TcbSize
    /\ reader' = "bytesToRead"
    /\ want' = n
    /\ UNCHANGED <<tcb, controller, handler, payload, arrived, fin, delivered>>

-----------------------------------------------------------------------------
(* tcbReadController.                                                       *)

\* payload := <-tcb.dataToRecvSignal; AddRead returns.
TakePayload ==
    /\ ctl = "select"
    /\ handler = "AddRead"
    /\ ctl' = "add2Read"
    /\ ctlData' = payload
    /\ handler' = "idle"
    /\ payload' = << >>
    /\ UNCHANGED <<tcb, ctlCount, reader, want, arrived, fin, delivered>>

\* bytesToRead := <-tcb.bytesToRead
TakeRequest ==
    /\ ctl = "select"
    /\ reader = "bytesToRead"
    /\ ctl' = "readFromRecv"
    /\ ctlCount' = want
    /\ reader' = "bytesReadRcv"
    /\ UNCHANGED <<tcb, ctlData, handler, payload, want, arrived, fin, delivered>>

MustWaitForEmpty == rcvWnd < TcbSize   \* mutant: wait until all is read
MustWaitForRoom == rcvWnd < Len(ctlData)

\* The wait for room (no way out, see above), then add2Read.
Add2Read ==
    /\ ctl = "add2Read"
    /\ ~MustWaitForRoom
    /\ rcvBuf' = [i \in 0..TcbSize |->
                    IF \E k \in 1..Len(ctlData) : wrapIndex(rcvNxt + k - 1) = i
                    THEN ctlData[CHOOSE k \in 1..Len(ctlData) :
                                    wrapIndex(rcvNxt + k - 1) = i]
                    ELSE rcvBuf[i]]
    /\ rcvNxt' = rcvNxt + Len(ctlData)
    /\ rcvWnd' = rcvWnd - Len(ctlData)
    /\ ctl' = "select"
    /\ ctlData' = << >>
    /\ UNCHANGED <<rcvLbr, ctlCount, handler, payload, reader, want, arrived, fin,
                   delivered>>

\* mutant: the slice that wraps around the end of the ring is forgotten
SliceLenNoWrap(lbr, dist) == wrapIndex(lbr + dist) - wrapIndex(lbr)
\* Length of the slice readFromRecv cuts out of the ring for dist bytes.
SliceLen(lbr, dist) ==
    LET startIdx == wrapIndex(lbr)
        minIdx   == wrapIndex(lbr + dist)
    IN  IF startIdx > minIdx THEN (WndMod - startIdx) + minIdx
                             ELSE minIdx - startIdx

MustWaitForData == rcvWnd = TcbSize

GrowUnwrapped(wnd, n) == wnd + n                           \* mutant: not a uint16
GrowSaturating(wnd, n) == wnd + Smaller(n, TcbSize - wnd)  \* mutant: capped
Grow(wnd, n) == (wnd + n) % WndMod

\* The wait for data (no way out), then readFromRecv.
ReadFromRecv ==
    /\ ctl = "readFromRecv"
    /\ ~MustWaitForData
    /\ LET dist == Smaller(rcvNxt - rcvLbr, ctlCount)
           size == SliceLen(rcvLbr, dist)
       IN  /\ ctlData' = [k \in 1..size |-> rcvBuf[wrapIndex(rcvLbr + k - 1)]]
           /\ rcvLbr' = rcvLbr + size
           /\ rcvWnd' = Grow(rcvWnd, size)
    /\ ctl' = "reply"
    /\ UNCHANGED <<rcvBuf, rcvNxt, ctlCount, handler, payload, reader, want, arrived,
                   fin, delivered>>

\* tcb.bytesReadRcv <- ..., and VRead returns.
Reply ==
    /\ ctl = "reply"
    /\ reader = "bytesReadRcv"
    /\ delivered' = delivered \o ctlData
    /\ ctl' = "select"
    /\ ctlData' = << >>
    /\ ctlCount' = 0
    /\ reader' = "idle"
    /\ want' = 0
    /\ UNCHANGED <<tcb, handler, payload, arrived, fin>>

-----------------------------------------------------------------------------
Controller == TakePayload \/ TakeRequest \/ Add2Read \/ ReadFromRecv \/ Reply

Next ==
    \/ \E n \in 1..MaxSegment : HandleData(n)
    \/ HandleFin
    \/ \E n \in 1..MaxRead : VRead(n)
    \/ Controller

Spec == Init /\ [][Next]_vars

\* The Go scheduler runs the controller whenever it can run; neither the peer
\* nor the user is obliged to do anything.  Its select chooses at random among
\* the channels that are ready, so neither caller is passed over forever.
FairSpec == Spec /\ WF_vars(Controller) /\ SF_vars(TakePayload) /\ SF_vars(TakeRequest)
-----------------------------------------------------------------------------
(* Properties.                                                              *)

TypeOK ==
    /\ rcvBuf \in [0..TcbSize -> Nat]
    /\ rcvNxt \in Nat
    /\ rcvLbr \in Nat
    /\ rcvWnd \in 0..TcbSize
    /\ ctl \in {"select", "add2Read", "readFromRecv", "reply"}
    /\ ctlData \in Seq(Nat)
    /\ ctlCount \in Nat
    /\ handler \in {"idle", "AddRead"}
    /\ payload \in Seq(Nat)
    /\ reader \in {"idle", "bytesToRead", "bytesReadRcv"}
    /\ want \in Nat
    /\ arrived \in Nat
    /\ fin \in {0, 1}
    /\ delivered \in Seq(Nat)

\* The window that is advertised accounts for every byte between the two
\* receive pointers.  add2Read and readFromRecv move the window and a pointer
\* by separate assignments, and the FIN moves rcvNxt alone: with it the window
\* is one more than the bytes account for, and wraps to 0 once all is read.
WindowAccounting ==
    rcvWnd = (TcbSize + fin - (rcvNxt - rcvLbr)) % WndMod

\* VRead returns the peer's bytes in order, none lost, repeated or
\* overwritten in the ring before it was read; at most one byte more than the
\* peer sent is ever returned, and only after a FIN.
StreamInOrder ==
    /\ Len(delivered) <= arrived + fin
    /\ \A i \in 1..Len(delivered) : i <= arrived => delivered[i] = i

\* What the advertised window promises is never taken back while the peer may
\* still send: the right edge rcvNxt + rcvWnd does not move left.
RightEdgeNeverShrinks == [][fin' = 0 => rcvNxt' + rcvWnd' >= rcvNxt + rcvWnd]_vars

\* The two waits of the controller for a signal that only it could send: a
\* read of an empty buffer, and a payload larger than the window.
Stuck ==
    \/ ctl = "readFromRecv" /\ rcvWnd = TcbSize
    \/ ctl = "add2Read" /\ rcvWnd < Len(ctlData)

\* A VRead returns, and so does a handler in AddRead, which holds
\* Device.Mutex and so stops every other packet of the host, unless the
\* controller is in one of these two waits.
CallsReturn ==
    /\ (reader # "idle") ~> (reader = "idle" \/ Stuck)
    /\ (handler = "AddRead") ~> (handler = "idle" \/ Stuck)

\* Bytes of the stream that add2Read has stored, and those that readFromRecv
\* has cut out of the ring.
Stored == rcvNxt - 1 - fin
HandedOut == IF ctl = "reply" THEN delivered \o ctlData ELSE delivered

\* The receive half is a bounded FIFO: bytes count as accepted when add2Read
\* stores them and as handed out when readFromRecv cuts them from the ring.
\* The byte that readFromRecv hands out for the FIN's position, which the peer
\* never sent, is not one of the stream and is cut off.
Stream == INSTANCE ByteStream
            WITH Capacity <- TcbSize,
                 taken <- Stored,
                 out <- SubSeq(HandedOut, 1, Smaller(Len(HandedOut), Stored))

ImplementsByteStream == Stream!Spec
=============================================================================
