------------------------------ MODULE SendPath ------------------------------
(***************************************************************************)
(* The send half of a TCB: the ring sendBuf, the goroutine                 *)
(* tcbSendController that owns it, several application threads in VWrite,  *)
(* the goroutine windowProbing, and the handler of acknowledgements.  At   *)
(* the other end is the same program's receiver, as far as it decides what *)
(* is acknowledged and which window is announced.                          *)
(*                                                                         *)
(* The channels are unbuffered: a send and its receive are one step.       *)
(* windowSendSignal is sent to in a select with a default.  The handler's  *)
(* send succeeds only while the controller is at its receive; the sends by *)
(* the controller itself never do.  The controller tests a condition and   *)
(* then receives: in between (addGap, readGap) a signal is missed.         *)
(*                                                                         *)
(* Sequence numbers are offsets from iss and do not wrap here.  The byte   *)
(* that add2Send stores at offset i has the value i, so a byte out of      *)
(* place shows.                                                            *)
(***************************************************************************)
EXTENDS Integers, Sequences, FiniteSets, Functions, SeqSpace

CONSTANTS Writers,    \* threads that write to this connection: REPL, sendFile
          WriteLen,   \* how many bytes each of them writes
          Mss,        \* largest payload of a segment
          MaxInFlight \* bound: segments and acknowledgements on their way

ASSUME SendAssumption ==
    /\ IsFiniteSet(Writers)
    /\ WriteLen \in [Writers -> Nat \ {0}]
    /\ Mss \in Nat \ {0}
    /\ MaxInFlight \in Nat \ {0}

VARIABLES
    sendBuf, sendUna, sendNxt, sendLbr, sendWnd, sendWl2,  \* the TCB's fields
    ctl,        \* where tcbSendController is
    ctlCount,   \* length of the payload it took, or of the read it serves
    firstByte,  \* the byte of the zero-window probe, if windowProbe
    windowProbe,
    prober,     \* payloads windowProbing has taken and not yet sent
    writer,     \* per thread: where VWrite is, its bytesSent, segData, dataSend
    net, acks,  \* segments to the peer, acknowledgements from it
    peer,       \* the receiver: rcvNxt, rcvWnd, and its own controller
    out,        \* history: the bytes that left the ring, in order
    missed,     \* history: a signal came between a test and the receive
    overlap,    \* history: two threads were between AddSend and send
    overrun     \* history: the peer's window was, or was announced, too small

tcb == <<sendBuf, sendUna, sendNxt, sendLbr, sendWnd, sendWl2>>
controller == <<ctl, ctlCount, firstByte, windowProbe>>
network == <<net, acks, peer>>
flags == <<missed, overlap, overrun>>
vars == <<tcb, controller, prober, writer, network, out, flags>>

Least(a, b) == IF a < b THEN a ELSE b

\* createTCB, after the handshake has acknowledged the SYN.
Init ==
    /\ sendBuf = [i \in 0..TcbSize |-> 0]
    /\ sendUna = 1
    /\ sendNxt = 1
    /\ sendLbr = 1
    /\ sendWnd = TcbSize
    /\ sendWl2 = 1
    /\ ctl = "select"
    /\ ctlCount = 0
    /\ firstByte = << >>
    /\ windowProbe = FALSE
    /\ prober = << >>
    /\ writer = [w \in Writers |-> [pc |-> "idle", sent |-> 0, seg |-> 0, data |-> << >>]]
    /\ net = << >>
    /\ acks = << >>
    /\ peer = [rcvNxt |-> 1, rcvWnd |-> TcbSize, ctl |-> "ready"]
    /\ out = << >>
    /\ missed = FALSE
    /\ overlap = FALSE
    /\ overrun = FALSE

getSendCapacity == TcbSize - wrappedDist(sendNxt, sendUna)

-----------------------------------------------------------------------------
(* VWrite                                                                   *)

VWrite(w) ==
    /\ writer[w].pc = "idle"
    /\ writer' = [writer EXCEPT ![w].pc = "loop"]
    /\ UNCHANGED <<tcb, controller, prober, network, out, flags>>

\* mutant: a segment may be larger than Mss
lastIdxNoMss(w) == Least(WriteLen[w] - writer[w].sent, getSendCapacity)
lastIdx(w) == Least(Least(Mss, WriteLen[w] - writer[w].sent), getSendCapacity)

\* The head of the loop: the capacity, read without a lock, decides how much
\* the next segment takes; never nothing.
Segment(w) ==
    /\ writer[w].pc = "loop"
    /\ writer' = [writer EXCEPT ![w].pc = "AddSend",
                                ![w].seg = IF lastIdx(w) = 0 THEN 1 ELSE lastIdx(w)]
    /\ UNCHANGED <<tcb, controller, prober, network, out, flags>>

\* tcb.dataToSendSignal <- payload
AddSend(w) ==
    /\ writer[w].pc = "AddSend"
    /\ ctl = "select"
    /\ writer' = [writer EXCEPT ![w].pc = "ReadSend"]
    /\ ctl' = "addTest"
    /\ ctlCount' = writer[w].seg
    /\ overlap' = (overlap \/ \E v \in Writers \ {w} :
                                  writer[v].pc \in {"ReadSend", "bytesReadSend", "send"})
    /\ UNCHANGED <<tcb, firstByte, windowProbe, prober, network, out, missed, overrun>>

\* mutant: at most Mss - 1 bytes are read
readFromSendShort(count) ==
    [k \in 1..Least(Least(sendNxt - sendLbr, Mss - 1), count) |->
        sendBuf[wrapIndex(sendLbr + k - 1)]]
\* The slice of the ring that readFromSend copies for count bytes.
readFromSend(count) ==
    LET dist     == Least(Least(sendNxt - sendLbr, Mss), count)
        startIdx == wrapIndex(sendLbr)
        minIdx   == wrapIndex(sendLbr + dist)
        size     == IF startIdx > minIdx THEN (WndMod - startIdx) + minIdx
                                         ELSE minIdx - startIdx
    IN  [k \in 1..size |-> sendBuf[wrapIndex(startIdx + k - 1)]]

\* tcb.bytesToSend <- numBytes, and what the controller does before its loop:
\* with a closed window the byte of the probe is taken out of the ring.
ReadSend(w) ==
    /\ writer[w].pc = "ReadSend"
    /\ ctl = "select"
    /\ writer' = [writer EXCEPT ![w].pc = "bytesReadSend"]
    /\ ctl' = "readTest"
    /\ ctlCount' = writer[w].seg
    /\ windowProbe' = (sendWnd = 0)
    /\ firstByte' = IF sendWnd = 0 THEN readFromSend(1) ELSE << >>
    /\ sendLbr' = sendLbr + Len(firstByte')
    /\ out' = out \o firstByte'
    /\ UNCHANGED <<sendBuf, sendUna, sendNxt, sendWnd, sendWl2, prober, network, flags>>

SeqNumFromUna(w) == sendUna   \* mutant: the oldest number not acknowledged
SeqNumOf(w) == sendNxt - Len(writer[w].data)

\* conn.send: the number is computed from sendNxt as it is now.
Send(w) ==
    /\ writer[w].pc = "send"
    /\ net' = Append(net, [seq |-> SeqNumOf(w), payload |-> writer[w].data, probe |-> FALSE])
    /\ LET sent == writer[w].sent + Len(writer[w].data)
       IN  writer' = [writer EXCEPT ![w] =
                        [pc |-> IF sent < WriteLen[w] THEN "loop" ELSE "done",
                         sent |-> sent, seg |-> 0, data |-> << >>]]
    /\ UNCHANGED <<tcb, controller, prober, acks, peer, out, flags>>

-----------------------------------------------------------------------------
(* tcbSendController: the branch of dataToSendSignal.                       *)

\* The loop's test fails: the controller goes to wait for a signal ...
AddMustWait ==
    /\ ctl = "addTest"
    /\ getSendCapacity < ctlCount
    /\ ctl' = "addGap"
    /\ UNCHANGED <<tcb, ctlCount, firstByte, windowProbe, prober, writer, network, out, flags>>

\* ... and is at the receive.
AddWait ==
    /\ ctl = "addGap"
    /\ ctl' = "addWait"
    /\ UNCHANGED <<tcb, ctlCount, firstByte, windowProbe, prober, writer, network, out, flags>>

\* mutant: the index is wrapped once, not after each byte
SlotOnce(k) == Least(wrapIndex(sendNxt) + k, TcbSize)
\* Where add2Send puts the byte k places after sendNxt.
Slot(k) == wrapIndex(sendNxt + k)

Add2Send ==
    /\ ctl = "addTest"
    /\ getSendCapacity >= ctlCount
    /\ sendBuf' = [i \in 0..TcbSize |->
                     IF \E k \in 0..(ctlCount - 1) : Slot(k) = i
                     THEN sendNxt + CHOOSE k \in 0..(ctlCount - 1) : Slot(k) = i
                     ELSE sendBuf[i]]
    /\ sendNxt' = sendNxt + ctlCount
    /\ ctl' = "select"
    /\ UNCHANGED <<sendUna, sendLbr, sendWnd, sendWl2, ctlCount, firstByte, windowProbe,
                   prober, writer, network, out, flags>>

-----------------------------------------------------------------------------
(* tcbSendController: the branch of bytesToSend.                            *)

NothingUnacked == getSendCapacity = TcbSize

ReadMustWait ==
    /\ ctl = "readTest"
    /\ NothingUnacked
    /\ ctl' = "readGap"
    /\ UNCHANGED <<tcb, ctlCount, firstByte, windowProbe, prober, writer, network, out, flags>>

ReadWait ==
    /\ ctl = "readGap"
    /\ ctl' = "readWait"
    /\ UNCHANGED <<tcb, ctlCount, firstByte, windowProbe, prober, writer, network, out, flags>>

\* The window is closed: windowProbing gets the byte if it is at its receive.
Probe ==
    /\ ctl = "readTest"
    /\ ~NothingUnacked
    /\ sendWnd = 0
    /\ prober' = IF prober = << >> THEN <<firstByte>> ELSE prober
    /\ ctl' = "probeWait"
    /\ UNCHANGED <<tcb, ctlCount, firstByte, windowProbe, writer, network, out, flags>>

\* The timer of one second, longer than a round trip of the bounded network.
ProbeTimer ==
    /\ ctl = "probeWait"
    /\ Len(net) + Len(acks) + Len(prober) < MaxInFlight
    /\ ctl' = "readTest"
    /\ UNCHANGED <<tcb, ctlCount, firstByte, windowProbe, prober, writer, network, out, flags>>

\* tcb.bytesReadSend <- tcb.readFromSend(numBytesToRead)
ReadReply(w) ==
    /\ ctl = "readTest"
    /\ ~NothingUnacked
    /\ sendWnd > 0
    /\ writer[w].pc = "bytesReadSend"
    /\ LET dataSend == readFromSend(IF windowProbe THEN ctlCount - 1 ELSE ctlCount)
       IN  /\ writer' = [writer EXCEPT ![w].pc = "send", ![w].data = dataSend]
           /\ sendLbr' = sendLbr + Len(dataSend)
           /\ out' = out \o dataSend
    /\ ctl' = "select"
    /\ firstByte' = << >>
    /\ windowProbe' = FALSE
    /\ UNCHANGED <<sendBuf, sendUna, sendNxt, sendWnd, sendWl2, ctlCount, prober, network, flags>>

-----------------------------------------------------------------------------
(* windowProbing                                                            *)

WindowProbing ==
    /\ prober # << >>
    /\ net' = Append(net, [seq |-> sendNxt, payload |-> Head(prober), probe |-> TRUE])
    /\ prober' = << >>
    /\ UNCHANGED <<tcb, controller, writer, acks, peer, out, flags>>

-----------------------------------------------------------------------------
(* The handler of an acknowledgement: handleAckOtherStates.                 *)

\* mutant: only a window that was closed is announced to the controller
SignalledProbe(c) == IF c = "probeWait" THEN "readTest" ELSE c
\* Where the controller goes when somebody sends on windowSendSignal.
Signalled(c) ==
    CASE c = "addWait" -> "addTest"
      [] c \in {"readWait", "probeWait"} -> "readTest"
      [] OTHER -> c

UpdateWindow(a) ==
    IF sendWl2 <= a.ack
    THEN /\ sendWnd' = a.wnd
         /\ sendWl2' = a.ack
         /\ ctl' = Signalled(ctl)
         /\ missed' = (missed \/ ctl \in {"addGap", "readGap"})
         /\ overrun' = (overrun \/ a.wnd = 0)
    ELSE UNCHANGED <<sendWnd, sendWl2, ctl, missed, overrun>>

HandleAck ==
    /\ acks # << >>
    /\ acks' = Tail(acks)
    /\ LET a == Head(acks)
       IN  \/ /\ isAckAcceptable(sendUna, sendNxt, a.ack)
              /\ sendUna' = sendUna + wrappedDist(sendUna, a.ack)
              /\ UpdateWindow(a)
              /\ net' = net
           \/ /\ a.ack <= sendUna
              /\ UNCHANGED <<sendUna, sendWnd, sendWl2, ctl, missed, overrun, net>>
           \/ /\ a.ack > sendNxt
              /\ net' = Append(net, [seq |-> sendNxt, payload |-> << >>, probe |-> FALSE])
              /\ UNCHANGED <<sendUna, sendWnd, sendWl2, ctl, missed, overrun>>
    /\ UNCHANGED <<sendBuf, sendNxt, sendLbr, ctlCount, firstByte, windowProbe, prober,
                   writer, peer, out, overlap>>

-----------------------------------------------------------------------------
(* The receiver: handleOtherStates for a segment, and VRead.                *)

\* Text that passes isSegmentAcceptable is appended at rcvNxt and answered
\* with the number after it; the window in the answer is read before or after
\* add2Read has run.  Text that is larger than the window stops the peer's
\* controller, and the text after that its handler.
PeerTakes(s) ==
    /\ isSegmentAcceptable(peer.rcvNxt, peer.rcvWnd, s.seq, Len(s.payload))
    /\ \/ /\ s.payload = << >>
          /\ UNCHANGED <<peer, acks, overrun>>
       \/ /\ s.payload # << >>
          /\ peer.ctl = "ready"
          /\ Len(s.payload) <= peer.rcvWnd
          /\ peer' = [peer EXCEPT !.rcvNxt = @ + Len(s.payload),
                                  !.rcvWnd = @ - Len(s.payload)]
          /\ \E wnd \in {peer.rcvWnd, peer'.rcvWnd} :
                acks' = Append(acks, [ack |-> s.seq + Len(s.payload), wnd |-> wnd])
          /\ overrun' = overrun
       \/ /\ s.payload # << >>
          /\ peer.ctl = "ready"
          /\ Len(s.payload) > peer.rcvWnd
          /\ peer' = [peer EXCEPT !.ctl = "full"]
          /\ acks' = Append(acks, [ack |-> s.seq + Len(s.payload), wnd |-> peer.rcvWnd])
          /\ overrun' = TRUE
       \/ /\ s.payload # << >>
          /\ peer.ctl = "full"
          /\ peer' = [peer EXCEPT !.ctl = "blocked"]
          /\ UNCHANGED <<acks, overrun>>

PeerRefuses(s) ==
    /\ ~isSegmentAcceptable(peer.rcvNxt, peer.rcvWnd, s.seq, Len(s.payload))
    /\ acks' = Append(acks, [ack |-> peer.rcvNxt, wnd |-> peer.rcvWnd])
    /\ overrun' = (overrun \/ s.payload # << >>)
    /\ peer' = peer

PeerReceive ==
    /\ net # << >>
    /\ peer.ctl # "blocked"
    /\ net' = Tail(net)
    /\ PeerTakes(Head(net)) \/ PeerRefuses(Head(net))
    /\ UNCHANGED <<tcb, controller, prober, writer, out, missed, overlap>>

\* VRead of a buffer that is not empty; it sends nothing to this end.  A VRead
\* of an empty one stops the peer's read controller for good, and then its
\* handler (tcb.go:158-161): that is RecvPath's subject, not a step here.
PeerRead ==
    /\ peer.ctl = "ready"
    /\ \E wnd \in (peer.rcvWnd + 1)..TcbSize : peer' = [peer EXCEPT !.rcvWnd = wnd]
    /\ UNCHANGED <<tcb, controller, prober, writer, net, acks, out, flags>>

-----------------------------------------------------------------------------
Controller ==
    \/ AddMustWait \/ AddWait \/ Add2Send
    \/ ReadMustWait \/ ReadWait \/ Probe \/ ProbeTimer
    \/ \E w \in Writers : ReadReply(w)

Next ==
    \/ \E w \in Writers : VWrite(w) \/ Segment(w) \/ AddSend(w) \/ ReadSend(w) \/ Send(w)
    \/ Controller
    \/ WindowProbing
    \/ HandleAck
    \/ PeerReceive
    \/ PeerRead

Spec == Init /\ [][Next]_vars

\* Goroutines that can run do, and packets arrive; Go's select chooses at
\* random among the threads that are ready.  Nobody has to write, or to read
\* at the other end.
FairSpec ==
    /\ Spec
    /\ WF_vars(Controller)
    /\ WF_vars(WindowProbing)
    /\ WF_vars(HandleAck)
    /\ WF_vars(PeerReceive)
    /\ \A w \in Writers :
        /\ WF_vars(Segment(w))
        /\ SF_vars(AddSend(w))
        /\ SF_vars(ReadSend(w))
        /\ WF_vars(Send(w))
-----------------------------------------------------------------------------
(* Properties.                                                              *)

TypeOK ==
    /\ sendBuf \in [0..TcbSize -> Nat]
    /\ {sendUna, sendNxt, sendLbr, sendWl2} \subseteq Nat
    /\ sendWnd \in 0..TcbSize
    /\ ctl \in {"select", "addTest", "addGap", "addWait", "readTest", "readGap", "readWait",
                "probeWait"}
    /\ ctlCount \in Nat
    /\ firstByte \in Seq(Nat)
    /\ prober \in Seq(Seq(Nat))
    /\ \A w \in Writers :
        /\ writer[w].pc \in {"idle", "loop", "AddSend", "ReadSend", "bytesReadSend", "send",
                             "done"}
        /\ writer[w].sent \in 0..WriteLen[w]
        /\ writer[w].seg \in 0..Mss
        /\ writer[w].data \in Seq(Nat)
    /\ peer.rcvNxt \in Nat
    /\ peer.rcvWnd \in 0..TcbSize
    /\ {windowProbe, missed, overlap, overrun} \subseteq BOOLEAN

\* As long as VWrite calls do not overlap, the text of every segment stands
\* at its own sequence number.  send computes the number backwards from
\* sendNxt, which AddSend moved and which is read without a lock.
SentAtOwnNumber ==
    overlap \/ \A i \in 1..Len(net) :
        ~net[i].probe => \A k \in 1..Len(net[i].payload) : net[i].payload[k] = net[i].seq + k - 1

\* When all calls of VWrite have returned, each byte of each caller was queued
\* once, however the calls interleaved, unless a window was closed: VWrite
\* takes the number of bytes sent for the number of bytes queued, and a
\* zero-window probe makes the two differ.
WrittenOnce ==
    (\A w \in Writers : writer[w].pc = "done")
        => overrun \/ sendNxt = 1 + SumFunction(WriteLen)

\* A call of VWrite returns, whatever the interleaving with acknowledgements
\* and with a reader at the other end that never reads an empty buffer, except
\* when one of three things has happened: a signal fell between test and
\* receive, two calls overlapped, or the window was closed.
WriteReturns ==
    \A w \in Writers :
        (writer[w].pc # "idle") ~> (writer[w].pc = "done" \/ missed \/ overlap \/ overrun)

Stream == INSTANCE ByteStream
            WITH Capacity <- TcbSize, taken <- sendNxt - 1, out <- out

\* As long as VWrite calls do not overlap the ring is a bounded FIFO: no byte
\* is overwritten before it has left, none leaves twice or out of order, with
\* probes or without.  Two calls that overlap send text at numbers that are
\* not its own; the peer's answers then free slots of the ring that were
\* never read.
ImplementsByteStream ==
    Stream!Init /\ [][overlap' \/ Stream!Next]_<<sendNxt, out>>
=============================================================================
