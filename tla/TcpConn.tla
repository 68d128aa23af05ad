------------------------------ MODULE TcpConn ------------------------------
(***************************************************************************)
(* TCP between two hosts: VConnect on the client, a listener with VAccept  *)
(* on the server, the segment handlers of socketHandlers.go on both,       *)
(* VWrite, VClose, the retransmission stack and the TIME-WAIT timer.       *)
(*                                                                         *)
(* The client opens one connection.  The listener opens one for any SYN    *)
(* that finds none in ConnTable, with an ISS of its own each time: a SYN   *)
(* that comes late or twice makes another connection of the server.        *)
(*                                                                         *)
(* A handler runs under Device.Mutex and is one step.  VWrite and VClose   *)
(* take no lock where they read the pointers, and are two steps each.      *)
(* Every packet is handled by a goroutine of its own (protocol.go, Listen: *)
(* "go d.Handler"), so packets may be handled out of order even when the   *)
(* network keeps it: Reorder.  What a send could not send is a packet      *)
(* lost: its error is not looked at here.                                  *)
(*                                                                         *)
(* Byte i of a peer's stream has the value i.  The receive ring and its    *)
(* goroutine are the subject of RecvPath; here add2Read stores the payload *)
(* in the handler's step, if it fits, and nobody reads.                    *)
(***************************************************************************)
EXTENDS Integers, Sequences, SeqSpace

CONSTANTS ClientIss,      \* the random initial sequence number of the client
          ServerIss,      \* those of the server's connections, in turn; their
                          \* number is a bound
          ClientBytes, ServerBytes,  \* bounds: bytes each connection writes
          MaxSegment,     \* Mss
          ClientCloses, ServerCloses, \* bounds: calls of VClose per connection
          MaxRetransmits, \* bound: retransmissions in all
          Reorder,        \* may handlers run out of order?
          Lossy,          \* may the network lose a packet?
          Timeouts,       \* may VConnect and VAccept give up?
          ConcurrentApp   \* may VClose run while a VWrite is under way?

ASSUME ConnAssumption ==
    /\ ClientIss \in 0..(SeqMod - 1)
    /\ ServerIss \in Seq(0..(SeqMod - 1)) /\ Len(ServerIss) > 0
    /\ ClientBytes \in Nat
    /\ ServerBytes \in Nat
    /\ MaxSegment \in Nat \ {0}
    /\ ClientCloses \in Nat
    /\ ServerCloses \in Nat
    /\ MaxRetransmits \in Nat
    /\ {Reorder, Lossy, Timeouts, ConcurrentApp} \subseteq BOOLEAN

\* The connections: the client's, and those that VAccept opens, in turn.
Client == 0
Accepted == 1..Len(ServerIss)
Ends == 0..Len(ServerIss)

Iss(p) == IF p = Client THEN ClientIss ELSE ServerIss[p]

Hosts == {"client", "server"}
Other(h) == IF h = "client" THEN "server" ELSE "client"
HostOf(p) == IF p = Client THEN "client" ELSE "server"
EndsOf(h) == {p \in Ends : HostOf(p) = h}

VARIABLES
    conn,       \* conn[p]: the VTcpConn p, with its TCB
    net,        \* net[h]: segments on their way to host h, oldest first
    pending,    \* pending[p]: bytes VWrite has taken from the send buffer
    closing,    \* closing[p]: the numbers a VClose under way has read, or none
    closes,     \* closes[p]: calls of VClose so far
    resends,    \* retransmissions so far
    written,    \* history: bytes VWrite has put in p's send buffer
    stored      \* history: bytes add2Read has put in p's receive buffer

vars == <<conn, net, pending, closing, closes, resends, written, stored>>

NoNumbers == [seq |-> -1, ack |-> -1]

\* Status, socket.go.  "None" stands for a VTcpConn not created yet.
Statuses == {"None", "SynSent", "SynRecv", "Established", "FinWait1", "FinWait2",
             "CloseWait", "Closing", "LastAck", "TimeWait", "Closed"}

\* mutant: the first window does not fit a uint16
NewConnWide(iss) ==
    [status |-> "None", inTable |-> FALSE, waiting |-> FALSE, timeWait |-> FALSE,
     iss |-> iss, irs |-> 0, sendUna |-> 0, sendNxt |-> 1, sendWnd |-> 0,
     sendWl1 |-> 0, sendWl2 |-> 0, rcvNxt |-> 0, rcvWnd |-> WndMod,
     queue |-> << >>]
\* CreateSocket and createTCB.
NewConn(iss) ==
    [status |-> "None", inTable |-> FALSE, waiting |-> FALSE, timeWait |-> FALSE,
     iss |-> iss, irs |-> 0, sendUna |-> 0, sendNxt |-> 1, sendWnd |-> 0,
     sendWl1 |-> 0, sendWl2 |-> 0, rcvNxt |-> 0, rcvWnd |-> TcbSize,
     queue |-> << >>]

-----------------------------------------------------------------------------
(* Building segments.  A handler maps a connection and a segment to a       *)
(* result: the connection afterwards, the segments sent, the bytes stored,  *)
(* and whether it returned early.                                           *)

Result(c) == [conn |-> c, out |-> << >>, data |-> << >>, done |-> FALSE]
Finish(r) == [r EXCEPT !.done = TRUE]

wrapFromIss(c, pointer) == wrapFrom(c.iss, pointer)
wrapFromIrs(c, pointer) == wrapFrom(c.irs, pointer)

CreateTcpPacket(c, seq, ack, flags, payload) ==
    [seq |-> seq, ack |-> ack, flags |-> flags, payload |-> payload, wnd |-> c.rcvWnd]

Entry(seq, flags, payload) == [seqNum |-> seq, flags |-> flags, payload |-> payload]

\* send: a segment that takes sequence numbers is kept for retransmission.
send(r, seq, ack, flags, payload) ==
    LET kept == flags \cap {"SYN", "FIN"} # {} \/ payload # << >>
    IN  [r EXCEPT
           !.out = Append(@, CreateTcpPacket(r.conn, seq, ack, flags, payload)),
           !.conn.queue = IF kept THEN Append(@, Entry(seq, flags, payload)) ELSE @]

sendFlags(r, seq, ack, flags) == send(r, seq, ack, flags, << >>)
sendAck(r, seq, ack) == sendFlags(r, seq, ack, {"ACK"})

sendRst(r, ack) ==
    [r EXCEPT !.out = Append(@, CreateTcpPacket(r.conn, 0, ack, {"RST"}, << >>))]

closeDelete(c) ==
    [c EXCEPT !.status = "Closed", !.queue = << >>, !.inTable = FALSE]

-----------------------------------------------------------------------------
(* The retransmission stack, retransmitQueue.go: Push and Pop work at the   *)
(* end of the slice, and so does Cleanup.                                   *)

Peek(queue) == queue[Len(queue)]

Acked(entry, wrappedUna) == wrappedCompare(entry.seqNum, wrappedUna) < 0

\* mutant: the entry that starts at SND.UNA is popped too
CleanupTooFar(queue, wrappedUna) ==
    IF queue # << >> /\ wrappedCompare(Peek(queue).seqNum, wrappedUna) <= 0
    THEN << >> ELSE queue
\* Entries left after popping acknowledged ones from the end.
Cleanup(queue, wrappedUna) ==
    LET acked(i) == Acked(queue[i], wrappedUna)
        keep == CHOOSE k \in 0..Len(queue) :
                    /\ \A i \in (k + 1)..Len(queue) : acked(i)
                    /\ k = 0 \/ ~acked(k)
    IN  SubSeq(queue, 1, keep)

\* Advance SND.UNA to ackNum and clean up.
Acknowledge(c, ackNum) ==
    LET una == c.sendUna + wrappedDist(wrapFromIss(c, c.sendUna), ackNum)
    IN  [c EXCEPT !.sendUna = una, !.queue = Cleanup(@, wrapFrom(c.iss, una))]

-----------------------------------------------------------------------------
(* Segment handlers, socketHandlers.go.                                     *)

\* mutant: IRS is confused with RCV.NXT
SynchroniseLate(c, s) == [c EXCEPT !.rcvNxt = 1, !.irs = (s.seq + 1) % SeqMod]
Synchronise(c, s) == [c EXCEPT !.rcvNxt = 1, !.irs = s.seq]

handleSynSentState(c, s) ==
    LET wrappedSendNxt == wrapFromIss(c, c.sendNxt)
        isAck == "ACK" \in s.flags
        acceptable == /\ isAck
                      /\ wrapFromIss(c, c.sendUna) <= s.ack
                      /\ s.ack <= wrappedSendNxt
        synced == Synchronise(c, s)
        c1 == IF acceptable THEN Acknowledge(synced, s.ack) ELSE synced
        established == [c1 EXCEPT !.status = "Established", !.waiting = FALSE]
        r == sendAck(Result(established), wrapFromIss(c1, c1.sendNxt),
                     wrapFromIrs(c1, c1.rcvNxt))
    IN  CASE isAck /\ (s.ack <= c.iss \/ s.ack > wrappedSendNxt) ->
               sendRst(Result(c), s.ack)
          [] OTHER ->
        CASE isAck /\ "RST" \in s.flags ->
               Result(IF acceptable THEN closeDelete(c) ELSE c)
          [] OTHER ->
        CASE "SYN" \notin s.flags -> Result(c)
          [] OTHER ->
        IF wrapFromIss(c1, c1.sendUna) > c.iss
        THEN [r EXCEPT !.conn.sendWnd = s.wnd, !.conn.sendWl1 = s.seq,
                       !.conn.sendWl2 = s.ack]
        ELSE LET r1 == sendFlags(Result(c1), c.iss, wrapFromIrs(c1, c1.rcvNxt),
                                 {"SYN", "ACK"})
             IN  [r1 EXCEPT !.conn.status = "SynRecv"]

\* SND.WND follows the newest segment.
UpdateWindow(c, s) ==
    IF c.sendWl1 < s.seq \/ (c.sendWl1 = s.seq /\ c.sendWl2 <= s.ack)
    THEN [c EXCEPT !.sendWnd = s.wnd, !.sendWl1 = s.seq, !.sendWl2 = s.ack]
    ELSE c

\* mutant: the CLOSING state is forgotten
AfterAckNoClosing(c, finAcked) ==
    IF c.status = "FinWait1" /\ finAcked THEN [c EXCEPT !.status = "FinWait2"] ELSE c
AfterAck(c, finAcked) ==
    CASE c.status = "FinWait1" /\ finAcked -> [c EXCEPT !.status = "FinWait2"]
      [] c.status = "Closing" /\ finAcked ->
           [c EXCEPT !.status = "TimeWait", !.timeWait = TRUE]
      [] OTHER -> c

handleAckOtherStates(r, s) ==
    LET c == r.conn
        wrappedSendNxt == wrapFromIss(c, c.sendNxt)
        wrappedUna == wrapFromIss(c, c.sendUna)
        acceptable == isAckAcceptable(wrappedUna, wrappedSendNxt, s.ack)
        c1 == IF acceptable THEN UpdateWindow(Acknowledge(c, s.ack), s) ELSE c
        finAcked == s.ack = wrappedSendNxt
    IN  IF ~acceptable /\ s.ack > wrappedUna /\ s.ack > wrappedSendNxt
        THEN Finish(sendAck(r, wrappedSendNxt, wrapFromIrs(c, c.rcvNxt)))
        ELSE [r EXCEPT !.conn = AfterAck(c1, finAcked)]

\* The ACK bit of an acceptable segment.  A LAST-ACK connection is deleted by
\* any ACK.
HandleAckBit(r, s) ==
    LET c == r.conn
        c1 == IF /\ c.status = "SynRecv"
                 /\ wrapFromIss(c, c.sendUna) <= s.ack
                 /\ s.ack <= wrapFromIss(c, c.sendNxt)
              THEN [c EXCEPT !.status = "Established", !.waiting = FALSE]
              ELSE c
    IN  CASE c1.status = "TimeWait" -> r
          [] c1.status = "LastAck" -> Finish([r EXCEPT !.conn = closeDelete(c1)])
          [] OTHER -> handleAckOtherStates([r EXCEPT !.conn = c1], s)

\* mutants: text is taken in ESTABLISHED only; the ACK is one too far
TakesTextEstablished(c) == c.status = "Established"
TakesText(c) == c.status \in {"Established", "FinWait1", "FinWait2"}
EndOfTextPlus(s) == (s.seq + Len(s.payload) + 1) % SeqMod
EndOfText(s) == (s.seq + Len(s.payload)) % SeqMod

\* The text of an acceptable segment: AddRead appends it at rcvNxt, wherever
\* in the window it starts; the ACK names the end of the segment.
HandleText(r, s, wrappedSendNxt) ==
    LET n == Len(s.payload)
        c1 == [r.conn EXCEPT !.rcvNxt = @ + n, !.rcvWnd = @ - n]
    IN  IF TakesText(r.conn) /\ n > 0
        THEN sendAck([r EXCEPT !.conn = c1, !.data = s.payload],
                     wrappedSendNxt, EndOfText(s))
        ELSE r

handleFinOtherStates(r, s) ==
    LET c == r.conn
        wrappedSendNxt == wrapFromIss(c, c.sendNxt)
        seqDist == wrappedDist(wrapFromIrs(c, c.rcvNxt), (s.seq + 1) % SeqMod)
        r1 == sendAck([r EXCEPT !.conn.rcvNxt = @ + seqDist], wrappedSendNxt,
                      wrapFromIrs(c, c.rcvNxt + seqDist))
        toTimeWait == [r1 EXCEPT !.conn.status = "TimeWait", !.conn.timeWait = TRUE]
    IN  CASE c.status = "Established" -> [r1 EXCEPT !.conn.status = "CloseWait"]
          [] c.status = "FinWait1" /\ s.ack = wrappedSendNxt -> toTimeWait
          [] c.status = "FinWait1" /\ s.ack # wrappedSendNxt ->
               [r1 EXCEPT !.conn.status = "Closing"]
          [] c.status = "FinWait2" -> toTimeWait
          [] OTHER -> r1

handleOtherStates(c, s) ==
    LET wrappedRcvNxt == wrapFromIrs(c, c.rcvNxt)
        wrappedSendNxt == wrapFromIss(c, c.sendNxt)
        acceptable == isSegmentAcceptable(wrappedRcvNxt, c.rcvWnd, s.seq, Len(s.payload))
        r == Result(c)
        acked == IF "ACK" \in s.flags THEN HandleAckBit(r, s) ELSE r
        text == HandleText(acked, s, wrappedSendNxt)
    IN  CASE ~acceptable /\ "RST" \in s.flags -> r
          [] ~acceptable /\ "RST" \notin s.flags ->
               sendAck(r, wrappedSendNxt, wrappedRcvNxt)
          [] acceptable /\ "RST" \in s.flags /\ s.seq = wrappedRcvNxt ->
               [sendRst(r, s.seq) EXCEPT !.conn = closeDelete(c)]
          [] OTHER ->
               IF acked.done \/ "FIN" \notin s.flags
               THEN IF acked.done THEN acked ELSE text
               ELSE handleFinOtherStates(text, s)

handleConnStatus(c, s) ==
    CASE c.status = "Closed" -> Result(c)
      [] c.status = "SynSent" -> handleSynSentState(c, s)
      [] OTHER -> handleOtherStates(c, s)

\* handleListenState, with the part of VAccept that answers a SYN.  A RST is
\* sent from a temporary socket, whose TCB is zero.
handleListenState(c, s) ==
    CASE "RST" \in s.flags -> Result(c)
      [] "RST" \notin s.flags /\ "ACK" \in s.flags ->
           [sendRst(Result([c EXCEPT !.rcvWnd = 0]), s.ack) EXCEPT !.conn = c]
      [] s.flags = {"SYN"} /\ c.status = "None" ->
           LET c1 == [c EXCEPT !.status = "SynRecv", !.inTable = TRUE,
                               !.waiting = TRUE, !.irs = s.seq, !.sendWl1 = s.seq,
                               !.sendWl2 = s.ack, !.rcvNxt = 1, !.sendWnd = s.wnd]
           IN  sendFlags(Result(c1), c.iss, wrapFromIrs(c1, 1), {"SYN", "ACK"})
      [] OTHER -> Result(c)

\* tcpHandler: the connection in ConnTable, else the listener, which only the
\* server has.
tcpHandler(p, s) ==
    CASE conn[p].inTable -> handleConnStatus(conn[p], s)
      [] ~conn[p].inTable /\ p # Client -> handleListenState(conn[p], s)
      [] OTHER -> Result(conn[p])

\* The connection whose turn it is to be opened (the last if the bound is
\* reached).
IsNext(p) ==
    /\ conn[p].status = "None" \/ p + 1 \notin EndsOf(HostOf(p))
    /\ \A q \in EndsOf(HostOf(p)) : q < p => conn[q].status # "None"

\* The connection a segment that comes to its host is for.
IsFor(p) ==
    \/ conn[p].inTable
    \/ IsNext(p) /\ \A q \in EndsOf(HostOf(p)) : ~conn[q].inTable

\* A SYN waits on listenChannel until VAccept has returned, or given up on,
\* the connection before.
VAcceptBusy(p, s) ==
    /\ p # Client /\ ~conn[p].inTable /\ s.flags = {"SYN"}
    /\ \E q \in Accepted : conn[q].waiting

-----------------------------------------------------------------------------
(* Actions.                                                                 *)

Init ==
    /\ conn = [p \in Ends |-> NewConn(Iss(p))]
    /\ net = [h \in Hosts |-> << >>]
    /\ pending = [p \in Ends |-> << >>]
    /\ closing = [p \in Ends |-> NoNumbers]
    /\ closes = [p \in Ends |-> 0]
    /\ resends = 0
    /\ written = [p \in Ends |-> 0]
    /\ stored = [p \in Ends |-> << >>]

\* p's connection becomes r's and what r sent is under way.
Apply(p, r) ==
    /\ conn' = [conn EXCEPT ![p] = r.conn]
    /\ net' = [net EXCEPT ![Other(HostOf(p))] = @ \o r.out]

\* VConnect up to its wait.
VConnect ==
    /\ conn[Client].status = "None"
    /\ LET c == [conn[Client] EXCEPT !.status = "SynSent", !.inTable = TRUE,
                                     !.waiting = TRUE]
       IN  Apply(Client, sendFlags(Result(c), c.iss, c.irs, {"SYN"}))
    /\ UNCHANGED <<pending, closing, closes, resends, written, stored>>

\* closeDelete(conn), called with conn = c: it deletes by key, and connections
\* of the server to one client port have one key.
Deleted(p, c) ==
    [q \in Ends |-> CASE q = p -> closeDelete(c)
                      [] q # p /\ HostOf(q) = HostOf(p) -> [conn[q] EXCEPT !.inTable = FALSE]
                      [] OTHER -> conn[q]]

\* VConnect or VAccept gives up: no signal came.
GiveUp(p) ==
    /\ Timeouts
    /\ conn[p].waiting
    /\ conn' = Deleted(p, [conn[p] EXCEPT !.waiting = FALSE])
    /\ UNCHANGED <<net, pending, closing, closes, resends, written, stored>>

DropAt(seq, i) == SubSeq(seq, 1, i - 1) \o SubSeq(seq, i + 1, Len(seq))

\* A goroutine of the host runs the handler of one packet.  Text for which
\* the window has no room waits in tcbReadController.
Receive(h) ==
    \E i \in 1..Len(net[h]), p \in EndsOf(h) :
        /\ Reorder \/ i = 1
        /\ IsFor(p)
        /\ ~VAcceptBusy(p, net[h][i])
        /\ \E r \in {tcpHandler(p, net[h][i])} :
            /\ Len(r.data) <= conn[p].rcvWnd
            /\ conn' = [conn EXCEPT ![p] = r.conn]
            /\ net' = [net EXCEPT ![h] = DropAt(@, i), ![Other(h)] = @ \o r.out]
            /\ stored' = [stored EXCEPT ![p] = @ \o r.data]
        /\ UNCHANGED <<pending, closing, closes, resends, written>>

Lose(h) ==
    /\ Lossy
    /\ \E i \in 1..Len(net[h]) : net' = [net EXCEPT ![h] = DropAt(@, i)]
    /\ UNCHANGED <<conn, pending, closing, closes, resends, written, stored>>

getSendCapacity(c) == TcbSize - wrappedDist(c.sendNxt, c.sendUna)

\* One round of VWrite's loop: AddSend and ReadSend ...
VWriteQueue(p) ==
    /\ conn[p].status = "Established"
    /\ pending[p] = << >>
    /\ ConcurrentApp \/ closing[p] = NoNumbers
    /\ conn[p].sendWnd > 0
    /\ \E n \in 1..MaxSegment :
        /\ written[p] + n <= (IF p = Client THEN ClientBytes ELSE ServerBytes)
        /\ n <= getSendCapacity(conn[p])
        /\ pending' = [pending EXCEPT ![p] = [i \in 1..n |-> written[p] + i]]
        /\ written' = [written EXCEPT ![p] = @ + n]
        /\ conn' = [conn EXCEPT ![p].sendNxt = @ + n]
    /\ UNCHANGED <<net, closing, closes, resends, stored>>

\* ... and send, which reads sendNxt and rcvNxt anew.
VWriteSend(p) ==
    /\ pending[p] # << >>
    /\ LET c == conn[p]
       IN  Apply(p, send(Result(c),
                         (wrapFromIss(c, c.sendNxt) - Len(pending[p])) % SeqMod,
                         wrapFromIrs(c, c.rcvNxt), {"ACK"}, pending[p]))
    /\ pending' = [pending EXCEPT ![p] = << >>]
    /\ UNCHANGED <<closing, closes, resends, written, stored>>

\* VClose reads the pointers before it takes the lock ...
VCloseRead(p) ==
    /\ conn[p].inTable
    /\ closes[p] < (IF p = Client THEN ClientCloses ELSE ServerCloses)
    /\ closing[p] = NoNumbers
    /\ ConcurrentApp \/ pending[p] = << >>
    /\ closing' = [closing EXCEPT ![p] =
                     [seq |-> wrapFromIss(conn[p], conn[p].sendNxt),
                      ack |-> wrapFromIrs(conn[p], conn[p].rcvNxt)]]
    /\ closes' = [closes EXCEPT ![p] = @ + 1]
    /\ UNCHANGED <<conn, net, pending, resends, written, stored>>

\* mutant: the passive closer is treated like the active one
StatusAfterFinSame(status) == "FinWait1"
StatusAfterFin(status) == IF status = "CloseWait" THEN "LastAck" ELSE "FinWait1"

\* ... and then acts on the status it finds.
CloseResult(c, numbers) ==
    CASE c.status = "SynSent" -> Result(closeDelete(c))
      [] c.status \in {"FinWait2", "TimeWait"} -> Result(c)
      [] OTHER ->
           sendFlags(Result([c EXCEPT !.status = StatusAfterFin(@), !.sendNxt = @ + 1]),
                     numbers.seq, numbers.ack, {"FIN", "ACK"})

VCloseRun(p) ==
    /\ closing[p] # NoNumbers
    /\ Apply(p, CloseResult(conn[p], closing[p]))
    /\ closing' = [closing EXCEPT ![p] = NoNumbers]
    /\ UNCHANGED <<pending, closes, resends, written, stored>>

\* rtoTimeout: the entry at the end of the queue is sent again.
Retransmit(p) ==
    /\ conn[p].status # "Closed"
    /\ conn[p].queue # << >>
    /\ resends < MaxRetransmits
    /\ LET c == conn[p]
           entry == Peek(c.queue)
       IN  net' = [net EXCEPT ![Other(HostOf(p))] =
                     Append(@, CreateTcpPacket(c, entry.seqNum, wrapFromIrs(c, c.rcvNxt),
                                               entry.flags, entry.payload))]
    /\ resends' = resends + 1
    /\ UNCHANGED <<conn, pending, closing, closes, written, stored>>

\* timeWaitTimeout
TimeWaitTimeout(p) ==
    /\ conn[p].timeWait
    /\ conn' = Deleted(p, [conn[p] EXCEPT !.timeWait = FALSE])
    /\ UNCHANGED <<net, pending, closing, closes, resends, written, stored>>

Next ==
    \/ VConnect
    \/ \E h \in Hosts : Receive(h) \/ Lose(h)
    \/ \E p \in Ends :
        \/ GiveUp(p)
        \/ VWriteQueue(p)
        \/ VWriteSend(p)
        \/ VCloseRead(p)
        \/ VCloseRun(p)
        \/ Retransmit(p)
        \/ TimeWaitTimeout(p)

Spec == Init /\ [][Next]_vars

\* Handlers run, calls under way proceed and the TIME-WAIT timer fires; the
\* user need not call anything, and retransmission is not relied upon.
FairSpec ==
    /\ Spec
    /\ \A h \in Hosts : WF_vars(Receive(h))
    /\ \A p \in Ends :
        /\ WF_vars(VWriteSend(p))
        /\ WF_vars(VCloseRun(p))
        /\ WF_vars(TimeWaitTimeout(p))
-----------------------------------------------------------------------------
(* Properties.                                                              *)

SeqNums == 0..(SeqMod - 1)

EntryOK(e) ==
    /\ e.seqNum \in SeqNums
    /\ e.flags \subseteq {"SYN", "ACK", "FIN"}
    /\ e.payload \in Seq(Nat)

SegmentOK(s) ==
    /\ s.seq \in SeqNums
    /\ s.ack \in SeqNums
    /\ s.flags \subseteq {"SYN", "ACK", "FIN", "RST"}
    /\ s.payload \in Seq(Nat)
    /\ s.wnd \in 0..TcbSize

ConnOK(c) ==
    /\ c.status \in Statuses
    /\ {c.inTable, c.waiting, c.timeWait} \subseteq BOOLEAN
    /\ {c.iss, c.irs, c.sendWl1, c.sendWl2} \subseteq SeqNums
    /\ {c.sendUna, c.sendNxt, c.rcvNxt} \subseteq Nat
    /\ {c.sendWnd, c.rcvWnd} \subseteq 0..TcbSize
    /\ \A i \in 1..Len(c.queue) : EntryOK(c.queue[i])

TypeOK ==
    /\ resends \in Nat
    /\ \A h \in Hosts : \A i \in 1..Len(net[h]) : SegmentOK(net[h][i])
    /\ \A p \in Ends :
        /\ ConnOK(conn[p])
        /\ pending[p] \in Seq(Nat)
        /\ closing[p] = NoNumbers \/ {closing[p].seq, closing[p].ack} \subseteq SeqNums
        /\ {closes[p], written[p]} \subseteq Nat
        /\ stored[p] \in Seq(Nat)

\* p has taken the SYN of the other host: its receive pointers are set.
Synced(p) == conn[p].rcvNxt > 0

\* p takes what it receives for the stream of q.
Hears(p, q) == HostOf(p) # HostOf(q) /\ Synced(p) /\ conn[p].irs = conn[q].iss

\* q is the connection at the other end of p, as far as both know.
Partners(p, q) == Hears(q, p) /\ (Synced(p) => Hears(p, q))

\* What add2Read stores is the peer's stream, in order, nothing missing and
\* nothing twice: handleOtherStates appends any text that isSegmentAcceptable
\* lets through at rcvNxt.
StreamIntegrity == \A p \in Ends : \A i \in 1..Len(stored[p]) : stored[p][i] = i

\* SND.UNA only covers what the peer's RCV.NXT covers: a byte that the sender
\* forgets (Cleanup) is a byte that the receiver has.
AckedIsReceived ==
    \A p, q \in Ends : Partners(p, q) => conn[p].sendUna <= conn[q].rcvNxt

\* A FIN that was processed came after the whole stream: the receiver that
\* reached a state after the peer's FIN has stored all that the peer wrote.
FinMeansAll ==
    \A p, q \in Ends :
        (/\ Partners(p, q)
         /\ conn[p].status \in {"CloseWait", "LastAck", "Closing", "TimeWait"})
            => Len(stored[p]) = written[q]

\* Does entry e of p's queue hold the number of the given pointer?
Holds(p, e, pointer) ==
    \E k \in 0..(IF e.payload = << >> THEN 0 ELSE Len(e.payload) - 1) :
        (e.seqNum + k) % SeqMod = wrapFrom(conn[p].iss, pointer)

\* Every number sent and not acknowledged is in the retransmission queue, so
\* that a lost segment can be sent again.
QueueCoversUnacked ==
    \A p \in Ends :
        conn[p].status \notin {"None", "Closed"} =>
            \A x \in conn[p].sendUna..(conn[p].sendNxt - 1 - Len(pending[p])) :
                \E i \in 1..Len(conn[p].queue) : Holds(p, conn[p].queue[i], x)

\* The transitions of the TCP state diagram, with deletion of the TCB.  One
\* segment with ACK and FIN takes two edges: SYN-RECEIVED, ESTABLISHED,
\* CLOSE-WAIT.
RfcEdges ==
    {<<"None", "SynSent">>, <<"None", "SynRecv">>,
     <<"SynSent", "Established">>, <<"SynSent", "SynRecv">>,
     <<"SynRecv", "Established">>, <<"SynRecv", "FinWait1">>, <<"SynRecv", "CloseWait">>,
     <<"Established", "FinWait1">>, <<"Established", "CloseWait">>,
     <<"FinWait1", "FinWait2">>, <<"FinWait1", "Closing">>, <<"FinWait1", "TimeWait">>,
     <<"FinWait2", "TimeWait">>, <<"Closing", "TimeWait">>, <<"CloseWait", "LastAck">>}
    \cup {<<s, "Closed">> : s \in {"SynSent", "LastAck", "TimeWait"}}

\* VConnect or VAccept gave up on p, or a reset came.
Aborts(p) ==
    /\ conn'[p].status = "Closed"
    /\ \/ conn[p].waiting
       \/ \E i \in 1..Len(net[HostOf(p)]) : "RST" \in net[HostOf(p)][i].flags

\* VClose ran on p after p had sent a FIN already.
ClosesAgain(p) ==
    /\ closing[p] # NoNumbers /\ closing'[p] = NoNumbers
    /\ conn[p].status \in {"Closing", "LastAck"}

FollowsRfc(p) ==
    (/\ conn[p].inTable \/ conn'[p].inTable
     /\ conn'[p].status # conn[p].status)
        => \/ <<conn[p].status, conn'[p].status>> \in RfcEdges
           \/ Aborts(p) \/ ClosesAgain(p)

\* As long as it is in ConnTable, a connection moves along the edges of the
\* state diagram only: handlers, VClose and timers, in whatever order they
\* come, find a status they know.  Apart are the ends by timeout and reset,
\* and VClose's default branch, which leads from any status to FIN-WAIT-1.
StatusFollowsRfc == [][\A p \in Ends : FollowsRfc(p)]_vars

\* A connection of the server was opened by the client's own SYN, and the
\* client has synchronised with a connection that the server did open.
NumbersAreReal ==
    /\ \A q \in Accepted : conn[q].status # "None" => Hears(q, Client)
    /\ Synced(Client) => \E q \in Accepted : conn[q].status # "None" /\ Hears(Client, q)

\* And a connection of the server that was acknowledged is the one the client
\* has: not one that a late SYN opened after the client had taken the SYN+ACK
\* of an earlier one.
HandshakeAgreement ==
    /\ NumbersAreReal
    /\ \A q \in Accepted :
          conn[q].sendUna > 0 \/ conn[q].status = "Established" => Hears(Client, q)

\* SND.UNA never passes SND.NXT, whatever is acknowledged.
UnaWithinSent == \A p \in Ends : conn[p].sendUna <= conn[p].sendNxt

\* An opening ends in ESTABLISHED unless someone closes.
HandshakeCompletes ==
    \A p \in Ends :
        (conn[p].status \in {"SynSent", "SynRecv"})
            ~> (conn[p].status = "Established" \/ \E q \in Ends : closes[q] > 0)

\* Two peers that were connected and that both closed are both deleted.
CloseCompletes ==
    \A q \in Accepted :
        (\A p \in {Client, q} : Synced(p) /\ closes[p] > 0)
            ~> (\A p \in {Client, q} : conn[p].status = "Closed")
=============================================================================
