---------------------------- MODULE TcpConnProofs ----------------------------
(***************************************************************************)
(* Proofs about the connections between two hosts, for every sequence      *)
(* space, every initial numbers, window and segment size, and for every    *)
(* network and every use of the calls that TcpConn's constants allow.      *)
(***************************************************************************)
EXTENDS TcpConn, WellFoundedInduction, TLAPS

-----------------------------------------------------------------------------
(* The inductive invariant.                                                 *)

Entries == [seqNum : SeqNums, flags : SUBSET {"SYN", "ACK", "FIN"}, payload : Seq(Nat)]

Segments == [seq : SeqNums, ack : SeqNums, flags : SUBSET {"SYN", "ACK", "FIN", "RST"},
             payload : Seq(Nat), wnd : Int]

Windows == 0..TcbSize

\* Inside a handler the receive window is an integer: that it is a window
\* again when the handler is done follows from the text having fitted.
Conns == [status : Statuses, inTable : BOOLEAN, waiting : BOOLEAN, timeWait : BOOLEAN,
          iss : SeqNums, irs : SeqNums, sendUna : Nat, sendNxt : Nat, sendWnd : Windows,
          sendWl1 : SeqNums, sendWl2 : SeqNums, rcvNxt : Nat, rcvWnd : Int,
          queue : Seq(Entries)]

\* A SYN that is kept for retransmission, or sent, has the initial number.
SynKept(c) == \A i \in 1..Len(c.queue) : "SYN" \in c.queue[i].flags => c.queue[i].seqNum = c.iss
SynSentAt(out, iss) == \A i \in 1..Len(out) : "SYN" \in out[i].flags => out[i].seq = iss
InWindows(out) == \A i \in 1..Len(out) : out[i].wnd \in Windows

\* Nothing but a connection that was opened sends a SYN.
Quiet(out) == \A i \in 1..Len(out) : "SYN" \notin out[i].flags

\* A connection in ConnTable is alive, and its TIME-WAIT timer runs in
\* TIME-WAIT only; one that was not opened has nothing to wait for and nothing
\* to send again.
Live(c) ==
    /\ c.inTable => c.status \notin {"None", "Closed"} /\ (c.timeWait => c.status = "TimeWait")
    /\ c.status = "None" => ~c.timeWait /\ ~c.waiting /\ c.queue = << >>

\* What a connection keeps true, whatever its handlers and calls do.
Sane(c) == c \in Conns /\ c.sendUna <= c.sendNxt /\ SynKept(c) /\ Live(c)

\* The numbers of the connections that host h has opened.
Opened(h) == {Iss(q) : q \in {x \in EndsOf(h) : conn[x].status # "None"}}

\* Between connection p and the other host, which has opened connections with
\* the given numbers.
Agrees(p, c, nums) ==
    /\ c.iss = Iss(p)
    /\ c.status \in {"None", "SynSent"} => c.rcvNxt = 0
    /\ c.rcvNxt > 0 => c.irs \in nums
    /\ c.inTable /\ c.status # "SynSent" => c.rcvNxt > 0
    /\ p # Client => c.status # "SynSent" /\ (c.status # "None" => c.rcvNxt > 0)

ConnInv ==
    /\ conn \in [Ends -> Conns]
    /\ \A p \in Ends :
        /\ Sane(conn[p]) /\ conn[p].rcvWnd \in Windows
        /\ Agrees(p, conn[p], Opened(Other(HostOf(p))))

\* What is on its way has a window that a segment can name and, if it is a
\* SYN, the number of a connection that was opened.
Fine(msgs, nums) ==
    \A i \in 1..Len(msgs) :
        msgs[i].wnd \in Windows /\ ("SYN" \in msgs[i].flags => msgs[i].seq \in nums)

NetInv ==
    /\ net \in [Hosts -> Seq(Segments)]
    /\ \A h \in Hosts : Fine(net[h], Opened(Other(h)))

CallInv ==
    /\ pending \in [Ends -> Seq(Nat)]
    /\ written \in [Ends -> Nat]
    /\ closing \in [Ends -> [seq : SeqNums, ack : SeqNums] \cup {NoNumbers}]
    /\ closes \in [Ends -> Nat]
    /\ resends \in Nat
    /\ stored \in [Ends -> Seq(Nat)]
    /\ \A p \in Ends : pending[p] # << >> \/ closing[p] # NoNumbers => conn[p].status # "None"

Inv == ConnInv /\ NetInv /\ CallInv

-----------------------------------------------------------------------------
(* Sequence numbers.                                                        *)

LEMMA ModFacts ==
    ASSUME NEW m \in Nat \ {0}, NEW x \in Nat
    PROVE  x = (m * (x \div m)) + (x % m) /\ x \div m \in Nat /\ x % m \in 0..(m - 1)
  OBVIOUS

LEMMA SeqModFacts == SeqMod \in Nat \ {0} /\ TcbSize \in Nat \ {0}
  BY SeqSpaceAssumption

LEMMA WrapType ==
    ASSUME NEW base \in Nat, NEW x \in Nat
    PROVE  wrapFrom(base, x) \in SeqNums
<1>1. base + x \in Nat
  OBVIOUS
<1> QED
  BY <1>1, SeqModFacts, ModFacts DEF wrapFrom, SeqNums

\* Along the sequence space a number grows by no more than its pointer does.
LEMMA WrapAdvance ==
    ASSUME NEW base \in Nat, NEW x \in Nat, NEW y \in Nat, x <= y
    PROVE  wrapFrom(base, y) <= wrapFrom(base, x) + (y - x)
<1> DEFINE m == SeqMod
           a == (base + x) \div m
           r == (base + x) % m
           b == (base + y) \div m
           t == (base + y) % m
<1>1. /\ m \in Nat \ {0}
      /\ base + x = (m * a) + r /\ a \in Nat /\ r \in 0..(m - 1)
      /\ base + y = (m * b) + t /\ b \in Nat /\ t \in 0..(m - 1)
  <2>1. base + x \in Nat /\ base + y \in Nat /\ m \in Nat \ {0}
    BY SeqModFacts
  <2> HIDE DEF m
  <2>2. base + x = (m * a) + r /\ a \in Nat /\ r \in 0..(m - 1)
    BY <2>1, ModFacts
  <2>3. base + y = (m * b) + t /\ b \in Nat /\ t \in 0..(m - 1)
    BY <2>1, ModFacts
  <2> QED
    BY <2>1, <2>2, <2>3
<1>2. wrapFrom(base, x) = r /\ wrapFrom(base, y) = t
  BY DEF wrapFrom
<1> HIDE DEF m, a, r, b, t
<1>3. m * a \in Nat /\ m * b \in Nat
  BY <1>1
<1>4. CASE a <= b
  <2>1. PICK d \in Nat : b = a + d
    BY <1>1, <1>4
  <2>2. m * b = (m * a) + (m * d) /\ m * d \in Nat
    BY <1>1, <2>1
  <2> QED
    BY <1>1, <1>2, <1>3, <2>2
<1>5. CASE b < a
  <2>1. PICK d \in Nat : a = b + 1 + d
    BY <1>1, <1>5
  <2>2. m * a = (m * b) + m + (m * d) /\ m * d \in Nat
    BY <1>1, <2>1
  <2> QED
    BY <1>1, <1>2, <1>3, <2>2
<1> QED
  BY <1>1, <1>4, <1>5

\* An acknowledgement that both comparisons of the code let through moves
\* SND.UNA forward, and not past SND.NXT: also where the numbers wrap between
\* the two, because the comparisons are then false.
LEMMA AckStays ==
    ASSUME NEW iss \in Nat, NEW una \in Nat, NEW nxt \in Nat, una <= nxt, NEW ack \in SeqNums,
           wrapFrom(iss, una) <= ack, ack <= wrapFrom(iss, nxt)
    PROVE  LET dist == wrappedDist(wrapFrom(iss, una), ack)
           IN  dist \in Nat /\ una + dist \in Nat /\ una <= una + dist /\ una + dist <= nxt
<1> DEFINE u == wrapFrom(iss, una)
           n == wrapFrom(iss, nxt)
<1>1. u \in Nat /\ n \in Nat /\ ack \in Nat /\ n <= u + (nxt - una)
  BY WrapType, WrapAdvance, SeqModFacts DEF SeqNums
<1> HIDE DEF u, n
<1>2. u <= ack /\ ack <= n
  BY DEF u, n
<1>3. wrappedDist(u, ack) \in Nat /\ wrappedDist(u, ack) <= nxt - una
  BY <1>1, <1>2, SeqModFacts DEF wrappedDist
<1> QED
  BY <1>3 DEF u

LEMMA LeastNat ==
    ASSUME NEW T, T \subseteq Nat, T # {}
    PROVE  \E x \in T : \A y \in T : x <= y
<1> DEFINE R == {ss \in Nat \X Nat : ss[1] < ss[2]}
<1>1. IsWellFoundedOn(R, Nat)
  BY NatLessThanWellFounded DEF OpToRel
<1>2. \A x, y \in Nat : x < y => <<x, y>> \in R
  OBVIOUS
<1> HIDE DEF R
<1>3. PICK x \in T : \A y \in T : ~ (<<y, x>> \in R)
  BY <1>1, WFMin
<1>4. ASSUME NEW y \in T PROVE x <= y
  <2>1. x \in Nat /\ y \in Nat
    OBVIOUS
  <2>2. ~(y < x)
    BY <1>2, <1>3, <2>1
  <2> QED
    BY <2>1, <2>2
<1> QED
  BY <1>4

\* What Cleanup leaves: everything up to the last entry that is not
\* acknowledged, acknowledged or not.
LEMMA CleanupFacts ==
    ASSUME NEW queue \in Seq(Entries), NEW una
    PROVE  \E keep \in 0..Len(queue) :
              /\ Cleanup(queue, una) = SubSeq(queue, 1, keep)
              /\ \A i \in (keep + 1)..Len(queue) : Acked(queue[i], una)
              /\ keep = 0 \/ ~Acked(queue[keep], una)
<1> DEFINE n == Len(queue)
           acked(i) == Acked(queue[i], una)
           Stop(k) == k = 0 \/ ~acked(k)
           T == {j \in 0..n : Stop(n - j)}
           P(k) == (\A i \in (k + 1)..n : acked(i)) /\ (k = 0 \/ ~acked(k))
<1>1. n \in Nat
  OBVIOUS
<1>2. Cleanup(queue, una) = SubSeq(queue, 1, CHOOSE k \in 0..n : P(k))
  BY DEF Cleanup
<1> HIDE DEF n, acked
<1>3. n \in T /\ T \subseteq Nat
  BY <1>1
<1>4. PICK j \in T : \A y \in T : j <= y
  BY <1>3, LeastNat
<1>5. n - j \in 0..n /\ Stop(n - j)
  BY <1>1, <1>4
<1>6. ASSUME NEW i \in (n - j + 1)..n PROVE acked(i)
  <2>1. n - i \in 0..n /\ n - i < j /\ n - (n - i) = i /\ i # 0
    BY <1>1, <1>4
  <2>2. n - i \notin T
    <3>1. j \in Nat /\ n - i \in Nat
      BY <1>1, <1>4, <2>1
    <3>2. n - i \in T => j <= n - i
      BY <1>4
    <3> HIDE DEF T
    <3> QED
      BY <2>1, <3>1, <3>2
  <2> QED
    BY <2>1, <2>2
<1>7. P(n - j)
  BY <1>5, <1>6
<1>8. \E k \in 0..n : P(k)
  BY <1>5, <1>7
<1> HIDE DEF P
<1>9. PICK k \in 0..n : k = (CHOOSE c \in 0..n : P(c)) /\ P(k)
  BY <1>8
<1> QED
  BY <1>2, <1>9 DEF P, n, acked

-----------------------------------------------------------------------------
(* Connections and the results of handlers.                                 *)

Results == [conn : Conns, out : Seq(Segments), data : Seq(Nat), done : BOOLEAN]

\* The text that a handler takes is what its window shrinks by.
Fits(c, r) ==
    /\ r.conn.rcvWnd = c.rcvWnd - Len(r.data)
    /\ r.conn.rcvWnd \in Windows => InWindows(r.out)

\* What no handler of a synchronised connection does: lose its numbers, move
\* a pointer back, or put a connection in the table.
Moves(c, d) ==
    /\ Sane(d) /\ d.status \notin {"None", "SynSent"}
    /\ d.iss = c.iss /\ d.irs = c.irs
    /\ c.sendUna <= d.sendUna /\ c.sendNxt <= d.sendNxt /\ c.rcvNxt <= d.rcvNxt
    /\ d.inTable => c.inTable

Handled(c, r) ==
    r \in Results /\ Moves(c, r.conn) /\ SynSentAt(r.out, c.iss) /\ Fits(c, r)

LEMMA ConnFields ==
    ASSUME NEW c \in Conns
    PROVE  /\ c.status \in Statuses /\ c.inTable \in BOOLEAN /\ c.waiting \in BOOLEAN
           /\ c.timeWait \in BOOLEAN /\ c.iss \in SeqNums /\ c.irs \in SeqNums
           /\ c.sendUna \in Nat /\ c.sendNxt \in Nat /\ c.sendWnd \in Windows
           /\ c.sendWl1 \in SeqNums /\ c.sendWl2 \in SeqNums /\ c.rcvNxt \in Nat
           /\ c.rcvWnd \in Int /\ c.queue \in Seq(Entries)
           /\ c.iss \in Nat /\ c.irs \in Nat
<1>1. \A n \in SeqNums : n \in Nat
  BY SeqModFacts DEF SeqNums
<1>2. c.iss \in SeqNums /\ c.irs \in SeqNums
  BY DEF Conns
<1> QED
  BY <1>1, <1>2 DEF Conns

LEMMA SegmentFields ==
    ASSUME NEW s \in Segments
    PROVE  /\ s.seq \in SeqNums /\ s.ack \in SeqNums /\ s.payload \in Seq(Nat) /\ s.wnd \in Int
           /\ s.flags \in SUBSET {"SYN", "ACK", "FIN", "RST"}
           /\ s.seq \in Nat /\ s.ack \in Nat /\ Len(s.payload) \in Nat
<1>1. \A n \in SeqNums : n \in Nat
  BY SeqModFacts DEF SeqNums
<1>2. s.seq \in SeqNums /\ s.ack \in SeqNums /\ s.payload \in Seq(Nat)
  BY DEF Segments
<1> QED
  BY <1>1, <1>2 DEF Segments

\* A segment and its entry in the queue.
LEMMA PacketType ==
    ASSUME NEW c \in Conns, NEW seq \in SeqNums, NEW ack \in SeqNums,
           NEW flags \in SUBSET {"SYN", "ACK", "FIN", "RST"}, NEW payload \in Seq(Nat)
    PROVE  LET s == CreateTcpPacket(c, seq, ack, flags, payload)
           IN  s \in Segments /\ s.flags = flags /\ s.seq = seq /\ s.wnd = c.rcvWnd
<1>1. c.rcvWnd \in Int
  BY ConnFields
<1> QED
  BY <1>1 DEF CreateTcpPacket, Segments

LEMMA EntryType ==
    ASSUME NEW seq \in SeqNums, NEW flags \in SUBSET {"SYN", "ACK", "FIN"}, NEW payload \in Seq(Nat)
    PROVE  LET e == Entry(seq, flags, payload)
           IN  e \in Entries /\ e.flags = flags /\ e.seqNum = seq
  BY DEF Entry, Entries

LEMMA SynAppend ==
    ASSUME NEW out \in Seq(Segments), NEW s \in Segments, NEW iss, SynSentAt(out, iss),
           "SYN" \in s.flags => s.seq = iss
    PROVE  Append(out, s) \in Seq(Segments) /\ SynSentAt(Append(out, s), iss)
<1>1. Append(out, s) \in Seq(Segments) /\ Len(Append(out, s)) = Len(out) + 1 /\ Len(out) \in Nat
  OBVIOUS
<1>2. ASSUME NEW i \in 1..Len(Append(out, s))
      PROVE  "SYN" \in Append(out, s)[i].flags => Append(out, s)[i].seq = iss
  <2>1. CASE i = Len(out) + 1
    BY <2>1
  <2>2. CASE i \in 1..Len(out)
    BY <2>2 DEF SynSentAt
  <2> QED
    BY <1>1, <2>1, <2>2
<1> QED
  BY <1>1, <1>2 DEF SynSentAt

LEMMA WndAppend ==
    ASSUME NEW out \in Seq(Segments), NEW s \in Segments, InWindows(out), s.wnd \in Windows
    PROVE  InWindows(Append(out, s))
<1>1. Len(Append(out, s)) = Len(out) + 1 /\ Len(out) \in Nat
  OBVIOUS
<1>2. ASSUME NEW i \in 1..Len(Append(out, s)) PROVE Append(out, s)[i].wnd \in Windows
  <2>1. CASE i = Len(out) + 1
    BY <2>1
  <2>2. CASE i \in 1..Len(out)
    BY <2>2 DEF InWindows
  <2> QED
    BY <1>1, <2>1, <2>2
<1> QED
  BY <1>2 DEF InWindows

LEMMA QueueAppend ==
    ASSUME NEW c \in Conns, SynKept(c), NEW e \in Entries, "SYN" \in e.flags => e.seqNum = c.iss
    PROVE  /\ Append(c.queue, e) \in Seq(Entries)
           /\ \A i \in 1..Len(Append(c.queue, e)) :
                 "SYN" \in Append(c.queue, e)[i].flags => Append(c.queue, e)[i].seqNum = c.iss
<1> DEFINE q == c.queue
<1>1. q \in Seq(Entries) /\ \A i \in 1..Len(q) : "SYN" \in q[i].flags => q[i].seqNum = c.iss
  BY ConnFields DEF SynKept
<1> HIDE DEF q
<1>2. Append(q, e) \in Seq(Entries) /\ Len(Append(q, e)) = Len(q) + 1 /\ Len(q) \in Nat
  BY <1>1
<1>3. ASSUME NEW i \in 1..Len(Append(q, e))
      PROVE  "SYN" \in Append(q, e)[i].flags => Append(q, e)[i].seqNum = c.iss
  <2>1. CASE i = Len(q) + 1
    BY <1>1, <2>1
  <2>2. CASE i \in 1..Len(q)
    BY <1>1, <2>2
  <2> QED
    BY <1>2, <2>1, <2>2
<1> QED
  BY <1>2, <1>3 DEF q

\* A result to which a segment with the given number and flags may be added.
Ready(r, seq, flags) ==
    /\ SynKept(r.conn) /\ SynSentAt(r.out, r.conn.iss)
    /\ "SYN" \in flags => seq = r.conn.iss

\* What send does to a result: one segment more to send and, in the queue,
\* at most the entry of that segment.
LEMMA SendFacts ==
    ASSUME NEW r \in Results, NEW seq \in SeqNums, NEW ack \in SeqNums,
           NEW flags \in SUBSET {"SYN", "ACK", "FIN"}, NEW payload \in Seq(Nat),
           Ready(r, seq, flags)
    PROVE  LET t == send(r, seq, ack, flags, payload)
           IN  /\ t \in Results /\ t.data = r.data /\ t.done = r.done
               /\ \E q \in Seq(Entries) : t.conn = [r.conn EXCEPT !.queue = q]
               /\ SynKept(t.conn) /\ SynSentAt(t.out, r.conn.iss)
               /\ r.conn.rcvWnd \in Windows /\ InWindows(r.out) => InWindows(t.out)
<1> DEFINE c == r.conn
           s == CreateTcpPacket(c, seq, ack, flags, payload)
           e == Entry(seq, flags, payload)
           kept == flags \cap {"SYN", "FIN"} # {} \/ payload # << >>
           q == IF kept THEN Append(c.queue, e) ELSE c.queue
           o == Append(r.out, s)
           t == send(r, seq, ack, flags, payload)
<1>1. /\ c \in Conns /\ r.out \in Seq(Segments) /\ r.data \in Seq(Nat)
      /\ SynKept(c) /\ SynSentAt(r.out, c.iss) /\ ("SYN" \in flags => seq = c.iss)
  BY DEF Results, Ready
<1>2. s \in Segments /\ s.flags = flags /\ s.seq = seq /\ s.wnd = c.rcvWnd
  <2>1. flags \in SUBSET {"SYN", "ACK", "FIN", "RST"}
    OBVIOUS
  <2> HIDE DEF c
  <2> QED
    BY ONLY <1>1, <2>1, seq \in SeqNums, ack \in SeqNums, payload \in Seq(Nat), PacketType
<1>3. e \in Entries /\ e.flags = flags /\ e.seqNum = seq
  BY EntryType
<1>4. t = [r EXCEPT !.out = o, !.conn.queue = q]
  BY DEF send
<1> HIDE DEF s, e, kept
<1>5. o \in Seq(Segments) /\ SynSentAt(o, c.iss)
  BY <1>1, <1>2, SynAppend
<1>12. c.rcvWnd \in Windows /\ InWindows(r.out) => InWindows(o)
  BY <1>1, <1>2, WndAppend
<1>6. /\ q \in Seq(Entries)
      /\ \A i \in 1..Len(q) : "SYN" \in q[i].flags => q[i].seqNum = c.iss
  <2>1. CASE kept
    BY <1>1, <1>3, <2>1, QueueAppend
  <2>2. CASE ~kept
    BY <1>1, <2>2, ConnFields DEF SynKept
  <2> QED
    BY <2>1, <2>2
<1> HIDE DEF q, o, t
<1>7. [c EXCEPT !.queue = q] \in Conns /\ [c EXCEPT !.queue = q].queue = q
      /\ [c EXCEPT !.queue = q].iss = c.iss
  BY <1>1, <1>6 DEF Conns
<1> DEFINE d == [c EXCEPT !.queue = q]
<1> HIDE DEF d
<1>8. t = [r EXCEPT !.out = o, !.conn = d]
  BY <1>4 DEF Results, d
<1>9. t.conn = d /\ t.out = o /\ t.data = r.data /\ t.done = r.done
  BY <1>8 DEF Results
<1>10. t \in Results
  BY <1>5, <1>7, <1>8 DEF Results, d
<1>11. SynKept(d)
  BY <1>6, <1>7 DEF SynKept, d
<1> QED
  BY <1>5, <1>6, <1>9, <1>10, <1>11, <1>12 DEF d, t

\* An assignment to the queue, and to nothing else.
LEMMA QueueOnly ==
    ASSUME NEW c \in Conns, NEW q \in Seq(Entries), NEW d, d = [c EXCEPT !.queue = q]
    PROVE  /\ d \in Conns /\ d.queue = q
           /\ d.status = c.status /\ d.inTable = c.inTable /\ d.waiting = c.waiting
           /\ d.timeWait = c.timeWait /\ d.iss = c.iss /\ d.irs = c.irs
           /\ d.sendUna = c.sendUna /\ d.sendNxt = c.sendNxt /\ d.sendWnd = c.sendWnd
           /\ d.sendWl1 = c.sendWl1 /\ d.sendWl2 = c.sendWl2 /\ d.rcvNxt = c.rcvNxt
           /\ d.rcvWnd = c.rcvWnd
  BY DEF Conns

\* A handler that sends goes on as it began.
LEMMA SendHandled ==
    ASSUME NEW c, NEW r, Handled(c, r), NEW seq \in SeqNums, NEW ack \in SeqNums,
           NEW flags \in SUBSET {"ACK", "FIN"}, NEW payload \in Seq(Nat)
    PROVE  LET t == send(r, seq, ack, flags, payload)
           IN  /\ Handled(c, t) /\ t.data = r.data /\ t.done = r.done
               /\ t.conn.status = r.conn.status
<1> DEFINE t == send(r, seq, ack, flags, payload)
<1>1. /\ r \in Results /\ Moves(c, r.conn) /\ SynSentAt(r.out, r.conn.iss)
      /\ SynKept(r.conn) /\ r.conn \in Conns /\ r.conn.iss = c.iss
  BY DEF Handled, Moves, Sane
<1>2. /\ t \in Results /\ t.data = r.data /\ t.done = r.done
      /\ SynKept(t.conn) /\ SynSentAt(t.out, r.conn.iss)
      /\ \E q \in Seq(Entries) : t.conn = [r.conn EXCEPT !.queue = q]
      /\ r.conn.rcvWnd \in Windows /\ InWindows(r.out) => InWindows(t.out)
  <2>1. flags \in SUBSET {"SYN", "ACK", "FIN"} /\ "SYN" \notin flags
    OBVIOUS
  <2>2. r \in Results /\ Ready(r, seq, flags)
    BY <1>1, <2>1 DEF Ready
  <2>3. flags \in SUBSET {"SYN", "ACK", "FIN"}
    BY <2>1
  <2>4. /\ t \in Results /\ t.data = r.data /\ t.done = r.done
        /\ SynKept(t.conn) /\ SynSentAt(t.out, r.conn.iss)
        /\ \E q \in Seq(Entries) : t.conn = [r.conn EXCEPT !.queue = q]
        /\ r.conn.rcvWnd \in Windows /\ InWindows(r.out) => InWindows(t.out)
    BY ONLY <2>2, <2>3, seq \in SeqNums, ack \in SeqNums, payload \in Seq(Nat), SendFacts
  <2> HIDE DEF t
  <2> QED
    BY <2>4
<1> HIDE DEF t
<1>3. PICK q \in Seq(Entries) : t.conn = [r.conn EXCEPT !.queue = q]
  BY <1>2
<1>4. Moves(c, t.conn) /\ t.conn.status = r.conn.status /\ t.conn.rcvWnd = r.conn.rcvWnd
  <2>1. /\ t.conn \in Conns /\ t.conn.status = r.conn.status /\ t.conn.inTable = r.conn.inTable
        /\ t.conn.timeWait = r.conn.timeWait /\ t.conn.rcvWnd = r.conn.rcvWnd
        /\ t.conn.iss = r.conn.iss /\ t.conn.irs = r.conn.irs /\ t.conn.sendUna = r.conn.sendUna
        /\ t.conn.sendNxt = r.conn.sendNxt /\ t.conn.rcvNxt = r.conn.rcvNxt
    BY <1>1, <1>3, QueueOnly
  <2> QED
    BY <1>1, <1>2, <2>1 DEF Moves, Sane, Live
<1>5. Fits(c, t)
  BY <1>2, <1>4 DEF Fits, Handled
<1> QED
  BY <1>1, <1>2, <1>4, <1>5 DEF Handled, t

\* A result begins with the connection as it is.
LEMMA ResultType ==
    ASSUME NEW c \in Conns
    PROVE  LET r == Result(c)
           IN  /\ r \in Results /\ r.conn = c /\ r.out = << >> /\ r.data = << >>
               /\ r.done = FALSE /\ (\A iss : SynSentAt(r.out, iss)) /\ Fits(c, r)
               /\ InWindows(r.out) /\ Quiet(r.out)
<1>1. << >> \in Seq(Nat) /\ << >> \in Seq(Segments) /\ FALSE \in BOOLEAN
  OBVIOUS
<1>2. Result(c) \in Results
  BY <1>1 DEF Result, Results
<1>3. c.rcvWnd = c.rcvWnd - 0
  BY ConnFields
<1> QED
  BY <1>2, <1>3 DEF Result, SynSentAt, Fits, InWindows, Quiet

LEMMA RstFacts ==
    ASSUME NEW r \in Results, NEW ack \in SeqNums, NEW iss, SynSentAt(r.out, iss)
    PROVE  LET t == sendRst(r, ack)
           IN  /\ t \in Results /\ t.conn = r.conn /\ t.data = r.data /\ SynSentAt(t.out, iss)
               /\ r.conn.rcvWnd \in Windows /\ InWindows(r.out) => InWindows(t.out)
<1> DEFINE zero == 0
           rst == {"RST"}
           none == << >>
           s == CreateTcpPacket(r.conn, zero, ack, rst, none)
           o == Append(r.out, s)
<1>1. r.conn \in Conns /\ r.out \in Seq(Segments)
  BY DEF Results
<1>2. zero \in SeqNums /\ rst \in SUBSET {"SYN", "ACK", "FIN", "RST"} /\ none \in Seq(Nat)
      /\ "SYN" \notin rst
  BY SeqModFacts DEF SeqNums
<1>3. sendRst(r, ack) = [r EXCEPT !.out = o]
  BY DEF sendRst
<1> HIDE DEF zero, rst, none
<1>4. s \in Segments /\ s.flags = rst /\ s.wnd = r.conn.rcvWnd
  BY <1>1, <1>2, PacketType
<1> HIDE DEF s
<1>5. o \in Seq(Segments) /\ SynSentAt(o, iss)
  BY <1>1, <1>2, <1>4, SynAppend
<1>6. r.conn.rcvWnd \in Windows /\ InWindows(r.out) => InWindows(o)
  BY <1>1, <1>4, WndAppend
<1> HIDE DEF o
<1> QED
  BY <1>3, <1>5, <1>6 DEF Results

LEMMA CloseDeleteFacts ==
    ASSUME NEW c \in Conns
    PROVE  LET d == closeDelete(c)
           IN  /\ d \in Conns /\ d.status = "Closed" /\ d.inTable = FALSE /\ d.queue = << >>
               /\ d.iss = c.iss /\ d.irs = c.irs /\ d.sendUna = c.sendUna /\ d.sendNxt = c.sendNxt
               /\ d.rcvNxt = c.rcvNxt /\ d.rcvWnd = c.rcvWnd /\ d.waiting = c.waiting
               /\ d.timeWait = c.timeWait /\ SynKept(d) /\ Live(d)
<1>1. << >> \in Seq(Entries) /\ "Closed" \in Statuses /\ FALSE \in BOOLEAN
  BY DEF Statuses
<1> DEFINE d == closeDelete(c)
<1>2. d = [c EXCEPT !.status = "Closed", !.queue = << >>, !.inTable = FALSE]
  BY DEF closeDelete
<1> HIDE DEF d
<1>3. d \in Conns
  BY <1>1, <1>2 DEF Conns
<1>4. /\ d.status = "Closed" /\ d.inTable = FALSE /\ d.queue = << >>
      /\ d.iss = c.iss /\ d.irs = c.irs /\ d.sendUna = c.sendUna /\ d.sendNxt = c.sendNxt
      /\ d.rcvNxt = c.rcvNxt /\ d.rcvWnd = c.rcvWnd /\ d.waiting = c.waiting
      /\ d.timeWait = c.timeWait
  BY <1>2 DEF Conns
<1>5. SynKept(d) /\ Live(d)
  BY <1>4 DEF SynKept, Live
<1> QED
  BY <1>3, <1>4, <1>5 DEF d

\* An acceptable acknowledgement advances SND.UNA, within what was sent.
LEMMA AcknowledgeFacts ==
    ASSUME NEW c, Sane(c), c.status # "None", NEW ack \in SeqNums,
           wrapFromIss(c, c.sendUna) <= ack, ack <= wrapFromIss(c, c.sendNxt)
    PROVE  LET d == Acknowledge(c, ack)
           IN  /\ Sane(d) /\ c.sendUna <= d.sendUna /\ d.sendNxt = c.sendNxt
               /\ d.status = c.status /\ d.inTable = c.inTable /\ d.iss = c.iss /\ d.irs = c.irs
               /\ d.rcvNxt = c.rcvNxt /\ d.rcvWnd = c.rcvWnd /\ d.waiting = c.waiting
<1> DEFINE una == c.sendUna + wrappedDist(wrapFromIss(c, c.sendUna), ack)
           q == Cleanup(c.queue, wrapFrom(c.iss, una))
           d == Acknowledge(c, ack)
<1>1. /\ c \in Conns /\ c.sendUna \in Nat /\ c.sendNxt \in Nat /\ c.sendUna <= c.sendNxt
      /\ c.iss \in Nat /\ c.queue \in Seq(Entries) /\ SynKept(c)
  BY ConnFields DEF Sane
<1>2. una \in Nat /\ c.sendUna <= una /\ una <= c.sendNxt
  BY <1>1, AckStays DEF wrapFromIss
<1>3. PICK keep \in 0..Len(c.queue) : q = SubSeq(c.queue, 1, keep)
  BY <1>1, CleanupFacts
<1>4. d = [c EXCEPT !.sendUna = una, !.queue = q]
  BY DEF Acknowledge
<1> HIDE DEF una, q, d
<1>5. /\ q \in Seq(Entries) /\ Len(q) <= Len(c.queue) /\ Len(q) \in Nat
      /\ \A i \in 1..Len(q) : q[i] = c.queue[i]
  BY <1>1, <1>3
<1>6. \A i \in 1..Len(q) : "SYN" \in q[i].flags => q[i].seqNum = c.iss
  <2>1. \A i \in 1..Len(q) : i \in 1..Len(c.queue)
    BY <1>1, <1>5
  <2> QED
    BY <1>1, <1>5, <2>1 DEF SynKept
<1>7. d \in Conns
  BY <1>1, <1>2, <1>4, <1>5 DEF Conns
<1>8. /\ d.sendUna = una /\ d.queue = q /\ d.sendNxt = c.sendNxt /\ d.status = c.status
      /\ d.inTable = c.inTable /\ d.iss = c.iss /\ d.irs = c.irs /\ d.rcvNxt = c.rcvNxt
      /\ d.rcvWnd = c.rcvWnd /\ d.waiting = c.waiting /\ d.timeWait = c.timeWait
  BY <1>1, <1>4 DEF Conns
<1>9. SynKept(d) /\ Live(d)
  BY <1>6, <1>8 DEF SynKept, Sane, Live
<1> QED
  BY <1>1, <1>2, <1>7, <1>8, <1>9 DEF Sane, d

\* Moves is kept by what the handlers do to a connection.
LEMMA MovesStatus ==
    ASSUME NEW c, NEW d, Moves(c, d), NEW status \in Statuses, status \notin {"None", "SynSent"},
           NEW waiting \in BOOLEAN, NEW timeWait \in BOOLEAN,
           status # "Closed", d.inTable /\ timeWait => status = "TimeWait",
           NEW e, e = [d EXCEPT !.status = status, !.waiting = waiting, !.timeWait = timeWait]
    PROVE  Moves(c, e)
<1>1. d \in Conns
  BY DEF Moves, Sane
<1>2. e \in Conns
  BY <1>1 DEF Conns
<1>3. /\ e.status = status /\ e.inTable = d.inTable /\ e.iss = d.iss /\ e.irs = d.irs
      /\ e.sendUna = d.sendUna /\ e.sendNxt = d.sendNxt /\ e.rcvNxt = d.rcvNxt /\ e.queue = d.queue
      /\ e.timeWait = timeWait /\ e.rcvWnd = d.rcvWnd
  BY <1>1 DEF Conns
<1>4. SynKept(e) /\ Live(e)
  BY <1>3 DEF Moves, Sane, SynKept, Live
<1>5. Moves(c, e)
  BY <1>2, <1>3, <1>4 DEF Moves, Sane
<1> QED
  BY <1>3, <1>5

LEMMA MovesClose ==
    ASSUME NEW c, NEW d, Moves(c, d)
    PROVE  Moves(c, closeDelete(d)) /\ closeDelete(d).rcvWnd = d.rcvWnd
<1> DEFINE e == closeDelete(d)
<1>1. d \in Conns
  BY DEF Moves, Sane
<1>2. /\ e \in Conns /\ e.status = "Closed" /\ e.inTable = FALSE /\ SynKept(e) /\ Live(e)
      /\ e.iss = d.iss /\ e.irs = d.irs /\ e.sendUna = d.sendUna /\ e.sendNxt = d.sendNxt
      /\ e.rcvNxt = d.rcvNxt /\ e.rcvWnd = d.rcvWnd
  BY <1>1, CloseDeleteFacts
<1> HIDE DEF e
<1>3. Moves(c, e)
  BY <1>2 DEF Moves, Sane
<1> QED
  BY <1>2, <1>3 DEF e

\* The pointers of the receiving side.
LEMMA MovesRcv ==
    ASSUME NEW c, NEW d, Moves(c, d), c.rcvNxt \in Nat, NEW n \in Nat, NEW wnd \in Int, NEW e,
           e = [d EXCEPT !.rcvNxt = @ + n, !.rcvWnd = wnd]
    PROVE  Moves(c, e)
<1>1. d \in Conns /\ d.rcvNxt \in Nat /\ c.rcvNxt <= d.rcvNxt
  BY ConnFields DEF Moves, Sane
<1>2. d.rcvNxt + n \in Nat /\ c.rcvNxt <= d.rcvNxt + n
  BY <1>1
<1> DEFINE m == d.rcvNxt + n
<1>3. e = [d EXCEPT !.rcvNxt = m, !.rcvWnd = wnd]
  BY <1>1
<1> HIDE DEF m
<1>4. m \in Nat /\ c.rcvNxt <= m
  BY <1>2 DEF m
<1>5. e \in Conns
  BY <1>1, <1>3, <1>4 DEF Conns
<1>6. /\ e.status = d.status /\ e.inTable = d.inTable /\ e.iss = d.iss /\ e.irs = d.irs
      /\ e.sendUna = d.sendUna /\ e.sendNxt = d.sendNxt /\ e.rcvNxt = m /\ e.queue = d.queue
      /\ e.timeWait = d.timeWait /\ e.rcvWnd = wnd
  BY <1>1, <1>3 DEF Conns
<1>7. SynKept(e) /\ Live(e)
  BY <1>6 DEF Moves, Sane, SynKept, Live
<1> QED
  BY <1>4, <1>5, <1>6, <1>7 DEF Moves, Sane

LEMMA MovesWnd ==
    ASSUME NEW c, NEW d, Moves(c, d), NEW s \in Segments, s.wnd \in Windows
    PROVE  LET e == [d EXCEPT !.sendWnd = s.wnd, !.sendWl1 = s.seq, !.sendWl2 = s.ack]
           IN  Moves(c, e) /\ e.rcvWnd = d.rcvWnd /\ e.status = d.status
<1> DEFINE e == [d EXCEPT !.sendWnd = s.wnd, !.sendWl1 = s.seq, !.sendWl2 = s.ack]
<1>1. d \in Conns
  BY DEF Moves, Sane
<1>2. s.wnd \in Windows /\ s.seq \in SeqNums /\ s.ack \in SeqNums
  BY SegmentFields
<1>3. e \in Conns
  BY <1>1, <1>2 DEF Conns
<1>4. /\ e.status = d.status /\ e.inTable = d.inTable /\ e.iss = d.iss /\ e.irs = d.irs
      /\ e.sendUna = d.sendUna /\ e.sendNxt = d.sendNxt /\ e.rcvNxt = d.rcvNxt /\ e.queue = d.queue
      /\ e.timeWait = d.timeWait /\ e.rcvWnd = d.rcvWnd
  BY <1>1 DEF Conns
<1> HIDE DEF e
<1>5. SynKept(e) /\ Live(e)
  BY <1>4 DEF Moves, Sane, SynKept, Live
<1>6. Moves(c, e)
  BY <1>3, <1>4, <1>5 DEF Moves, Sane
<1> QED
  BY <1>4, <1>6 DEF e

LEMMA MovesWindow ==
    ASSUME NEW c, NEW d, Moves(c, d), NEW s \in Segments, s.wnd \in Windows
    PROVE  LET e == UpdateWindow(d, s)
           IN  Moves(c, e) /\ e.rcvWnd = d.rcvWnd /\ e.status = d.status
  BY MovesWnd DEF UpdateWindow

LEMMA MovesAck ==
    ASSUME NEW c, NEW d, Moves(c, d), c.sendUna \in Nat, NEW ack \in SeqNums,
           wrapFromIss(d, d.sendUna) <= ack, ack <= wrapFromIss(d, d.sendNxt)
    PROVE  LET e == Acknowledge(d, ack)
           IN  Moves(c, e) /\ e.status = d.status /\ e.rcvWnd = d.rcvWnd
<1> DEFINE e == Acknowledge(d, ack)
<1>1. /\ Sane(e) /\ d.sendUna <= e.sendUna /\ e.sendNxt = d.sendNxt
      /\ e.status = d.status /\ e.inTable = d.inTable /\ e.iss = d.iss /\ e.irs = d.irs
      /\ e.rcvNxt = d.rcvNxt /\ e.rcvWnd = d.rcvWnd
  BY AcknowledgeFacts DEF Moves
<1> HIDE DEF e
<1>2. c.sendUna <= e.sendUna
  <2>1. d.sendUna \in Nat /\ e.sendUna \in Nat /\ c.sendUna <= d.sendUna
    BY <1>1, ConnFields DEF Moves, Sane
  <2> QED
    BY <1>1, <2>1
<1>3. Moves(c, e)
  BY <1>1, <1>2 DEF Moves
<1> QED
  BY <1>1, <1>3 DEF e

LEMMA HandledConn ==
    ASSUME NEW c, NEW r, Handled(c, r), NEW d, Moves(c, d), NEW data \in Seq(Nat),
           NEW done \in BOOLEAN, d.rcvWnd = c.rcvWnd - Len(data),
           d.rcvWnd \in Windows => InWindows(r.out)
    PROVE  Handled(c, [r EXCEPT !.conn = d, !.data = data, !.done = done])
<1> DEFINE t == [r EXCEPT !.conn = d, !.data = data, !.done = done]
<1>1. r \in Results /\ d \in Conns
  BY DEF Handled, Moves, Sane
<1>2. t \in Results /\ t.conn = d /\ t.out = r.out /\ t.data = data /\ t.done = done
  BY <1>1 DEF Results
<1> HIDE DEF t
<1>3. Handled(c, t)
  BY <1>2 DEF Handled, Fits
<1> QED
  BY <1>3 DEF t

\* The fields that an assignment to conn alone leaves.
LEMMA ConnOnly ==
    ASSUME NEW r \in Results, NEW d
    PROVE  [r EXCEPT !.conn = d] = [r EXCEPT !.conn = d, !.data = r.data, !.done = r.done]
           /\ r.data \in Seq(Nat) /\ r.done \in BOOLEAN
  BY DEF Results

LEMMA HandledNewConn ==
    ASSUME NEW c, NEW r, Handled(c, r), NEW d, Moves(c, d), d.rcvWnd = r.conn.rcvWnd
    PROVE  LET t == [r EXCEPT !.conn = d]
           IN  Handled(c, t) /\ t.conn = d /\ t.data = r.data /\ t.done = r.done
<1> DEFINE data == r.data
           done == r.done
           t == [r EXCEPT !.conn = d, !.data = data, !.done = done]
<1>1. r \in Results
  BY DEF Handled
<1>2. data \in Seq(Nat) /\ done \in BOOLEAN /\ [r EXCEPT !.conn = d] = t
  BY <1>1, ConnOnly
<1>5. d.rcvWnd = c.rcvWnd - Len(data) /\ (d.rcvWnd \in Windows => InWindows(r.out))
  BY DEF Handled, Fits
<1> HIDE DEF data, done
<1>3. Handled(c, t)
  BY <1>2, <1>5, HandledConn
<1>4. t.conn = d /\ t.data = data /\ t.done = done
  BY <1>1 DEF Results
<1> HIDE DEF t
<1> QED
  BY <1>2, <1>3, <1>4 DEF data, done

LEMMA HandledFinish ==
    ASSUME NEW c, NEW r, Handled(c, r)
    PROVE  Handled(c, Finish(r)) /\ Finish(r).data = r.data /\ Finish(r).conn = r.conn
<1>1. /\ Finish(r) \in Results /\ Finish(r).conn = r.conn /\ Finish(r).out = r.out
      /\ Finish(r).data = r.data
  <2>1. TRUE \in BOOLEAN /\ r \in Results
    BY DEF Handled
  <2> QED
    BY <2>1 DEF Finish, Results
<1> QED
  BY <1>1 DEF Handled, Fits

\* The numbers a segment is sent with.
LEMMA NumberTypes ==
    ASSUME NEW c \in Conns
    PROVE  /\ wrapFromIss(c, c.sendNxt) \in SeqNums /\ wrapFromIss(c, c.sendUna) \in SeqNums
           /\ wrapFromIrs(c, c.rcvNxt) \in SeqNums
           /\ \A n \in Nat : wrapFromIrs(c, n) \in SeqNums
  BY ConnFields, WrapType DEF wrapFromIss, wrapFromIrs

LEMMA SendAckHandled ==
    ASSUME NEW c, NEW r, Handled(c, r), NEW seq \in SeqNums, NEW ack \in SeqNums
    PROVE  LET t == sendAck(r, seq, ack)
           IN  /\ Handled(c, t) /\ t.data = r.data /\ t.done = r.done
               /\ t.conn.status = r.conn.status
<1> DEFINE flags == {"ACK"}
           none == << >>
<1>1. flags \in SUBSET {"ACK", "FIN"} /\ none \in Seq(Nat)
  OBVIOUS
<1>2. sendAck(r, seq, ack) = send(r, seq, ack, flags, none)
  BY DEF sendAck, sendFlags
<1> HIDE DEF flags, none
<1> QED
  BY <1>1, <1>2, SendHandled

\* The edges of the state diagram that a handler takes for an ACK and a FIN.
AckEdge(a, b) ==
    b = a \/ <<a, b>> \in {<<"SynRecv", "Established">>, <<"FinWait1", "FinWait2">>,
                           <<"Closing", "TimeWait">>, <<"LastAck", "Closed">>}

FinEdge(a, b) ==
    b = a \/ <<a, b>> \in {<<"Established", "CloseWait">>, <<"FinWait1", "Closing">>,
                           <<"FinWait1", "TimeWait">>, <<"FinWait2", "TimeWait">>}

Edge(a, b) == b = a \/ <<a, b>> \in RfcEdges

LEMMA AfterAckMoves ==
    ASSUME NEW c, NEW d, Moves(c, d), NEW finAcked
    PROVE  LET e == AfterAck(d, finAcked)
           IN  Moves(c, e) /\ e.rcvWnd = d.rcvWnd /\ AckEdge(d.status, e.status)
<1> DEFINE Now(st, tw) == [d EXCEPT !.status = st, !.waiting = d.waiting, !.timeWait = tw]
           e == AfterAck(d, finAcked)
<1>1. d \in Conns /\ d.waiting \in BOOLEAN /\ d.timeWait \in BOOLEAN
  BY ConnFields DEF Moves, Sane
<1>2. "FinWait2" \in Statuses /\ "TimeWait" \in Statuses /\ TRUE \in BOOLEAN
  BY DEF Statuses
<1>3. \/ e = d
      \/ d.status = "FinWait1" /\ e = Now("FinWait2", d.timeWait)
      \/ d.status = "Closing" /\ e = Now("TimeWait", TRUE)
  BY <1>1 DEF AfterAck, Conns
<1> HIDE DEF e
<1>4. CASE d.status = "FinWait1" /\ e = Now("FinWait2", d.timeWait)
  <2>1. ~(d.inTable /\ d.timeWait)
    BY <1>4 DEF Moves, Sane, Live
  <2> DEFINE st == "FinWait2"
             tw == d.timeWait
  <2>3. st \in Statuses /\ st \notin {"None", "SynSent", "Closed"} /\ ~(d.inTable /\ tw)
        /\ e = [d EXCEPT !.status = st, !.waiting = d.waiting, !.timeWait = tw]
        /\ tw \in BOOLEAN
    BY <1>1, <1>2, <1>4, <2>1
  <2> HIDE DEF st, tw
  <2>4. Moves(c, e)
    BY <1>1, <2>3, MovesStatus
  <2>5. e.rcvWnd = d.rcvWnd /\ e.status = st
    BY <1>1, <2>3 DEF Conns
  <2>2. Moves(c, e) /\ e.rcvWnd = d.rcvWnd /\ e.status = st
    BY <2>4, <2>5
  <2> QED
    BY <1>4, <2>2 DEF AckEdge, e, st
<1>5. CASE d.status = "Closing" /\ e = Now("TimeWait", TRUE)
  <2> DEFINE st == "TimeWait"
             tw == TRUE
  <2>3. st \in Statuses /\ st \notin {"None", "SynSent", "Closed"} /\ tw \in BOOLEAN
        /\ e = [d EXCEPT !.status = st, !.waiting = d.waiting, !.timeWait = tw]
        /\ (d.inTable /\ tw => st = "TimeWait")
    BY <1>1, <1>2, <1>5
  <2> HIDE DEF st, tw
  <2>4. Moves(c, e)
    BY <1>1, <2>3, MovesStatus
  <2>5. e.rcvWnd = d.rcvWnd /\ e.status = st
    BY <1>1, <2>3 DEF Conns
  <2>1. Moves(c, e) /\ e.rcvWnd = d.rcvWnd /\ e.status = st
    BY <2>4, <2>5
  <2> QED
    BY <1>5, <2>1 DEF AckEdge, e, st
<1>6. CASE e = d
  BY <1>6 DEF AckEdge, e
<1> QED
  BY <1>3, <1>4, <1>5, <1>6

LEMMA AckOtherHandled ==
    ASSUME NEW c, c.sendUna \in Nat, NEW r, Handled(c, r), NEW s \in Segments, s.wnd \in Windows
    PROVE  LET h == handleAckOtherStates(r, s)
           IN  Handled(c, h) /\ h.data = r.data /\ AckEdge(r.conn.status, h.conn.status)
<1> DEFINE d == r.conn
           wrappedSendNxt == wrapFromIss(d, d.sendNxt)
           wrappedUna == wrapFromIss(d, d.sendUna)
           acceptable == isAckAcceptable(wrappedUna, wrappedSendNxt, s.ack)
           d1 == IF acceptable THEN UpdateWindow(Acknowledge(d, s.ack), s) ELSE d
           finAcked == s.ack = wrappedSendNxt
           early == ~acceptable /\ s.ack > wrappedUna /\ s.ack > wrappedSendNxt
           refused == sendAck(r, wrappedSendNxt, wrapFromIrs(d, d.rcvNxt))
           e == AfterAck(d1, finAcked)
           h == handleAckOtherStates(r, s)
<1>1. h = IF early THEN Finish(refused) ELSE [r EXCEPT !.conn = e]
  BY DEF handleAckOtherStates
<1>2. Moves(c, d) /\ d \in Conns /\ s.ack \in SeqNums /\ s.ack \in Nat
  BY SegmentFields DEF Handled, Moves, Sane
<1>3. /\ wrappedSendNxt \in SeqNums /\ wrapFromIrs(d, d.rcvNxt) \in SeqNums
      /\ wrappedUna \in Nat /\ wrappedSendNxt \in Nat
  BY <1>2, NumberTypes, SeqModFacts DEF SeqNums
<1>4. Moves(c, d1) /\ d1.rcvWnd = d.rcvWnd /\ d1.status = d.status
  <2>1. CASE acceptable
    <3>1. wrappedUna <= s.ack /\ s.ack <= wrappedSendNxt
      BY <1>2, <1>3, <2>1 DEF isAckAcceptable
    <3> DEFINE a == Acknowledge(d, s.ack)
    <3>2. Moves(c, a) /\ a.rcvWnd = d.rcvWnd /\ a.status = d.status
      BY <1>2, <3>1, MovesAck
    <3>3. d1 = UpdateWindow(a, s)
      BY <2>1
    <3> HIDE DEF a, d1
    <3> QED
      BY <3>2, <3>3, MovesWindow
  <2>2. CASE ~acceptable
    BY <1>2, <2>2
  <2> QED
    BY <2>1, <2>2
<1> HIDE DEF d1, finAcked, early, wrappedSendNxt, h
<1>5. /\ Handled(c, Finish(refused)) /\ Finish(refused).data = r.data
      /\ Finish(refused).conn.status = d.status
  <2> DEFINE ack == wrapFromIrs(d, d.rcvNxt)
  <2>1. ack \in SeqNums /\ refused = sendAck(r, wrappedSendNxt, ack)
    BY <1>3
  <2> HIDE DEF ack, refused
  <2>2. Handled(c, refused) /\ refused.data = r.data /\ refused.conn.status = d.status
    BY <1>3, <2>1, SendAckHandled
  <2> QED
    BY <2>2, HandledFinish
<1>6. Moves(c, e) /\ e.rcvWnd = d.rcvWnd /\ AckEdge(d.status, e.status)
  BY <1>4, AfterAckMoves
<1> HIDE DEF e, refused
<1>7. LET t == [r EXCEPT !.conn = e]
      IN  Handled(c, t) /\ t.data = r.data /\ AckEdge(d.status, t.conn.status)
  BY <1>6, HandledNewConn
<1> QED
  BY <1>1, <1>5, <1>7 DEF AckEdge, h

LEMMA AckBitHandled ==
    ASSUME NEW c, c.sendUna \in Nat, NEW r, Handled(c, r), NEW s \in Segments, s.wnd \in Windows
    PROVE  LET h == HandleAckBit(r, s)
           IN  Handled(c, h) /\ h.data = r.data /\ AckEdge(r.conn.status, h.conn.status)
<1> DEFINE d == r.conn
           open == /\ d.status = "SynRecv"
                   /\ wrapFromIss(d, d.sendUna) <= s.ack
                   /\ s.ack <= wrapFromIss(d, d.sendNxt)
           e == [d EXCEPT !.status = "Established", !.waiting = FALSE]
           d1 == IF open THEN e ELSE d
           t == [r EXCEPT !.conn = d1]
           x == closeDelete(d1)
           u == [r EXCEPT !.conn = x]
           h == HandleAckBit(r, s)
<1>1. h = CASE d1.status = "TimeWait" -> r
            [] d1.status = "LastAck" -> Finish(u)
            [] OTHER -> handleAckOtherStates(t, s)
  BY DEF HandleAckBit
<1>2. Moves(c, d) /\ d \in Conns
  BY DEF Handled, Moves, Sane
<1>3. CASE open
  <2>1. d.timeWait \in BOOLEAN /\ "Established" \in Statuses /\ FALSE \in BOOLEAN
    BY <1>2, ConnFields DEF Statuses
  <2>2. ~(d.inTable /\ d.timeWait)
    BY <1>2, <1>3 DEF Moves, Sane, Live
  <2>3. e = [d EXCEPT !.status = "Established", !.waiting = FALSE, !.timeWait = d.timeWait]
    BY <1>2 DEF Conns
  <2> DEFINE st == "Established"
             w == FALSE
             tw == d.timeWait
  <2>9. st \in Statuses /\ st \notin {"None", "SynSent", "Closed"} /\ w \in BOOLEAN
        /\ tw \in BOOLEAN /\ ~(d.inTable /\ tw)
        /\ e = [d EXCEPT !.status = st, !.waiting = w, !.timeWait = tw]
    BY <2>1, <2>2, <2>3
  <2> HIDE DEF st, w, tw, e
  <2>10. Moves(c, e)
    BY <1>2, <2>9, MovesStatus
  <2>11. e.rcvWnd = d.rcvWnd /\ e.status = st
    BY <1>2, <2>9 DEF Conns
  <2>4. Moves(c, e) /\ e.rcvWnd = d.rcvWnd /\ e.status = "Established"
    BY <2>10, <2>11 DEF st
  <2>5. d1 = e /\ d.status = "SynRecv"
    BY <1>3
  <2> HIDE DEF d1, h, e
  <2>6. Handled(c, t) /\ t.conn = d1 /\ t.data = r.data
    BY <2>4, <2>5, HandledNewConn
  <2> HIDE DEF t
  <2>7. h = handleAckOtherStates(t, s)
    BY <1>1, <2>4, <2>5
  <2>8. Handled(c, h) /\ h.data = r.data /\ AckEdge("Established", h.conn.status)
    BY <2>4, <2>5, <2>6, <2>7, AckOtherHandled
  <2> QED
    BY <2>5, <2>8 DEF AckEdge, h
<1>4. CASE ~open
  <2>1. d1 = d
    BY <1>4
  <2> HIDE DEF d1, h
  <2>2. Handled(c, t) /\ t.conn = d /\ t.data = r.data
    BY <1>2, <2>1, HandledNewConn
  <2> HIDE DEF t
  <2>3. CASE d.status = "TimeWait"
    BY <1>1, <2>1, <2>3 DEF AckEdge, h
  <2>4. CASE d.status = "LastAck"
    <3>1. Moves(c, x) /\ x.rcvWnd = d.rcvWnd /\ x.status = "Closed"
      BY <1>2, <2>1, MovesClose, CloseDeleteFacts
    <3> HIDE DEF x
    <3>2. Handled(c, u) /\ u.conn = x /\ u.data = r.data
      BY <3>1, HandledNewConn
    <3> HIDE DEF u
    <3>3. h = Finish(u)
      BY <1>1, <2>1, <2>4
    <3>4. Handled(c, h) /\ h.data = r.data /\ h.conn = x
      BY <3>2, <3>3, HandledFinish
    <3> QED
      BY <2>4, <3>1, <3>4 DEF AckEdge, h
  <2>5. CASE d.status \notin {"TimeWait", "LastAck"}
    <3>1. h = handleAckOtherStates(t, s)
      BY <1>1, <2>1, <2>5
    <3> QED
      BY <2>2, <3>1, AckOtherHandled DEF h
  <2> QED
    BY <2>3, <2>4, <2>5
<1> QED
  BY <1>3, <1>4

\* Text is taken if the window has room for it.
LEMMA TextHandled ==
    ASSUME NEW c, c.rcvNxt \in Nat, c.rcvWnd \in Windows, NEW r, Handled(c, r), r.data = << >>,
           NEW s \in Segments, NEW seq \in SeqNums
    PROVE  LET h == HandleText(r, s, seq)
           IN  Handled(c, h) /\ h.conn.status = r.conn.status
<1> DEFINE n == Len(s.payload)
           d == r.conn
           e == [d EXCEPT !.rcvNxt = @ + n, !.rcvWnd = @ - n]
           t == [r EXCEPT !.conn = e, !.data = s.payload]
           h == HandleText(r, s, seq)
<1>1. h = IF TakesText(d) /\ n > 0 THEN sendAck(t, seq, EndOfText(s)) ELSE r
  BY DEF HandleText
<1>2. s.payload \in Seq(Nat) /\ n \in Nat /\ s.seq \in Nat
  BY SegmentFields
<1>3. EndOfText(s) \in SeqNums
  <2>1. s.seq + n \in Nat
    BY <1>2
  <2> QED
    BY <2>1, SeqModFacts, ModFacts DEF EndOfText, SeqNums
<1>4. /\ Moves(c, d) /\ d \in Conns /\ r \in Results /\ d.rcvWnd = c.rcvWnd
      /\ c.rcvWnd \in Int /\ InWindows(r.out)
  <2>1. c.rcvWnd \in Int /\ c.rcvWnd - 0 = c.rcvWnd /\ Len(r.data) = 0
    BY SeqModFacts DEF Windows
  <2> QED
    BY <2>1 DEF Handled, Moves, Sane, Fits
<1> HIDE DEF n, h
<1>5. Moves(c, e) /\ e.rcvWnd = c.rcvWnd - n /\ e.status = d.status
  <2>1. d.rcvWnd \in Int /\ d.rcvWnd - n \in Int
    BY <1>2, <1>4
  <2> DEFINE w == d.rcvWnd - n
  <2>2. e = [d EXCEPT !.rcvNxt = @ + n, !.rcvWnd = w]
    BY <1>4 DEF Conns
  <2>3. w \in Int /\ w = c.rcvWnd - n
    BY <1>4, <2>1
  <2> HIDE DEF e, w
  <2>4. Moves(c, e)
    BY <1>2, <1>4, <2>2, <2>3, MovesRcv
  <2>5. e.status = d.status /\ e.rcvWnd = w
    BY <1>4, <2>2 DEF Conns
  <2> QED
    BY <2>3, <2>4, <2>5
<1> HIDE DEF e
<1>6. Handled(c, t) /\ t.conn = e
  <2>1. t = [r EXCEPT !.conn = e, !.data = s.payload, !.done = r.done] /\ r.done \in BOOLEAN
    BY <1>4 DEF Results
  <2>2. Handled(c, [r EXCEPT !.conn = e, !.data = s.payload, !.done = r.done])
    BY <1>2, <1>4, <1>5, <2>1, HandledConn DEF n
  <2>3. t.conn = e
    BY <1>4 DEF Results
  <2> QED
    BY <2>1, <2>2, <2>3
<1> HIDE DEF t
<1>7. LET u == sendAck(t, seq, EndOfText(s)) IN Handled(c, u) /\ u.conn.status = d.status
  BY <1>3, <1>5, <1>6, SendAckHandled
<1> QED
  BY <1>1, <1>7 DEF h

LEMMA FinHandled ==
    ASSUME NEW c, c.rcvNxt \in Nat, NEW r, Handled(c, r), NEW s \in Segments
    PROVE  LET h == handleFinOtherStates(r, s)
           IN  Handled(c, h) /\ FinEdge(r.conn.status, h.conn.status)
<1> DEFINE d == r.conn
           nxt == wrapFromIss(d, d.sendNxt)
           seqDist == wrappedDist(wrapFromIrs(d, d.rcvNxt), (s.seq + 1) % SeqMod)
           e == [d EXCEPT !.rcvNxt = @ + seqDist]
           t == [r EXCEPT !.conn = e]
           r1 == sendAck(t, nxt, wrapFromIrs(d, d.rcvNxt + seqDist))
           d1 == r1.conn
           Now(st, tw) == [d1 EXCEPT !.status = st, !.waiting = d1.waiting, !.timeWait = tw]
           fin == handleFinOtherStates(r, s)
<1>1. Moves(c, d) /\ d \in Conns /\ r \in Results /\ d.rcvNxt \in Nat
  BY ConnFields DEF Handled, Moves, Sane
<1>2. /\ nxt \in SeqNums /\ wrapFromIrs(d, d.rcvNxt) \in Nat
      /\ \A n \in Nat : wrapFromIrs(d, n) \in SeqNums
  BY <1>1, NumberTypes, SeqModFacts DEF SeqNums
<1>3. seqDist \in Nat
  <2>1. s.seq + 1 \in Nat
    BY SegmentFields
  <2>2. (s.seq + 1) % SeqMod \in Nat
    BY <2>1, SeqModFacts, ModFacts
  <2> QED
    BY <1>2, <2>2, SeqModFacts DEF wrappedDist
<1>4. t = [r EXCEPT !.conn.rcvNxt = @ + seqDist]
  BY <1>1 DEF Results, Conns
<1>5. \/ d.status = "Established" /\ fin = [r1 EXCEPT !.conn.status = "CloseWait"]
      \/ /\ d.status \in {"FinWait1", "FinWait2"}
         /\ fin = [r1 EXCEPT !.conn.status = "TimeWait", !.conn.timeWait = TRUE]
      \/ d.status = "FinWait1" /\ fin = [r1 EXCEPT !.conn.status = "Closing"]
      \/ fin = r1
  <2> DEFINE r2 == sendAck([r EXCEPT !.conn.rcvNxt = @ + seqDist], nxt,
                           wrapFromIrs(d, d.rcvNxt + seqDist))
  <2>1. r2 = r1
    BY <1>4
  <2>2. \/ d.status = "Established" /\ fin = [r2 EXCEPT !.conn.status = "CloseWait"]
        \/ /\ d.status \in {"FinWait1", "FinWait2"}
           /\ fin = [r2 EXCEPT !.conn.status = "TimeWait", !.conn.timeWait = TRUE]
        \/ d.status = "FinWait1" /\ fin = [r2 EXCEPT !.conn.status = "Closing"]
        \/ fin = r2
    BY DEF handleFinOtherStates
  <2> HIDE DEF r1, r2, fin
  <2> QED
    BY <2>1, <2>2
<1> HIDE DEF seqDist, nxt, fin
<1>6. Moves(c, e) /\ e.rcvWnd = d.rcvWnd /\ e.status = d.status
  <2> DEFINE wnd == d.rcvWnd
  <2>1. wnd \in Int
    BY <1>1, ConnFields
  <2>2. e = [d EXCEPT !.rcvNxt = @ + seqDist, !.rcvWnd = wnd]
    BY <1>1 DEF Conns
  <2> HIDE DEF wnd, e
  <2>3. Moves(c, e)
    BY <1>1, <1>3, <2>1, <2>2, MovesRcv
  <2>4. e.status = d.status /\ e.rcvWnd = wnd
    BY <1>1, <2>2 DEF Conns
  <2> QED
    BY <2>3, <2>4 DEF wnd, e
<1> HIDE DEF e
<1>7. Handled(c, t) /\ t.conn = e
  BY <1>6, HandledNewConn
<1> HIDE DEF t
<1>8. d.rcvNxt + seqDist \in Nat
  BY <1>1, <1>3
<1>9. Handled(c, r1) /\ r1.conn.status = d.status
  <2> DEFINE ack == wrapFromIrs(d, d.rcvNxt + seqDist)
  <2>1. ack \in SeqNums
    BY <1>2, <1>8
  <2>2. r1 = sendAck(t, nxt, ack)
    OBVIOUS
  <2> HIDE DEF ack, r1
  <2>3. Handled(c, r1) /\ r1.conn.status = t.conn.status
    BY <1>2, <1>7, <2>1, <2>2, SendAckHandled
  <2> QED
    BY <1>6, <1>7, <2>3
<1> HIDE DEF r1
<1>10. /\ Moves(c, d1) /\ d1 \in Conns /\ r1 \in Results /\ d1.waiting \in BOOLEAN
       /\ d1.timeWait \in BOOLEAN
  BY <1>9, ConnFields DEF Handled, Moves, Sane
<1>11. ASSUME NEW st \in {"CloseWait", "TimeWait", "Closing"}, NEW tw \in BOOLEAN,
              d1.inTable /\ tw => st = "TimeWait"
       PROVE  LET u == [r1 EXCEPT !.conn = Now(st, tw)]
              IN  Handled(c, u) /\ u.conn.status = st
  <2>1. st \in Statuses /\ st \notin {"None", "SynSent", "Closed"}
    BY DEF Statuses
  <2> DEFINE w == d1.waiting
             x == Now(st, tw)
  <2>3. x = [d1 EXCEPT !.status = st, !.waiting = w, !.timeWait = tw]
    OBVIOUS
  <2>6. Moves(c, d1) /\ w \in BOOLEAN /\ st # "Closed" /\ (d1.inTable /\ tw => st = "TimeWait")
    BY <1>10, <1>11, <2>1
  <2> HIDE DEF Now, x, d1, w
  <2>7. Moves(c, x)
    BY ONLY <2>1, <2>3, <2>6, tw \in BOOLEAN, MovesStatus
  <2>4. Moves(c, Now(st, tw))
    BY <2>7 DEF x
  <2>5. Now(st, tw).rcvWnd = d1.rcvWnd /\ Now(st, tw).status = st
    BY <1>10, <2>3 DEF Conns, x
  <2>2. Moves(c, Now(st, tw)) /\ Now(st, tw).rcvWnd = d1.rcvWnd /\ Now(st, tw).status = st
    BY <2>4, <2>5
  <2>8. x.rcvWnd = r1.conn.rcvWnd /\ x.status = st
    BY <2>2 DEF x, d1
  <2>9. LET u == [r1 EXCEPT !.conn = x] IN Handled(c, u) /\ u.conn = x
    BY <1>9, <2>7, <2>8, HandledNewConn
  <2> QED
    BY <2>8, <2>9 DEF x
<1>12. /\ \A st \in {"CloseWait", "TimeWait", "Closing"} :
             [r1 EXCEPT !.conn.status = st] = [r1 EXCEPT !.conn = Now(st, d1.timeWait)]
       /\ [r1 EXCEPT !.conn.status = "TimeWait", !.conn.timeWait = TRUE]
           = [r1 EXCEPT !.conn = Now("TimeWait", TRUE)]
  BY <1>10 DEF Results, Conns
<1>13. d.status \in {"Established", "FinWait1"} => ~(d1.inTable /\ d1.timeWait)
  BY <1>9, <1>10 DEF Moves, Sane, Live
<1>14. TRUE \in BOOLEAN
  OBVIOUS
<1> HIDE DEF Now, d1
<1>15. CASE d.status = "Established" /\ fin = [r1 EXCEPT !.conn.status = "CloseWait"]
  <2>2. ~(d1.inTable /\ d1.timeWait) /\ d1.timeWait \in BOOLEAN
    BY <1>10, <1>13, <1>15
  <2>3. fin = [r1 EXCEPT !.conn = Now("CloseWait", d1.timeWait)]
    BY <1>12, <1>15
  <2>1. Handled(c, fin) /\ fin.conn.status = "CloseWait"
    BY <1>11, <2>2, <2>3
  <2> QED
    BY <1>15, <2>1 DEF FinEdge, fin
<1>16. CASE /\ d.status \in {"FinWait1", "FinWait2"}
            /\ fin = [r1 EXCEPT !.conn.status = "TimeWait", !.conn.timeWait = TRUE]
  <2>1. Handled(c, fin) /\ fin.conn.status = "TimeWait"
    BY <1>11, <1>12, <1>14, <1>16
  <2> QED
    BY <1>16, <2>1 DEF FinEdge, fin
<1>17. CASE d.status = "FinWait1" /\ fin = [r1 EXCEPT !.conn.status = "Closing"]
  <2>2. ~(d1.inTable /\ d1.timeWait) /\ d1.timeWait \in BOOLEAN
    BY <1>10, <1>13, <1>17
  <2>3. fin = [r1 EXCEPT !.conn = Now("Closing", d1.timeWait)]
    BY <1>12, <1>17
  <2>1. Handled(c, fin) /\ fin.conn.status = "Closing"
    BY <1>11, <2>2, <2>3
  <2> QED
    BY <1>17, <2>1 DEF FinEdge, fin
<1>18. CASE fin = r1
  BY <1>9, <1>18 DEF FinEdge, fin
<1> QED
  BY <1>5, <1>15, <1>16, <1>17, <1>18

\* The handler of every state but CLOSED, LISTEN and SYN-SENT.
LEMMA OtherStatesHandled ==
    ASSUME NEW c, Sane(c), c.rcvWnd \in Windows, c.status \notin {"None", "SynSent"},
           NEW s \in Segments, s.wnd \in Windows
    PROVE  LET h == handleOtherStates(c, s)
           IN  /\ Handled(c, h)
               /\ Edge(c.status, h.conn.status) \/ ("RST" \in s.flags /\ h.conn.status = "Closed")
<1> DEFINE rcv == wrapFromIrs(c, c.rcvNxt)
           nxt == wrapFromIss(c, c.sendNxt)
           acceptable == isSegmentAcceptable(rcv, c.rcvWnd, s.seq, Len(s.payload))
           r == Result(c)
           acked == IF "ACK" \in s.flags THEN HandleAckBit(r, s) ELSE r
           text == HandleText(acked, s, nxt)
           fin == handleFinOtherStates(text, s)
           x == closeDelete(c)
           rst == [sendRst(r, s.seq) EXCEPT !.conn = x]
           h == handleOtherStates(c, s)
<1>1. \/ h = r
      \/ h = sendAck(r, nxt, rcv)
      \/ "RST" \in s.flags /\ h = rst
      \/ h = acked
      \/ h = text
      \/ h = fin
  BY DEF handleOtherStates
<1>2. /\ c \in Conns /\ c.sendUna \in Nat /\ c.sendNxt \in Nat /\ c.rcvNxt \in Nat
      /\ nxt \in SeqNums /\ rcv \in SeqNums /\ s.seq \in SeqNums
  BY ConnFields, NumberTypes, SegmentFields DEF Sane
<1>3. Moves(c, c)
  BY <1>2 DEF Moves
<1>4. Handled(c, r) /\ r.conn = c /\ r.data = << >>
  BY <1>2, <1>3, ResultType DEF Handled
<1>5. Fits(c, r) /\ r.out = << >> /\ r \in Results /\ SynSentAt(r.out, c.iss)
  BY <1>2, ResultType
<1> HIDE DEF r, nxt, rcv, h
<1>6. CASE h = sendAck(r, nxt, rcv)
  <2>1. Handled(c, r) /\ nxt \in SeqNums /\ rcv \in SeqNums
    BY <1>2, <1>4
  <2>2. LET t == sendAck(r, nxt, rcv) IN Handled(c, t) /\ t.conn.status = r.conn.status
    BY ONLY <2>1, SendAckHandled
  <2>3. Handled(c, h) /\ h.conn.status = c.status
    BY <1>4, <1>6, <2>2
  <2> QED
    BY <2>3 DEF Edge, h
<1>7. CASE "RST" \in s.flags /\ h = rst
  <2> DEFINE t == sendRst(r, s.seq)
  <2>1. InWindows(r.out)
    BY <1>5 DEF InWindows
  <2>2. /\ t \in Results /\ t.conn = c /\ t.data = << >> /\ SynSentAt(t.out, c.iss)
        /\ InWindows(t.out)
    BY <1>2, <1>4, <1>5, <2>1, RstFacts
  <2> HIDE DEF t
  <2>3. Handled(c, t)
    BY <1>3, <1>4, <1>5, <2>2 DEF Handled, Fits
  <2>4. Moves(c, x) /\ x.rcvWnd = c.rcvWnd /\ x.status = "Closed"
    BY <1>2, <1>3, MovesClose, CloseDeleteFacts
  <2> HIDE DEF x
  <2>5. LET u == [t EXCEPT !.conn = x] IN Handled(c, u) /\ u.conn = x
    BY <2>2, <2>3, <2>4, HandledNewConn
  <2>6. h = [t EXCEPT !.conn = x]
    BY <1>7 DEF t
  <2> QED
    BY <1>7, <2>4, <2>5, <2>6 DEF h
<1>8. CASE h = r
  BY <1>4, <1>8 DEF Edge, h
<1>9. Handled(c, acked) /\ acked.data = << >> /\ AckEdge(c.status, acked.conn.status)
  BY <1>2, <1>4, AckBitHandled DEF AckEdge
<1> HIDE DEF acked
<1>10. Handled(c, text) /\ text.conn.status = acked.conn.status
  BY <1>2, <1>9, TextHandled
<1> HIDE DEF text
<1>11. Handled(c, fin) /\ FinEdge(text.conn.status, fin.conn.status)
  BY <1>2, <1>10, FinHandled
<1> HIDE DEF fin
<1>13. ASSUME NEW a, NEW b, NEW d, AckEdge(a, b), FinEdge(b, d)
       PROVE  Edge(a, d)
  BY <1>13 DEF AckEdge, FinEdge, Edge, RfcEdges
<1>14. AckEdge(c.status, acked.conn.status) => Edge(c.status, acked.conn.status)
  BY DEF AckEdge, Edge, RfcEdges
<1> QED
  BY <1>1, <1>6, <1>7, <1>8, <1>9, <1>10, <1>11, <1>13, <1>14 DEF h

-----------------------------------------------------------------------------
(* Opening: SYN-SENT, LISTEN and the step of a handler as a whole.          *)

Grows(c, d) == c.sendUna <= d.sendUna /\ c.sendNxt <= d.sendNxt /\ c.rcvNxt <= d.rcvNxt

\* What the result of every handler and call keeps.
Kept(p, c, r, nums) ==
    /\ r \in Results /\ Sane(r.conn) /\ Agrees(p, r.conn, nums) /\ Grows(c, r.conn)
    /\ SynSentAt(r.out, Iss(p)) /\ Fits(c, r)
    /\ c.status # "None" => r.conn.status # "None"
    /\ r.conn.status = "None" => Quiet(r.out)

LEMMA GrowsSame == ASSUME NEW c \in Conns PROVE Grows(c, c)
  BY ConnFields DEF Grows

LEMMA ResultKept ==
    ASSUME NEW p, NEW nums, NEW c, Sane(c), NEW d, Sane(d), Agrees(p, d, nums), Grows(c, d),
           d.rcvWnd = c.rcvWnd, c.status # "None" => d.status # "None"
    PROVE  LET r == Result(d) IN Kept(p, c, r, nums) /\ r.conn = d
<1> DEFINE r == Result(d)
<1>1. d \in Conns
  BY DEF Sane
<1>2. /\ r \in Results /\ r.conn = d /\ SynSentAt(r.out, Iss(p)) /\ r.out = << >>
      /\ Fits(d, r)
  BY <1>1, ResultType
<1> HIDE DEF r
<1>3. Quiet(r.out) /\ Fits(c, r)
  BY <1>2 DEF Quiet, Fits
<1>4. Kept(p, c, r, nums)
  BY <1>2, <1>3 DEF Kept
<1> QED
  BY <1>2, <1>4 DEF r

LEMMA CloseKept ==
    ASSUME NEW p, NEW nums, NEW c, Sane(c), Agrees(p, c, nums), c.status # "None"
    PROVE  LET d == closeDelete(c)
           IN  /\ Sane(d) /\ Agrees(p, d, nums) /\ Grows(c, d) /\ d.rcvWnd = c.rcvWnd
               /\ d.status = "Closed"
<1> DEFINE d == closeDelete(c)
<1>1. c \in Conns /\ Grows(c, c)
  BY GrowsSame DEF Sane
<1>2. /\ d \in Conns /\ d.status = "Closed" /\ d.inTable = FALSE /\ SynKept(d) /\ Live(d)
      /\ d.iss = c.iss /\ d.irs = c.irs /\ d.sendUna = c.sendUna /\ d.sendNxt = c.sendNxt
      /\ d.rcvNxt = c.rcvNxt /\ d.rcvWnd = c.rcvWnd
  BY <1>1, CloseDeleteFacts
<1> HIDE DEF d
<1>3. Sane(d) /\ Agrees(p, d, nums) /\ Grows(c, d)
  BY <1>1, <1>2 DEF Sane, Agrees, Grows
<1> QED
  BY <1>2, <1>3 DEF d

\* A synchronised connection that a handler moved still agrees with the other
\* host.
LEMMA HandledKept ==
    ASSUME NEW p, NEW nums, NEW c, NEW d, Sane(c), Grows(c, d), d \in Conns,
           d.iss = Iss(p), d.irs \in nums, d.rcvNxt > 0, d.rcvWnd = c.rcvWnd,
           NEW r, Handled(d, r)
    PROVE  Kept(p, c, r, nums)
<1> DEFINE e == r.conn
<1>1. /\ r \in Results /\ Moves(d, e) /\ SynSentAt(r.out, Iss(p)) /\ Sane(e) /\ e \in Conns
      /\ e.status \notin {"None", "SynSent"} /\ e.iss = d.iss /\ e.irs = d.irs
  BY DEF Handled, Moves, Sane
<1>2. /\ c.sendUna \in Nat /\ c.sendNxt \in Nat /\ c.rcvNxt \in Nat
      /\ d.sendUna \in Nat /\ d.sendNxt \in Nat /\ d.rcvNxt \in Nat
      /\ e.sendUna \in Nat /\ e.sendNxt \in Nat /\ e.rcvNxt \in Nat
  BY <1>1, ConnFields DEF Sane
<1>3. Grows(d, e)
  BY <1>1 DEF Moves, Grows
<1>4. Grows(c, e)
  BY <1>2, <1>3 DEF Grows
<1>5. e.rcvNxt > 0
  BY <1>2, <1>3 DEF Grows
<1> HIDE DEF e
<1>6. Agrees(p, e, nums)
  BY <1>1, <1>5 DEF Agrees
<1>7. Fits(c, r)
  BY DEF Handled, Fits
<1> QED
  BY <1>1, <1>4, <1>6, <1>7 DEF Kept, e

\* What Synchronise, and an acceptable acknowledgement, make of a connection
\* that is waiting for the peer's SYN.
LEMMA SyncedFacts ==
    ASSUME NEW c, Sane(c), c.status = "SynSent", c.rcvNxt = 0,
           NEW s \in Segments, NEW acceptable,
           acceptable => wrapFromIss(c, c.sendUna) <= s.ack /\ s.ack <= wrapFromIss(c, c.sendNxt)
    PROVE  LET synced == Synchronise(c, s)
               d == IF acceptable THEN Acknowledge(synced, s.ack) ELSE synced
           IN  /\ Sane(d) /\ Grows(c, d) /\ d.iss = c.iss /\ d.irs = s.seq
               /\ d.status = c.status /\ d.inTable = c.inTable /\ d.rcvWnd = c.rcvWnd
               /\ d.rcvNxt = 1
<1> DEFINE a == Synchronise(c, s)
           b == Acknowledge(a, s.ack)
<1>1. c \in Conns /\ s.seq \in SeqNums /\ s.ack \in SeqNums /\ c.sendUna \in Nat /\ c.sendNxt \in Nat
  BY ConnFields, SegmentFields DEF Sane
<1>2. a = [c EXCEPT !.rcvNxt = 1, !.irs = s.seq]
  BY DEF Synchronise
<1> HIDE DEF a
<1>3. a \in Conns
  BY <1>1, <1>2 DEF Conns
<1>4. /\ a.rcvNxt = 1 /\ a.irs = s.seq /\ a.iss = c.iss /\ a.status = c.status
      /\ a.inTable = c.inTable /\ a.sendUna = c.sendUna /\ a.sendNxt = c.sendNxt /\ a.queue = c.queue
      /\ a.timeWait = c.timeWait /\ a.rcvWnd = c.rcvWnd /\ a.waiting = c.waiting
  BY <1>1, <1>2 DEF Conns
<1>5. Sane(a)
  BY <1>3, <1>4 DEF Sane, SynKept, Live
<1>6. Grows(c, a)
  BY <1>1, <1>4 DEF Grows
<1>7. CASE acceptable
  <2>1. /\ wrapFromIss(a, a.sendUna) = wrapFromIss(c, c.sendUna)
        /\ wrapFromIss(a, a.sendNxt) = wrapFromIss(c, c.sendNxt)
    BY <1>4 DEF wrapFromIss
  <2>2. /\ Sane(b) /\ a.sendUna <= b.sendUna /\ b.sendNxt = a.sendNxt
        /\ b.status = a.status /\ b.inTable = a.inTable /\ b.iss = a.iss /\ b.irs = a.irs
        /\ b.rcvNxt = a.rcvNxt /\ b.rcvWnd = a.rcvWnd
    BY <1>1, <1>4, <1>5, <1>7, <2>1, AcknowledgeFacts
  <2> HIDE DEF b
  <2>3. Grows(c, b)
    BY <1>4, <1>6, <2>2 DEF Grows
  <2> QED
    BY <1>4, <1>7, <2>2, <2>3 DEF a, b
<1>8. CASE ~acceptable
  BY <1>4, <1>5, <1>6, <1>8 DEF a
<1> QED
  BY <1>7, <1>8

\* A call, or a handler, that sends one segment and keeps it.
Sends(d, t) ==
    /\ t \in Results /\ Sane(t.conn) /\ SynSentAt(t.out, d.iss) /\ Grows(d, t.conn)
    /\ t.conn.status = d.status /\ t.conn.inTable = d.inTable
    /\ t.conn.iss = d.iss /\ t.conn.irs = d.irs
    /\ t.conn.sendUna = d.sendUna /\ t.conn.sendNxt = d.sendNxt
    /\ t.conn.rcvNxt = d.rcvNxt /\ t.conn.timeWait = d.timeWait /\ Fits(d, t)
    /\ t.data = << >>

LEMMA FreshSend ==
    ASSUME NEW d, Sane(d), d.status # "None", NEW seq \in SeqNums, NEW ack \in SeqNums,
           NEW flags \in SUBSET {"SYN", "ACK", "FIN"}, "SYN" \in flags => seq = d.iss,
           NEW payload \in Seq(Nat)
    PROVE  Sends(d, send(Result(d), seq, ack, flags, payload))
<1> DEFINE rd == Result(d)
           t == send(rd, seq, ack, flags, payload)
<1>1. d \in Conns /\ SynKept(d) /\ Grows(d, d)
  BY GrowsSame DEF Sane
<1>2. /\ rd \in Results /\ rd.conn = d /\ SynSentAt(rd.out, d.iss)
      /\ InWindows(rd.out) /\ Fits(d, rd) /\ rd.data = << >>
  BY <1>1, ResultType
<1> HIDE DEF rd
<1>3. Ready(rd, seq, flags)
  BY <1>1, <1>2 DEF Ready
<1>4. /\ t \in Results /\ SynKept(t.conn) /\ SynSentAt(t.out, rd.conn.iss)
      /\ \E q \in Seq(Entries) : t.conn = [rd.conn EXCEPT !.queue = q]
      /\ t.data = rd.data /\ (d.rcvWnd \in Windows => InWindows(t.out))
  <2>1. rd \in Results
    BY <1>2
  <2>2. /\ t \in Results /\ SynKept(t.conn) /\ SynSentAt(t.out, rd.conn.iss)
        /\ \E q \in Seq(Entries) : t.conn = [rd.conn EXCEPT !.queue = q]
        /\ t.data = rd.data /\ (rd.conn.rcvWnd \in Windows /\ InWindows(rd.out) => InWindows(t.out))
    BY ONLY <1>3, <2>1, seq \in SeqNums, ack \in SeqNums, payload \in Seq(Nat),
            flags \in SUBSET {"SYN", "ACK", "FIN"}, SendFacts
  <2> HIDE DEF t
  <2> QED
    BY <1>2, <2>2
<1> HIDE DEF t
<1>5. PICK q \in Seq(Entries) : t.conn = [d EXCEPT !.queue = q]
  BY <1>2, <1>4
<1>6. /\ t.conn \in Conns /\ t.conn.status = d.status /\ t.conn.inTable = d.inTable
      /\ t.conn.iss = d.iss /\ t.conn.irs = d.irs
      /\ t.conn.sendUna = d.sendUna /\ t.conn.sendNxt = d.sendNxt /\ t.conn.rcvNxt = d.rcvNxt
      /\ t.conn.timeWait = d.timeWait /\ t.conn.rcvWnd = d.rcvWnd /\ t.conn.waiting = d.waiting
  BY <1>1, <1>5, QueueOnly
<1>7. Sane(t.conn) /\ Grows(d, t.conn)
  BY <1>1, <1>4, <1>6 DEF Sane, Grows, Live
<1>8. SynSentAt(t.out, d.iss)
  BY <1>2, <1>4
<1>10. Fits(d, t)
  BY <1>2, <1>4, <1>6 DEF Fits
<1>9. Sends(d, t)
  BY <1>2, <1>4, <1>6, <1>7, <1>8, <1>10 DEF Sends
<1> QED
  BY <1>9 DEF t, rd

\* The SYN of the side that answers.
LEMMA SynAckSend ==
    ASSUME NEW d, Sane(d), d.status # "None", NEW ack \in SeqNums
    PROVE  Sends(d, sendFlags(Result(d), d.iss, ack, {"SYN", "ACK"}))
<1> DEFINE seq == d.iss
           flags == {"SYN", "ACK"}
           none == << >>
<1>1. /\ seq \in SeqNums /\ flags \in SUBSET {"SYN", "ACK", "FIN"} /\ none \in Seq(Nat)
      /\ seq = d.iss
  BY ConnFields DEF Sane
<1>2. sendFlags(Result(d), d.iss, ack, {"SYN", "ACK"}) = send(Result(d), seq, ack, flags, none)
  BY DEF sendFlags
<1> HIDE DEF seq, flags, none
<1> QED
  BY <1>1, <1>2, FreshSend

LEMMA SynSentKept ==
    ASSUME NEW p, NEW nums, NEW c, Sane(c), Agrees(p, c, nums), c.status = "SynSent",
           p = Client,
           NEW s \in Segments, s.wnd \in Windows, "SYN" \in s.flags => s.seq \in nums
    PROVE  LET h == handleSynSentState(c, s)
           IN  Kept(p, c, h, nums) /\ Edge(c.status, h.conn.status)
<1> DEFINE wrappedSendNxt == wrapFromIss(c, c.sendNxt)
           isAck == "ACK" \in s.flags
           acceptable == /\ isAck
                         /\ wrapFromIss(c, c.sendUna) <= s.ack
                         /\ s.ack <= wrappedSendNxt
           synced == Synchronise(c, s)
           d == IF acceptable THEN Acknowledge(synced, s.ack) ELSE synced
           x == closeDelete(c)
           e == [d EXCEPT !.status = "Established", !.waiting = FALSE]
           r == sendAck(Result(e), wrapFromIss(d, d.sendNxt), wrapFromIrs(d, d.rcvNxt))
           open == [r EXCEPT !.conn.sendWnd = s.wnd, !.conn.sendWl1 = s.seq,
                             !.conn.sendWl2 = s.ack]
           t == sendFlags(Result(d), c.iss, wrapFromIrs(d, d.rcvNxt), {"SYN", "ACK"})
           both == [t EXCEPT !.conn.status = "SynRecv"]
           h == handleSynSentState(c, s)
<1>1. \/ h = sendRst(Result(c), s.ack)
      \/ h = Result(closeDelete(c))
      \/ h = Result(c)
      \/ "SYN" \in s.flags /\ h = open
      \/ "SYN" \in s.flags /\ h = both
  BY DEF handleSynSentState
<1> SUFFICES Kept(p, c, h, nums) /\ Edge(c.status, h.conn.status)
  OBVIOUS
<1> HIDE DEF h
<1>2. c \in Conns /\ c.rcvNxt = 0 /\ c.iss = Iss(p) /\ s.ack \in SeqNums /\ c.iss \in SeqNums
  BY ConnFields, SegmentFields DEF Sane, Agrees
<1>3. /\ Sane(d) /\ Grows(c, d) /\ d.iss = c.iss /\ d.irs = s.seq /\ d.inTable = c.inTable
      /\ d.status = "SynSent" /\ d.rcvWnd = c.rcvWnd /\ d.rcvNxt = 1
  BY <1>2, SyncedFacts
<1> HIDE DEF d, acceptable, synced, wrappedSendNxt
<1>4. d \in Conns /\ wrapFromIss(d, d.sendNxt) \in SeqNums /\ wrapFromIrs(d, d.rcvNxt) \in SeqNums
  BY <1>3, NumberTypes DEF Sane
<1>5. CASE h = sendRst(Result(c), s.ack)
  <2> DEFINE y == Result(c)
  <2>1. /\ y \in Results /\ y.conn = c /\ SynSentAt(y.out, Iss(p)) /\ InWindows(y.out)
        /\ Fits(c, y)
    BY <1>2, ResultType
  <2> HIDE DEF y
  <2>2. /\ h \in Results /\ h.conn = c /\ SynSentAt(h.out, Iss(p)) /\ h.data = y.data
        /\ (c.rcvWnd \in Windows => InWindows(h.out))
    BY <1>2, <1>5, <2>1, RstFacts DEF y
  <2>3. Fits(c, h)
    BY <2>1, <2>2 DEF Fits
  <2> QED
    BY <1>2, <2>2, <2>3, GrowsSame DEF Kept, Edge
<1>6. CASE h = Result(x)
  <2>1. /\ Sane(x) /\ Agrees(p, x, nums) /\ Grows(c, x) /\ x.rcvWnd = c.rcvWnd
        /\ x.status = "Closed"
    BY CloseKept
  <2> HIDE DEF x
  <2>2. Kept(p, c, h, nums) /\ h.conn = x
    BY <1>6, <2>1, ResultKept
  <2> QED
    BY <2>1, <2>2 DEF Edge, RfcEdges
<1>7. CASE h = Result(c)
  BY <1>2, <1>7, GrowsSame, ResultKept DEF Edge
<1>8. CASE "SYN" \in s.flags /\ h = open
  <2>1. e \in Conns /\ e.status = "Established" /\ e.inTable = d.inTable /\ e.iss = d.iss
        /\ e.irs = d.irs /\ e.sendUna = d.sendUna /\ e.sendNxt = d.sendNxt /\ e.rcvNxt = d.rcvNxt
        /\ e.queue = d.queue /\ e.timeWait = d.timeWait /\ e.rcvWnd = d.rcvWnd
    <3>1. "Established" \in Statuses /\ FALSE \in BOOLEAN
      BY DEF Statuses
    <3> QED
      BY <1>4, <3>1 DEF Conns
  <2> HIDE DEF e
  <2>2. Sane(e) /\ Grows(c, e)
    BY <1>3, <2>1 DEF Sane, SynKept, Grows, Live
  <2>3. Moves(e, e)
    BY <2>1, <2>2, GrowsSame DEF Moves, Grows
  <2>4. Handled(e, Result(e))
    BY <2>1, <2>3, ResultType DEF Handled
  <2>12. Result(e).conn = e
    BY <2>1, ResultType
  <2>5. Handled(e, r) /\ r.conn.status = "Established"
    BY <1>4, <2>1, <2>4, <2>12, SendAckHandled
  <2> HIDE DEF r
  <2> DEFINE f == [r.conn EXCEPT !.sendWnd = s.wnd, !.sendWl1 = s.seq, !.sendWl2 = s.ack]
  <2>6. r \in Results /\ Moves(e, r.conn) /\ r.conn \in Conns
    BY <2>5 DEF Handled, Moves, Sane
  <2>7. open = [r EXCEPT !.conn = f]
    BY <2>6 DEF Results, Conns
  <2>8. Moves(e, f) /\ f.rcvWnd = r.conn.rcvWnd /\ f.status = "Established"
    <3>1. Moves(e, f) /\ f.rcvWnd = r.conn.rcvWnd /\ f.status = r.conn.status
      BY ONLY <2>6, s \in Segments, s.wnd \in Windows, MovesWnd
    <3> HIDE DEF f
    <3> QED
      BY <2>5, <3>1
  <2> HIDE DEF f, open
  <2>9. Handled(e, open) /\ open.conn = f
    BY <2>5, <2>7, <2>8, HandledNewConn
  <2>10. e.iss = Iss(p) /\ e.irs \in nums /\ e.rcvNxt > 0 /\ e.rcvWnd = c.rcvWnd
    BY <1>2, <1>3, <1>8, <2>1
  <2>11. Kept(p, c, open, nums)
    BY <2>1, <2>2, <2>9, <2>10, HandledKept
  <2> QED
    BY <1>8, <2>8, <2>9, <2>11 DEF Edge, RfcEdges
<1>9. CASE "SYN" \in s.flags /\ h = both
  <2>1. c.iss = d.iss
    BY <1>3
  <2>2. /\ t \in Results /\ Sane(t.conn) /\ SynSentAt(t.out, d.iss)
        /\ t.conn.inTable = d.inTable /\ t.conn.iss = d.iss /\ t.conn.irs = d.irs
        /\ t.conn.sendUna = d.sendUna /\ t.conn.sendNxt = d.sendNxt /\ t.conn.rcvNxt = d.rcvNxt
        /\ t.conn.timeWait = d.timeWait /\ Fits(d, t)
    BY <1>3, <1>4, <2>1, SynAckSend DEF Sends
  <2> HIDE DEF t
  <2> DEFINE u == t.conn
             f == [u EXCEPT !.status = "SynRecv"]
  <2>4. /\ u \in Conns /\ u.inTable = d.inTable /\ u.iss = d.iss /\ u.irs = d.irs
        /\ u.sendUna = d.sendUna /\ u.sendNxt = d.sendNxt /\ u.rcvNxt = d.rcvNxt
        /\ SynKept(u) /\ u.timeWait = d.timeWait
    BY <2>2 DEF Sane
  <2>5. both = [t EXCEPT !.conn = f]
    BY <2>2, <2>4 DEF Results, Conns
  <2>6. /\ f \in Conns /\ f.status = "SynRecv" /\ f.inTable = u.inTable /\ f.iss = u.iss
        /\ f.irs = u.irs /\ f.sendUna = u.sendUna /\ f.sendNxt = u.sendNxt /\ f.rcvNxt = u.rcvNxt
        /\ f.queue = u.queue /\ f.timeWait = u.timeWait /\ f.rcvWnd = u.rcvWnd
    <3>1. "SynRecv" \in Statuses
      BY DEF Statuses
    <3> HIDE DEF u
    <3> QED
      BY <2>4, <3>1 DEF Conns
  <2> HIDE DEF f, both
  <2>7. both \in Results /\ both.conn = f /\ both.out = t.out /\ both.data = t.data
    BY <2>2, <2>5, <2>6 DEF Results
  <2>8. Sane(f)
    <3>1. SynKept(f) /\ Live(f)
      BY <1>3, <2>4, <2>6 DEF SynKept, Sane, Live
    <3> QED
      BY <1>3, <2>4, <2>6, <3>1 DEF Sane
  <2>9. Grows(c, f)
    BY <1>3, <2>4, <2>6 DEF Grows
  <2>10. Agrees(p, f, nums)
    BY <1>2, <1>3, <1>9, <2>4, <2>6 DEF Agrees
  <2>11. Fits(c, both)
    BY <1>3, <2>2, <2>6, <2>7 DEF Fits
  <2>12. SynSentAt(both.out, Iss(p)) /\ both.conn.status = "SynRecv"
    BY <1>2, <1>3, <2>2, <2>6, <2>7
  <2>13. Kept(p, c, both, nums)
    BY <2>7, <2>8, <2>9, <2>10, <2>11, <2>12 DEF Kept
  <2> QED
    BY <1>9, <2>12, <2>13 DEF Edge, RfcEdges
<1> QED
  BY <1>1, <1>5, <1>6, <1>7, <1>8, <1>9

\* A SYN makes the listener's connection; nothing else does.
LEMMA ListenKept ==
    ASSUME NEW p, NEW nums, NEW c, Sane(c), Agrees(p, c, nums), ~c.inTable,
           c.rcvWnd \in Windows,
           NEW s \in Segments, s.wnd \in Windows, "SYN" \in s.flags => s.seq \in nums
    PROVE  LET h == handleListenState(c, s)
           IN  Kept(p, c, h, nums) /\ Edge(c.status, h.conn.status)
<1> DEFINE z == [c EXCEPT !.rcvWnd = 0]
           rst == [sendRst(Result(z), s.ack) EXCEPT !.conn = c]
           d == [c EXCEPT !.status = "SynRecv", !.inTable = TRUE,
                          !.waiting = TRUE, !.irs = s.seq, !.sendWl1 = s.seq,
                          !.sendWl2 = s.ack, !.rcvNxt = 1, !.sendWnd = s.wnd]
           t == sendFlags(Result(d), c.iss, wrapFromIrs(d, 1), {"SYN", "ACK"})
           h == handleListenState(c, s)
<1>1. \/ h = Result(c)
      \/ h = rst
      \/ s.flags = {"SYN"} /\ c.status = "None" /\ h = t
  BY DEF handleListenState
<1> SUFFICES Kept(p, c, h, nums) /\ Edge(c.status, h.conn.status)
  OBVIOUS
<1> HIDE DEF h
<1>2. /\ c \in Conns /\ c.iss = Iss(p) /\ c.iss \in SeqNums /\ s.ack \in SeqNums
      /\ s.seq \in SeqNums
  BY ConnFields, SegmentFields DEF Sane, Agrees
<1>3. CASE h = Result(c)
  BY <1>2, <1>3, GrowsSame, ResultKept DEF Edge
<1>4. CASE h = rst
  <2>1. z \in Conns /\ z.rcvWnd = 0 /\ 0 \in Windows
    BY <1>2, SeqModFacts DEF Conns, Windows
  <2> HIDE DEF z
  <2> DEFINE rz == Result(z)
             u == sendRst(rz, s.ack)
             no == -1
  <2>2. /\ rz \in Results /\ rz.conn = z /\ rz.data = << >> /\ InWindows(rz.out)
        /\ SynSentAt(rz.out, Iss(p)) /\ SynSentAt(rz.out, no)
    BY <2>1, ResultType
  <2> HIDE DEF rz, no
  <2>3. /\ u \in Results /\ SynSentAt(u.out, Iss(p)) /\ SynSentAt(u.out, no)
        /\ u.data = << >> /\ InWindows(u.out)
    BY <1>2, <2>1, <2>2, RstFacts
  <2>4. rst = [u EXCEPT !.conn = c]
    BY DEF u, rz
  <2> HIDE DEF u, rst
  <2>5. rst \in Results /\ rst.conn = c /\ rst.out = u.out /\ rst.data = << >>
    BY <1>2, <2>3, <2>4 DEF Results
  <2>6. Quiet(u.out)
    <3>1. \A i \in 1..Len(u.out) : u.out[i].seq \in Nat
      BY <2>3, SegmentFields DEF Results
    <3>2. ~(no \in Nat)
      BY DEF no
    <3> QED
      BY <2>3, <3>1, <3>2 DEF SynSentAt, Quiet
  <2>7. Fits(c, rst)
    <3>1. c.rcvWnd = c.rcvWnd - 0 /\ Len(rst.data) = 0
      BY <1>2, <2>5, ConnFields
    <3> QED
      BY <2>3, <2>5, <3>1 DEF Fits
  <2>8. Kept(p, c, rst, nums)
    BY <1>2, <2>3, <2>5, <2>6, <2>7, GrowsSame DEF Kept
  <2> QED
    BY <1>4, <2>5, <2>8 DEF Edge
<1>5. CASE s.flags = {"SYN"} /\ c.status = "None" /\ h = t
  <2>1. "SynRecv" \in Statuses /\ TRUE \in BOOLEAN /\ 1 \in Nat
    BY DEF Statuses
  <2>2. d \in Conns
    BY <1>2, <2>1 DEF Conns
  <2>3. /\ d.status = "SynRecv" /\ d.iss = c.iss /\ d.irs = s.seq /\ d.rcvNxt = 1
        /\ d.sendUna = c.sendUna /\ d.sendNxt = c.sendNxt /\ d.queue = c.queue
        /\ d.rcvWnd = c.rcvWnd /\ d.timeWait = c.timeWait
    BY <1>2 DEF Conns
  <2>4. s.seq \in nums /\ c.rcvNxt = 0
    BY <1>5 DEF Agrees
  <2> HIDE DEF d
  <2>5. Sane(d) /\ SynKept(d)
    BY <1>5, <2>2, <2>3 DEF Sane, SynKept, Live
  <2>6. Grows(c, d)
    BY <1>2, <2>3, <2>4, ConnFields DEF Grows
  <2>7. wrapFromIrs(d, 1) \in SeqNums
    BY <2>1, <2>2, NumberTypes
  <2>8. /\ t \in Results /\ Sane(t.conn) /\ SynSentAt(t.out, d.iss) /\ t.conn.status = d.status
        /\ t.conn.iss = d.iss /\ t.conn.irs = d.irs
        /\ t.conn.sendUna = d.sendUna /\ t.conn.sendNxt = d.sendNxt /\ t.conn.rcvNxt = d.rcvNxt
        /\ Fits(d, t)
    BY <2>3, <2>5, <2>7, SynAckSend DEF Sends
  <2> HIDE DEF t
  <2>9. Grows(c, t.conn) /\ Agrees(p, t.conn, nums)
    BY <1>2, <2>3, <2>4, <2>6, <2>8 DEF Grows, Agrees
  <2>10. SynSentAt(t.out, Iss(p)) /\ Fits(c, t)
    BY <1>2, <2>3, <2>8 DEF Fits
  <2>11. Kept(p, c, t, nums)
    BY <2>3, <2>8, <2>9, <2>10 DEF Kept
  <2> QED
    BY <1>5, <2>3, <2>8, <2>11 DEF Edge, RfcEdges
<1> QED
  BY <1>1, <1>3, <1>4, <1>5

\* The status after a segment: along the state diagram, or reset.
StatusStep(c, d, s) ==
    c.inTable \/ d.inTable =>
        Edge(c.status, d.status) \/ ("RST" \in s.flags /\ d.status = "Closed")

LEMMA HandlerKept ==
    ASSUME NEW p, NEW nums, Sane(conn[p]), Agrees(p, conn[p], nums), conn[p].rcvWnd \in Windows,
           NEW s \in Segments, s.wnd \in Windows, "SYN" \in s.flags => s.seq \in nums
    PROVE  LET h == tcpHandler(p, s)
           IN  Kept(p, conn[p], h, nums) /\ StatusStep(conn[p], h.conn, s)
<1> DEFINE c == conn[p]
           h == tcpHandler(p, s)
<1>1. /\ c \in Conns /\ c.status \in Statuses /\ c.inTable \in BOOLEAN /\ Grows(c, c)
      /\ c.iss = Iss(p)
  BY ConnFields, GrowsSame DEF Sane, Agrees
<1>2. Kept(p, c, Result(c), nums) /\ Result(c).conn = c
  BY <1>1, ResultKept
<1>3. CASE c.inTable
  <2>1. c.status \notin {"None", "Closed"}
    BY <1>3 DEF Sane, Live
  <2>2. CASE c.status = "SynSent"
    <3>1. p = Client
      BY <2>2 DEF Agrees
    <3>2. h = handleSynSentState(c, s)
      BY <1>3, <2>2 DEF tcpHandler, handleConnStatus
    <3> HIDE DEF h, c
    <3>3. Kept(p, c, h, nums) /\ Edge(c.status, h.conn.status)
      BY <2>2, <3>1, <3>2, SynSentKept DEF c
    <3> QED
      BY <3>3 DEF StatusStep, c, h
  <2>3. CASE c.status # "SynSent"
    <3>1. h = handleOtherStates(c, s)
      BY <1>3, <2>1, <2>3 DEF tcpHandler, handleConnStatus
    <3>2. c.irs \in nums /\ c.rcvNxt > 0
      BY <1>3, <2>1, <2>3 DEF Agrees
    <3> HIDE DEF h
    <3>3. /\ Handled(c, h)
          /\ Edge(c.status, h.conn.status) \/ ("RST" \in s.flags /\ h.conn.status = "Closed")
      BY <2>1, <2>3, <3>1, OtherStatesHandled
    <3>4. Kept(p, c, h, nums)
      BY <1>1, <3>2, <3>3, HandledKept
    <3> QED
      BY <3>3, <3>4 DEF StatusStep, h
  <2> QED
    BY <2>2, <2>3
<1>4. CASE ~c.inTable
  <2>1. CASE p = Client
    <3>1. h = Result(c)
      BY <1>4, <2>1 DEF tcpHandler
    <3> QED
      BY <1>2, <3>1 DEF StatusStep, Edge
  <2>2. CASE p # Client
    <3>1. h = handleListenState(c, s)
      BY <1>4, <2>2 DEF tcpHandler
    <3> HIDE DEF h
    <3>2. Kept(p, c, h, nums) /\ Edge(c.status, h.conn.status)
      BY <1>4, <3>1, ListenKept
    <3> QED
      BY <3>2 DEF StatusStep, h
  <2> QED
    BY <2>1, <2>2
<1> QED
  BY <1>1, <1>3, <1>4

-----------------------------------------------------------------------------
(* Connections and packets together.                                        *)

LEMMA HostFacts ==
    /\ \A h \in Hosts : Other(h) \in Hosts /\ Other(h) # h /\ Other(Other(h)) = h
    /\ \A h, g \in Hosts : g # h => g = Other(h)
    /\ \A p \in Ends : HostOf(p) \in Hosts /\ (HostOf(p) = "client" <=> p = Client)
    /\ Client \in Ends
<1>1. Client \in Ends
  BY ConnAssumption DEF Client, Ends
<1> QED
  BY <1>1 DEF Hosts, Other, HostOf

\* No pointer of a connection moves back, and none is made anew.
Forward ==
    \A p \in Ends :
        Grows(conn[p], conn'[p]) /\ (conn[p].status # "None" => conn'[p].status # "None")

\* What is known of the numbers opened stays true when more are opened.
LEMMA OpenedGrows ==
    ASSUME Forward, NEW h
    PROVE  Opened(h) \subseteq Opened(h)'
<1>1. \A q \in EndsOf(h) : q \in Ends /\ (conn[q].status # "None" => conn'[q].status # "None")
  BY DEF Forward, EndsOf
<1>2. Opened(h)' = {Iss(q) : q \in {x \in EndsOf(h) : conn'[x].status # "None"}}
  BY DEF Opened, Iss, EndsOf, HostOf, Ends, Client
<1> QED
  BY <1>1, <1>2 DEF Opened

LEMMA AgreesMore ==
    ASSUME NEW p, NEW c, NEW nums, NEW more, Agrees(p, c, nums), nums \subseteq more
    PROVE  Agrees(p, c, more)
  BY DEF Agrees

LEMMA FineMore ==
    ASSUME NEW msgs, NEW nums, NEW more, Fine(msgs, nums), nums \subseteq more
    PROVE  Fine(msgs, more)
  BY DEF Fine

LEMMA FineConcat ==
    ASSUME NEW a \in Seq(Segments), NEW b \in Seq(Segments), NEW nums, Fine(a, nums), Fine(b, nums)
    PROVE  a \o b \in Seq(Segments) /\ Fine(a \o b, nums)
<1> DEFINE Good(s) == s.wnd \in Windows /\ ("SYN" \in s.flags => s.seq \in nums)
<1>1. /\ a \o b \in Seq(Segments) /\ Len(a \o b) = Len(a) + Len(b) /\ Len(a) \in Nat /\ Len(b) \in Nat
  OBVIOUS
<1>2. ASSUME NEW i \in 1..Len(a \o b) PROVE Good((a \o b)[i])
  <2>1. CASE i \in 1..Len(a)
    <3>1. (a \o b)[i] = a[i]
      BY <2>1
    <3> QED
      BY <2>1, <3>1 DEF Fine
  <2>2. CASE i \notin 1..Len(a)
    <3>1. (a \o b)[i] = b[i - Len(a)] /\ i - Len(a) \in 1..Len(b)
      BY <1>1, <2>2
    <3> QED
      BY <3>1 DEF Fine
  <2> QED
    BY <2>1, <2>2
<1> QED
  BY <1>1, <1>2 DEF Fine

LEMMA FineDrop ==
    ASSUME NEW a \in Seq(Segments), NEW nums, Fine(a, nums), NEW i \in 1..Len(a)
    PROVE  DropAt(a, i) \in Seq(Segments) /\ Fine(DropAt(a, i), nums)
<1> DEFINE b == SubSeq(a, 1, i - 1)
           c == SubSeq(a, i + 1, Len(a))
<1>1. Len(a) \in Nat /\ i \in Nat /\ 1 <= i /\ i <= Len(a)
  OBVIOUS
<1>2. b \in Seq(Segments) /\ Len(b) = i - 1 /\ \A k \in 1..(i - 1) : b[k] = a[k]
  BY <1>1
<1>3. /\ c \in Seq(Segments) /\ Len(c) = Len(a) - i
      /\ \A k \in 1..(Len(a) - i) : c[k] = a[i + k]
  BY <1>1
<1> HIDE DEF b, c
<1>4. Fine(b, nums)
  <2>1. \A k \in 1..(i - 1) : k \in 1..Len(a)
    BY <1>1
  <2> QED
    BY <1>2, <2>1 DEF Fine
<1>5. Fine(c, nums)
  <2>1. \A k \in 1..(Len(a) - i) : i + k \in 1..Len(a)
    BY <1>1
  <2> QED
    BY <1>3, <2>1 DEF Fine
<1>6. DropAt(a, i) = b \o c
  BY DEF DropAt, b, c
<1> QED
  BY <1>2, <1>3, <1>4, <1>5, <1>6, FineConcat

\* What connection p, opened, sends is fine.
LEMMA OutFine ==
    ASSUME NEW p \in Ends, NEW c, NEW nums, NEW r, Kept(p, c, r, nums),
           r.conn.rcvWnd \in Windows, conn'[p] = r.conn
    PROVE  r.out \in Seq(Segments) /\ Fine(r.out, Opened(HostOf(p))')
<1> DEFINE new == Opened(HostOf(p))'
<1>1. r.out \in Seq(Segments) /\ InWindows(r.out) /\ SynSentAt(r.out, Iss(p))
  BY DEF Kept, Results, Fits
<1>2. r.conn.status # "None" => Iss(p) \in new
  BY DEF Opened, Iss, EndsOf, HostOf, Ends, Client
<1>3. r.conn.status = "None" => Quiet(r.out)
  BY DEF Kept
<1> HIDE DEF new
<1>4. Fine(r.out, new)
  BY <1>1, <1>2, <1>3 DEF Fine, InWindows, SynSentAt, Quiet
<1> QED
  BY <1>1, <1>4 DEF new

\* What every step does to the connections.
LEMMA ConnStep ==
    ASSUME ConnInv, conn' \in [Ends -> Conns],
           \A q \in Ends : /\ Sane(conn'[q]) /\ conn'[q].rcvWnd \in Windows
                           /\ Agrees(q, conn'[q], Opened(Other(HostOf(q))))
                           /\ Grows(conn[q], conn'[q])
                           /\ conn[q].status # "None" => conn'[q].status # "None"
    PROVE  ConnInv' /\ Forward
<1>1. Forward
  BY DEF Forward
<1>2. ASSUME NEW q \in Ends
      PROVE  Agrees(q, conn'[q], Opened(Other(HostOf(q)))')
  BY <1>1, OpenedGrows, AgreesMore
<1>3. ConnInv'
  <2>1. \A q \in Ends : Agrees(q, conn[q], Opened(Other(HostOf(q))))'
    BY <1>2 DEF Agrees, Opened, Iss, Other, HostOf, EndsOf, Ends, Client
  <2> QED
    BY <2>1 DEF ConnInv, Sane, SynKept, Live, Windows, Conns, Entries, Statuses, SeqNums,
                HostOf, Other, Ends, Client
<1> QED
  BY <1>1, <1>3

\* A step of one connection alone.
LEMMA OneConnStep ==
    ASSUME ConnInv, NEW p \in Ends, NEW d, conn' = [conn EXCEPT ![p] = d],
           Sane(d), d.rcvWnd \in Windows, Agrees(p, d, Opened(Other(HostOf(p)))),
           Grows(conn[p], d), conn[p].status # "None" => d.status # "None"
    PROVE  /\ ConnInv' /\ Forward
           /\ conn'[p] = d /\ \A q \in Ends : q # p => conn'[q] = conn[q]
<1>1. d \in Conns /\ conn \in [Ends -> Conns]
  BY DEF Sane, ConnInv
<1>2. /\ conn' \in [Ends -> Conns] /\ conn'[p] = d
      /\ \A q \in Ends : q # p => conn'[q] = conn[q]
  BY <1>1
<1>3. ASSUME NEW q \in Ends
      PROVE  /\ Sane(conn'[q]) /\ conn'[q].rcvWnd \in Windows
             /\ Agrees(q, conn'[q], Opened(Other(HostOf(q))))
             /\ Grows(conn[q], conn'[q])
             /\ conn[q].status # "None" => conn'[q].status # "None"
  <2>1. CASE q = p
    BY <1>2, <2>1
  <2>2. CASE q # p
    BY <1>1, <1>2, <2>2, GrowsSame DEF ConnInv
  <2> QED
    BY <2>1, <2>2
<1> QED
  BY <1>2, <1>3, ConnStep

LEMMA ConnSame ==
    ASSUME ConnInv, conn' = conn
    PROVE  ConnInv' /\ Forward /\ \A p \in Ends : FollowsRfc(p)
<1>1. \A q \in Ends : Grows(conn[q], conn'[q])
  BY GrowsSame DEF ConnInv
<1>2. ConnInv' /\ Forward
  BY <1>1, ConnStep DEF ConnInv
<1> QED
  BY <1>2 DEF FollowsRfc

LEMMA NetStep ==
    ASSUME net' \in [Hosts -> Seq(Segments)],
           \A h \in Hosts : Fine(net'[h], Opened(Other(h))')
    PROVE  NetInv'
  BY DEF NetInv, Fine, Windows, Opened, Iss, Other, HostOf, EndsOf, Ends, Client, Hosts,
         Segments, SeqNums

LEMMA NetSame == ASSUME NetInv, Forward, net' = net PROVE NetInv'
<1>1. \A h \in Hosts : Fine(net'[h], Opened(Other(h))')
  BY OpenedGrows, FineMore DEF NetInv
<1> QED
  BY <1>1, NetStep DEF NetInv

\* Packets for host g are added, and for the other host dropped.
LEMMA NetTwo ==
    ASSUME NetInv, Forward, NEW g \in Hosts, NEW a, NEW b,
           net' = [net EXCEPT ![g] = a, ![Other(g)] = b],
           a \in Seq(Segments), b \in Seq(Segments),
           Fine(a, Opened(Other(g))'), Fine(b, Opened(g)')
    PROVE  NetInv'
<1>1. net \in [Hosts -> Seq(Segments)]
  BY DEF NetInv
<1>2. net' \in [Hosts -> Seq(Segments)] /\ net'[g] = a /\ net'[Other(g)] = b
  BY <1>1, HostFacts
<1>3. ASSUME NEW h \in Hosts PROVE Fine(net'[h], Opened(Other(h))')
  <2>1. CASE h = g
    BY <1>2, <2>1
  <2>2. CASE h # g
    <3>1. h = Other(g) /\ Other(h) = g
      BY <2>2, HostFacts
    <3> QED
      BY <1>2, <3>1
  <2> QED
    BY <2>1, <2>2
<1> QED
  BY <1>2, <1>3, NetStep

LEMMA CallSame ==
    ASSUME CallInv, Forward, UNCHANGED <<pending, closing, closes, resends, written, stored>>
    PROVE  CallInv'
  BY DEF CallInv, Forward, SeqNums, NoNumbers, Ends

-----------------------------------------------------------------------------
(* The steps of the system.                                                 *)

LEMMA InvInit == Init => Inv
<1> SUFFICES ASSUME Init PROVE Inv
  OBVIOUS
<1>1. ASSUME NEW p \in Ends
      PROVE  /\ conn[p] \in Conns /\ Sane(conn[p]) /\ conn[p].rcvWnd \in Windows
             /\ \A nums : Agrees(p, conn[p], nums)
  <2> DEFINE c == conn[p]
  <2>1. c = NewConn(Iss(p)) /\ Iss(p) \in SeqNums
    <3>1. p # Client => p \in 1..Len(ServerIss)
      BY ConnAssumption DEF Ends, Client
    <3>2. ServerIss \in Seq(SeqNums) /\ ClientIss \in SeqNums
      BY ConnAssumption DEF SeqNums
    <3>3. p # Client => ServerIss[p] \in SeqNums
      BY <3>1, <3>2
    <3>4. Iss(p) \in SeqNums
      BY <3>2, <3>3 DEF Iss
    <3> QED
      BY <3>4 DEF Init
  <2>2. "None" \in Statuses /\ 0 \in SeqNums /\ TcbSize \in Windows /\ 0 \in Windows
        /\ TcbSize \in Int /\ << >> \in Seq(Entries) /\ FALSE \in BOOLEAN
    BY SeqModFacts DEF Statuses, SeqNums, Windows
  <2>3. c \in Conns
    BY <2>1, <2>2 DEF NewConn, Conns
  <2>4. c.status = "None" /\ c.inTable = FALSE /\ c.iss = Iss(p) /\ c.sendUna = 0 /\ c.sendNxt = 1
        /\ c.rcvNxt = 0 /\ c.queue = << >> /\ c.timeWait = FALSE /\ c.waiting = FALSE
        /\ c.rcvWnd = TcbSize
    BY <2>1 DEF NewConn
  <2> HIDE DEF c
  <2>5. Sane(c) /\ \A nums : Agrees(p, c, nums)
    BY <2>3, <2>4 DEF Sane, SynKept, Live, Agrees
  <2> QED
    BY <2>2, <2>3, <2>4, <2>5 DEF c
<1>2. ConnInv
  BY <1>1 DEF ConnInv, Init
<1>3. NetInv /\ CallInv
  BY DEF Init, NetInv, CallInv, Fine, NoNumbers
<1> QED
  BY <1>2, <1>3 DEF Inv

LEMMA ModType == ASSUME NEW m \in Nat \ {0}, NEW x \in Int PROVE x % m \in 0..(m - 1)
  OBVIOUS

\* A call whose result is r takes no text.
LEMMA ApplyStep ==
    ASSUME Inv, NEW p \in Ends, NEW r, Kept(p, conn[p], r, Opened(Other(HostOf(p)))),
           r.data = << >>, Apply(p, r)
    PROVE  /\ ConnInv' /\ Forward /\ NetInv'
           /\ conn'[p] = r.conn /\ \A q \in Ends : q # p => conn'[q] = conn[q]
<1> DEFINE h == HostOf(p)
           g == Other(h)
           a == net[h]
           b == net[g] \o r.out
<1>1. /\ ConnInv /\ NetInv /\ Sane(r.conn) /\ Agrees(p, r.conn, Opened(g))
      /\ Grows(conn[p], r.conn) /\ (conn[p].status # "None" => r.conn.status # "None")
      /\ conn' = [conn EXCEPT ![p] = r.conn]
      /\ net' = [net EXCEPT ![g] = @ \o r.out]
  BY DEF Inv, Kept, Apply
<1>2. r.conn.rcvWnd \in Windows
  <2>1. conn[p].rcvWnd \in Windows /\ r.conn.rcvWnd = conn[p].rcvWnd - 0
    BY DEF Inv, ConnInv, Kept, Fits
  <2> QED
    BY <2>1, SeqModFacts DEF Windows
<1>3. /\ ConnInv' /\ Forward
      /\ conn'[p] = r.conn /\ \A q \in Ends : q # p => conn'[q] = conn[q]
  BY <1>1, <1>2, OneConnStep
<1>4. r.out \in Seq(Segments) /\ Fine(r.out, Opened(h)')
  BY <1>2, <1>3, OutFine
<1>5. h \in Hosts /\ g \in Hosts /\ g # h /\ Other(g) = h
  BY HostFacts
<1>6. a \in Seq(Segments) /\ Fine(a, Opened(g)') /\ net[g] \in Seq(Segments) /\ Fine(net[g], Opened(h)')
  <2>1. net \in [Hosts -> Seq(Segments)] /\ Fine(net[h], Opened(g)) /\ Fine(net[g], Opened(h))
    BY <1>1, <1>5 DEF NetInv
  <2> QED
    BY <1>3, <1>5, <2>1, OpenedGrows, FineMore
<1>7. b \in Seq(Segments) /\ Fine(b, Opened(h)')
  BY <1>4, <1>6, FineConcat
<1>8. net' = [net EXCEPT ![h] = a, ![g] = b]
  BY <1>1, <1>5 DEF NetInv
<1> HIDE DEF a, b, g, h
<1>9. NetInv'
  BY <1>1, <1>3, <1>5, <1>6, <1>7, <1>8, NetTwo DEF g
<1> QED
  BY <1>3, <1>9

LEMMA SendsKept ==
    ASSUME NEW p, NEW nums, NEW c, Sane(c), NEW d, Sane(d), d.status # "None",
           Agrees(p, d, nums), Grows(c, d), d.rcvWnd = c.rcvWnd, NEW t, Sends(d, t)
    PROVE  Kept(p, c, t, nums)
<1>1. Agrees(p, t.conn, nums)
  BY DEF Agrees, Sends
<1>2. Grows(c, t.conn)
  BY DEF Grows, Sends
<1>3. Fits(c, t)
  BY DEF Fits, Sends
<1> QED
  BY <1>1, <1>2, <1>3 DEF Kept, Sends, Agrees

\* What one call, or one handler, does not touch.
LEMMA OneRfc ==
    ASSUME NEW p \in Ends, \A q \in Ends : q # p => conn'[q] = conn[q], FollowsRfc(p)
    PROVE  \A q \in Ends : FollowsRfc(q)
  BY DEF FollowsRfc

\* The SYN of the client.
LEMMA VConnectStep ==
    ASSUME Inv, VConnect
    PROVE  Inv' /\ Forward /\ \A p \in Ends : FollowsRfc(p)
<1> DEFINE p == Client
           nums == Opened(Other(HostOf(p)))
           c == conn[p]
           d == [c EXCEPT !.status = "SynSent", !.inTable = TRUE, !.waiting = TRUE]
           seq == d.iss
           ack == d.irs
           flags == {"SYN"}
           none == << >>
           t == send(Result(d), seq, ack, flags, none)
<1>1. /\ p \in Ends /\ ConnInv /\ CallInv /\ c.status = "None" /\ Sane(c)
      /\ Agrees(p, c, nums) /\ c \in Conns
  BY HostFacts DEF Inv, VConnect, ConnInv
<1>2. d \in Conns
  <2>1. "SynSent" \in Statuses /\ TRUE \in BOOLEAN
    BY DEF Statuses
  <2> HIDE DEF c
  <2> QED
    BY <1>1, <2>1 DEF Conns
<1>3. /\ d.status = "SynSent" /\ d.iss = c.iss /\ d.irs = c.irs /\ d.sendUna = c.sendUna
      /\ d.sendNxt = c.sendNxt /\ d.rcvNxt = c.rcvNxt /\ d.queue = c.queue /\ d.inTable = TRUE
      /\ d.timeWait = c.timeWait /\ d.rcvWnd = c.rcvWnd
  <2> HIDE DEF c
  <2> QED
    BY <1>1 DEF Conns
<1>4. Apply(p, t) /\ UNCHANGED <<pending, closing, closes, resends, written, stored>>
  BY DEF VConnect, sendFlags
<1>5. flags \in SUBSET {"SYN", "ACK", "FIN"} /\ none \in Seq(Nat) /\ p = Client
  OBVIOUS
<1> HIDE DEF p, c, d, flags, none, nums
<1>6. Sane(d) /\ Agrees(p, d, nums) /\ Grows(c, d)
  <2>1. Grows(c, c)
    BY <1>1, GrowsSame
  <2>2. SynKept(d) /\ Live(d)
    BY <1>1, <1>3 DEF Sane, SynKept, Live
  <2> QED
    BY <1>1, <1>2, <1>3, <1>5, <2>1, <2>2 DEF Sane, Agrees, Grows
<1>7. seq \in SeqNums /\ ack \in SeqNums
  BY <1>2, ConnFields
<1>8. Sends(d, t)
  BY <1>3, <1>5, <1>6, <1>7, FreshSend
<1>9. t.data = << >>
  BY <1>8 DEF Sends
<1> HIDE DEF t
<1>10. Kept(p, c, t, nums)
  BY <1>1, <1>3, <1>6, <1>8, SendsKept
<1>11. /\ ConnInv' /\ Forward /\ NetInv'
       /\ conn'[p] = t.conn /\ \A q \in Ends : q # p => conn'[q] = conn[q]
  BY <1>1, <1>4, <1>9, <1>10, ApplyStep DEF c, nums
<1>12. FollowsRfc(p)
  <2>1. conn'[p].status = "SynSent"
    BY <1>3, <1>8, <1>11 DEF Sends
  <2> QED
    BY <1>1, <2>1 DEF FollowsRfc, RfcEdges, c
<1> QED
  BY <1>1, <1>4, <1>11, <1>12, CallSame, OneRfc DEF Inv

\* closeDelete deletes one connection and, by their common key, takes the
\* others of its host out of the table.
LEMMA DeletedStep ==
    ASSUME ConnInv, NEW p \in Ends, conn[p].status # "None", NEW c \in Conns,
           c = [conn[p] EXCEPT !.waiting = FALSE] \/ c = [conn[p] EXCEPT !.timeWait = FALSE],
           conn' = Deleted(p, c)
    PROVE  /\ ConnInv' /\ Forward
           /\ conn'[p].status = "Closed" /\ conn'[p].inTable = FALSE
           /\ \A q \in Ends : q # p => conn'[q].status = conn[q].status
<1> DEFINE a == conn[p]
<1>1. /\ a \in Conns /\ Sane(a) /\ a.rcvWnd \in Windows /\ Agrees(p, a, Opened(Other(HostOf(p))))
  BY DEF ConnInv
<1>2. /\ c.status = a.status /\ c.inTable = a.inTable /\ c.iss = a.iss /\ c.irs = a.irs
      /\ c.sendUna = a.sendUna /\ c.sendNxt = a.sendNxt /\ c.rcvNxt = a.rcvNxt
      /\ c.queue = a.queue /\ c.rcvWnd = a.rcvWnd /\ (c.timeWait = a.timeWait \/ c.timeWait = FALSE)
  <2> HIDE DEF a
  <2>1. c = [a EXCEPT !.waiting = FALSE] \/ c = [a EXCEPT !.timeWait = FALSE]
    BY DEF a
  <2> QED
    BY <1>1, <2>1 DEF Conns
<1>3. Sane(c) /\ Agrees(p, c, Opened(Other(HostOf(p)))) /\ Grows(a, c)
  <2>1. Grows(a, a)
    BY <1>1, GrowsSame
  <2> HIDE DEF a
  <2>2. SynKept(c) /\ Live(c)
    BY <1>1, <1>2 DEF Sane, SynKept, Live, a
  <2> QED
    BY <1>1, <1>2, <2>1, <2>2 DEF Sane, Agrees, Grows
<1> DEFINE d == closeDelete(c)
<1>4. /\ Sane(d) /\ Agrees(p, d, Opened(Other(HostOf(p)))) /\ Grows(c, d) /\ d.rcvWnd = c.rcvWnd
      /\ d.status = "Closed" /\ d.inTable = FALSE
  <2>1. c.status # "None"
    BY <1>2
  <2> QED
    BY <1>3, <2>1, CloseKept, CloseDeleteFacts
<1> HIDE DEF d
<1>5. conn' = [q \in Ends |-> CASE q = p -> d
                                [] q # p /\ HostOf(q) = HostOf(p) -> [conn[q] EXCEPT !.inTable = FALSE]
                                [] OTHER -> conn[q]]
  BY DEF Deleted, d
<1>6. conn'[p] = d
  BY <1>5
<1>7. ASSUME NEW q \in Ends, q # p
      PROVE  /\ conn'[q] \in Conns /\ Sane(conn'[q]) /\ conn'[q].rcvWnd \in Windows
             /\ Agrees(q, conn'[q], Opened(Other(HostOf(q))))
             /\ Grows(conn[q], conn'[q]) /\ conn'[q].status = conn[q].status
  <2> DEFINE b == conn[q]
             e == [b EXCEPT !.inTable = FALSE]
  <2>1. conn'[q] = b \/ conn'[q] = e
    BY <1>5, <1>7
  <2>2. /\ b \in Conns /\ Sane(b) /\ b.rcvWnd \in Windows
        /\ Agrees(q, b, Opened(Other(HostOf(q)))) /\ Grows(b, b)
    BY GrowsSame DEF ConnInv
  <2> HIDE DEF b
  <2>3. /\ e \in Conns /\ e.status = b.status /\ e.inTable = FALSE /\ e.iss = b.iss /\ e.irs = b.irs
        /\ e.sendUna = b.sendUna /\ e.sendNxt = b.sendNxt /\ e.rcvNxt = b.rcvNxt
        /\ e.queue = b.queue /\ e.rcvWnd = b.rcvWnd /\ e.timeWait = b.timeWait
        /\ e.waiting = b.waiting
    BY <2>2 DEF Conns
  <2> HIDE DEF e
  <2>4. SynKept(e) /\ Live(e)
    BY <2>2, <2>3 DEF Sane, SynKept, Live
  <2>5. Sane(e) /\ Agrees(q, e, Opened(Other(HostOf(q)))) /\ Grows(b, e)
    BY <2>2, <2>3, <2>4 DEF Sane, Agrees, Grows
  <2> QED
    BY <2>1, <2>2, <2>3, <2>5 DEF b
<1>8. Grows(a, d)
  <2>1. /\ a.sendUna \in Nat /\ a.sendNxt \in Nat /\ a.rcvNxt \in Nat
        /\ c.sendUna \in Nat /\ c.sendNxt \in Nat /\ c.rcvNxt \in Nat
    BY <1>1, ConnFields
  <2> HIDE DEF a
  <2> QED
    BY <1>2, <1>4, <2>1 DEF Grows
<1>9. d \in Conns /\ d.rcvWnd \in Windows
  BY <1>1, <1>2, <1>4 DEF Sane
<1>10. conn' \in [Ends -> Conns]
  <2>1. \A q \in Ends : conn'[q] \in Conns
    BY <1>6, <1>7, <1>9
  <2>2. conn' = [q \in Ends |-> conn'[q]]
    BY <1>5
  <2> QED
    BY <2>1, <2>2
<1>11. \A q \in Ends : /\ Sane(conn'[q]) /\ conn'[q].rcvWnd \in Windows
                       /\ Agrees(q, conn'[q], Opened(Other(HostOf(q))))
                       /\ Grows(conn[q], conn'[q])
                       /\ conn[q].status # "None" => conn'[q].status # "None"
  BY <1>4, <1>6, <1>7, <1>8, <1>9
<1> QED
  BY <1>4, <1>6, <1>7, <1>10, <1>11, ConnStep

\* A timer deletes the TCB.
LEMMA TimerStep ==
    ASSUME Inv, NEW p \in Ends, GiveUp(p) \/ TimeWaitTimeout(p)
    PROVE  Inv' /\ Forward /\ \A q \in Ends : FollowsRfc(q)
<1> DEFINE a == conn[p]
<1>1. /\ ConnInv /\ NetInv /\ CallInv /\ a \in Conns /\ Live(a)
      /\ UNCHANGED <<net, pending, closing, closes, resends, written, stored>>
  BY DEF Inv, ConnInv, Sane, GiveUp, TimeWaitTimeout
<1>2. PICK c : /\ c = [a EXCEPT !.waiting = FALSE] \/ c = [a EXCEPT !.timeWait = FALSE]
               /\ conn' = Deleted(p, c)
  BY DEF GiveUp, TimeWaitTimeout
<1>3. a.status # "None"
  BY <1>1 DEF GiveUp, TimeWaitTimeout, Live
<1>4. c \in Conns
  <2>1. FALSE \in BOOLEAN
    OBVIOUS
  <2> HIDE DEF a
  <2> QED
    BY <1>1, <1>2, <2>1 DEF Conns
<1>5. /\ ConnInv' /\ Forward
      /\ conn'[p].status = "Closed" /\ conn'[p].inTable = FALSE
      /\ \A q \in Ends : q # p => conn'[q].status = conn[q].status
  BY <1>1, <1>2, <1>3, <1>4, DeletedStep
<1>6. FollowsRfc(p)
  <2>1. CASE GiveUp(p)
    BY <1>5, <2>1 DEF GiveUp, FollowsRfc, Aborts
  <2>2. CASE TimeWaitTimeout(p)
    <3>1. a.inTable => a.status = "TimeWait"
      BY <1>1, <2>2 DEF TimeWaitTimeout, Live
    <3> QED
      BY <1>5, <3>1 DEF FollowsRfc, RfcEdges
  <2> QED
    BY <2>1, <2>2
<1>7. \A q \in Ends : FollowsRfc(q)
  BY <1>5, <1>6 DEF FollowsRfc
<1> QED
  BY <1>1, <1>5, <1>7, NetSame, CallSame DEF Inv

\* A packet of a host is taken by the handler of one of its connections.
LEMMA ReceiveStep ==
    ASSUME Inv, NEW h \in Hosts, Receive(h)
    PROVE  Inv' /\ Forward /\ \A q \in Ends : FollowsRfc(q)
<1>0. UNCHANGED <<pending, closing, closes, resends, written>>
  BY Zenon DEF Receive
<1>1. PICK i \in 1..Len(net[h]), p \in EndsOf(h) :
          \E r \in {tcpHandler(p, net[h][i])} :
             /\ Len(r.data) <= conn[p].rcvWnd
             /\ conn' = [conn EXCEPT ![p] = r.conn]
             /\ net' = [net EXCEPT ![h] = DropAt(@, i), ![Other(h)] = @ \o r.out]
             /\ stored' = [stored EXCEPT ![p] = @ \o r.data]
  BY Zenon DEF Receive
<1> DEFINE g == Other(h)
           m == net[h]
           s == m[i]
           r == tcpHandler(p, s)
           a == DropAt(m, i)
           b == net[g] \o r.out
           c == conn[p]
<1>2. /\ Len(r.data) <= c.rcvWnd /\ conn' = [conn EXCEPT ![p] = r.conn]
      /\ net' = [net EXCEPT ![h] = DropAt(@, i), ![g] = @ \o r.out]
      /\ stored' = [stored EXCEPT ![p] = @ \o r.data]
      /\ UNCHANGED <<pending, closing, closes, resends, written>>
  BY <1>1, <1>0
<1>3. p \in Ends /\ HostOf(p) = h /\ g \in Hosts /\ g # h /\ Other(g) = h
  BY HostFacts DEF EndsOf
<1>4. /\ ConnInv /\ NetInv /\ CallInv /\ Sane(c) /\ c.rcvWnd \in Windows
      /\ Agrees(p, c, Opened(g)) /\ net \in [Hosts -> Seq(Segments)]
      /\ m \in Seq(Segments) /\ Fine(m, Opened(g))
      /\ net[g] \in Seq(Segments) /\ Fine(net[g], Opened(h))
  BY <1>3 DEF Inv, ConnInv, NetInv
<1>5. s \in Segments /\ s.wnd \in Windows /\ ("SYN" \in s.flags => s.seq \in Opened(g))
  BY <1>4 DEF Fine
<1> HIDE DEF g
<1>6. Kept(p, c, r, Opened(g)) /\ StatusStep(c, r.conn, s)
  <2> HIDE DEF s
  <2> QED
    BY <1>4, <1>5, HandlerKept
<1> HIDE DEF r
<1>7. r.conn.rcvWnd \in Windows /\ r.data \in Seq(Nat)
  <2>1. r.conn.rcvWnd = c.rcvWnd - Len(r.data) /\ r.data \in Seq(Nat)
    BY <1>6 DEF Kept, Fits, Results
  <2>2. Len(r.data) \in Nat
    BY <2>1
  <2> HIDE DEF c
  <2> QED
    BY <1>2, <1>4, <2>1, <2>2, SeqModFacts DEF Windows
<1>8. /\ ConnInv' /\ Forward
      /\ conn'[p] = r.conn /\ \A q \in Ends : q # p => conn'[q] = conn[q]
  BY <1>2, <1>3, <1>4, <1>6, <1>7, OneConnStep DEF Kept, g
<1>9. r.out \in Seq(Segments) /\ Fine(r.out, Opened(h)')
  BY <1>3, <1>6, <1>7, <1>8, OutFine
<1>10. /\ Fine(m, Opened(g)') /\ Fine(net[g], Opened(h)')
  BY <1>4, <1>8, OpenedGrows, FineMore
<1>11. a \in Seq(Segments) /\ Fine(a, Opened(g)')
  BY <1>4, <1>10, FineDrop
<1>12. b \in Seq(Segments) /\ Fine(b, Opened(h)')
  BY <1>4, <1>9, <1>10, FineConcat
<1>13. net' = [net EXCEPT ![h] = a, ![g] = b]
  BY <1>2, <1>3, <1>4
<1> HIDE DEF a, b
<1>14. NetInv'
  BY <1>4, <1>8, <1>11, <1>12, <1>13, NetTwo DEF g
<1>15. CallInv'
  <2>1. stored[p] \in Seq(Nat)
    BY <1>3, <1>4 DEF CallInv
  <2>2. stored[p] \o r.data \in Seq(Nat)
    BY <1>7, <2>1
  <2> DEFINE text == stored[p] \o r.data
  <2>3. stored' = [stored EXCEPT ![p] = text]
    BY <1>2
  <2> HIDE DEF text
  <2>4. stored' \in [Ends -> Seq(Nat)]
    BY <1>4, <2>2, <2>3 DEF CallInv, text
  <2>5. \A q \in Ends : pending'[q] # << >> \/ closing'[q] # NoNumbers => conn'[q].status # "None"
    BY <1>2, <1>4, <1>8 DEF CallInv, Forward
  <2> QED
    BY <1>2, <1>4, <2>4, <2>5 DEF CallInv, SeqNums, NoNumbers, Ends
<1>16. FollowsRfc(p)
  <2>1. \/ ~(c.inTable \/ conn'[p].inTable)
        \/ Edge(c.status, conn'[p].status)
        \/ "RST" \in s.flags /\ conn'[p].status = "Closed"
    BY <1>6, <1>8 DEF StatusStep
  <2>2. "RST" \in s.flags => \E k \in 1..Len(net[HostOf(p)]) : "RST" \in net[HostOf(p)][k].flags
    BY <1>3
  <2> QED
    BY <2>1, <2>2 DEF FollowsRfc, Edge, Aborts
<1> QED
  BY <1>3, <1>8, <1>14, <1>15, <1>16, OneRfc DEF Inv

LEMMA LoseStep ==
    ASSUME Inv, NEW h \in Hosts, Lose(h)
    PROVE  Inv' /\ Forward /\ \A q \in Ends : FollowsRfc(q)
<1>1. PICK i \in 1..Len(net[h]) : net' = [net EXCEPT ![h] = DropAt(@, i)]
  BY DEF Lose
<1> DEFINE g == Other(h)
           m == net[h]
           a == DropAt(m, i)
           b == net[g]
<1>2. UNCHANGED <<conn, pending, closing, closes, resends, written, stored>>
  BY DEF Lose
<1>3. g \in Hosts /\ g # h /\ Other(g) = h
  BY HostFacts
<1>4. /\ ConnInv /\ NetInv /\ CallInv /\ net \in [Hosts -> Seq(Segments)]
      /\ m \in Seq(Segments) /\ Fine(m, Opened(g)) /\ b \in Seq(Segments) /\ Fine(b, Opened(h))
  BY <1>3 DEF Inv, NetInv
<1>5. ConnInv' /\ Forward /\ \A q \in Ends : FollowsRfc(q)
  BY <1>2, <1>4, ConnSame
<1>6. Fine(m, Opened(g)') /\ Fine(b, Opened(h)')
  BY <1>4, <1>5, OpenedGrows, FineMore
<1>7. a \in Seq(Segments) /\ Fine(a, Opened(g)')
  BY <1>4, <1>6, FineDrop
<1>8. net' = [net EXCEPT ![h] = a, ![g] = b]
  BY <1>1, <1>3, <1>4
<1> HIDE DEF a, b, g
<1>9. NetInv'
  BY <1>4, <1>5, <1>6, <1>7, <1>8, NetTwo DEF g
<1> QED
  BY <1>2, <1>4, <1>5, <1>9, CallSame DEF Inv

\* VWrite takes numbers before it sends them.
LEMMA VWriteQueueStep ==
    ASSUME Inv, NEW p \in Ends, VWriteQueue(p)
    PROVE  Inv' /\ Forward /\ \A q \in Ends : FollowsRfc(q)
<1>1. PICK n \in 1..MaxSegment :
          /\ pending' = [pending EXCEPT ![p] = [i \in 1..n |-> written[p] + i]]
          /\ written' = [written EXCEPT ![p] = @ + n]
          /\ conn' = [conn EXCEPT ![p].sendNxt = @ + n]
  BY DEF VWriteQueue
<1> DEFINE c == conn[p]
           d == [c EXCEPT !.sendNxt = @ + n]
           text == [i \in 1..n |-> written[p] + i]
           nums == Opened(Other(HostOf(p)))
<1>2. /\ ConnInv /\ NetInv /\ CallInv /\ Sane(c) /\ Agrees(p, c, nums) /\ conn \in [Ends -> Conns]
      /\ c.rcvWnd \in Windows
      /\ c.status = "Established" /\ UNCHANGED <<net, closing, closes, resends, stored>>
  BY DEF Inv, ConnInv, VWriteQueue
<1>3. conn' = [conn EXCEPT ![p] = d]
  BY <1>1, <1>2
<1>4. n \in Nat /\ c \in Conns /\ c.sendNxt \in Nat /\ c.sendUna \in Nat /\ c.rcvNxt \in Nat
  BY <1>2, ConnFields, ConnAssumption DEF Sane
<1> HIDE DEF c, nums
<1>5. /\ d \in Conns /\ d.status = c.status /\ d.inTable = c.inTable /\ d.iss = c.iss
      /\ d.irs = c.irs /\ d.sendUna = c.sendUna /\ d.sendNxt = c.sendNxt + n
      /\ d.rcvNxt = c.rcvNxt /\ d.queue = c.queue /\ d.rcvWnd = c.rcvWnd
      /\ d.timeWait = c.timeWait
  <2>1. c.sendNxt + n \in Nat
    BY <1>4
  <2> QED
    BY <1>4, <2>1 DEF Conns
<1> HIDE DEF d
<1>6. c.sendUna <= d.sendNxt /\ c.sendNxt <= d.sendNxt
  BY <1>2, <1>4, <1>5 DEF Sane
<1>7. Sane(d) /\ Agrees(p, d, nums) /\ Grows(c, d)
  <2>1. SynKept(d) /\ Live(d)
    BY <1>2, <1>5 DEF Sane, SynKept, Live
  <2> QED
    BY <1>2, <1>4, <1>5, <1>6, <2>1 DEF Sane, Agrees, Grows
<1>8. /\ ConnInv' /\ Forward
      /\ conn'[p] = d /\ \A q \in Ends : q # p => conn'[q] = conn[q]
  BY <1>2, <1>3, <1>5, <1>7, OneConnStep DEF c, nums
<1>9. CallInv'
  <2>1. written[p] \in Nat
    BY <1>2 DEF CallInv
  <2>2. written[p] + n \in Nat /\ text \in Seq(Nat)
    BY <1>4, <2>1
  <2> HIDE DEF text
  <2>3. pending' = [pending EXCEPT ![p] = text] /\ written' = [written EXCEPT ![p] = written[p] + n]
    BY <1>1 DEF text
  <2>4. pending' \in [Ends -> Seq(Nat)] /\ written' \in [Ends -> Nat]
    BY <1>2, <2>2, <2>3 DEF CallInv
  <2>5. ASSUME NEW q \in Ends, pending'[q] # << >> \/ closing'[q] # NoNumbers
        PROVE  conn'[q].status # "None"
    <3>1. CASE q = p
      BY <1>2, <1>5, <1>8, <3>1
    <3>2. CASE q # p
      BY <1>2, <1>8, <2>3, <2>5, <3>2 DEF CallInv
    <3> QED
      BY <3>1, <3>2
  <2> QED
    BY <1>2, <2>4, <2>5 DEF CallInv, SeqNums, NoNumbers, Ends
<1>10. FollowsRfc(p)
  BY <1>5, <1>8 DEF FollowsRfc, c
<1> QED
  BY <1>2, <1>8, <1>9, <1>10, NetSame, OneRfc DEF Inv

LEMMA VWriteSendStep ==
    ASSUME Inv, NEW p \in Ends, VWriteSend(p)
    PROVE  Inv' /\ Forward /\ \A q \in Ends : FollowsRfc(q)
<1> DEFINE c == conn[p]
           nums == Opened(Other(HostOf(p)))
           text == pending[p]
           seq == (wrapFromIss(c, c.sendNxt) - Len(text)) % SeqMod
           ack == wrapFromIrs(c, c.rcvNxt)
           flags == {"ACK"}
           t == send(Result(c), seq, ack, flags, text)
<1>1. /\ ConnInv /\ NetInv /\ CallInv /\ Sane(c) /\ Agrees(p, c, nums) /\ c \in Conns
      /\ text \in Seq(Nat) /\ c.status # "None"
  BY DEF Inv, ConnInv, CallInv, Sane, VWriteSend
<1>2. /\ Apply(p, t) /\ pending' = [pending EXCEPT ![p] = << >>]
      /\ UNCHANGED <<closing, closes, resends, written, stored>>
  BY DEF VWriteSend
<1>3. flags \in SUBSET {"SYN", "ACK", "FIN"} /\ "SYN" \notin flags
  OBVIOUS
<1>4. ack \in SeqNums /\ wrapFromIss(c, c.sendNxt) \in SeqNums
  BY <1>1, NumberTypes
<1>5. seq \in SeqNums
  <2>1. wrapFromIss(c, c.sendNxt) \in Int /\ Len(text) \in Nat
    BY <1>1, <1>4 DEF SeqNums
  <2>2. wrapFromIss(c, c.sendNxt) - Len(text) \in Int
    BY <2>1
  <2> QED
    BY <2>2, SeqModFacts, ModType DEF SeqNums
<1>6. Grows(c, c)
  BY <1>1, GrowsSame
<1> HIDE DEF seq, ack, flags, text, nums
<1>7. Sends(c, t)
  BY <1>1, <1>3, <1>4, <1>5, FreshSend
<1> HIDE DEF t
<1>8. Kept(p, c, t, nums)
  BY <1>1, <1>6, <1>7, SendsKept
<1>9. /\ ConnInv' /\ Forward /\ NetInv'
      /\ conn'[p] = t.conn /\ \A q \in Ends : q # p => conn'[q] = conn[q]
  BY <1>2, <1>7, <1>8, ApplyStep DEF nums, Sends
<1>10. CallInv'
  <2>1. pending' \in [Ends -> Seq(Nat)]
    BY <1>1, <1>2 DEF CallInv
  <2>2. \A q \in Ends : pending'[q] # << >> \/ closing'[q] # NoNumbers => conn'[q].status # "None"
    BY <1>1, <1>2, <1>9 DEF CallInv, Forward
  <2> QED
    BY <1>1, <1>2, <2>1, <2>2 DEF CallInv, SeqNums, NoNumbers, Ends
<1>11. FollowsRfc(p)
  BY <1>7, <1>9 DEF FollowsRfc, Sends
<1> QED
  BY <1>9, <1>10, <1>11, OneRfc DEF Inv

LEMMA VCloseReadStep ==
    ASSUME Inv, NEW p \in Ends, VCloseRead(p)
    PROVE  Inv' /\ Forward /\ \A q \in Ends : FollowsRfc(q)
<1> DEFINE numbers == [seq |-> wrapFromIss(conn[p], conn[p].sendNxt),
                       ack |-> wrapFromIrs(conn[p], conn[p].rcvNxt)]
<1>1. /\ ConnInv /\ NetInv /\ CallInv /\ conn[p] \in Conns /\ Live(conn[p]) /\ conn[p].inTable
      /\ closing' = [closing EXCEPT ![p] = numbers] /\ closes' = [closes EXCEPT ![p] = @ + 1]
      /\ UNCHANGED <<conn, net, pending, resends, written, stored>>
  BY DEF Inv, ConnInv, Sane, VCloseRead
<1>2. numbers \in [seq : SeqNums, ack : SeqNums]
  BY <1>1, NumberTypes
<1> HIDE DEF numbers
<1>3. CallInv'
  <2>1. closing' \in [Ends -> [seq : SeqNums, ack : SeqNums] \cup {NoNumbers}]
    BY <1>1, <1>2 DEF CallInv
  <2>2. closes' \in [Ends -> Nat]
    <3>1. closes[p] \in Nat /\ closes[p] + 1 \in Nat
      BY <1>1 DEF CallInv
    <3> QED
      BY <1>1, <3>1 DEF CallInv
  <2>3. conn[p].status # "None"
    BY <1>1 DEF Live
  <2>4. \A q \in Ends : pending'[q] # << >> \/ closing'[q] # NoNumbers => conn'[q].status # "None"
    BY <1>1, <2>3 DEF CallInv
  <2> QED
    BY <1>1, <2>1, <2>2, <2>4 DEF CallInv, SeqNums, NoNumbers, Ends
<1> QED
  BY <1>1, <1>3, ConnSame, NetSame DEF Inv

\* The FIN of VClose goes out with the numbers that were read before.
LEMMA VCloseRunStep ==
    ASSUME Inv, NEW p \in Ends, VCloseRun(p)
    PROVE  Inv' /\ Forward /\ \A q \in Ends : FollowsRfc(q)
<1> DEFINE c == conn[p]
           nums == Opened(Other(HostOf(p)))
           numbers == closing[p]
           r == CloseResult(c, numbers)
           x == closeDelete(c)
           d == [c EXCEPT !.status = StatusAfterFin(@), !.sendNxt = @ + 1]
           seq == numbers.seq
           ack == numbers.ack
           flags == {"FIN", "ACK"}
           none == << >>
           t == send(Result(d), seq, ack, flags, none)
<1>1. /\ ConnInv /\ NetInv /\ CallInv /\ Sane(c) /\ Agrees(p, c, nums) /\ c \in Conns
      /\ numbers \in [seq : SeqNums, ack : SeqNums] /\ c.status # "None"
      /\ numbers # NoNumbers
  BY DEF Inv, ConnInv, CallInv, Sane, VCloseRun
<1>2. /\ Apply(p, r) /\ closing' = [closing EXCEPT ![p] = NoNumbers]
      /\ UNCHANGED <<pending, closes, resends, written, stored>>
  BY DEF VCloseRun
<1>3. \/ c.status = "SynSent" /\ r = Result(x)
      \/ c.status # "SynSent" /\ r = Result(c)
      \/ c.status \notin {"SynSent", "FinWait2", "TimeWait"} /\ r = t
  BY DEF CloseResult, sendFlags
<1>4. flags \in SUBSET {"SYN", "ACK", "FIN"} /\ "SYN" \notin flags /\ none \in Seq(Nat)
  OBVIOUS
<1>5. seq \in SeqNums /\ ack \in SeqNums
  BY <1>1
<1>6. /\ c.sendUna \in Nat /\ c.sendNxt \in Nat /\ c.sendNxt + 1 \in Nat /\ Grows(c, c)
      /\ c.rcvNxt \in Nat /\ c.status \in Statuses
  BY <1>1, ConnFields, GrowsSame
<1> HIDE DEF c, seq, ack, flags, none, r, nums
<1>7. /\ Kept(p, c, r, nums) /\ r.data = << >>
      /\ \/ c.status = "SynSent" /\ r.conn.status = "Closed"
         \/ r.conn.status = c.status
         \/ /\ c.status \notin {"SynSent", "FinWait2", "TimeWait"}
            /\ r.conn.status = StatusAfterFin(c.status) /\ r.conn.inTable = c.inTable
  <2>1. CASE c.status = "SynSent" /\ r = Result(x)
    <3>1. /\ Sane(x) /\ Agrees(p, x, nums) /\ Grows(c, x) /\ x.rcvWnd = c.rcvWnd
          /\ x.status = "Closed"
      BY <1>1, CloseKept
    <3> HIDE DEF x
    <3>2. Kept(p, c, r, nums) /\ r.conn = x
      BY <1>1, <2>1, <3>1, ResultKept
    <3>3. r.data = << >>
      BY <2>1 DEF Result
    <3> QED
      BY <2>1, <3>1, <3>2, <3>3
  <2>2. CASE c.status # "SynSent" /\ r = Result(c)
    <3>1. Kept(p, c, r, nums) /\ r.conn = c
      BY <1>1, <1>6, <2>2, ResultKept
    <3>2. r.data = << >>
      BY <2>2 DEF Result
    <3> QED
      BY <3>1, <3>2
  <2>3. CASE c.status \notin {"SynSent", "FinWait2", "TimeWait"} /\ r = t
    <3>1. StatusAfterFin(c.status) \in Statuses /\ StatusAfterFin(c.status) \in {"FinWait1", "LastAck"}
      BY DEF StatusAfterFin, Statuses
    <3>2. /\ d \in Conns /\ d.status = StatusAfterFin(c.status) /\ d.inTable = c.inTable
          /\ d.iss = c.iss /\ d.irs = c.irs /\ d.sendUna = c.sendUna
          /\ d.sendNxt = c.sendNxt + 1 /\ d.rcvNxt = c.rcvNxt /\ d.queue = c.queue
          /\ d.rcvWnd = c.rcvWnd /\ d.timeWait = c.timeWait
      BY <1>1, <1>6, <3>1 DEF Conns
    <3> HIDE DEF d
    <3>3. c.sendUna <= d.sendNxt /\ c.sendNxt <= d.sendNxt
      BY <1>1, <1>6, <3>2 DEF Sane
    <3>4. SynKept(d) /\ Live(d)
      BY <1>1, <2>3, <3>1, <3>2 DEF Sane, SynKept, Live
    <3>5. Sane(d) /\ Grows(c, d)
      BY <1>1, <1>6, <3>2, <3>3, <3>4 DEF Sane, Grows
    <3>6. Agrees(p, d, nums)
      BY <1>1, <2>3, <3>1, <3>2 DEF Agrees
    <3>7. Sends(d, t)
      BY <1>4, <1>5, <3>1, <3>2, <3>5, FreshSend
    <3> HIDE DEF t
    <3>8. Kept(p, c, t, nums)
      BY <1>1, <3>1, <3>2, <3>5, <3>6, <3>7, SendsKept
    <3> QED
      BY <2>3, <3>2, <3>7, <3>8 DEF Sends
  <2> QED
    BY <1>3, <2>1, <2>2, <2>3
<1>8. /\ ConnInv' /\ Forward /\ NetInv'
      /\ conn'[p] = r.conn /\ \A q \in Ends : q # p => conn'[q] = conn[q]
  BY <1>2, <1>7, ApplyStep DEF c, nums
<1>9. CallInv'
  <2>1. closing' \in [Ends -> [seq : SeqNums, ack : SeqNums] \cup {NoNumbers}]
    BY <1>1, <1>2 DEF CallInv
  <2>2. \A q \in Ends : pending'[q] # << >> \/ closing'[q] # NoNumbers => conn'[q].status # "None"
    BY <1>1, <1>2, <1>8 DEF CallInv, Forward
  <2> QED
    BY <1>1, <1>2, <2>1, <2>2 DEF CallInv, SeqNums, NoNumbers, Ends
<1>10. FollowsRfc(p)
  <2>1. conn'[p] = r.conn /\ closing[p] # NoNumbers /\ closing'[p] = NoNumbers
    BY <1>1, <1>2, <1>8 DEF CallInv
  <2>2. c.inTable => c.status # "Closed"
    BY <1>1 DEF Sane, Live
  <2>3. CASE c.status = "SynSent" /\ r.conn.status = "Closed"
    BY <2>1, <2>3 DEF FollowsRfc, RfcEdges, c
  <2>4. CASE r.conn.status = c.status
    BY <2>1, <2>4 DEF FollowsRfc, c
  <2>5. CASE /\ c.status \notin {"SynSent", "FinWait2", "TimeWait"}
             /\ r.conn.status = StatusAfterFin(c.status) /\ r.conn.inTable = c.inTable
    <3>1. c.inTable => \/ c.status \in {"Closing", "LastAck"}
                       \/ <<c.status, r.conn.status>> \in RfcEdges
                       \/ c.status = r.conn.status
      BY <1>1, <1>6, <2>2, <2>5 DEF StatusAfterFin, RfcEdges, Statuses
    <3> QED
      BY <2>1, <2>5, <3>1 DEF FollowsRfc, ClosesAgain, c
  <2> QED
    BY <1>7, <2>3, <2>4, <2>5
<1> QED
  BY <1>8, <1>9, <1>10, OneRfc DEF Inv

\* What is sent again has the number it was sent with.
LEMMA RetransmitStep ==
    ASSUME Inv, NEW p \in Ends, Retransmit(p)
    PROVE  Inv' /\ Forward /\ \A q \in Ends : FollowsRfc(q)
<1> DEFINE c == conn[p]
           h == HostOf(p)
           g == Other(h)
           entry == Peek(c.queue)
           seq == entry.seqNum
           ack == wrapFromIrs(c, c.rcvNxt)
           flags == entry.flags
           text == entry.payload
           s == CreateTcpPacket(c, seq, ack, flags, text)
           one == << s >>
           a == net[h]
           b == net[g] \o one
<1>1. /\ ConnInv /\ NetInv /\ CallInv /\ Sane(c) /\ SynKept(c) /\ c.iss = Iss(p) /\ c \in Conns
      /\ c.rcvWnd \in Windows /\ c.status # "None" /\ c.queue # << >>
      /\ net \in [Hosts -> Seq(Segments)]
  BY DEF Inv, ConnInv, NetInv, Sane, Agrees, Live, Retransmit
<1>2. h \in Hosts /\ g \in Hosts /\ g # h /\ Other(g) = h
  BY HostFacts
<1>3. /\ net' = [net EXCEPT ![g] = Append(@, s)] /\ resends' = resends + 1
      /\ UNCHANGED <<conn, pending, closing, closes, written, stored>>
  BY DEF Retransmit
<1>4. ConnInv' /\ Forward /\ \A q \in Ends : FollowsRfc(q)
  BY <1>1, <1>3, ConnSame
<1>5. entry \in Entries /\ ("SYN" \in entry.flags => entry.seqNum = Iss(p))
  <2>1. c.queue \in Seq(Entries) /\ Len(c.queue) \in 1..Len(c.queue)
    BY <1>1, ConnFields
  <2> QED
    BY <1>1, <2>1 DEF Peek, SynKept
<1> HIDE DEF entry
<1>6. /\ seq \in SeqNums /\ flags \in SUBSET {"SYN", "ACK", "FIN", "RST"}
      /\ text \in Seq(Nat) /\ ack \in SeqNums /\ ("SYN" \in flags => seq = Iss(p))
  BY <1>1, <1>5, NumberTypes DEF Entries
<1>7. Iss(p) \in Opened(h)
  BY <1>1 DEF Opened, EndsOf
<1> HIDE DEF ack, seq, flags, text, h, g
<1>8. s \in Segments /\ s.flags = flags /\ s.seq = seq /\ s.wnd = c.rcvWnd
  BY <1>1, <1>6, PacketType
<1> HIDE DEF s
<1>9. one \in Seq(Segments) /\ Fine(one, Opened(h))
  <2>1. Len(one) = 1 /\ one[1] = s
    OBVIOUS
  <2>2. s.wnd \in Windows /\ ("SYN" \in s.flags => s.seq \in Opened(h))
    BY <1>1, <1>6, <1>7, <1>8
  <2>3. one \in Seq(Segments)
    BY <1>8
  <2> HIDE DEF one
  <2> QED
    BY <2>1, <2>2, <2>3 DEF Fine
<1>10. Append(net[g], s) = b
  BY <1>1, <1>2, <1>8
<1> HIDE DEF one
<1>11. /\ a \in Seq(Segments) /\ Fine(a, Opened(g)') /\ net[g] \in Seq(Segments)
       /\ Fine(net[g], Opened(h)') /\ Fine(one, Opened(h)')
  <2>1. Fine(net[h], Opened(g)) /\ Fine(net[g], Opened(h))
    BY <1>1, <1>2 DEF NetInv, g
  <2> QED
    BY <1>1, <1>2, <1>4, <1>9, <2>1, OpenedGrows, FineMore
<1>12. b \in Seq(Segments) /\ Fine(b, Opened(h)')
  BY <1>9, <1>11, FineConcat
<1>13. net' = [net EXCEPT ![h] = a, ![g] = b]
  <2>1. net' = [net EXCEPT ![g] = b]
    BY <1>3, <1>10
  <2> HIDE DEF b
  <2> QED
    BY <1>1, <1>2, <2>1
<1> HIDE DEF a, b
<1>14. NetInv'
  BY <1>1, <1>2, <1>4, <1>11, <1>12, <1>13, NetTwo DEF g
<1>15. CallInv'
  <2>1. resends' \in Nat
    BY <1>1, <1>3 DEF CallInv
  <2>2. \A q \in Ends : pending'[q] # << >> \/ closing'[q] # NoNumbers => conn'[q].status # "None"
    BY <1>1, <1>3 DEF CallInv
  <2> QED
    BY <1>1, <1>3, <2>1, <2>2 DEF CallInv, SeqNums, NoNumbers, Ends
<1> QED
  BY <1>4, <1>14, <1>15 DEF Inv

LEMMA InvNext ==
    ASSUME Inv, [Next]_vars
    PROVE  Inv' /\ Forward /\ \A q \in Ends : FollowsRfc(q)
<1> DEFINE Good == Inv' /\ Forward /\ \A q \in Ends : FollowsRfc(q)
<1>1. CASE UNCHANGED vars
  <2>1. ConnInv /\ NetInv /\ CallInv
    BY DEF Inv
  <2>2. UNCHANGED <<conn, net, pending, closing, closes, resends, written, stored>>
    BY <1>1 DEF vars
  <2> QED
    BY <2>1, <2>2, ConnSame, NetSame, CallSame DEF Inv
<1>2. CASE VConnect
  BY <1>2, VConnectStep
<1>3. ASSUME NEW h \in Hosts, Receive(h) PROVE Good
  BY <1>3, ReceiveStep
<1>4. ASSUME NEW h \in Hosts, Lose(h) PROVE Good
  BY <1>4, LoseStep
<1>5. ASSUME NEW p \in Ends, GiveUp(p) \/ TimeWaitTimeout(p) PROVE Good
  BY <1>5, TimerStep
<1>6. ASSUME NEW p \in Ends, VWriteQueue(p) PROVE Good
  BY <1>6, VWriteQueueStep
<1>7. ASSUME NEW p \in Ends, VWriteSend(p) PROVE Good
  BY <1>7, VWriteSendStep
<1>8. ASSUME NEW p \in Ends, VCloseRead(p) PROVE Good
  BY <1>8, VCloseReadStep
<1>9. ASSUME NEW p \in Ends, VCloseRun(p) PROVE Good
  BY <1>9, VCloseRunStep
<1>10. ASSUME NEW p \in Ends, Retransmit(p) PROVE Good
  BY <1>10, RetransmitStep
<1> HIDE DEF Good
<1>11. Good
  <2>1. UNCHANGED vars => Good
    BY <1>1 DEF Good
  <2>2. VConnect => Good
    BY <1>2 DEF Good
  <2> QED
    BY <1>3, <1>4, <1>5, <1>6, <1>7, <1>8, <1>9, <1>10, <2>1, <2>2 DEF Next
<1> QED
  BY <1>11 DEF Good

-----------------------------------------------------------------------------
(* Theorems.                                                                *)

LEMMA InvHolds == Spec => []Inv
<1>1. Inv /\ [Next]_vars => Inv'
  BY InvNext
<1> QED
  BY InvInit, <1>1, PTL DEF Spec

\* Types: a receive window is one that a TCB can have, in every connection and
\* in every packet, because no handler takes text that did not fit (AddRead);
\* so are the 32-bit numbers, wherever they wrap.
THEOREM Types == Spec => []TypeOK
<1>1. Inv => TypeOK
  <2> SUFFICES ASSUME Inv PROVE TypeOK
    OBVIOUS
  <2>1. ConnInv /\ NetInv /\ CallInv
    BY DEF Inv
  <2>2. ASSUME NEW p \in Ends PROVE ConnOK(conn[p])
    <3> DEFINE c == conn[p]
    <3>1. c \in Conns /\ c.rcvWnd \in Windows
      BY <2>1 DEF ConnInv
    <3> HIDE DEF c
    <3>2. \A i \in 1..Len(c.queue) : EntryOK(c.queue[i])
      <4>1. c.queue \in Seq(Entries)
        BY <3>1, ConnFields
      <4>2. \A i \in 1..Len(c.queue) : c.queue[i] \in Entries
        BY <4>1
      <4> QED
        BY <4>2 DEF EntryOK, Entries
    <3>3. ConnOK(c)
      BY <3>1, <3>2, ConnFields DEF ConnOK, Windows
    <3> QED
      BY <3>3 DEF c
  <2>3. ASSUME NEW h \in Hosts, NEW i \in 1..Len(net[h]) PROVE SegmentOK(net[h][i])
    <3>1. net[h][i] \in Segments /\ net[h][i].wnd \in Windows
      BY <2>1 DEF NetInv, Fine
    <3> QED
      BY <3>1 DEF SegmentOK, Segments, Windows
  <2>4. ASSUME NEW p \in Ends
        PROVE  /\ pending[p] \in Seq(Nat) /\ stored[p] \in Seq(Nat)
               /\ {closes[p], written[p]} \subseteq Nat
               /\ closing[p] = NoNumbers \/ {closing[p].seq, closing[p].ack} \subseteq SeqNums
    BY <2>1 DEF CallInv
  <2>5. resends \in Nat
    BY <2>1 DEF CallInv
  <2> QED
    BY <2>2, <2>3, <2>4, <2>5 DEF TypeOK
<1> QED
  BY InvHolds, <1>1, PTL

\* Neither end of a connection has made its numbers up: what VAccept opened, a
\* SYN of the client opened, and what the client took for the server's initial
\* number, a connection that VAccept did open sent.  Which of the server's
\* connections that is, this does not say: after a VAccept that gave up, it
\* may be one that is gone.
THEOREM NumbersWereSent == Spec => []NumbersAreReal
<1>1. Inv => NumbersAreReal
  <2> SUFFICES ASSUME Inv PROVE NumbersAreReal
    OBVIOUS
  <2>1. ASSUME NEW p \in Ends
        PROVE  /\ Agrees(p, conn[p], Opened(Other(HostOf(p)))) /\ conn[p].rcvNxt \in Nat
               /\ conn[p].iss = Iss(p)
    BY ConnFields DEF Inv, ConnInv, Agrees
  <2>2. /\ HostOf(Client) = "client" /\ Other("client") = "server" /\ Other("server") = "client"
        /\ \A q \in Accepted : q \in Ends /\ q # Client /\ HostOf(q) = "server"
        /\ \A q \in Ends : q # Client => q \in Accepted
    BY ConnAssumption DEF HostOf, Client, Other, Accepted, Ends
  <2>3. ASSUME NEW q \in Accepted, conn[q].status # "None"
        PROVE  Hears(q, Client)
    <3>1. conn[q].rcvNxt > 0 /\ conn[q].irs \in Opened("client")
      BY <2>1, <2>2, <2>3 DEF Agrees
    <3>2. conn[q].irs = Iss(Client)
      BY <2>2, <3>1 DEF Opened, EndsOf
    <3> QED
      BY <2>1, <2>2, <3>1, <3>2, HostFacts DEF Hears, Synced
  <2>4. ASSUME Synced(Client)
        PROVE  \E q \in Accepted : conn[q].status # "None" /\ Hears(Client, q)
    <3>1. conn[Client].irs \in Opened("server")
      BY <2>1, <2>2, <2>4, HostFacts DEF Agrees, Synced
    <3>2. PICK q \in Ends : HostOf(q) = "server" /\ conn[q].status # "None" /\ conn[Client].irs = Iss(q)
      BY <3>1 DEF Opened, EndsOf
    <3>3. q \in Accepted /\ conn[q].iss = Iss(q)
      BY <2>1, <2>2, <3>2
    <3> QED
      BY <2>2, <2>4, <3>2, <3>3 DEF Hears
  <2> QED
    BY <2>3, <2>4 DEF NumbersAreReal
<1> QED
  BY InvHolds, <1>1, PTL

\* SND.UNA never passes SND.NXT, whatever is acknowledged and wherever the
\* 32-bit numbers wrap: the comparisons of handleAckOtherStates and
\* handleSynSentState let no acknowledgement through that advances it further.
THEOREM NothingUnsentIsAcked == Spec => []UnaWithinSent
<1>1. Inv => UnaWithinSent
  BY DEF Inv, ConnInv, Sane, UnaWithinSent
<1> QED
  BY InvHolds, <1>1, PTL

\* No step of a handler, a call or a timer moves SND.UNA, SND.NXT or RCV.NXT
\* of a connection back: an old segment, a retransmission or a delayed
\* acknowledgement that is handled late does not undo what was taken before.
THEOREM PointersNeverRetreat == Spec => [][Forward]_vars
<1>1. Inv /\ [Next]_vars => [Forward]_vars
  BY InvNext
<1> QED
  BY InvHolds, <1>1, PTL DEF Spec

\* A connection in ConnTable only takes edges of the state diagram, whatever
\* is lost, reordered, sent again, given up or closed twice: a handler that
\* finds a status it did not expect leaves it, closeDelete takes the
\* connection out of the table with the status it ends, and the TIME-WAIT timer
\* runs in TIME-WAIT only.  The ends by reset and by a timeout are apart, and so
\* is a VClose after a FIN was sent.
THEOREM StatusFollowsDiagram == Spec => StatusFollowsRfc
<1>1. Inv /\ [Next]_vars => [\A p \in Ends : FollowsRfc(p)]_vars
  BY InvNext
<1> QED
  BY InvHolds, <1>1, PTL DEF Spec, StatusFollowsRfc
==============================================================================
