--------------------------- MODULE SendPathProofs ---------------------------
(***************************************************************************)
(* Proofs about the send half of a TCB, for every buffer size, segment     *)
(* size, number of writers and length of what they write.                  *)
(***************************************************************************)
EXTENDS SendPath, FiniteSetTheorems, WellFoundedInduction, TLAPS

-----------------------------------------------------------------------------
(* Arithmetic with the ring's modulus, which is not a numeral.              *)

LEMMA DivMod ==
    ASSUME NEW m \in Nat \ {0}, NEW x \in Nat
    PROVE  x = (m * (x \div m)) + (x % m) /\ x \div m \in Nat /\ x % m \in 0..(m - 1)
  OBVIOUS

LEMMA NextMultiple ==
    ASSUME NEW m \in Nat \ {0}, NEW a \in Nat, NEW b \in Nat, a < b
    PROVE  (m * a) + m <= m * b
<1>1. PICK d \in Nat : b = a + 1 + d
  OBVIOUS
<1>2. m * b = (m * a) + m + (m * d) /\ m * d \in Nat
  BY <1>1
<1> QED
  BY <1>2

\* A remainder is unique.
LEMMA ModUnique ==
    ASSUME NEW m \in Nat \ {0}, NEW x \in Nat, NEW q \in Nat, NEW r \in 0..(m - 1),
           x = (m * q) + r
    PROVE  (x % m) = r
<1> DEFINE b == x \div m
           s == x % m
<1>1. x = (m * b) + s /\ b \in Nat /\ s \in 0..(m - 1)
  BY DivMod
<1> SUFFICES s = r
  OBVIOUS
<1> HIDE DEF b, s
<1>2. m * b \in Nat /\ m * q \in Nat
  BY <1>1
<1>3. CASE b < q
  BY <1>1, <1>2, <1>3, NextMultiple
<1>4. CASE q < b
  BY <1>1, <1>2, <1>4, NextMultiple
<1>5. CASE q = b
  BY <1>1, <1>2, <1>5
<1> QED
  BY <1>1, <1>3, <1>4, <1>5

\* To wrap twice is to wrap once.
LEMMA ModAdd ==
    ASSUME NEW m \in Nat \ {0}, NEW x \in Nat, NEW y \in Nat
    PROVE  (((x % m) + y) % m) = ((x + y) % m)
<1> DEFINE a == x \div m
           r == x % m
           b == (r + y) \div m
           t == (r + y) % m
<1>1. x = (m * a) + r /\ a \in Nat /\ r \in 0..(m - 1)
  BY DivMod
<1>2. r + y \in Nat
  BY <1>1
<1>3. r + y = (m * b) + t /\ b \in Nat /\ t \in 0..(m - 1)
  BY <1>2, DivMod
<1> HIDE DEF a, r, b, t
<1>4. x + y = (m * (a + b)) + t
  <2>1. m * (a + b) = (m * a) + (m * b) /\ m * a \in Nat /\ m * b \in Nat
    BY <1>1, <1>3
  <2> QED
    BY <1>1, <1>3, <2>1
<1>5. ((x + y) % m) = t
  <2>1. x + y \in Nat /\ a + b \in Nat
    BY <1>1, <1>3
  <2> QED
    BY <1>3, <1>4, <2>1, ModUnique
<1> QED
  BY <1>5 DEF t, r

\* Two pointers less than a ring's length apart have different slots.
LEMMA SlotsDiffer ==
    ASSUME NEW m \in Nat \ {0}, NEW x \in Nat, NEW y \in Nat, x < y, y < x + m
    PROVE  (x % m) # (y % m)
<1> DEFINE a == x \div m
           b == y \div m
<1> SUFFICES ASSUME (x % m) = (y % m) PROVE FALSE
  OBVIOUS
<1>1. /\ x = (m * a) + (x % m) /\ a \in Nat /\ (x % m) \in Nat
      /\ y = (m * b) + (y % m) /\ b \in Nat
  <2>1. x = (m * a) + (x % m) /\ a \in Nat /\ (x % m) \in 0..(m - 1)
    BY DivMod
  <2>2. y = (m * b) + (y % m) /\ b \in Nat
    BY DivMod
  <2> QED
    BY <2>1, <2>2
<1> HIDE DEF a, b
<1>2. m * a \in Nat /\ m * b \in Nat
  BY <1>1
<1>3. CASE a < b
  BY <1>1, <1>2, <1>3, NextMultiple
<1>4. CASE b < a
  BY <1>1, <1>2, <1>4, NextMultiple
<1>5. CASE a = b
  BY <1>1, <1>5
<1> QED
  BY <1>1, <1>3, <1>4, <1>5

LEMMA RingFacts ==
    /\ WndMod \in Nat \ {0} /\ TcbSize \in Nat \ {0} /\ WndMod = TcbSize + 1
    /\ \A x \in Nat : wrapIndex(x) \in 0..TcbSize
<1>1. WndMod \in Nat \ {0} /\ TcbSize \in Nat \ {0} /\ WndMod = TcbSize + 1
  BY SeqSpaceAssumption DEF WndMod
<1> QED
  BY <1>1, DivMod DEF wrapIndex

\* The distance between two slots, as readFromSend computes it.
LEMMA SlotDistance ==
    ASSUME NEW lbr \in Nat, NEW dist \in Nat,
           NEW size, size = LET startIdx == wrapIndex(lbr)
                                minIdx   == wrapIndex(lbr + dist)
                            IN  IF startIdx > minIdx THEN (WndMod - startIdx) + minIdx
                                                     ELSE minIdx - startIdx
    PROVE  size \in 0..dist /\ (dist <= TcbSize => size = dist)
<1> DEFINE m == WndMod
           s == lbr % m
           e == (lbr + dist) % m
           a == lbr \div m
           b == (lbr + dist) \div m
<1>1. /\ lbr = (m * a) + s /\ a \in Nat /\ s \in 0..(m - 1)
      /\ lbr + dist = (m * b) + e /\ b \in Nat /\ e \in 0..(m - 1)
      /\ m \in Nat \ {0} /\ m = TcbSize + 1 /\ TcbSize \in Nat
  <2>1. m \in Nat \ {0} /\ lbr + dist \in Nat /\ m = TcbSize + 1 /\ TcbSize \in Nat
    BY RingFacts
  <2> HIDE DEF m
  <2>2. lbr = (m * a) + s /\ a \in Nat /\ s \in 0..(m - 1)
    BY <2>1, DivMod
  <2>3. lbr + dist = (m * b) + e /\ b \in Nat /\ e \in 0..(m - 1)
    BY <2>1, DivMod
  <2> QED
    BY <2>1, <2>2, <2>3
<1>2. size = IF s > e THEN (m - s) + e ELSE e - s
  BY DEF wrapIndex
<1> HIDE DEF m, s, e, a, b
<1>3. m * a \in Nat /\ m * b \in Nat
  BY <1>1
<1>4. CASE a < b
  <2>1. (m * a) + m <= m * b
    BY <1>1, <1>4, NextMultiple
  <2>2. CASE a + 1 < b
    <3>1. (m * (a + 1)) + m <= m * b /\ m * (a + 1) = (m * a) + m
      BY <1>1, <2>2, NextMultiple
    <3> QED
      BY <1>1, <1>2, <1>3, <2>1, <3>1
  <2>3. CASE b = a + 1
    <3>1. m * b = (m * a) + m
      BY <1>1, <2>3
    <3> QED
      BY <1>1, <1>2, <1>3, <3>1
  <2> QED
    BY <1>1, <1>4, <2>2, <2>3
<1>5. CASE b < a
  <2>1. (m * b) + m <= m * a
    BY <1>1, <1>5, NextMultiple
  <2> QED
    BY <1>1, <1>3, <2>1
<1>6. CASE a = b
  BY <1>1, <1>2, <1>3, <1>6
<1> QED
  BY <1>1, <1>4, <1>5, <1>6

\* What readFromSend copies: at most what there is, what a segment may hold
\* and what was asked for; exactly that much if the ring can hold it.
LEMMA ReadFacts ==
    ASSUME sendBuf \in [0..TcbSize -> Nat], sendLbr \in Nat, sendNxt \in Nat, sendLbr <= sendNxt,
           NEW count \in Nat
    PROVE  LET r == readFromSend(count)
               dist == Least(Least(sendNxt - sendLbr, Mss), count)
           IN  /\ r \in Seq(Nat) /\ Len(r) \in 0..dist
               /\ dist <= TcbSize => Len(r) = dist
               /\ \A k \in 1..Len(r) : r[k] = sendBuf[wrapIndex(sendLbr + k - 1)]
<1> DEFINE dist == Least(Least(sendNxt - sendLbr, Mss), count)
           startIdx == wrapIndex(sendLbr)
           size == LET minIdx == wrapIndex(sendLbr + dist)
                   IN  IF startIdx > minIdx THEN (WndMod - startIdx) + minIdx ELSE minIdx - startIdx
           r == [k \in 1..size |-> sendBuf[wrapIndex(startIdx + k - 1)]]
<1>1. dist \in Nat
  BY SendAssumption DEF Least
<1>2. readFromSend(count) = r
  BY DEF readFromSend
<1> HIDE DEF dist
<1>3. size \in 0..dist /\ (dist <= TcbSize => size = dist)
  BY <1>1, SlotDistance
<1> HIDE DEF size
<1>4. ASSUME NEW k \in 1..size
      PROVE  /\ wrapIndex(startIdx + k - 1) = wrapIndex(sendLbr + k - 1)
             /\ wrapIndex(sendLbr + k - 1) \in 0..TcbSize
  <2>1. k - 1 \in Nat /\ sendLbr + (k - 1) \in Nat /\ startIdx \in Nat
        /\ startIdx + k - 1 = startIdx + (k - 1) /\ sendLbr + k - 1 = sendLbr + (k - 1)
    <3>1. startIdx \in 0..TcbSize /\ TcbSize \in Nat
      BY RingFacts
    <3> HIDE DEF startIdx
    <3> QED
      BY <1>1, <1>3, <3>1
  <2>2. wrapIndex(startIdx + (k - 1)) = wrapIndex(sendLbr + (k - 1))
    BY <2>1, ModAdd, RingFacts DEF wrapIndex
  <2> QED
    BY <2>1, <2>2, RingFacts
<1>5. r = [k \in 1..size |-> sendBuf[wrapIndex(sendLbr + k - 1)]]
  BY <1>4
<1>6. \A k \in 1..size : sendBuf[wrapIndex(sendLbr + k - 1)] \in Nat
  BY <1>4
<1>7. size \in Nat
  BY <1>1, <1>3
<1> HIDE DEF r
<1>8. r \in Seq(Nat) /\ Len(r) = size /\ \A k \in 1..size : r[k] = sendBuf[wrapIndex(sendLbr + k - 1)]
  BY <1>5, <1>6, <1>7
<1> QED
  BY <1>2, <1>3, <1>8 DEF dist

LEMMA CapacityFacts ==
    ASSUME sendNxt \in Nat, sendUna \in Nat
    PROVE  getSendCapacity \in 0..TcbSize
  BY RingFacts DEF getSendCapacity, wrappedDist

-----------------------------------------------------------------------------
(* The inductive invariant.                                                 *)

Pointers ==
    /\ sendBuf \in [0..TcbSize -> Nat]
    /\ sendUna \in Nat /\ sendNxt \in Nat /\ sendLbr \in Nat /\ sendWl2 \in Nat
    /\ 1 <= sendLbr /\ sendLbr <= sendNxt
    /\ sendWnd \in 0..TcbSize

Segments == [seq : Nat, payload : Seq(Nat), probe : BOOLEAN]
Answers == [ack : Nat, wnd : 0..TcbSize]
Peers == [rcvNxt : Nat, rcvWnd : 0..TcbSize, ctl : {"ready", "full", "blocked"}]

Packets == net \in Seq(Segments) /\ acks \in Seq(Answers) /\ peer \in Peers

Adding == {"addTest", "addGap", "addWait"}
Reading == {"readTest", "readGap", "readWait", "probeWait"}

ControlTypes ==
    /\ ctl \in {"select"} \cup Adding \cup Reading
    /\ ctlCount \in Nat
    /\ firstByte \in Seq(Nat) /\ prober \in Seq(Seq(Nat)) /\ out \in Seq(Nat)
    /\ windowProbe \in BOOLEAN /\ missed \in BOOLEAN /\ overlap \in BOOLEAN /\ overrun \in BOOLEAN

Calls == [pc : {"idle", "loop", "AddSend", "ReadSend", "bytesReadSend", "send", "done"},
          sent : Nat, seg : 0..Mss, data : Seq(Nat)]

\* A call never queues, nor takes from the ring, more than is left of what
\* it writes; and it is its own request that the controller serves.
CallBounds ==
    \A w \in Writers :
       /\ writer[w].sent <= WriteLen[w]
       /\ writer[w].pc \in {"idle", "loop"} => writer[w].sent < WriteLen[w]
       /\ writer[w].pc \in {"AddSend", "ReadSend", "bytesReadSend"} =>
             1 <= writer[w].seg /\ writer[w].sent + writer[w].seg <= WriteLen[w]
       /\ writer[w].pc = "send" =>
             writer[w].sent + Len(writer[w].data) <= WriteLen[w] /\ Len(writer[w].data) < sendNxt
       /\ writer[w].pc = "bytesReadSend" => ctl \in Reading /\ ctlCount = writer[w].seg

OneServed ==
    \A v, w \in Writers : writer[v].pc = "bytesReadSend" /\ writer[w].pc = "bytesReadSend" => v = w

TypeInv ==
    /\ Pointers /\ Packets /\ ControlTypes
    /\ writer \in [Writers -> Calls] /\ CallBounds /\ OneServed

LEMMA TypeInvTypes == TypeInv => TypeOK
<1> SUFFICES ASSUME TypeInv PROVE TypeOK
  OBVIOUS
<1>1. ASSUME NEW w \in Writers
      PROVE  /\ writer[w].pc \in {"idle", "loop", "AddSend", "ReadSend", "bytesReadSend", "send", "done"}
             /\ writer[w].sent \in 0..WriteLen[w]
             /\ writer[w].seg \in 0..Mss
             /\ writer[w].data \in Seq(Nat)
  BY SendAssumption DEF TypeInv, Calls, CallBounds
<1>2. {windowProbe, missed, overlap, overrun} \subseteq BOOLEAN
  BY DEF TypeInv, ControlTypes
<1> QED
  BY <1>1, <1>2 DEF TypeInv, TypeOK, Pointers, Packets, Peers, ControlTypes, Adding, Reading

LEMMA TypeInit == Init => TypeInv
<1> SUFFICES ASSUME Init PROVE TypeInv
  OBVIOUS
<1> USE RingFacts, SendAssumption DEF Init
<1>1. Pointers
  BY DEF Pointers
<1>2. Packets
  BY DEF Packets, Peers
<1>3. ControlTypes
  <2>1. windowProbe \in BOOLEAN /\ missed \in BOOLEAN /\ overlap \in BOOLEAN /\ overrun \in BOOLEAN
    BY DEF Init
  <2> QED
    BY <2>1 DEF ControlTypes
<1>4. writer \in [Writers -> Calls]
  BY DEF Calls
<1>5. CallBounds /\ OneServed
  <2>1. ASSUME NEW w \in Writers
        PROVE  writer[w].pc = "idle" /\ writer[w].sent = 0 /\ WriteLen[w] \in Nat \ {0}
    OBVIOUS
  <2> QED
    BY ONLY <2>1 DEF CallBounds, OneServed
<1> QED
  BY <1>1, <1>2, <1>3, <1>4, <1>5 DEF TypeInv

-----------------------------------------------------------------------------
(* Type correctness, action by action.                                      *)

LEMMA VWriteTypes ==
    ASSUME TypeInv, NEW w \in Writers, VWrite(w)
    PROVE  TypeInv'
<1>1. /\ writer[w].pc = "idle" /\ writer' = [writer EXCEPT ![w].pc = "loop"]
      /\ UNCHANGED <<tcb, controller, prober, network, out, flags>>
  BY DEF VWrite
<1>2. Pointers' /\ Packets' /\ ControlTypes'
  BY <1>1 DEF TypeInv, Pointers, Packets, ControlTypes, tcb, controller, network, flags
<1>3. writer' \in [Writers -> Calls]
  BY <1>1 DEF TypeInv, Calls
<1>4. CallBounds' /\ OneServed'
  BY <1>1 DEF TypeInv, Calls, CallBounds, OneServed, tcb, controller
<1> QED
  BY <1>2, <1>3, <1>4 DEF TypeInv

LEMMA SegmentTypes ==
    ASSUME TypeInv, NEW w \in Writers, Segment(w)
    PROVE  TypeInv'
<1> DEFINE seg == IF lastIdx(w) = 0 THEN 1 ELSE lastIdx(w)
<1>1. /\ writer[w].pc = "loop" /\ writer' = [writer EXCEPT ![w].pc = "AddSend", ![w].seg = seg]
      /\ UNCHANGED <<tcb, controller, prober, network, out, flags>>
  BY DEF Segment
<1>2. getSendCapacity \in 0..TcbSize /\ TcbSize \in Nat
  BY CapacityFacts, RingFacts DEF TypeInv, Pointers
<1>3. writer[w].sent \in Nat /\ writer[w].sent < WriteLen[w] /\ WriteLen[w] \in Nat /\ Mss \in Nat \ {0}
  BY <1>1, SendAssumption DEF TypeInv, Calls, CallBounds
<1>4. seg \in 0..Mss /\ 1 <= seg /\ writer[w].sent + seg <= WriteLen[w]
  BY <1>2, <1>3 DEF lastIdx, Least
<1> HIDE DEF seg
<1>5. Pointers' /\ Packets' /\ ControlTypes'
  BY <1>1 DEF TypeInv, Pointers, Packets, ControlTypes, tcb, controller, network, flags
<1>6. writer' \in [Writers -> Calls]
  BY <1>1, <1>4 DEF TypeInv, Calls
<1>7. CallBounds' /\ OneServed'
  BY <1>1, <1>4 DEF TypeInv, Calls, CallBounds, OneServed, tcb, controller
<1> QED
  BY <1>5, <1>6, <1>7 DEF TypeInv

LEMMA AddSendTypes ==
    ASSUME TypeInv, NEW w \in Writers, AddSend(w)
    PROVE  TypeInv'
<1>1. /\ writer[w].pc = "AddSend" /\ ctl = "select" /\ ctl' = "addTest"
      /\ writer' = [writer EXCEPT ![w].pc = "ReadSend"]
      /\ ctlCount' = writer[w].seg
      /\ UNCHANGED <<tcb, firstByte, windowProbe, prober, network, out, missed, overrun>>
  BY DEF AddSend
<1>2. Pointers' /\ Packets'
  BY <1>1 DEF TypeInv, Pointers, Packets, tcb, network
<1>3. overlap' \in BOOLEAN
  BY DEF AddSend
<1>4. ctlCount' \in Nat
  BY <1>1, SendAssumption DEF TypeInv, Calls
<1>5. ControlTypes'
  BY <1>1, <1>3, <1>4 DEF TypeInv, ControlTypes, Adding
<1>6. writer' \in [Writers -> Calls]
  BY <1>1 DEF TypeInv, Calls
<1>7. \A v \in Writers : writer[v].pc # "bytesReadSend"
  BY <1>1 DEF TypeInv, CallBounds, Reading
<1>8. CallBounds' /\ OneServed'
  BY <1>1, <1>7 DEF TypeInv, Calls, CallBounds, OneServed, tcb
<1> QED
  BY <1>2, <1>5, <1>6, <1>8 DEF TypeInv

LEMMA ReadSendTypes ==
    ASSUME TypeInv, NEW w \in Writers, ReadSend(w)
    PROVE  TypeInv'
<1>1. /\ writer[w].pc = "ReadSend" /\ ctl = "select" /\ ctl' = "readTest"
      /\ writer' = [writer EXCEPT ![w].pc = "bytesReadSend"]
      /\ ctlCount' = writer[w].seg
      /\ firstByte' = IF sendWnd = 0 THEN readFromSend(1) ELSE << >>
      /\ sendLbr' = sendLbr + Len(firstByte')
      /\ out' = out \o firstByte'
      /\ UNCHANGED <<sendBuf, sendUna, sendNxt, sendWnd, sendWl2, prober, network, flags>>
  BY DEF ReadSend
<1>2. firstByte' \in Seq(Nat) /\ Len(firstByte') \in Nat /\ sendLbr + Len(firstByte') <= sendNxt
  <2>1. sendBuf \in [0..TcbSize -> Nat] /\ sendLbr \in Nat /\ sendNxt \in Nat /\ sendLbr <= sendNxt
    BY DEF TypeInv, Pointers
  <2> DEFINE r == readFromSend(1)
             dist == Least(Least(sendNxt - sendLbr, Mss), 1)
  <2>2. r \in Seq(Nat) /\ Len(r) \in 0..dist
    BY <2>1, ReadFacts
  <2>3. dist \in Nat /\ dist <= sendNxt - sendLbr
    BY <2>1, SendAssumption DEF Least
  <2> HIDE DEF r, dist
  <2>4. firstByte' = IF sendWnd = 0 THEN r ELSE << >>
    BY <1>1 DEF r
  <2> QED
    BY <2>1, <2>2, <2>3, <2>4
<1>3. Pointers'
  BY <1>1, <1>2 DEF TypeInv, Pointers
<1>4. Packets'
  BY <1>1 DEF TypeInv, Packets, network
<1>5. windowProbe' \in BOOLEAN
  BY DEF ReadSend
<1>6. out' \in Seq(Nat) /\ ctlCount' \in Nat
  BY <1>1, <1>2, SendAssumption DEF TypeInv, ControlTypes, Calls
<1>7. ControlTypes'
  <2>1. missed' \in BOOLEAN /\ overlap' \in BOOLEAN /\ overrun' \in BOOLEAN
    BY <1>1 DEF TypeInv, ControlTypes, flags
  <2> QED
    BY <1>1, <1>2, <1>5, <1>6, <2>1 DEF TypeInv, ControlTypes, Reading
<1>8. writer' \in [Writers -> Calls]
  BY <1>1 DEF TypeInv, Calls
<1>9. \A v \in Writers : writer[v].pc # "bytesReadSend"
  BY <1>1 DEF TypeInv, CallBounds, Reading
<1>10. CallBounds' /\ OneServed'
  BY <1>1, <1>9 DEF TypeInv, Calls, CallBounds, OneServed, Reading
<1> QED
  BY <1>3, <1>4, <1>7, <1>8, <1>10 DEF TypeInv

LEMMA SendTypes ==
    ASSUME TypeInv, NEW w \in Writers, Send(w)
    PROVE  TypeInv'
<1> DEFINE d == writer[w].data
           sent == writer[w].sent + Len(d)
           next == [pc |-> IF sent < WriteLen[w] THEN "loop" ELSE "done",
                    sent |-> sent, seg |-> 0, data |-> << >>]
<1>1. /\ writer[w].pc = "send" /\ writer' = [writer EXCEPT ![w] = next]
      /\ net' = Append(net, [seq |-> sendNxt - Len(d), payload |-> d, probe |-> FALSE])
      /\ UNCHANGED <<tcb, controller, prober, acks, peer, out, flags>>
  BY DEF Send, SeqNumOf
<1>2. /\ d \in Seq(Nat) /\ writer[w].sent \in Nat /\ WriteLen[w] \in Nat
      /\ sent <= WriteLen[w] /\ Len(d) < sendNxt /\ Len(d) \in Nat /\ sendNxt \in Nat
  <2>1. writer[w] \in Calls /\ WriteLen[w] \in Nat /\ sendNxt \in Nat
    BY SendAssumption DEF TypeInv, Pointers
  <2>2. d \in Seq(Nat) /\ writer[w].sent \in Nat
    BY <2>1 DEF Calls
  <2>3. sent <= WriteLen[w] /\ Len(d) < sendNxt
    BY <1>1 DEF TypeInv, CallBounds
  <2> QED
    BY <2>1, <2>2, <2>3
<1>3. next \in Calls
  BY <1>2, SendAssumption DEF Calls
<1>4. Pointers' /\ ControlTypes'
  BY <1>1 DEF TypeInv, Pointers, ControlTypes, tcb, controller, flags
<1>5. Packets'
  <2>1. sendNxt - Len(d) \in Nat /\ FALSE \in BOOLEAN
    BY <1>2
  <2> DEFINE p == [seq |-> sendNxt - Len(d), payload |-> d, probe |-> FALSE]
  <2>2. p \in Segments
    BY <1>2, <2>1 DEF Segments
  <2> HIDE DEF p
  <2> QED
    BY <1>1, <2>2 DEF TypeInv, Packets, p
<1>6. writer' \in [Writers -> Calls]
  BY <1>1, <1>3 DEF TypeInv
<1>7. writer'[w] = next /\ \A v \in Writers : v # w => writer'[v] = writer[v]
  BY <1>1 DEF TypeInv
<1>8. CallBounds'
  BY <1>1, <1>2, <1>7 DEF TypeInv, CallBounds, tcb, controller
<1>9. OneServed'
  BY <1>7 DEF TypeInv, OneServed
<1> QED
  BY <1>4, <1>5, <1>6, <1>8, <1>9 DEF TypeInv

\* The steps of the controller that only move it.
LEMMA ControllerTypes ==
    ASSUME TypeInv, AddMustWait \/ AddWait \/ ReadMustWait \/ ReadWait \/ Probe \/ ProbeTimer
    PROVE  TypeInv'
<1>1. /\ ctl' \in Adding \cup Reading /\ (ctl \in Reading => ctl' \in Reading)
      /\ UNCHANGED <<tcb, ctlCount, firstByte, windowProbe, writer, network, out, flags>>
  BY DEF AddMustWait, AddWait, ReadMustWait, ReadWait, Probe, ProbeTimer, Adding, Reading
<1>2. prober' \in Seq(Seq(Nat))
  <2>1. prober' = prober \/ prober' = <<firstByte>>
    BY DEF AddMustWait, AddWait, ReadMustWait, ReadWait, Probe, ProbeTimer
  <2>2. ASSUME NEW S, NEW x \in S PROVE <<x>> \in Seq(S)
    OBVIOUS
  <2>3. <<firstByte>> \in Seq(Seq(Nat))
    BY <2>2 DEF TypeInv, ControlTypes
  <2> QED
    BY <2>1, <2>3 DEF TypeInv, ControlTypes
<1>3. Pointers' /\ Packets'
  BY <1>1 DEF TypeInv, Pointers, Packets, tcb, network
<1>4. windowProbe' \in BOOLEAN /\ missed' \in BOOLEAN /\ overlap' \in BOOLEAN /\ overrun' \in BOOLEAN
  BY <1>1 DEF TypeInv, ControlTypes, flags
<1>5. ControlTypes'
  BY <1>1, <1>2, <1>4 DEF TypeInv, ControlTypes
<1>6. CallBounds' /\ OneServed' /\ writer' \in [Writers -> Calls]
  BY <1>1 DEF TypeInv, CallBounds, OneServed, tcb
<1> QED
  BY <1>3, <1>5, <1>6 DEF TypeInv

LEMMA Add2SendTypes ==
    ASSUME TypeInv, Add2Send
    PROVE  TypeInv'
<1>1. /\ ctl = "addTest" /\ ctl' = "select" /\ sendNxt' = sendNxt + ctlCount
      /\ UNCHANGED <<sendUna, sendLbr, sendWnd, sendWl2, ctlCount, firstByte, windowProbe,
                     prober, writer, network, out, flags>>
  BY DEF Add2Send
<1>2. ctlCount \in Nat /\ sendNxt \in Nat /\ sendNxt + ctlCount \in Nat
  BY DEF TypeInv, Pointers, ControlTypes
<1>3. sendBuf' \in [0..TcbSize -> Nat]
  <2> DEFINE new(i) == IF \E k \in 0..(ctlCount - 1) : Slot(k) = i
                       THEN sendNxt + CHOOSE k \in 0..(ctlCount - 1) : Slot(k) = i
                       ELSE sendBuf[i]
  <2>1. sendBuf' = [i \in 0..TcbSize |-> new(i)]
    BY DEF Add2Send
  <2>2. ASSUME NEW i \in 0..TcbSize PROVE new(i) \in Nat
    <3>1. CASE \E k \in 0..(ctlCount - 1) : Slot(k) = i
      <4> DEFINE c == CHOOSE k \in 0..(ctlCount - 1) : Slot(k) = i
      <4>1. c \in 0..(ctlCount - 1) /\ new(i) = sendNxt + c
        BY <3>1
      <4> HIDE DEF c
      <4> QED
        BY <1>2, <4>1
    <3>2. CASE ~ \E k \in 0..(ctlCount - 1) : Slot(k) = i
      BY <3>2 DEF TypeInv, Pointers
    <3> QED
      BY <3>1, <3>2
  <2> HIDE DEF new
  <2> QED
    BY <2>1, <2>2
<1>4. Pointers' /\ Packets'
  BY <1>1, <1>2, <1>3 DEF TypeInv, Pointers, Packets, network
<1>5. windowProbe' \in BOOLEAN /\ missed' \in BOOLEAN /\ overlap' \in BOOLEAN /\ overrun' \in BOOLEAN
  BY <1>1 DEF TypeInv, ControlTypes, flags
<1>6. ControlTypes'
  BY <1>1, <1>5 DEF TypeInv, ControlTypes
<1>7. \A v \in Writers : writer[v].pc # "bytesReadSend"
  BY <1>1 DEF TypeInv, CallBounds, Reading
<1>8. CallBounds' /\ OneServed' /\ writer' \in [Writers -> Calls]
  <2>1. \A v \in Writers : Len(writer[v].data) \in Nat
    BY DEF TypeInv, Calls
  <2> QED
    BY <1>1, <1>2, <1>7, <2>1 DEF TypeInv, CallBounds, OneServed
<1> QED
  BY <1>4, <1>6, <1>8 DEF TypeInv

\* What ReadReply hands to the thread it serves.
LEMMA ReplyFacts ==
    ASSUME TypeInv, NEW w \in Writers, writer[w].pc = "bytesReadSend"
    PROVE  LET count == IF windowProbe THEN ctlCount - 1 ELSE ctlCount
               d == readFromSend(count)
               dist == Least(Least(sendNxt - sendLbr, Mss), count)
           IN  /\ count \in Nat /\ count <= writer[w].seg /\ ctlCount = writer[w].seg
               /\ dist \in Nat /\ dist <= sendNxt - sendLbr /\ dist <= count
               /\ d \in Seq(Nat) /\ Len(d) \in 0..dist /\ (dist <= TcbSize => Len(d) = dist)
               /\ \A k \in 1..Len(d) : d[k] = sendBuf[wrapIndex(sendLbr + k - 1)]
<1> DEFINE count == IF windowProbe THEN ctlCount - 1 ELSE ctlCount
           d == readFromSend(count)
           dist == Least(Least(sendNxt - sendLbr, Mss), count)
<1>1. sendBuf \in [0..TcbSize -> Nat] /\ sendLbr \in Nat /\ sendNxt \in Nat /\ sendLbr <= sendNxt
  BY DEF TypeInv, Pointers
<1>2. ctlCount = writer[w].seg /\ ctlCount \in Nat /\ 1 <= ctlCount
  BY DEF TypeInv, CallBounds, ControlTypes
<1>3. count \in Nat /\ count <= writer[w].seg
  BY <1>2
<1> HIDE DEF count
<1>4. dist \in Nat /\ dist <= sendNxt - sendLbr /\ dist <= count
  BY <1>1, <1>3, SendAssumption DEF Least
<1>5. /\ d \in Seq(Nat) /\ Len(d) \in 0..dist /\ (dist <= TcbSize => Len(d) = dist)
      /\ \A k \in 1..Len(d) : d[k] = sendBuf[wrapIndex(sendLbr + k - 1)]
  BY <1>1, <1>3, ReadFacts
<1> QED
  BY <1>2, <1>3, <1>4, <1>5 DEF count

LEMMA ReadReplyTypes ==
    ASSUME TypeInv, NEW w \in Writers, ReadReply(w)
    PROVE  TypeInv'
<1> DEFINE d == readFromSend(IF windowProbe THEN ctlCount - 1 ELSE ctlCount)
<1>1. /\ writer[w].pc = "bytesReadSend" /\ ctl' = "select"
      /\ writer' = [writer EXCEPT ![w].pc = "send", ![w].data = d]
      /\ sendLbr' = sendLbr + Len(d) /\ out' = out \o d
      /\ firstByte' = << >> /\ windowProbe' = FALSE
      /\ UNCHANGED <<sendBuf, sendUna, sendNxt, sendWnd, sendWl2, ctlCount, prober, network, flags>>
  BY DEF ReadReply
<1>2. d \in Seq(Nat) /\ Len(d) \in Nat /\ Len(d) <= writer[w].seg /\ Len(d) <= sendNxt - sendLbr
  <2> DEFINE count == IF windowProbe THEN ctlCount - 1 ELSE ctlCount
             dist == Least(Least(sendNxt - sendLbr, Mss), count)
  <2>1. /\ count \in Nat /\ count <= writer[w].seg /\ writer[w].seg \in Nat
        /\ dist \in Nat /\ dist <= sendNxt - sendLbr /\ dist <= count
        /\ d \in Seq(Nat) /\ Len(d) \in 0..dist
    BY <1>1, ReplyFacts, SendAssumption DEF TypeInv, Calls
  <2>2. sendNxt - sendLbr \in Int
    BY DEF TypeInv, Pointers
  <2> HIDE DEF count, dist, d
  <2> QED
    BY <2>1, <2>2
<1> HIDE DEF d
<1>3. Pointers' /\ Packets'
  BY <1>1, <1>2 DEF TypeInv, Pointers, Packets, network
<1>4. windowProbe' \in BOOLEAN /\ missed' \in BOOLEAN /\ overlap' \in BOOLEAN /\ overrun' \in BOOLEAN
  BY <1>1 DEF TypeInv, ControlTypes, flags
<1>5. ControlTypes'
  BY <1>1, <1>2, <1>4 DEF TypeInv, ControlTypes
<1>6. writer' \in [Writers -> Calls]
  BY <1>1, <1>2 DEF TypeInv, Calls
<1>7. /\ writer'[w].pc = "send" /\ writer'[w].data = d /\ writer'[w].sent = writer[w].sent
      /\ \A v \in Writers : v # w => writer'[v] = writer[v]
  BY <1>1 DEF TypeInv, Calls
<1>8. \A v \in Writers : v # w => writer'[v].pc # "bytesReadSend"
  BY <1>1, <1>7 DEF TypeInv, OneServed
<1>9. OneServed'
  BY <1>7, <1>8 DEF OneServed
<1>10. writer[w].sent + Len(d) <= WriteLen[w] /\ Len(d) < sendNxt
  <2>1. /\ writer[w].sent \in Nat /\ writer[w].seg \in Nat /\ WriteLen[w] \in Nat
        /\ writer[w].sent + writer[w].seg <= WriteLen[w]
        /\ sendNxt \in Nat /\ sendLbr \in Nat /\ 1 <= sendLbr
    <3>1. writer[w] \in Calls /\ WriteLen[w] \in Nat /\ Mss \in Nat
      BY SendAssumption DEF TypeInv
    <3>2. writer[w].sent \in Nat /\ writer[w].seg \in Nat
      BY <3>1 DEF Calls
    <3>3. writer[w].sent + writer[w].seg <= WriteLen[w]
      BY <1>1 DEF TypeInv, CallBounds
    <3> QED
      BY <3>1, <3>2, <3>3 DEF TypeInv, Pointers
  <2> QED
    BY <1>2, <2>1
<1>11. writer[w].sent \in Nat /\ WriteLen[w] \in Nat
  BY SendAssumption DEF TypeInv, Calls
<1>12. CallBounds'
  BY <1>1, <1>2, <1>7, <1>8, <1>10, <1>11 DEF TypeInv, CallBounds
<1> QED
  BY <1>3, <1>5, <1>6, <1>9, <1>12 DEF TypeInv

LEMMA WindowProbingTypes ==
    ASSUME TypeInv, WindowProbing
    PROVE  TypeInv'
<1> DEFINE p == [seq |-> sendNxt, payload |-> Head(prober), probe |-> TRUE]
<1>1. /\ prober # << >> /\ prober' = << >> /\ net' = Append(net, p)
      /\ UNCHANGED <<tcb, controller, writer, acks, peer, out, flags>>
  BY DEF WindowProbing
<1>2. p \in Segments
  <2> DEFINE S == Seq(Nat)
  <2>1. prober \in Seq(S) /\ prober # << >>
    BY <1>1 DEF TypeInv, ControlTypes
  <2>2. Head(prober) \in S
    <3> HIDE DEF S
    <3> QED
      BY <2>1
  <2>3. TRUE \in BOOLEAN /\ sendNxt \in Nat
    BY DEF TypeInv, Pointers
  <2> QED
    BY <2>2, <2>3 DEF Segments
<1> HIDE DEF p
<1>3. Pointers' /\ Packets'
  BY <1>1, <1>2 DEF TypeInv, Pointers, Packets, tcb
<1>4. ControlTypes'
  <2>1. windowProbe' \in BOOLEAN /\ missed' \in BOOLEAN /\ overlap' \in BOOLEAN /\ overrun' \in BOOLEAN
    BY <1>1 DEF TypeInv, ControlTypes, controller, flags
  <2> QED
    BY <1>1, <2>1 DEF TypeInv, ControlTypes, controller
<1>5. CallBounds' /\ OneServed' /\ writer' \in [Writers -> Calls]
  BY <1>1 DEF TypeInv, CallBounds, OneServed, tcb, controller
<1> QED
  BY <1>3, <1>4, <1>5 DEF TypeInv

\* What an acknowledgement may change, and what it cannot.
LEMMA HandleAckTypes ==
    ASSUME TypeInv, HandleAck
    PROVE  TypeInv'
<1> DEFINE a == Head(acks)
           p == [seq |-> sendNxt, payload |-> << >>, probe |-> FALSE]
<1>1. /\ acks # << >> /\ acks' = Tail(acks)
      /\ UNCHANGED <<sendBuf, sendNxt, sendLbr, ctlCount, firstByte, windowProbe, prober,
                     writer, peer, out, overlap>>
  BY DEF HandleAck
<1>2. a \in Answers /\ acks' \in Seq(Answers)
  BY <1>1 DEF TypeInv, Packets
<1>3. /\ sendUna' = sendUna \/ sendUna' = sendUna + wrappedDist(sendUna, a.ack)
      /\ net' = net \/ net' = Append(net, p)
      /\ \/ /\ sendWnd' = a.wnd /\ sendWl2' = a.ack /\ ctl' = Signalled(ctl)
            /\ missed' = (missed \/ ctl \in {"addGap", "readGap"})
            /\ overrun' = (overrun \/ a.wnd = 0)
         \/ UNCHANGED <<sendWnd, sendWl2, ctl, missed, overrun>>
  BY DEF HandleAck, UpdateWindow
<1> HIDE DEF a
<1>4. a.ack \in Nat /\ a.wnd \in 0..TcbSize
  BY <1>2 DEF Answers
<1>5. Pointers'
  <2>1. sendUna \in Nat /\ TcbSize \in Nat
    BY RingFacts DEF TypeInv, Pointers
  <2>2. sendUna' \in Nat
    BY <1>3, <1>4, <2>1 DEF wrappedDist
  <2> QED
    BY <1>1, <1>3, <1>4, <2>2 DEF TypeInv, Pointers
<1>6. Packets'
  <2>1. p \in Segments
    <3>1. FALSE \in BOOLEAN /\ sendNxt \in Nat /\ << >> \in Seq(Nat)
      BY DEF TypeInv, Pointers
    <3> QED
      BY <3>1 DEF Segments
  <2> HIDE DEF p
  <2>2. net \in Seq(Segments) /\ peer \in Peers
    BY DEF TypeInv, Packets
  <2>3. net' \in Seq(Segments)
    BY ONLY <1>3, <2>1, <2>2
  <2>4. peer' \in Peers
    BY <1>1, <2>2
  <2> QED
    BY <1>2, <2>3, <2>4 DEF Packets, Segments, Answers, Peers
<1>7. ctl' \in {"select"} \cup Adding \cup Reading /\ (ctl \in Reading <=> ctl' \in Reading)
  <2>1. ctl \in {"select"} \cup Adding \cup Reading
    BY DEF TypeInv, ControlTypes
  <2> QED
    BY <1>3, <2>1 DEF Signalled, Adding, Reading
<1>8. windowProbe' \in BOOLEAN /\ missed' \in BOOLEAN /\ overlap' \in BOOLEAN /\ overrun' \in BOOLEAN
  BY <1>1, <1>3 DEF TypeInv, ControlTypes
<1>9. ControlTypes'
  BY <1>1, <1>7, <1>8 DEF TypeInv, ControlTypes
<1>10. CallBounds' /\ OneServed' /\ writer' \in [Writers -> Calls]
  BY <1>1, <1>7 DEF TypeInv, CallBounds, OneServed
<1> QED
  BY <1>5, <1>6, <1>9, <1>10 DEF TypeInv

LEMMA PeerTypes ==
    ASSUME TypeInv, PeerReceive \/ PeerRead
    PROVE  TypeInv'
<1>1. /\ UNCHANGED <<tcb, controller, prober, writer, out, missed, overlap>>
      /\ overrun' \in BOOLEAN
  <2>1. overrun \in BOOLEAN
    BY DEF TypeInv, ControlTypes
  <2> QED
    BY <2>1 DEF PeerReceive, PeerTakes, PeerRefuses, PeerRead, flags
<1>2. net \in Seq(Segments) /\ acks \in Seq(Answers) /\ peer \in Peers
  BY DEF TypeInv, Packets
<1>3. peer.rcvNxt \in Nat /\ peer.rcvWnd \in 0..TcbSize /\ TcbSize \in Nat
  BY <1>2, RingFacts DEF Peers
<1>4. Packets'
  <2>1. CASE PeerRead
    BY <1>2, <1>3, <2>1 DEF PeerRead, Packets, Peers
  <2>2. CASE PeerReceive
    <3> DEFINE s == Head(net)
    <3>1. net # << >> /\ net' = Tail(net) /\ (PeerTakes(s) \/ PeerRefuses(s))
      BY <2>2 DEF PeerReceive
    <3>2. s \in Segments /\ net' \in Seq(Segments)
      BY <1>2, <3>1
    <3> HIDE DEF s
    <3>3. s.seq \in Nat /\ Len(s.payload) \in Nat
      BY <3>2 DEF Segments
    <3>4. peer' \in Peers
      <4>1. \/ peer' = peer
            \/ /\ peer' = [peer EXCEPT !.rcvNxt = @ + Len(s.payload), !.rcvWnd = @ - Len(s.payload)]
               /\ Len(s.payload) <= peer.rcvWnd
            \/ peer' = [peer EXCEPT !.ctl = "full"]
            \/ peer' = [peer EXCEPT !.ctl = "blocked"]
        BY <3>1 DEF PeerTakes, PeerRefuses
      <4>2. CASE Len(s.payload) <= peer.rcvWnd
        <5>1. /\ peer.rcvNxt + Len(s.payload) \in Nat
              /\ peer.rcvWnd - Len(s.payload) \in 0..TcbSize
          BY <1>3, <3>3, <4>2
        <5> QED
          BY <1>2, <4>1, <5>1 DEF Peers
      <4>3. CASE ~(Len(s.payload) <= peer.rcvWnd)
        BY <1>2, <4>1, <4>3 DEF Peers
      <4> QED
        BY <4>2, <4>3
    <3>5. peer'.rcvWnd \in 0..TcbSize
      BY <3>4 DEF Peers
    <3>6. \/ acks' = acks
          \/ \E n \in Nat, wnd \in 0..TcbSize : acks' = Append(acks, [ack |-> n, wnd |-> wnd])
      <4>1. s.seq + Len(s.payload) \in Nat
        BY <3>3
      <4>2. \/ acks' = acks
            \/ \E wnd \in {peer.rcvWnd, peer'.rcvWnd} :
                  acks' = Append(acks, [ack |-> s.seq + Len(s.payload), wnd |-> wnd])
            \/ acks' = Append(acks, [ack |-> peer.rcvNxt, wnd |-> peer.rcvWnd])
        BY <3>1 DEF PeerTakes, PeerRefuses
      <4> QED
        BY <1>3, <3>5, <4>1, <4>2
    <3>7. acks' \in Seq(Answers)
      <4>1. acks' = acks \/ \E b \in Answers : acks' = Append(acks, b)
        BY <3>6 DEF Answers
      <4> QED
        BY <1>2, <4>1
    <3> QED
      BY <3>2, <3>4, <3>7 DEF Packets
  <2> QED
    BY <2>1, <2>2
<1>5. Pointers' /\ CallBounds' /\ OneServed' /\ writer' \in [Writers -> Calls]
  BY <1>1 DEF TypeInv, Pointers, CallBounds, OneServed, tcb, controller
<1>6. windowProbe' \in BOOLEAN /\ missed' \in BOOLEAN /\ overlap' \in BOOLEAN
  BY <1>1 DEF TypeInv, ControlTypes, controller
<1>7. ControlTypes'
  BY <1>1, <1>6 DEF TypeInv, ControlTypes, controller
<1> QED
  BY <1>4, <1>5, <1>7 DEF TypeInv

LEMMA TypeNext == TypeInv /\ [Next]_vars => TypeInv'
<1> SUFFICES ASSUME TypeInv, [Next]_vars PROVE TypeInv'
  OBVIOUS
<1>1. CASE UNCHANGED vars
  BY <1>1 DEF TypeInv, Pointers, Packets, ControlTypes, CallBounds, OneServed,
              vars, tcb, controller, network, flags
<1>2. ASSUME NEW w \in Writers, VWrite(w) \/ Segment(w) \/ AddSend(w) \/ ReadSend(w) \/ Send(w)
      PROVE  TypeInv'
  BY <1>2, VWriteTypes, SegmentTypes, AddSendTypes, ReadSendTypes, SendTypes
<1>3. CASE Controller
  BY <1>3, ControllerTypes, Add2SendTypes, ReadReplyTypes DEF Controller
<1>4. CASE WindowProbing \/ HandleAck \/ PeerReceive \/ PeerRead
  BY <1>4, WindowProbingTypes, HandleAckTypes, PeerTypes
<1> QED
  BY <1>1, <1>2, <1>3, <1>4 DEF Next

LEMMA TypeInvariant == Spec => []TypeInv
<1> QED
  BY TypeInit, TypeNext, PTL DEF Spec

\* The state of the send half has its types: no segment is larger than Mss, and
\* VWrite never counts more bytes as sent than it was given, whatever the
\* controller hands back and however the calls interleave.
THEOREM TypeCorrect == Spec => []TypeOK
<1> QED
  BY TypeInvariant, TypeInvTypes, PTL

-----------------------------------------------------------------------------
(* A call at a time: as long as no two calls of VWrite are between AddSend  *)
(* and send, the ring holds only the text of the call that is there, and    *)
(* holds it where its sequence numbers say.                                 *)

Between(w) == writer[w].pc \in {"ReadSend", "bytesReadSend", "send"}

OneBetween == \A v, w \in Writers : Between(v) /\ Between(w) => v = w

\* The controller works for a call that waits for it.
Serves ==
    /\ ctl \in Adding => \E w \in Writers : writer[w].pc = "ReadSend" /\ ctlCount = writer[w].seg
    /\ ctl \in Reading => \E w \in Writers : writer[w].pc = "bytesReadSend"

\* How much of its segment the call has in the ring, a probe's byte taken off.
Queued(w) ==
    IF writer[w].pc = "ReadSend" /\ ctl \notin Adding THEN writer[w].seg
    ELSE IF writer[w].pc = "bytesReadSend"
    THEN IF windowProbe THEN writer[w].seg - 1 ELSE writer[w].seg
    ELSE 0

OnlyItsText ==
    /\ \A w \in Writers : Between(w) => sendNxt = sendLbr + Queued(w)
    /\ (\A w \in Writers : ~Between(w)) => sendNxt = sendLbr
    /\ sendNxt <= sendLbr + TcbSize

RingKeeps == \A i \in sendLbr..(sendNxt - 1) : sendBuf[wrapIndex(i)] = i

LeftInOrder == Len(out) = sendLbr - 1 /\ \A i \in 1..Len(out) : out[i] = i

TakenInOrder ==
    \A w \in Writers : writer[w].pc = "send" =>
        /\ ctl = "select"
        /\ \A k \in 1..Len(writer[w].data) :
              writer[w].data[k] = sendNxt - Len(writer[w].data) + k - 1

NumberedInOrder ==
    \A i \in 1..Len(net) :
        ~net[i].probe => \A k \in 1..Len(net[i].payload) : net[i].payload[k] = net[i].seq + k - 1

Alone ==
    /\ OneBetween /\ Serves /\ OnlyItsText /\ RingKeeps /\ LeftInOrder
    /\ TakenInOrder /\ NumberedInOrder

LEMMA AloneInit == Init => Alone
<1> SUFFICES ASSUME Init PROVE Alone
  OBVIOUS
<1>1. \A w \in Writers : ~Between(w) /\ writer[w].pc # "send"
  BY DEF Init, Between
<1> QED
  BY <1>1, RingFacts DEF Init, Alone, OneBetween, Serves, OnlyItsText, RingKeeps, LeftInOrder,
     TakenInOrder, NumberedInOrder, Adding, Reading

\* Packets that are taken from the network, and those added that carry nothing
\* or are probes, do not matter to NumberedInOrder.
LEMMA NumberedSteps ==
    ASSUME NumberedInOrder, net \in Seq(Segments),
           \/ net' = net
           \/ net # << >> /\ net' = Tail(net)
           \/ \E p \in Segments : /\ net' = Append(net, p)
                                  /\ \/ p.probe
                                     \/ \A k \in 1..Len(p.payload) : p.payload[k] = p.seq + k - 1
    PROVE  NumberedInOrder'
<1>1. CASE net' = net
  BY <1>1 DEF NumberedInOrder
<1>2. CASE net # << >> /\ net' = Tail(net)
  <2>1. Len(net') = Len(net) - 1 /\ \A i \in 1..Len(net') : net'[i] = net[i + 1] /\ i + 1 \in 1..Len(net)
    BY <1>2
  <2>2. ASSUME NEW i \in 1..Len(net'), ~net'[i].probe
        PROVE  \A k \in 1..Len(net'[i].payload) : net'[i].payload[k] = net'[i].seq + k - 1
    <3> DEFINE p == net[i + 1]
    <3>1. net'[i] = p /\ i + 1 \in 1..Len(net)
      BY <2>1
    <3>2. ~p.probe => \A k \in 1..Len(p.payload) : p.payload[k] = p.seq + k - 1
      BY <3>1 DEF NumberedInOrder
    <3> HIDE DEF p
    <3> QED
      BY <2>2, <3>1, <3>2
  <2> QED
    BY <2>2 DEF NumberedInOrder
<1>3. ASSUME NEW p \in Segments, net' = Append(net, p),
             \/ p.probe
             \/ \A k \in 1..Len(p.payload) : p.payload[k] = p.seq + k - 1
      PROVE  NumberedInOrder'
  <2>1. ASSUME NEW i \in 1..Len(net') PROVE net'[i] = p \/ (i \in 1..Len(net) /\ net'[i] = net[i])
    <3>1. Len(net') = Len(net) + 1 /\ Len(net) \in Nat /\ net'[Len(net) + 1] = p
      BY <1>3
    <3>2. i = Len(net) + 1 \/ i \in 1..Len(net)
      BY <3>1
    <3>3. i \in 1..Len(net) => net'[i] = net[i]
      BY <1>3
    <3>4. CASE i = Len(net) + 1
      BY <3>1, <3>4
    <3>5. CASE i \in 1..Len(net)
      BY <3>3, <3>5
    <3> QED
      BY <3>2, <3>4, <3>5
  <2> QED
    BY <1>3, <2>1 DEF NumberedInOrder
<1> QED
  BY <1>1, <1>2, <1>3

\* A step that leaves the ring, and the call between AddSend and send, alone.
LEMMA AloneSteady ==
    ASSUME TypeInv, Alone, NumberedInOrder',
           UNCHANGED <<sendBuf, sendNxt, sendLbr, out, ctlCount, windowProbe>>,
           ctl \in Adding <=> ctl' \in Adding, ctl \in Reading <=> ctl' \in Reading,
           ctl = "select" => ctl' = "select",
           \A v \in Writers : (Between(v) <=> Between(v)') /\ (Between(v) => writer'[v] = writer[v])
    PROVE  Alone'
<1>1. OneBetween'
  BY DEF Alone, OneBetween
<1>2. Serves'
  BY DEF Alone, Serves, Between
<1>3. OnlyItsText'
  BY DEF Alone, OnlyItsText, Queued
<1>4. TakenInOrder'
  BY DEF Alone, TakenInOrder, Between
<1> QED
  BY <1>1, <1>2, <1>3, <1>4 DEF Alone, RingKeeps, LeftInOrder

LEMMA QuietAlone ==
    ASSUME TypeInv, Alone,
           \/ \E w \in Writers : VWrite(w) \/ Segment(w)
           \/ AddMustWait \/ AddWait \/ ReadMustWait \/ ReadWait \/ Probe \/ ProbeTimer
           \/ WindowProbing \/ HandleAck \/ PeerReceive \/ PeerRead
           \/ UNCHANGED vars
    PROVE  Alone' /\ UNCHANGED <<sendNxt, out>>
<1>1. UNCHANGED <<sendBuf, sendNxt, sendLbr, out, ctlCount, windowProbe>>
  BY DEF VWrite, Segment, AddMustWait, AddWait, ReadMustWait, ReadWait, Probe, ProbeTimer,
         WindowProbing, HandleAck, PeerReceive, PeerRead, vars, tcb, controller
<1>2. /\ ctl \in Adding <=> ctl' \in Adding
      /\ ctl \in Reading <=> ctl' \in Reading
      /\ ctl = "select" => ctl' = "select"
  BY DEF TypeInv, ControlTypes, VWrite, Segment, AddMustWait, AddWait, ReadMustWait, ReadWait,
         Probe, ProbeTimer, WindowProbing, HandleAck, UpdateWindow, Signalled, PeerReceive, PeerRead,
         vars, controller, Adding, Reading
<1>3. \A v \in Writers : (Between(v) <=> Between(v)') /\ (Between(v) => writer'[v] = writer[v])
  <2>1. CASE \E w \in Writers : VWrite(w) \/ Segment(w)
    BY <2>1 DEF TypeInv, Calls, VWrite, Segment, Between
  <2>2. CASE writer' = writer
    BY <2>2 DEF Between
  <2> QED
    BY <2>1, <2>2 DEF AddMustWait, AddWait, ReadMustWait, ReadWait, Probe, ProbeTimer,
       WindowProbing, HandleAck, PeerReceive, PeerRead, vars
<1>4. NumberedInOrder'
  <2>1. NumberedInOrder /\ net \in Seq(Segments) /\ TypeInv'
    <3>1. [Next]_vars
      BY DEF Next, Controller
    <3> QED
      BY <3>1, TypeNext DEF Alone, TypeInv, Packets
  <2>2. CASE net' = net
    BY <2>1, <2>2, NumberedSteps
  <2>3. CASE WindowProbing
    <3> DEFINE p == [seq |-> sendNxt, payload |-> Head(prober), probe |-> TRUE]
    <3>1. net' = Append(net, p) /\ p.probe
      BY <2>3 DEF WindowProbing
    <3> HIDE DEF p
    <3>2. p \in Segments
      <4>1. net' \in Seq(Segments) /\ Len(net') = Len(net) + 1 /\ net'[Len(net) + 1] = p
        BY <2>1, <3>1 DEF TypeInv, Packets
      <4> QED
        BY <2>1, <4>1
    <3> QED
      BY <2>1, <3>1, <3>2, NumberedSteps
  <2>4. CASE HandleAck
    <3> DEFINE p == [seq |-> sendNxt, payload |-> << >>, probe |-> FALSE]
    <3>1. net' = net \/ net' = Append(net, p)
      BY <2>4 DEF HandleAck
    <3>2. p \in Segments
      <4>1. FALSE \in BOOLEAN /\ sendNxt \in Nat /\ << >> \in Seq(Nat)
        BY DEF TypeInv, Pointers
      <4> QED
        BY <4>1 DEF Segments
    <3>3. \A k \in 1..Len(p.payload) : p.payload[k] = p.seq + k - 1
      OBVIOUS
    <3> HIDE DEF p
    <3> QED
      BY <2>1, <2>2, <3>1, <3>2, <3>3, NumberedSteps
  <2>5. CASE PeerReceive
    BY <2>1, <2>5, NumberedSteps DEF PeerReceive
  <2> QED
    BY <2>2, <2>3, <2>4, <2>5 DEF VWrite, Segment, AddMustWait, AddWait, ReadMustWait, ReadWait,
       Probe, ProbeTimer, PeerRead, vars, network
<1> QED
  BY <1>1, <1>2, <1>3, <1>4, AloneSteady

LEMMA AddSendAlone ==
    ASSUME TypeInv, Alone, NEW w \in Writers, AddSend(w), ~overlap'
    PROVE  Alone' /\ UNCHANGED <<sendNxt, out>>
<1>1. /\ writer[w].pc = "AddSend" /\ ctl = "select" /\ ctl' = "addTest"
      /\ writer' = [writer EXCEPT ![w].pc = "ReadSend"] /\ ctlCount' = writer[w].seg
      /\ UNCHANGED <<sendBuf, sendNxt, sendLbr, out, windowProbe, net>>
  BY DEF AddSend, tcb, network
<1>2. \A v \in Writers : ~Between(v)
  BY <1>1 DEF AddSend, Between
<1>3. /\ writer'[w].pc = "ReadSend" /\ writer'[w].seg = writer[w].seg
      /\ \A v \in Writers : v # w => writer'[v] = writer[v]
  BY <1>1 DEF TypeInv, Calls
<1>4. Between(w)' /\ \A v \in Writers : v # w => ~Between(v)'
  BY <1>2, <1>3 DEF Between
<1>5. OneBetween'
  BY <1>4 DEF OneBetween
<1>6. Serves'
  BY <1>1, <1>3 DEF Serves, Adding, Reading
<1>7. sendNxt = sendLbr /\ sendNxt \in Nat
  BY <1>2 DEF Alone, OnlyItsText, TypeInv, Pointers
<1>8. OnlyItsText'
  <2>1. Queued(w)' = 0
    BY <1>1, <1>3 DEF Queued, Adding
  <2> QED
    BY <1>1, <1>4, <1>7, <2>1, RingFacts DEF OnlyItsText
<1>9. TakenInOrder'
  <2>1. \A v \in Writers : writer'[v].pc # "send"
    BY <1>3, <1>4 DEF Between
  <2> QED
    BY <2>1 DEF TakenInOrder
<1> QED
  BY <1>1, <1>5, <1>6, <1>8, <1>9 DEF Alone, RingKeeps, LeftInOrder, NumberedInOrder

\* What is read from the ring is in order, and appending it keeps the order.
LEMMA ReadInOrder ==
    ASSUME TypeInv, Alone, NEW count \in Nat
    PROVE  LET r == readFromSend(count)
           IN  /\ r \in Seq(Nat) /\ Len(r) = Least(Least(sendNxt - sendLbr, Mss), count)
               /\ sendLbr + Len(r) <= sendNxt
               /\ \A k \in 1..Len(r) : r[k] = sendLbr + k - 1
               /\ r = [k \in 1..Len(r) |-> Len(out) + k]
               /\ Len(out \o r) = sendLbr + Len(r) - 1
               /\ \A i \in 1..Len(out \o r) : (out \o r)[i] = i
<1> DEFINE r == readFromSend(count)
           dist == Least(Least(sendNxt - sendLbr, Mss), count)
<1>1. /\ sendBuf \in [0..TcbSize -> Nat] /\ sendLbr \in Nat /\ sendNxt \in Nat
      /\ sendLbr <= sendNxt /\ 1 <= sendLbr /\ TcbSize \in Nat
  BY RingFacts DEF TypeInv, Pointers
<1>2. dist \in Nat /\ dist <= sendNxt - sendLbr /\ sendNxt - sendLbr <= TcbSize
  BY <1>1, SendAssumption DEF Least, Alone, OnlyItsText
<1>3. /\ r \in Seq(Nat) /\ Len(r) = dist
      /\ \A k \in 1..Len(r) : r[k] = sendBuf[wrapIndex(sendLbr + k - 1)]
  <2>1. /\ r \in Seq(Nat) /\ (dist <= TcbSize => Len(r) = dist)
        /\ \A k \in 1..Len(r) : r[k] = sendBuf[wrapIndex(sendLbr + k - 1)]
    BY <1>1, ReadFacts
  <2> HIDE DEF r, dist
  <2> QED
    BY <1>1, <1>2, <2>1
<1> HIDE DEF r, dist
<1>4. ASSUME NEW k \in 1..Len(r) PROVE r[k] = sendLbr + k - 1
  <2>1. sendLbr + k - 1 \in sendLbr..(sendNxt - 1)
    BY <1>1, <1>2, <1>3
  <2> QED
    BY <1>3, <2>1 DEF Alone, RingKeeps
<1>5. /\ out \in Seq(Nat) /\ Len(out) = sendLbr - 1 /\ Len(out) \in Nat
      /\ \A i \in 1..Len(out) : out[i] = i
  BY <1>1 DEF TypeInv, ControlTypes, Alone, LeftInOrder
<1>6. r = [k \in 1..Len(r) |-> Len(out) + k]
  <2>1. r = [k \in 1..Len(r) |-> r[k]]
    BY <1>3
  <2>2. \A k \in 1..Len(r) : r[k] = Len(out) + k
    BY <1>1, <1>4, <1>5
  <2> QED
    BY <2>1, <2>2
<1>7. Len(out \o r) = Len(out) + Len(r)
  <2>1. out \in Seq(Nat) /\ r \in Seq(Nat)
    BY <1>3, <1>5
  <2> QED
    BY <2>1
<1>8. ASSUME NEW i \in 1..Len(out \o r) PROVE (out \o r)[i] = i
  <2>1. CASE i <= Len(out)
    BY <1>3, <1>5, <2>1
  <2>2. CASE Len(out) < i
    <3>1. i - Len(out) \in 1..Len(r) /\ (out \o r)[i] = r[i - Len(out)]
      BY <1>2, <1>3, <1>5, <1>7, <2>2
    <3> QED
      BY <1>1, <1>4, <1>5, <3>1
  <2> QED
    BY <1>5, <1>7, <2>1, <2>2
<1>9. Len(out \o r) = sendLbr + Len(r) - 1 /\ sendLbr + Len(r) <= sendNxt
  BY <1>1, <1>2, <1>3, <1>5, <1>7
<1> QED
  BY <1>3, <1>4, <1>6, <1>8, <1>9 DEF r, dist

LEMMA ReadSendAlone ==
    ASSUME TypeInv, Alone, NEW w \in Writers, ReadSend(w)
    PROVE  /\ Alone'
           /\ sendNxt' = sendNxt
           /\ \/ out' = out
              \/ \E n \in 1..(sendNxt - 1 - Len(out)) : out' = out \o [i \in 1..n |-> Len(out) + i]
<1>1. /\ writer[w].pc = "ReadSend" /\ ctl = "select" /\ ctl' = "readTest"
      /\ writer' = [writer EXCEPT ![w].pc = "bytesReadSend"]
      /\ windowProbe' = (sendWnd = 0)
      /\ firstByte' = IF sendWnd = 0 THEN readFromSend(1) ELSE << >>
      /\ sendLbr' = sendLbr + Len(firstByte')
      /\ out' = out \o firstByte'
      /\ UNCHANGED <<sendBuf, sendNxt, net>>
  BY DEF ReadSend, network
<1>2. /\ sendLbr \in Nat /\ sendNxt \in Nat /\ 1 <= sendLbr /\ TcbSize \in Nat
      /\ Mss \in Nat \ {0} /\ sendNxt <= sendLbr + TcbSize /\ out \in Seq(Nat)
  BY RingFacts, SendAssumption DEF TypeInv, Pointers, ControlTypes, Alone, OnlyItsText
<1>3. sendNxt = sendLbr + writer[w].seg /\ writer[w].seg \in Nat /\ 1 <= writer[w].seg
  <2>1. Queued(w) = writer[w].seg /\ Between(w)
    BY <1>1 DEF Queued, Adding, Between
  <2>2. writer[w] \in Calls
    BY DEF TypeInv
  <2>3. writer[w].seg \in Nat
    BY <1>2, <2>2 DEF Calls
  <2> QED
    BY <1>1, <2>1, <2>3 DEF Alone, OnlyItsText, TypeInv, CallBounds
<1>4. /\ writer'[w].pc = "bytesReadSend" /\ writer'[w].seg = writer[w].seg
      /\ \A v \in Writers : v # w => writer'[v] = writer[v]
  BY <1>1 DEF TypeInv, Calls
<1>5. \A v \in Writers : v # w => ~Between(v)
  BY <1>1 DEF Alone, OneBetween, Between
<1>6. Between(w)' /\ \A v \in Writers : v # w => ~Between(v)'
  BY <1>4, <1>5 DEF Between
<1>7. OneBetween' /\ Serves'
  BY <1>1, <1>4, <1>6 DEF OneBetween, Serves, Adding, Reading
<1>8. TakenInOrder'
  <2>1. \A v \in Writers : writer'[v].pc # "send"
    BY <1>4, <1>6 DEF Between
  <2> QED
    BY <2>1 DEF TakenInOrder
<1>9. NumberedInOrder'
  BY <1>1 DEF Alone, NumberedInOrder
<1>10. CASE sendWnd = 0
  <2> DEFINE r == readFromSend(1)
  <2>1. /\ r \in Seq(Nat) /\ Len(r) = Least(Least(sendNxt - sendLbr, Mss), 1)
        /\ r = [k \in 1..Len(r) |-> Len(out) + k]
        /\ Len(out \o r) = sendLbr + Len(r) - 1
        /\ \A i \in 1..Len(out \o r) : (out \o r)[i] = i
    BY ReadInOrder
  <2> HIDE DEF r
  <2>2. Len(r) = 1
    <3>1. sendNxt - sendLbr \in Nat \ {0} /\ Mss \in Nat \ {0}
      BY ONLY <1>2, <1>3
    <3>2. \A a, b \in Nat \ {0} : Least(Least(a, b), 1) = 1
      BY DEF Least
    <3> QED
      BY ONLY <2>1, <3>1, <3>2
  <2>3. firstByte' = r /\ windowProbe' /\ sendLbr' = sendLbr + 1 /\ out' = out \o r
    BY <1>1, <1>10, <2>2 DEF r
  <2>4. LeftInOrder'
    <3>1. Len(out \o r) = sendLbr' - 1
      <4>1. Len(out \o r) = sendLbr + 1 - 1 /\ sendLbr' = sendLbr + 1
        BY <2>1, <2>2, <2>3
      <4>2. ASSUME NEW x \in Nat, NEW y, NEW l, y = x + 1, l = x + 1 - 1 PROVE l = y - 1
        BY <4>2
      <4> QED
        BY <1>2, <4>1, <4>2
    <3> QED
      BY <2>1, <2>3, <3>1 DEF LeftInOrder
  <2>5. RingKeeps'
    BY <1>1, <1>2, <2>3 DEF Alone, RingKeeps
  <2>6. Queued(w)' = writer[w].seg - 1
    BY <1>4, <2>3 DEF Queued
  <2>7. OnlyItsText'
    <3>1. sendNxt' = sendLbr' + (writer[w].seg - 1) /\ sendNxt' <= sendLbr' + TcbSize
      <4>1. sendNxt' = sendNxt /\ sendLbr' = sendLbr + 1
        BY <1>1, <2>3
      <4>2. ASSUME NEW n \in Nat, NEW l \in Nat, NEW s \in Nat, NEW T \in Nat, n = l + s, n <= l + T
            PROVE  n = l + 1 + (s - 1) /\ n <= l + 1 + T
        BY <4>2
      <4>3. /\ sendNxt = sendLbr + 1 + (writer[w].seg - 1)
            /\ sendNxt <= sendLbr + 1 + TcbSize
        BY <1>2, <1>3, <4>2
      <4> QED
        BY <4>1, <4>3
    <3>2. sendNxt' = sendLbr' + Queued(w)'
      BY <2>6, <3>1
    <3> QED
      BY <1>6, <3>1, <3>2 DEF OnlyItsText
  <2>8. 1 \in 1..(sendNxt - 1 - Len(out)) /\ out' = out \o [i \in 1..1 |-> Len(out) + i]
    <3>1. Len(out) = sendLbr - 1
      BY DEF Alone, LeftInOrder
    <3>2. 1 \in 1..(sendNxt - 1 - Len(out))
      BY <1>2, <1>3, <3>1
    <3> QED
      BY <2>1, <2>2, <2>3, <3>2
  <2> QED
    BY <1>1, <1>7, <1>8, <1>9, <2>4, <2>5, <2>7, <2>8 DEF Alone
<1>11. CASE sendWnd # 0
  <2>1. ~windowProbe' /\ sendLbr' = sendLbr /\ out' = out
    <3>1. ~windowProbe'
      BY <1>1, <1>11
    <3>2. firstByte' = << >> /\ Len(<< >>) = 0
      BY <1>1, <1>11
    <3>3. sendLbr' = sendLbr
      BY <1>1, <1>2, <3>2
    <3>4. out \o << >> = out
      BY <1>2
    <3> QED
      BY <1>1, <3>1, <3>2, <3>3, <3>4
  <2>2. LeftInOrder' /\ RingKeeps'
    BY <1>1, <2>1 DEF Alone, LeftInOrder, RingKeeps
  <2>3. Queued(w)' = writer[w].seg
    BY <1>4, <2>1 DEF Queued
  <2>4. OnlyItsText'
    BY <1>1, <1>2, <1>3, <1>6, <2>1, <2>3 DEF OnlyItsText
  <2> QED
    BY <1>1, <1>7, <1>8, <1>9, <2>1, <2>2, <2>4 DEF Alone
<1> QED
  BY <1>10, <1>11

LEMMA ReadReplyAlone ==
    ASSUME TypeInv, Alone, NEW w \in Writers, ReadReply(w)
    PROVE  /\ Alone'
           /\ sendNxt' = sendNxt
           /\ \/ out' = out
              \/ \E n \in 1..(sendNxt - 1 - Len(out)) : out' = out \o [i \in 1..n |-> Len(out) + i]
<1> DEFINE count == IF windowProbe THEN ctlCount - 1 ELSE ctlCount
           d == readFromSend(count)
<1>1. /\ writer[w].pc = "bytesReadSend" /\ ctl' = "select"
      /\ writer' = [writer EXCEPT ![w].pc = "send", ![w].data = d]
      /\ sendLbr' = sendLbr + Len(d) /\ out' = out \o d
      /\ UNCHANGED <<sendBuf, sendNxt, net>>
  BY DEF ReadReply, network
<1>2. /\ sendLbr \in Nat /\ sendNxt \in Nat /\ 1 <= sendLbr /\ TcbSize \in Nat
      /\ Mss \in Nat \ {0} /\ sendNxt <= sendLbr + TcbSize /\ out \in Seq(Nat)
      /\ Len(out) = sendLbr - 1
  BY RingFacts, SendAssumption DEF TypeInv, Pointers, ControlTypes, Alone, OnlyItsText, LeftInOrder
<1>3. count \in Nat /\ sendNxt = sendLbr + count /\ count <= Mss
  <2>1. Queued(w) = (IF windowProbe THEN writer[w].seg - 1 ELSE writer[w].seg) /\ Between(w)
    BY <1>1 DEF Queued, Between
  <2>2. count \in Nat /\ count <= writer[w].seg /\ ctlCount = writer[w].seg
    BY <1>1, ReplyFacts
  <2>3. writer[w].seg \in 0..Mss
    BY DEF TypeInv, Calls
  <2>4. Queued(w) = count
    BY <2>1, <2>2
  <2> HIDE DEF count
  <2> QED
    BY <1>2, <2>1, <2>2, <2>3, <2>4 DEF Alone, OnlyItsText
<1> HIDE DEF count
<1>4. /\ d \in Seq(Nat) /\ Len(d) = Least(Least(sendNxt - sendLbr, Mss), count)
      /\ \A k \in 1..Len(d) : d[k] = sendLbr + k - 1
      /\ d = [k \in 1..Len(d) |-> Len(out) + k]
      /\ Len(out \o d) = sendLbr + Len(d) - 1
      /\ \A i \in 1..Len(out \o d) : (out \o d)[i] = i
  BY <1>3, ReadInOrder
<1>5. Len(d) = count
  BY <1>2, <1>3, <1>4 DEF Least
<1> HIDE DEF d
<1>6. sendLbr' = sendNxt
  BY <1>1, <1>3, <1>5
<1>7. /\ writer'[w].pc = "send" /\ writer'[w].data = d
      /\ \A v \in Writers : v # w => writer'[v] = writer[v]
  BY <1>1 DEF TypeInv, Calls
<1>8. \A v \in Writers : v # w => ~Between(v)
  BY <1>1 DEF Alone, OneBetween, Between
<1>9. Between(w)' /\ \A v \in Writers : v # w => ~Between(v)'
  BY <1>7, <1>8 DEF Between
<1>10. OneBetween' /\ Serves'
  BY <1>1, <1>9 DEF OneBetween, Serves, Adding, Reading
<1>11. OnlyItsText'
  <2>1. Queued(w)' = 0
    BY <1>7 DEF Queued
  <2>2. sendNxt' = sendLbr' + 0 /\ sendNxt' <= sendLbr' + TcbSize
    BY <1>1, <1>2, <1>6
  <2> QED
    BY <1>9, <2>1, <2>2 DEF OnlyItsText
<1>12. RingKeeps' /\ NumberedInOrder'
  BY <1>1, <1>2, <1>6 DEF Alone, RingKeeps, NumberedInOrder
<1>13. LeftInOrder'
  <2>1. Len(out \o d) = sendLbr' - 1 /\ out' = out \o d
    <3>1. /\ Len(out \o d) = sendLbr + Len(d) - 1
          /\ sendLbr' = sendLbr + Len(d) /\ out' = out \o d
      BY <1>1, <1>4
    <3>2. ASSUME NEW x \in Nat, NEW y \in Nat, NEW z, NEW l, z = x + y, l = x + y - 1
          PROVE  l = z - 1
      BY <3>2
    <3>3. Len(d) \in Nat
      BY <1>3, <1>5
    <3> QED
      BY <1>2, <3>1, <3>2, <3>3
  <2> QED
    BY <1>4, <2>1 DEF LeftInOrder
<1>14. TakenInOrder'
  <2>1. \A k \in 1..Len(d) : d[k] = sendNxt' - Len(d) + k - 1
    <3>1. sendLbr = sendNxt' - Len(d)
      BY <1>1, <1>2, <1>3, <1>5
    <3> QED
      BY <1>4, <3>1
  <2>2. \A v \in Writers : v # w => writer'[v].pc # "send"
    BY <1>9 DEF Between
  <2> QED
    BY <1>1, <1>7, <2>1, <2>2 DEF TakenInOrder
<1>15. out' = out \/ \E n \in 1..(sendNxt - 1 - Len(out)) : out' = out \o [i \in 1..n |-> Len(out) + i]
  <2>1. CASE Len(d) = 0
    <3>1. d = << >>
      BY <1>4, <2>1
    <3> QED
      BY <1>1, <1>2, <3>1
  <2>2. CASE Len(d) # 0
    <3>1. Len(d) \in 1..(sendNxt - 1 - Len(out))
      BY <1>2, <1>3, <1>5, <2>2
    <3>2. out' = out \o [i \in 1..Len(d) |-> Len(out) + i]
      BY <1>1, <1>4
    <3> QED
      BY <3>1, <3>2
  <2> QED
    BY <2>1, <2>2
<1> QED
  BY <1>1, <1>10, <1>11, <1>12, <1>13, <1>14, <1>15 DEF Alone

LEMMA SendAlone ==
    ASSUME TypeInv, Alone, NEW w \in Writers, Send(w)
    PROVE  Alone' /\ UNCHANGED <<sendNxt, out>>
<1> DEFINE d == writer[w].data
           p == [seq |-> sendNxt - Len(d), payload |-> d, probe |-> FALSE]
<1>1. /\ writer[w].pc = "send" /\ net' = Append(net, p)
      /\ UNCHANGED <<sendBuf, sendNxt, sendLbr, out, ctl, ctlCount, windowProbe>>
  BY DEF Send, SeqNumOf, tcb, controller
<1>2. ctl = "select" /\ \A k \in 1..Len(d) : d[k] = sendNxt - Len(d) + k - 1
  BY <1>1 DEF Alone, TakenInOrder
<1>3. writer'[w].pc \in {"loop", "done"} /\ \A v \in Writers : v # w => writer'[v] = writer[v]
  BY DEF Send, TypeInv
<1>4. \A v \in Writers : v # w => ~Between(v)
  BY <1>1 DEF Alone, OneBetween, Between
<1>5. \A v \in Writers : ~Between(v)' /\ writer'[v].pc # "send"
  BY <1>3, <1>4 DEF Between
<1>6. sendNxt = sendLbr + Queued(w) /\ Queued(w) = 0 /\ sendNxt \in Nat /\ sendLbr \in Nat
  BY <1>1 DEF Alone, OnlyItsText, Queued, Between, TypeInv, Pointers
<1>7. OneBetween' /\ Serves' /\ TakenInOrder'
  BY <1>1, <1>2, <1>5 DEF OneBetween, Serves, TakenInOrder, Adding, Reading
<1>8. OnlyItsText'
  <2>1. sendNxt = sendLbr /\ sendNxt <= sendLbr + TcbSize
    BY <1>6, RingFacts
  <2> QED
    BY <1>1, <1>5, <2>1 DEF OnlyItsText
<1>9. NumberedInOrder'
  <2>1. p \in Segments
    <3>1. d \in Seq(Nat) /\ sendNxt - Len(d) \in Nat
      <4>1. d \in Seq(Nat) /\ Len(d) < sendNxt
        BY <1>1 DEF TypeInv, Calls, CallBounds
      <4> QED
        BY <1>6, <4>1
    <3>2. FALSE \in BOOLEAN
      OBVIOUS
    <3> QED
      BY <3>1, <3>2 DEF Segments
  <2>2. p.payload = d /\ p.seq = sendNxt - Len(d)
    OBVIOUS
  <2> HIDE DEF p
  <2>3. \A k \in 1..Len(p.payload) : p.payload[k] = p.seq + k - 1
    BY <1>2, <2>2
  <2> QED
    BY <1>1, <2>1, <2>3, NumberedSteps DEF Alone, TypeInv, Packets
<1> QED
  BY <1>1, <1>7, <1>8, <1>9 DEF Alone, RingKeeps, LeftInOrder

LEMMA Add2SendAlone ==
    ASSUME TypeInv, Alone, Add2Send
    PROVE  /\ Alone'
           /\ out' = out /\ sendNxt' - 1 \in sendNxt..(Len(out) + TcbSize)
<1>1. /\ ctl = "addTest" /\ ctl' = "select" /\ sendNxt' = sendNxt + ctlCount
      /\ getSendCapacity >= ctlCount
      /\ UNCHANGED <<sendLbr, ctlCount, windowProbe, writer, net, out>>
  BY DEF Add2Send, network
<1>2. PICK w \in Writers : writer[w].pc = "ReadSend" /\ ctlCount = writer[w].seg
  BY <1>1 DEF Alone, Serves, Adding
<1>3. \A v \in Writers : v # w => ~Between(v)
  BY <1>2 DEF Alone, OneBetween, Between
<1>4. /\ sendLbr \in Nat /\ sendNxt \in Nat /\ ctlCount \in Nat /\ 1 <= ctlCount
      /\ TcbSize \in Nat /\ ctlCount <= TcbSize
  <2>1. getSendCapacity \in 0..TcbSize
    BY CapacityFacts DEF TypeInv, Pointers
  <2>2. sendLbr \in Nat /\ sendNxt \in Nat /\ ctlCount \in Nat /\ 1 <= ctlCount /\ TcbSize \in Nat
    BY <1>2, RingFacts DEF TypeInv, Pointers, ControlTypes, CallBounds
  <2> QED
    BY <1>1, <2>1, <2>2
<1>5. sendNxt = sendLbr
  <2>1. Queued(w) = 0 /\ Between(w)
    BY <1>1, <1>2 DEF Queued, Between, Adding
  <2> QED
    BY <1>4, <2>1 DEF Alone, OnlyItsText
<1>6. \A v \in Writers : Between(v)' <=> Between(v)
  BY <1>1 DEF Between
<1>7. OneBetween' /\ Serves'
  BY <1>1, <1>6 DEF Alone, OneBetween, Serves, Adding, Reading
<1>8. OnlyItsText'
  <2>1. Queued(w)' = writer[w].seg /\ Between(w)'
    BY <1>1, <1>2 DEF Queued, Adding, Between
  <2>2. sendNxt' = sendLbr' + ctlCount /\ sendNxt' <= sendLbr' + TcbSize
    BY <1>1, <1>4, <1>5
  <2> QED
    BY <1>2, <1>3, <1>6, <2>1, <2>2 DEF OnlyItsText
<1>9. RingKeeps'
  <2> SUFFICES ASSUME NEW i \in sendNxt..(sendNxt + ctlCount - 1)
               PROVE  sendBuf'[wrapIndex(i)] = i
    <3>1. sendLbr' = sendNxt /\ sendNxt' = sendNxt + ctlCount
      BY <1>1, <1>5
    <3>2. sendNxt' - 1 = sendNxt + ctlCount - 1
      BY <1>4, <3>1
    <3>3. sendLbr'..(sendNxt' - 1) = sendNxt..(sendNxt + ctlCount - 1)
      BY <3>1, <3>2
    <3> QED
      BY <3>3 DEF RingKeeps, wrapIndex
  <2> DEFINE k == i - sendNxt
             S == {c \in 0..(ctlCount - 1) : Slot(c) = wrapIndex(i)}
  <2>1. k \in 0..(ctlCount - 1) /\ sendNxt + k = i /\ i \in Nat
    BY <1>4
  <2>2. Slot(k) = wrapIndex(i)
    BY <2>1 DEF Slot
  <2>3. ASSUME NEW c \in 0..(ctlCount - 1), Slot(c) = wrapIndex(i) PROVE c = k
    <3>1. sendNxt + c \in Nat /\ c \in Nat
      BY <1>4
    <3>2. ((sendNxt + c) % WndMod) = (i % WndMod)
      BY <2>3 DEF Slot, wrapIndex
    <3>3. WndMod \in Nat \ {0} /\ WndMod = TcbSize + 1
      BY RingFacts
    <3>4. CASE sendNxt + c < i
      <4>1. i < (sendNxt + c) + WndMod
        BY <1>4, <2>1, <3>1, <3>3
      <4> QED
        BY <2>1, <3>1, <3>2, <3>3, <3>4, <4>1, SlotsDiffer
    <3>5. CASE i < sendNxt + c
      <4>1. sendNxt + c < i + WndMod
        BY <1>4, <2>1, <3>1, <3>3
      <4> QED
        BY <2>1, <3>1, <3>2, <3>3, <3>5, <4>1, SlotsDiffer
    <3> QED
      BY <1>4, <2>1, <3>1, <3>4, <3>5
  <2> HIDE DEF k
  <2>4. (CHOOSE c \in 0..(ctlCount - 1) : Slot(c) = wrapIndex(i)) = k
    BY <2>1, <2>2, <2>3
  <2>5. wrapIndex(i) \in 0..TcbSize
    BY <2>1, RingFacts
  <2>6. sendBuf'[wrapIndex(i)] = sendNxt + k
    BY <2>1, <2>2, <2>4, <2>5 DEF Add2Send
  <2> QED
    BY <2>1, <2>6
<1>10. TakenInOrder'
  <2>1. \A v \in Writers : writer'[v].pc # "send"
    BY <1>1, <1>2, <1>3 DEF Between
  <2> QED
    BY <2>1 DEF TakenInOrder
<1>11. LeftInOrder' /\ NumberedInOrder'
  BY <1>1 DEF Alone, LeftInOrder, NumberedInOrder
<1>12. sendNxt' - 1 \in sendNxt..(Len(out) + TcbSize)
  <2>1. Len(out) = sendLbr - 1
    BY DEF Alone, LeftInOrder
  <2> QED
    BY <1>1, <1>4, <1>5, <2>1
<1> QED
  BY <1>1, <1>7, <1>8, <1>9, <1>10, <1>11, <1>12 DEF Alone

\* Calls overlap for good: the history variable is never reset.
LEMMA OverlapStays == TypeInv /\ [Next]_vars /\ overlap => overlap'
  BY DEF Next, Controller, VWrite, Segment, AddSend, ReadSend, Send, AddMustWait, AddWait,
     ReadMustWait, ReadWait, Probe, ProbeTimer, Add2Send, ReadReply, WindowProbing, HandleAck,
     PeerReceive, PeerRead, vars, flags

LEMMA AloneNext ==
    ASSUME TypeInv, Alone, [Next]_vars, ~overlap'
    PROVE  Alone' /\ (Stream!Next \/ UNCHANGED <<sendNxt, out>>)
<1> DEFINE Goal == Alone' /\ (Stream!Next \/ UNCHANGED <<sendNxt, out>>)
<1> SUFFICES Goal
  OBVIOUS
<1>1. sendNxt \in Nat
  BY DEF TypeInv, Pointers
<1>2. ASSUME NEW w \in Writers, ReadSend(w) \/ ReadReply(w) PROVE Goal
  <2>1. /\ Alone' /\ sendNxt' = sendNxt
        /\ \/ out' = out
           \/ \E n \in 1..(sendNxt - 1 - Len(out)) : out' = out \o [i \in 1..n |-> Len(out) + i]
    BY <1>2, ReadSendAlone, ReadReplyAlone
  <2>2. sendNxt' - 1 = sendNxt - 1
    BY <2>1
  <2> QED
    BY <2>1, <2>2 DEF Stream!Next, Stream!HandOut
<1>3. CASE Add2Send
  <2>1. Alone' /\ out' = out /\ sendNxt' - 1 \in sendNxt..(Len(out) + TcbSize)
    BY <1>3, Add2SendAlone
  <2>2. sendNxt - 1 + 1 = sendNxt
    BY <1>1
  <2> QED
    BY <2>1, <2>2 DEF Stream!Next, Stream!Accept
<1>4. ASSUME NEW w \in Writers, AddSend(w) PROVE Goal
  BY <1>4, AddSendAlone
<1>5. ASSUME NEW w \in Writers, Send(w) PROVE Goal
  BY <1>5, SendAlone
<1>6. ASSUME NEW w \in Writers, VWrite(w) \/ Segment(w) PROVE Goal
  BY <1>6, QuietAlone
<1>7. CASE AddMustWait \/ AddWait \/ ReadMustWait \/ ReadWait \/ Probe \/ ProbeTimer
  BY <1>7, QuietAlone
<1>8. CASE WindowProbing \/ HandleAck \/ PeerReceive \/ PeerRead \/ UNCHANGED vars
  BY <1>8, QuietAlone
<1> HIDE DEF Goal
<1> QED
  <2>1. CASE UNCHANGED vars
    BY <1>8, <2>1
  <2>2. CASE \E w \in Writers : VWrite(w) \/ Segment(w) \/ AddSend(w) \/ ReadSend(w) \/ Send(w)
    BY <1>2, <1>4, <1>5, <1>6, <2>2
  <2>3. CASE Controller
    BY <1>2, <1>3, <1>7, <2>3 DEF Controller
  <2>4. CASE WindowProbing \/ HandleAck \/ PeerReceive \/ PeerRead
    BY <1>8, <2>4
  <2> QED
    BY <2>1, <2>2, <2>3, <2>4 DEF Next

LEMMA AloneInvariant == Spec => [](TypeInv /\ (overlap \/ Alone))
<1>1. Init => TypeInv /\ (overlap \/ Alone)
  BY TypeInit, AloneInit
<1>2. TypeInv /\ (overlap \/ Alone) /\ [Next]_vars => (TypeInv /\ (overlap \/ Alone))'
  BY TypeNext, AloneNext, OverlapStays
<1> QED
  BY <1>1, <1>2, PTL DEF Spec

\* As long as calls of VWrite do not overlap, send numbers every segment with
\* the place its text has in the stream: sendNxt, which send reads without a
\* lock, is then the end of the text that readFromSend handed to this call,
\* also when a zero-window probe took its first byte.
THEOREM NumbersAreRight == Spec => []SentAtOwnNumber
<1>1. TypeInv /\ (overlap \/ Alone) => SentAtOwnNumber
  BY DEF Alone, NumberedInOrder, SentAtOwnNumber
<1> QED
  BY <1>1, AloneInvariant, PTL

\* As long as calls of VWrite do not overlap, add2Send and readFromSend make
\* the ring a bounded first-in first-out pipe: no byte is overwritten before
\* it has left, and none leaves twice, too early or out of order.
THEOREM SendIsAPipe == Spec => ImplementsByteStream
<1>1. Init => Stream!Init
  BY DEF Init, Stream!Init
<1>2. TypeInv /\ (overlap \/ Alone) /\ [Next]_vars => [overlap' \/ Stream!Next]_<<sendNxt, out>>
  <2> SUFFICES ASSUME TypeInv, overlap \/ Alone, [Next]_vars, ~overlap'
               PROVE  Stream!Next \/ UNCHANGED <<sendNxt, out>>
    OBVIOUS
  <2>1. Alone
    BY OverlapStays
  <2> QED
    BY <2>1, AloneNext
<1> QED
  BY <1>1, <1>2, AloneInvariant, PTL DEF Spec, ImplementsByteStream

-----------------------------------------------------------------------------
(* Sums over the threads.  SumFunction is a fold; what it computes does not *)
(* depend on the order in which the fold takes the threads.                 *)

LEMMA LeastNat ==
    ASSUME NEW T, T \subseteq Nat, T # {}
    PROVE  \E x \in T : \A y \in T : x <= y
<1> DEFINE R == {ss \in Nat \X Nat : ss[1] < ss[2]}
<1>1. IsWellFoundedOn(R, Nat)
  BY NatLessThanWellFounded DEF OpToRel
<1>2. \A x, y \in Nat : x < y => <<x, y>> \in R
  OBVIOUS
<1> HIDE DEF R
<1>3. PICK x \in T : \A y \in T : ~ (<<y, x>> \in R)
  BY <1>1, WFMin
<1>4. ASSUME NEW y \in T PROVE x <= y
  <2>1. x \in Nat /\ y \in Nat
    OBVIOUS
  <2>2. ~(y < x)
    BY <1>2, <1>3, <2>1
  <2> QED
    BY <2>1, <2>2
<1> QED
  BY <1>4

\* A family of finite sets that holds the empty set, and every set of which it
\* holds the sets with one element less, holds them all.
LEMMA SetsInduction ==
    ASSUME NEW W, IsFiniteSet(W), NEW Q, {} \in Q,
           \A T \in SUBSET W : T # {} /\ (\A x \in T : T \ {x} \in Q) => T \in Q
    PROVE  SUBSET W \subseteq Q
<1> DEFINE Bad == {T \in SUBSET W : T \notin Q}
           Sizes == {n \in Nat : \E T \in Bad : Cardinality(T) = n}
<1> SUFFICES ASSUME NEW U \in SUBSET W, U \notin Q PROVE FALSE
  OBVIOUS
<1>1. \A T \in SUBSET W : IsFiniteSet(T) /\ Cardinality(T) \in Nat
  BY FS_Subset, FS_CardinalityType
<1>2. Cardinality(U) \in Sizes /\ Sizes \subseteq Nat
  BY <1>1
<1>3. PICK n \in Sizes : \A m \in Sizes : n <= m
  <2> HIDE DEF Sizes
  <2> QED
    BY <1>2, LeastNat
<1>4. PICK T \in SUBSET W : T \notin Q /\ Cardinality(T) = n /\ n \in Nat
  BY <1>3
<1>5. ASSUME NEW x \in T PROVE T \ {x} \in Q
  <2>1. Cardinality(T \ {x}) = n - 1 /\ T \ {x} \in SUBSET W /\ Cardinality(T \ {x}) \in Nat
    BY <1>1, <1>4, FS_RemoveElement
  <2>2. Cardinality(T \ {x}) \notin Sizes
    BY <1>3, <1>4, <2>1
  <2> QED
    BY <2>1, <2>2
<1> QED
  BY <1>4, <1>5

\* g holds the sum of f over each set of indices, as SumFunction builds it.
Sums(g, f, W) ==
    \A s \in SUBSET W : g[s] = IF s = {} THEN 0 ELSE LET x == CHOOSE x \in s : TRUE
                                                    IN  f[x] + g[s \ {x}]

SumTable(g, f, W) ==
    g = [s \in SUBSET W |-> IF s = {} THEN 0 ELSE LET x == CHOOSE x \in s : TRUE
                                                  IN  f[x] + g[s \ {x}]]

LEMMA SumsExist ==
    ASSUME NEW W, IsFiniteSet(W), NEW f \in [W -> Nat]
    PROVE  \E g : SumTable(g, f, W)
<1> DEFINE ch(s) == CHOOSE x \in s : TRUE
           Upto(n) == {s \in SUBSET W : Cardinality(s) <= n}
           Adds(g, n) == \A s \in Upto(n) : g[s] = IF s = {} THEN 0 ELSE f[ch(s)] + g[s \ {ch(s)}]
           S == {n \in Nat : \E g : Adds(g, n)}
<1>1. \A s \in SUBSET W : s # {} => /\ ch(s) \in s /\ s \ {ch(s)} \in SUBSET W
                                    /\ Cardinality(s \ {ch(s)}) = Cardinality(s) - 1
  BY FS_Subset, FS_RemoveElement
<1>2. \A s \in SUBSET W : Cardinality(s) \in Nat /\ (Cardinality(s) = 0 <=> s = {})
  BY FS_Subset, FS_CardinalityType, FS_EmptySet
<1> HIDE DEF ch
<1>3. 0 \in S
  <2> DEFINE g == [s \in SUBSET W |-> 0]
  <2>1. Adds(g, 0)
    BY <1>2
  <2> QED
    BY <2>1
<1>4. ASSUME NEW n \in Nat, n \in S PROVE n + 1 \in S
  <2>1. PICK g : Adds(g, n)
    BY <1>4
  <2> DEFINE h == [s \in SUBSET W |-> IF Cardinality(s) <= n THEN g[s] ELSE f[ch(s)] + g[s \ {ch(s)}]]
  <2>2. ASSUME NEW s \in Upto(n + 1)
        PROVE  h[s] = IF s = {} THEN 0 ELSE f[ch(s)] + h[s \ {ch(s)}]
    <3>1. CASE s = {}
      BY <1>2, <2>1, <3>1
    <3>2. CASE s # {}
      <4>1. s \ {ch(s)} \in SUBSET W /\ Cardinality(s \ {ch(s)}) <= n
        BY <1>1, <1>2, <3>2
      <4>2. h[s \ {ch(s)}] = g[s \ {ch(s)}]
        BY <4>1
      <4>3. h[s] = f[ch(s)] + g[s \ {ch(s)}]
        BY <2>1, <3>2
      <4> QED
        BY <3>2, <4>2, <4>3
    <3> QED
      BY <3>1, <3>2
  <2> HIDE DEF h
  <2> QED
    BY <2>2
<1>5. \A n \in Nat : n \in S
  <2> DEFINE Bad == {n \in Nat : n \notin S}
  <2> HIDE DEF S
  <2> SUFFICES ASSUME Bad # {} PROVE FALSE
    OBVIOUS
  <2>1. PICK n \in Bad : \A m \in Bad : n <= m
    BY LeastNat
  <2>2. n - 1 \in Nat /\ n - 1 \in S
    BY <1>3, <2>1
  <2> QED
    BY <1>4, <2>2
<1>6. PICK g : Adds(g, Cardinality(W))
  BY <1>2, <1>5
<1>7. \A s \in SUBSET W : s \in Upto(Cardinality(W))
  BY FS_Subset
<1> DEFINE G == [s \in SUBSET W |-> g[s]]
<1>8. G = [s \in SUBSET W |-> IF s = {} THEN 0 ELSE f[ch(s)] + G[s \ {ch(s)}]]
  <2>1. ASSUME NEW s \in SUBSET W
        PROVE  g[s] = IF s = {} THEN 0 ELSE f[ch(s)] + G[s \ {ch(s)}]
    BY <1>1, <1>6, <1>7
  <2> QED
    BY <2>1
<1> QED
  BY <1>8 DEF ch, SumTable

LEMMA SumFunctionSums ==
    ASSUME NEW W, IsFiniteSet(W), NEW f \in [W -> Nat]
    PROVE  \E g : Sums(g, f, W) /\ SumFunction(f) = g[W]
<1> DEFINE iter[s \in SUBSET W] == IF s = {} THEN 0 ELSE LET x == CHOOSE x \in s : TRUE
                                                         IN  f[x] + iter[s \ {x}]
<1>1. DOMAIN f = W
  OBVIOUS
<1>2. SumFunction(f) = iter[W]
  BY <1>1 DEF SumFunction, SumFunctionOnSet, FoldFunctionOnSet, MapThenFoldSet
<1>3. iter = CHOOSE g : SumTable(g, f, W)
  BY DEF SumTable
<1> HIDE DEF iter
<1>4. SumTable(iter, f, W)
  BY <1>3, SumsExist
<1>5. Sums(iter, f, W)
  BY <1>4 DEF Sums, SumTable
<1> QED
  BY <1>2, <1>5

LEMMA SumsAreNat ==
    ASSUME NEW W, IsFiniteSet(W), NEW f \in [W -> Nat], NEW g, Sums(g, f, W)
    PROVE  \A s \in SUBSET W : g[s] \in Nat
<1> DEFINE Q == {s \in SUBSET W : g[s] \in Nat}
<1>1. {} \in Q
  <2>1. {} \in SUBSET W
    OBVIOUS
  <2>2. g[{}] = 0
    BY <2>1 DEF Sums
  <2> QED
    BY <2>1, <2>2
<1>2. ASSUME NEW T \in SUBSET W, T # {}, \A x \in T : T \ {x} \in Q
      PROVE  T \in Q
  <2> DEFINE x == CHOOSE x \in T : TRUE
  <2>1. x \in T /\ g[T] = f[x] + g[T \ {x}]
    BY <1>2 DEF Sums
  <2> HIDE DEF x
  <2>2. f[x] \in Nat /\ g[T \ {x}] \in Nat
    BY <1>2, <2>1
  <2>3. g[T] \in Nat
    BY ONLY <2>1, <2>2
  <2> QED
    BY <2>3
<1> HIDE DEF Q
<1>3. SUBSET W \subseteq Q
  BY <1>1, <1>2, SetsInduction
<1> QED
  BY <1>3 DEF Q

\* Any element may be taken out first.
LEMMA TakeOut ==
    ASSUME NEW W, IsFiniteSet(W), NEW f \in [W -> Nat], NEW g, Sums(g, f, W)
    PROVE  \A s \in SUBSET W : \A y \in s : g[s] = f[y] + g[s \ {y}]
<1> DEFINE Q == {s \in SUBSET W : \A y \in s : g[s] = f[y] + g[s \ {y}]}
<1>1. {} \in Q
  OBVIOUS
<1>2. ASSUME NEW T \in SUBSET W, T # {}, \A x \in T : T \ {x} \in Q
      PROVE  T \in Q
  <2> DEFINE x == CHOOSE x \in T : TRUE
  <2>1. x \in T /\ g[T] = f[x] + g[T \ {x}]
    BY <1>2 DEF Sums
  <2> HIDE DEF x
  <2>2. ASSUME NEW y \in T, y # x PROVE g[T] = f[y] + g[T \ {y}]
    <3>1. g[T \ {x}] = f[y] + g[(T \ {x}) \ {y}]
      BY <1>2, <2>1, <2>2
    <3>2. g[T \ {y}] = f[x] + g[(T \ {y}) \ {x}]
      BY <1>2, <2>1, <2>2
    <3>3. (T \ {x}) \ {y} = (T \ {y}) \ {x} /\ (T \ {y}) \ {x} \in SUBSET W
      OBVIOUS
    <3>4. g[(T \ {y}) \ {x}] \in Nat /\ f[x] \in Nat /\ f[y] \in Nat
      BY <2>1, <3>3, SumsAreNat
    <3> QED
      BY <2>1, <3>1, <3>2, <3>3, <3>4
  <2>3. \A y \in T : g[T] = f[y] + g[T \ {y}]
    BY <2>1, <2>2
  <2> QED
    BY <2>3
<1> HIDE DEF Q
<1>3. SUBSET W \subseteq Q
  BY <1>1, <1>2, SetsInduction
<1> QED
  BY <1>3 DEF Q

\* A sum is at least each of its terms, and changes by as much as one of them.
LEMMA SumFacts ==
    ASSUME NEW W, IsFiniteSet(W), NEW f \in [W -> Nat]
    PROVE  SumFunction(f) \in Nat /\ \A w \in W : f[w] <= SumFunction(f)
<1>1. PICK g : Sums(g, f, W) /\ SumFunction(f) = g[W]
  BY SumFunctionSums
<1>2. \A s \in SUBSET W : g[s] \in Nat
  BY <1>1, SumsAreNat
<1>3. \A w \in W : g[W] = f[w] + g[W \ {w}]
  BY <1>1, TakeOut
<1>4. ASSUME NEW w \in W PROVE f[w] <= g[W]
  <2>1. f[w] \in Nat /\ g[W \ {w}] \in Nat /\ g[W] = f[w] + g[W \ {w}]
    BY <1>2, <1>3
  <2> QED
    BY <2>1
<1>5. g[W] \in Nat
  BY <1>2
<1> QED
  BY <1>1, <1>4, <1>5

LEMMA SumChange ==
    ASSUME NEW W, IsFiniteSet(W), NEW f \in [W -> Nat], NEW h \in [W -> Nat], NEW w \in W,
           \A v \in W \ {w} : h[v] = f[v]
    PROVE  SumFunction(h) + f[w] = SumFunction(f) + h[w]
<1>1. PICK g : Sums(g, f, W) /\ SumFunction(f) = g[W]
  BY SumFunctionSums
<1>2. PICK k : Sums(k, h, W) /\ SumFunction(h) = k[W]
  BY SumFunctionSums
<1> DEFINE Q == {s \in SUBSET W : w \notin s => k[s] = g[s]}
<1>3. {} \in Q
  <2>1. {} \in SUBSET W
    OBVIOUS
  <2> QED
    BY <1>1, <1>2, <2>1 DEF Sums
<1>4. ASSUME NEW T \in SUBSET W, T # {}, \A x \in T : T \ {x} \in Q
      PROVE  T \in Q
  <2> SUFFICES ASSUME w \notin T PROVE k[T] = g[T]
    OBVIOUS
  <2> DEFINE x == CHOOSE x \in T : TRUE
  <2>1. x \in T /\ g[T] = f[x] + g[T \ {x}] /\ k[T] = h[x] + k[T \ {x}]
    BY <1>1, <1>2, <1>4 DEF Sums
  <2> HIDE DEF x
  <2> QED
    BY <1>4, <2>1
<1> HIDE DEF Q
<1>5. SUBSET W \subseteq Q
  BY <1>3, <1>4, SetsInduction
<1>6. k[W \ {w}] = g[W \ {w}]
  BY <1>5 DEF Q
<1>7. g[W] = f[w] + g[W \ {w}] /\ k[W] = h[w] + k[W \ {w}]
  BY <1>1, <1>2, TakeOut
<1>8. g[W \ {w}] \in Nat
  BY <1>1, SumsAreNat
<1> QED
  BY <1>1, <1>2, <1>6, <1>7, <1>8

LEMMA SumOfZeros ==
    ASSUME NEW W, IsFiniteSet(W), NEW f \in [W -> Nat], \A w \in W : f[w] = 0
    PROVE  SumFunction(f) = 0
<1>1. PICK g : Sums(g, f, W) /\ SumFunction(f) = g[W]
  BY SumFunctionSums
<1> DEFINE Q == {s \in SUBSET W : g[s] = 0}
<1>2. {} \in Q
  <2>1. {} \in SUBSET W
    OBVIOUS
  <2> QED
    BY <1>1, <2>1 DEF Sums
<1>3. ASSUME NEW T \in SUBSET W, T # {}, \A x \in T : T \ {x} \in Q
      PROVE  T \in Q
  <2> DEFINE x == CHOOSE x \in T : TRUE
  <2>1. x \in T /\ g[T] = f[x] + g[T \ {x}]
    BY <1>1, <1>3 DEF Sums
  <2> HIDE DEF x
  <2> QED
    BY <1>3, <2>1
<1> HIDE DEF Q
<1>4. SUBSET W \subseteq Q
  BY <1>2, <1>3, SetsInduction
<1> QED
  BY <1>1, <1>4 DEF Q

-----------------------------------------------------------------------------
(* Every byte is accounted for.                                             *)

\* The thread has handed its segment to add2Send and not yet got it back.
HandedIn == {"ReadSend", "bytesReadSend"}

\* What each call has given to the controller, and what of it the controller
\* has not given back.
Taken == [w \in Writers |-> writer[w].sent
            + (IF writer[w].pc \in HandedIn THEN writer[w].seg
               ELSE IF writer[w].pc = "send" THEN Len(writer[w].data) ELSE 0)]
Unread == [w \in Writers |-> IF writer[w].pc \in HandedIn THEN writer[w].seg ELSE 0]

\* What the controller has taken and not yet put into the ring.
Adds == IF ctl \in Adding THEN ctlCount ELSE 0

CallsAccounted ==
    \A w \in Writers :
       /\ writer[w].pc \in HandedIn \cup {"AddSend"} => writer[w].seg <= TcbSize
       /\ writer[w].pc = "done" => writer[w].sent = WriteLen[w]

WindowOpen == sendWnd > 0 /\ windowProbe = FALSE

\* As long as no window was closed, the ring's pointers are the sums of what
\* the threads have handed in and got back.
Accounted ==
    /\ WindowOpen /\ CallsAccounted
    /\ sendNxt + Adds = 1 + SumFunction(Taken)
    /\ sendNxt + Adds = sendLbr + SumFunction(Unread)

LEMMA TallyTypes ==
    ASSUME TypeInv
    PROVE  /\ Taken \in [Writers -> Nat] /\ Unread \in [Writers -> Nat] /\ Adds \in Nat
           /\ SumFunction(Taken) \in Nat /\ SumFunction(Unread) \in Nat
           /\ sendNxt \in Nat /\ sendLbr \in Nat
<1>1. ASSUME NEW w \in Writers
      PROVE  writer[w].sent \in Nat /\ writer[w].seg \in Nat /\ Len(writer[w].data) \in Nat
  BY SendAssumption DEF TypeInv, Calls
<1>2. Taken \in [Writers -> Nat]
  BY <1>1 DEF Taken
<1>3. Unread \in [Writers -> Nat]
  BY <1>1 DEF Unread
<1>4. Adds \in Nat /\ sendNxt \in Nat /\ sendLbr \in Nat
  BY DEF Adds, TypeInv, ControlTypes, Pointers
<1> QED
  BY <1>2, <1>3, <1>4, SumFacts, SendAssumption

LEMMA NextTallyTypes ==
    ASSUME TypeInv'
    PROVE  /\ Taken' \in [Writers -> Nat] /\ Unread' \in [Writers -> Nat]
           /\ SumFunction(Taken') \in Nat /\ SumFunction(Unread') \in Nat
<1>1. ASSUME NEW w \in Writers
      PROVE  writer'[w].sent \in Nat /\ writer'[w].seg \in Nat /\ Len(writer'[w].data) \in Nat
  BY SendAssumption DEF TypeInv, Calls
<1>2. Taken' \in [Writers -> Nat]
  BY <1>1 DEF Taken
<1>3. Unread' \in [Writers -> Nat]
  BY <1>1 DEF Unread
<1> QED
  BY <1>2, <1>3, SumFacts, SendAssumption

\* A step of one thread changes the sums by what it changes for that thread.
LEMMA TallyChange ==
    ASSUME TypeInv, TypeInv', NEW w \in Writers, \A v \in Writers \ {w} : writer'[v] = writer[v]
    PROVE  /\ SumFunction(Taken') + Taken[w] = SumFunction(Taken) + Taken'[w]
           /\ SumFunction(Unread') + Unread[w] = SumFunction(Unread) + Unread'[w]
<1>1. Taken \in [Writers -> Nat] /\ Unread \in [Writers -> Nat]
  BY TallyTypes
<1>2. Taken' \in [Writers -> Nat] /\ Unread' \in [Writers -> Nat]
  BY NextTallyTypes
<1>3. \A v \in Writers \ {w} : Taken'[v] = Taken[v] /\ Unread'[v] = Unread[v]
  BY DEF Taken, Unread
<1> QED
  BY <1>1, <1>2, <1>3, SumChange, SendAssumption

LEMMA AccountedInit == Init => Accounted
<1> SUFFICES ASSUME Init PROVE Accounted
  OBVIOUS
<1>1. TypeInv
  BY TypeInit
<1>2. \A w \in Writers : writer[w].pc = "idle" /\ writer[w].sent = 0
  BY DEF Init
<1>3. (\A w \in Writers : Taken[w] = 0) /\ (\A w \in Writers : Unread[w] = 0)
  BY <1>2 DEF Taken, Unread, HandedIn
<1>4. SumFunction(Taken) = 0 /\ SumFunction(Unread) = 0
  BY <1>1, <1>3, TallyTypes, SumOfZeros, SendAssumption
<1>5. WindowOpen /\ CallsAccounted
  <2>1. sendWnd > 0 /\ windowProbe = FALSE
    BY RingFacts DEF Init
  <2> QED
    BY <1>2, <2>1 DEF WindowOpen, CallsAccounted, HandedIn
<1>6. Adds = 0 /\ sendNxt = 1 /\ sendLbr = 1
  BY DEF Init, Adds, Adding
<1> QED
  BY <1>4, <1>5, <1>6 DEF Accounted

\* The steps that move no byte between a thread and the controller.
LEMMA QuietAccounted ==
    ASSUME TypeInv, Accounted, writer' = writer, WindowOpen',
           sendNxt' = sendNxt, sendLbr' = sendLbr, Adds' = Adds
    PROVE  Accounted'
<1>1. Taken' = Taken /\ Unread' = Unread
  BY DEF Taken, Unread
<1>2. CallsAccounted'
  BY DEF Accounted, CallsAccounted
<1> QED
  BY <1>1, <1>2 DEF Accounted

LEMMA Add2SendAccounted ==
    ASSUME TypeInv, Accounted, Add2Send
    PROVE  Accounted'
<1>1. /\ writer' = writer /\ WindowOpen' /\ sendLbr' = sendLbr
      /\ sendNxt' = sendNxt + ctlCount /\ Adds = ctlCount /\ Adds' = 0
  BY DEF Add2Send, Adds, Adding, Accounted, WindowOpen
<1>2. Taken' = Taken /\ Unread' = Unread
  BY <1>1 DEF Taken, Unread
<1>3. CallsAccounted'
  BY <1>1 DEF Accounted, CallsAccounted
<1>4. sendNxt' + Adds' = sendNxt + Adds
  BY <1>1, TallyTypes
<1> QED
  BY <1>1, <1>2, <1>3, <1>4 DEF Accounted

\* A step of one thread that keeps the books: what it adds to the threads'
\* sums it adds to the pointers.
LEMMA ThreadAccounted ==
    ASSUME TypeInv, TypeInv', Accounted, WindowOpen', CallsAccounted', NEW w \in Writers,
           \A v \in Writers \ {w} : writer'[v] = writer[v],
           sendNxt' = sendNxt, NEW t \in Int, NEW u \in Int, NEW l \in Int,
           Taken'[w] = Taken[w] + t, Unread'[w] = Unread[w] + u,
           Adds' = Adds + t, sendLbr' = sendLbr + l, t = l + u
    PROVE  Accounted'
<1>1. /\ SumFunction(Taken') + Taken[w] = SumFunction(Taken) + Taken'[w]
      /\ SumFunction(Unread') + Unread[w] = SumFunction(Unread) + Unread'[w]
  BY TallyChange
<1>2. /\ Taken[w] \in Nat /\ Unread[w] \in Nat /\ Adds \in Nat
      /\ SumFunction(Taken) \in Nat /\ SumFunction(Unread) \in Nat
      /\ sendNxt \in Nat /\ sendLbr \in Nat
  BY TallyTypes
<1>3. SumFunction(Taken') \in Nat /\ SumFunction(Unread') \in Nat
  BY NextTallyTypes
<1>4. sendNxt + Adds = 1 + SumFunction(Taken) /\ sendNxt + Adds = sendLbr + SumFunction(Unread)
  BY DEF Accounted
<1>5. SumFunction(Taken') = SumFunction(Taken) + t /\ SumFunction(Unread') = SumFunction(Unread) + u
  BY <1>1, <1>2, <1>3
<1>6. sendNxt' + Adds' = 1 + SumFunction(Taken')
  BY <1>2, <1>4, <1>5
<1>7. sendNxt' + Adds' = sendLbr' + SumFunction(Unread')
  BY <1>2, <1>4, <1>5
<1> QED
  BY <1>6, <1>7 DEF Accounted

LEMMA SegmentSize ==
    ASSUME TypeInv, NEW w \in Writers, Segment(w)
    PROVE  (IF lastIdx(w) = 0 THEN 1 ELSE lastIdx(w)) <= TcbSize
<1>1. getSendCapacity \in 0..TcbSize /\ TcbSize \in Nat \ {0}
  BY CapacityFacts, RingFacts DEF TypeInv, Pointers
<1>2. WriteLen[w] \in Nat /\ writer[w].sent \in Nat /\ Mss \in Nat
  BY SendAssumption DEF TypeInv, Calls
<1> QED
  BY <1>1, <1>2 DEF lastIdx, Least

LEMMA ThreadStepAccounted ==
    ASSUME TypeInv, TypeInv', Accounted, NEW w \in Writers,
           VWrite(w) \/ Segment(w) \/ AddSend(w) \/ ReadSend(w) \/ Send(w)
    PROVE  Accounted'
<1>1. WindowOpen /\ CallsAccounted
  BY DEF Accounted
<1>2. /\ writer \in [Writers -> Calls] /\ writer[w].sent \in Nat /\ writer[w].seg \in Nat
      /\ Len(writer[w].data) \in Nat /\ Adds \in Nat /\ Taken[w] \in Nat /\ Unread[w] \in Nat
      /\ sendLbr \in Nat /\ WriteLen[w] \in Nat
  <2>1. writer \in [Writers -> Calls] /\ writer[w] \in Calls
    BY DEF TypeInv
  <2>2. writer[w].sent \in Nat /\ writer[w].seg \in Nat /\ Len(writer[w].data) \in Nat
    BY <2>1 DEF Calls
  <2>3. Adds \in Nat /\ Taken[w] \in Nat /\ Unread[w] \in Nat /\ sendLbr \in Nat
    BY TallyTypes
  <2>4. WriteLen[w] \in Nat
    BY SendAssumption
  <2> QED
    BY <2>1, <2>2, <2>3, <2>4
<1>3. CASE VWrite(w)
  <2>1. /\ writer[w].pc = "idle" /\ writer' = [writer EXCEPT ![w].pc = "loop"]
        /\ UNCHANGED <<tcb, controller, prober, network, out, flags>>
    BY <1>3 DEF VWrite
  <2>2. /\ writer'[w].pc = "loop" /\ writer'[w].sent = writer[w].sent
        /\ \A v \in Writers \ {w} : writer'[v] = writer[v]
    BY <1>2, <2>1 DEF Calls
  <2>3. CallsAccounted' /\ WindowOpen'
    BY <1>1, <2>1, <2>2 DEF CallsAccounted, WindowOpen, HandedIn, tcb, controller
  <2>4. Taken'[w] = Taken[w] /\ Unread'[w] = Unread[w]
    BY <2>1, <2>2 DEF Taken, Unread, HandedIn
  <2>5. Adds' = Adds /\ sendNxt' = sendNxt /\ sendLbr' = sendLbr
    BY <2>1 DEF Adds, tcb, controller
  <2>6. Taken'[w] = Taken[w] + 0 /\ Unread'[w] = Unread[w] + 0 /\ Adds' = Adds + 0 /\ sendLbr' = sendLbr + 0
    BY <1>2, <2>4, <2>5
  <2> QED
    BY <2>2, <2>3, <2>5, <2>6, ThreadAccounted
<1>4. CASE Segment(w)
  <2> DEFINE seg == IF lastIdx(w) = 0 THEN 1 ELSE lastIdx(w)
  <2>1. /\ writer[w].pc = "loop" /\ writer' = [writer EXCEPT ![w].pc = "AddSend", ![w].seg = seg]
        /\ UNCHANGED <<tcb, controller, prober, network, out, flags>>
    BY <1>4 DEF Segment
  <2>2. seg <= TcbSize
    BY <1>4, SegmentSize
  <2> HIDE DEF seg
  <2>3. /\ writer'[w].pc = "AddSend" /\ writer'[w].sent = writer[w].sent /\ writer'[w].seg = seg
        /\ \A v \in Writers \ {w} : writer'[v] = writer[v]
    BY <1>2, <2>1 DEF Calls
  <2>4. CallsAccounted' /\ WindowOpen'
    BY <1>1, <2>1, <2>2, <2>3 DEF CallsAccounted, WindowOpen, HandedIn, tcb, controller
  <2>5. Taken'[w] = Taken[w] /\ Unread'[w] = Unread[w]
    BY <2>1, <2>3 DEF Taken, Unread, HandedIn
  <2>6. Adds' = Adds /\ sendNxt' = sendNxt /\ sendLbr' = sendLbr
    BY <2>1 DEF Adds, tcb, controller
  <2>7. Taken'[w] = Taken[w] + 0 /\ Unread'[w] = Unread[w] + 0 /\ Adds' = Adds + 0 /\ sendLbr' = sendLbr + 0
    BY <1>2, <2>5, <2>6
  <2> QED
    BY <2>3, <2>4, <2>6, <2>7, ThreadAccounted
<1>5. CASE AddSend(w)
  <2> DEFINE seg == writer[w].seg
  <2>1. /\ writer[w].pc = "AddSend" /\ writer' = [writer EXCEPT ![w].pc = "ReadSend"]
        /\ ctl = "select" /\ ctl' = "addTest" /\ ctlCount' = seg
        /\ UNCHANGED <<tcb, firstByte, windowProbe>>
    BY <1>5 DEF AddSend
  <2>2. /\ writer'[w].pc = "ReadSend" /\ writer'[w].sent = writer[w].sent /\ writer'[w].seg = seg
        /\ \A v \in Writers \ {w} : writer'[v] = writer[v]
    BY <1>2, <2>1 DEF Calls
  <2>3. CallsAccounted' /\ WindowOpen'
    BY <1>1, <2>1, <2>2 DEF CallsAccounted, WindowOpen, HandedIn, tcb
  <2>4. Taken'[w] = Taken[w] + seg /\ Unread'[w] = Unread[w] + seg
    BY <1>2, <2>1, <2>2 DEF Taken, Unread, HandedIn
  <2>5. Adds' = Adds + seg /\ sendNxt' = sendNxt /\ sendLbr' = sendLbr + 0
    BY <1>2, <2>1 DEF Adds, Adding, tcb
  <2> HIDE DEF seg
  <2>6. seg \in Int /\ seg = 0 + seg
    BY <1>2 DEF seg
  <2> QED
    BY <2>2, <2>3, <2>4, <2>5, <2>6, ThreadAccounted
<1>6. CASE ReadSend(w)
  <2>1. sendWnd # 0 /\ sendWnd \in Nat
    BY <1>1, RingFacts DEF WindowOpen, TypeInv, Pointers
  <2>2. /\ writer[w].pc = "ReadSend" /\ writer' = [writer EXCEPT ![w].pc = "bytesReadSend"]
        /\ ctl = "select" /\ ctl' = "readTest" /\ firstByte' = << >> /\ windowProbe' = FALSE
        /\ sendLbr' = sendLbr + Len(firstByte') /\ sendNxt' = sendNxt /\ sendWnd' = sendWnd
    BY <1>6, <2>1 DEF ReadSend
  <2>3. /\ writer'[w].pc = "bytesReadSend" /\ writer'[w].sent = writer[w].sent
        /\ writer'[w].seg = writer[w].seg
        /\ \A v \in Writers \ {w} : writer'[v] = writer[v]
    BY <1>2, <2>2 DEF Calls
  <2>4. WindowOpen'
    BY <1>1, <2>2 DEF WindowOpen
  <2>5. CallsAccounted'
    BY <1>1, <2>2, <2>3 DEF CallsAccounted, HandedIn
  <2>6. Taken'[w] = Taken[w] + 0 /\ Unread'[w] = Unread[w] + 0
    BY <1>2, <2>2, <2>3 DEF Taken, Unread, HandedIn
  <2>7. Adds' = Adds + 0 /\ sendLbr' = sendLbr + 0
    <3>1. Len(firstByte') = 0
      BY <2>2
    <3> QED
      BY <1>2, <2>2, <3>1 DEF Adds, Adding
  <2> QED
    BY <2>2, <2>3, <2>4, <2>5, <2>6, <2>7, ThreadAccounted
<1>7. CASE Send(w)
  <2> DEFINE sent == writer[w].sent + Len(writer[w].data)
  <2>1. /\ writer[w].pc = "send"
        /\ writer' = [writer EXCEPT ![w] = [pc |-> IF sent < WriteLen[w] THEN "loop" ELSE "done",
                                            sent |-> sent, seg |-> 0, data |-> << >>]]
        /\ UNCHANGED <<tcb, controller>>
    BY <1>7 DEF Send
  <2>2. sent \in Nat /\ sent <= WriteLen[w]
    BY <1>2, <2>1 DEF TypeInv, CallBounds
  <2> HIDE DEF sent
  <2>3. /\ writer'[w].pc \in {"loop", "done"} /\ writer'[w].sent = sent
        /\ writer'[w].pc = "done" => ~(sent < WriteLen[w])
        /\ \A v \in Writers \ {w} : writer'[v] = writer[v]
    BY <1>2, <2>1
  <2>4. writer'[w].pc = "done" => writer'[w].sent = WriteLen[w]
    BY <1>2, <2>2, <2>3
  <2>5. CallsAccounted' /\ WindowOpen'
    BY <1>1, <2>1, <2>3, <2>4 DEF CallsAccounted, WindowOpen, HandedIn, tcb, controller
  <2>6. Taken'[w] = Taken[w] + 0 /\ Unread'[w] = Unread[w] + 0
    BY <1>2, <2>1, <2>2, <2>3 DEF Taken, Unread, HandedIn, sent
  <2>7. Adds' = Adds + 0 /\ sendNxt' = sendNxt /\ sendLbr' = sendLbr + 0
    BY <1>2, <2>1 DEF Adds, tcb, controller
  <2> QED
    BY <2>3, <2>5, <2>6, <2>7, ThreadAccounted
<1> QED
  BY <1>3, <1>4, <1>5, <1>6, <1>7

\* The controller gives back exactly what the thread handed in.
LEMMA ReadReplyAccounted ==
    ASSUME TypeInv, TypeInv', Accounted, NEW w \in Writers, ReadReply(w)
    PROVE  Accounted'
<1>1. WindowOpen /\ CallsAccounted /\ sendNxt + Adds = sendLbr + SumFunction(Unread)
  BY DEF Accounted
<1> DEFINE d == readFromSend(ctlCount)
           seg == writer[w].seg
<1>2. /\ writer[w].pc = "bytesReadSend" /\ ctl = "readTest" /\ ctl' = "select"
      /\ writer' = [writer EXCEPT ![w].pc = "send", ![w].data = d]
      /\ sendLbr' = sendLbr + Len(d) /\ windowProbe' = FALSE
      /\ sendNxt' = sendNxt /\ sendWnd' = sendWnd
  BY <1>1 DEF ReadReply, WindowOpen
<1>3. /\ writer \in [Writers -> Calls] /\ writer[w].sent \in Nat /\ seg \in Nat /\ seg <= Mss
      /\ Adds = 0 /\ Taken[w] \in Nat /\ Unread[w] \in Nat
      /\ sendLbr \in Nat /\ sendNxt \in Nat /\ Mss \in Nat /\ SumFunction(Unread) \in Nat
  <2>1. writer \in [Writers -> Calls] /\ writer[w] \in Calls /\ Mss \in Nat
    BY SendAssumption DEF TypeInv
  <2>2. writer[w].sent \in Nat /\ seg \in Nat /\ seg <= Mss
    BY <2>1 DEF Calls
  <2>3. Adds = 0
    BY <1>2 DEF Adds, Adding
  <2> QED
    BY <2>1, <2>2, <2>3, TallyTypes
<1>4. Unread[w] = seg /\ seg <= sendNxt - sendLbr
  <2>1. Unread[w] = seg
    BY <1>2 DEF Unread, HandedIn
  <2>2. Unread[w] <= SumFunction(Unread)
    BY TallyTypes, SumFacts, SendAssumption
  <2> QED
    BY <1>1, <1>3, <2>1, <2>2
<1>5. seg <= TcbSize
  BY <1>1, <1>2 DEF CallsAccounted, HandedIn
<1>6. d \in Seq(Nat) /\ Len(d) = seg
  <2> DEFINE dist == Least(Least(sendNxt - sendLbr, Mss), ctlCount)
  <2>1. ctlCount = seg /\ d \in Seq(Nat) /\ (dist <= TcbSize => Len(d) = dist)
    BY <1>1, <1>2, ReplyFacts DEF WindowOpen
  <2>2. dist = seg
    BY <1>3, <1>4, <2>1 DEF Least
  <2> QED
    BY <1>5, <2>1, <2>2
<1> HIDE DEF d
<1>7. /\ writer'[w].pc = "send" /\ writer'[w].data = d /\ writer'[w].sent = writer[w].sent
      /\ \A v \in Writers \ {w} : writer'[v] = writer[v]
  BY <1>2, <1>3 DEF Calls
<1>8. CallsAccounted' /\ WindowOpen'
  <2>1. WindowOpen'
    BY <1>1, <1>2 DEF WindowOpen
  <2> QED
    BY <1>1, <1>7, <2>1 DEF CallsAccounted, HandedIn
<1>9. Taken'[w] = Taken[w] + 0
  BY <1>2, <1>3, <1>6, <1>7 DEF Taken, HandedIn
<1>10. Unread'[w] = Unread[w] + (0 - seg)
  BY <1>3, <1>4, <1>7 DEF Unread, HandedIn
<1>11. Adds' = Adds + 0
  BY <1>2, <1>3 DEF Adds, Adding
<1> HIDE DEF seg
<1>12. 0 - seg \in Int /\ 0 = seg + (0 - seg) /\ seg \in Int /\ sendLbr' = sendLbr + seg
  BY <1>2, <1>3, <1>6
<1> DEFINE u == 0 - seg
<1> HIDE DEF u
<1>13. u \in Int /\ 0 = seg + u /\ Unread'[w] = Unread[w] + u
  BY <1>10, <1>12 DEF u
<1>14. sendNxt' = sendNxt /\ 0 \in Int /\ sendLbr' = sendLbr + seg /\ seg \in Int
  BY <1>2, <1>12
<1>15. TypeInv /\ TypeInv' /\ Accounted /\ CallsAccounted' /\ WindowOpen'
       /\ \A v \in Writers \ {w} : writer'[v] = writer[v]
  BY <1>7, <1>8
<1> QED
  BY ONLY <1>9, <1>11, <1>13, <1>14, <1>15, w \in Writers, ThreadAccounted

\* What the peer and the acknowledgements do while no window closes.
LEMMA AckAccounted ==
    ASSUME TypeInv, Accounted, HandleAck, ~overrun'
    PROVE  Accounted'
<1>1. /\ writer' = writer /\ sendNxt' = sendNxt /\ sendLbr' = sendLbr
      /\ ctlCount' = ctlCount /\ windowProbe' = windowProbe /\ acks # << >>
  BY DEF HandleAck
<1> DEFINE a == Head(acks)
<1>2. a \in Answers
  BY <1>1 DEF TypeInv, Packets
<1>3. \/ sendWnd' = sendWnd /\ ctl' = ctl
      \/ sendWnd' = a.wnd /\ ctl' = Signalled(ctl) /\ overrun' = (overrun \/ a.wnd = 0)
  <2>1. \/ UpdateWindow(a)
        \/ UNCHANGED <<sendUna, sendWnd, sendWl2, ctl, missed, overrun>>
    BY DEF HandleAck
  <2> HIDE DEF a
  <2> QED
    BY <2>1 DEF UpdateWindow
<1> HIDE DEF a
<1>4. sendWnd' > 0
  <2>1. a.wnd \in Nat
    BY <1>2, RingFacts DEF Answers
  <2>2. sendWnd > 0
    BY DEF Accounted, WindowOpen
  <2>3. sendWnd' = sendWnd \/ (sendWnd' = a.wnd /\ a.wnd # 0)
    BY <1>3
  <2> QED
    BY <2>1, <2>2, <2>3
<1>5. ctl' \in Adding <=> ctl \in Adding
  BY <1>3 DEF Signalled, Adding
<1>6. Adds' = Adds
  BY <1>1, <1>5 DEF Adds
<1>7. WindowOpen'
  BY <1>1, <1>4 DEF Accounted, WindowOpen
<1> QED
  BY <1>1, <1>6, <1>7, QuietAccounted

LEMMA OtherAccounted ==
    ASSUME TypeInv, Accounted,
           \/ AddMustWait \/ AddWait \/ ReadMustWait \/ ReadWait \/ Probe \/ ProbeTimer
           \/ WindowProbing \/ PeerReceive \/ PeerRead \/ UNCHANGED vars
    PROVE  Accounted'
<1>1. UNCHANGED <<tcb, ctlCount, windowProbe, writer>>
  BY DEF AddMustWait, AddWait, ReadMustWait, ReadWait, Probe, ProbeTimer, WindowProbing,
     PeerReceive, PeerRead, vars, controller
<1>2. ctl' \in Adding <=> ctl \in Adding
  BY DEF AddMustWait, AddWait, ReadMustWait, ReadWait, Probe, ProbeTimer, WindowProbing,
     PeerReceive, PeerRead, vars, controller, Adding
<1>3. WindowOpen' /\ Adds' = Adds
  BY <1>1, <1>2 DEF Accounted, WindowOpen, Adds, tcb
<1> QED
  BY <1>1, <1>3, QuietAccounted DEF tcb

\* A window was closed for good: the history variable is never reset.
LEMMA OverrunStays == TypeInv /\ [Next]_vars /\ overrun => overrun'
  BY DEF Next, Controller, VWrite, Segment, AddSend, ReadSend, Send, AddMustWait, AddWait,
     ReadMustWait, ReadWait, Probe, ProbeTimer, Add2Send, ReadReply, WindowProbing, HandleAck,
     UpdateWindow, PeerReceive, PeerTakes, PeerRefuses, PeerRead, vars, flags

LEMMA AccountedNext ==
    ASSUME TypeInv, TypeInv', Accounted, [Next]_vars, ~overrun'
    PROVE  Accounted'
<1>1. CASE \E w \in Writers : VWrite(w) \/ Segment(w) \/ AddSend(w) \/ ReadSend(w) \/ Send(w)
  BY <1>1, ThreadStepAccounted
<1>2. CASE Controller
  BY <1>2, OtherAccounted, Add2SendAccounted, ReadReplyAccounted DEF Controller
<1>3. CASE HandleAck
  BY <1>3, AckAccounted
<1>4. CASE WindowProbing \/ PeerReceive \/ PeerRead \/ UNCHANGED vars
  BY <1>4, OtherAccounted
<1> QED
  BY <1>1, <1>2, <1>3, <1>4 DEF Next

\* When all calls have returned nothing is left in the controller's hands.
LEMMA AccountedWritten ==
    ASSUME TypeInv, Accounted, \A w \in Writers : writer[w].pc = "done"
    PROVE  sendNxt = 1 + SumFunction(WriteLen)
<1>1. \A w \in Writers : Unread[w] = 0
  BY DEF Unread, HandedIn
<1>2. Taken = WriteLen
  <2>1. \A w \in Writers : Taken[w] = writer[w].sent + 0 /\ writer[w].sent = WriteLen[w]
    BY DEF Taken, HandedIn, Accounted, CallsAccounted
  <2>2. \A w \in Writers : Taken[w] = WriteLen[w]
    BY <2>1, SendAssumption
  <2> QED
    BY <2>2, TallyTypes, SendAssumption
<1>3. SumFunction(Unread) = 0
  BY <1>1, TallyTypes, SumOfZeros, SendAssumption
<1>4. /\ sendNxt + Adds = 1 + SumFunction(WriteLen) /\ sendNxt + Adds = sendLbr + 0
      /\ sendNxt \in Nat /\ Adds \in Nat /\ sendLbr \in Nat /\ sendLbr <= sendNxt
  BY <1>2, <1>3, TallyTypes DEF Accounted, TypeInv, Pointers
<1>5. Adds = 0
  BY <1>4
<1> QED
  BY <1>4, <1>5

\* When every call of VWrite has returned, each byte of each caller was put
\* into the ring once: nothing is added twice and nothing is skipped, however
\* the calls interleave with each other and with acknowledgements, as long
\* as no window was closed (a zero-window probe makes VWrite count wrongly).
THEOREM EachByteWrittenOnce == Spec => []WrittenOnce
<1>1. Init => TypeInv /\ (overrun \/ Accounted)
  BY TypeInit, AccountedInit
<1>2. TypeInv /\ (overrun \/ Accounted) /\ [Next]_vars => (TypeInv /\ (overrun \/ Accounted))'
  BY TypeNext, AccountedNext, OverrunStays
<1>3. TypeInv /\ (overrun \/ Accounted) => WrittenOnce
  BY AccountedWritten DEF WrittenOnce
<1> QED
  BY <1>1, <1>2, <1>3, PTL DEF Spec
=============================================================================
