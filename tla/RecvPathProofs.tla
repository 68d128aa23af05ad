--------------------------- MODULE RecvPathProofs ---------------------------
(***************************************************************************)
(* Proofs about the receive half of a TCB, for every buffer size, segment  *)
(* size and read size, and with a peer that sends any number of bytes.     *)
(***************************************************************************)
EXTENDS RecvPath, TLAPS

-----------------------------------------------------------------------------
(* Arithmetic with the ring's modulus, which is not a numeral.              *)

LEMMA DivMod ==
    ASSUME NEW m \in Nat \ {0}, NEW x \in Nat
    PROVE  x = (m * (x \div m)) + (x % m) /\ x \div m \in Nat /\ x % m \in 0..(m - 1)
  OBVIOUS

LEMMA NextMultiple ==
    ASSUME NEW m \in Nat \ {0}, NEW a \in Nat, NEW b \in Nat, a < b
    PROVE  (m * a) + m <= m * b
<1>1. PICK d \in Nat : b = a + 1 + d
  OBVIOUS
<1>2. m * b = (m * a) + m + (m * d) /\ m * d \in Nat
  BY <1>1
<1> QED
  BY <1>2

\* Two pointers less than a ring's length apart have different slots.
LEMMA SlotsDiffer ==
    ASSUME NEW m \in Nat \ {0}, NEW x \in Nat, NEW y \in Nat, x < y, y < x + m
    PROVE  (x % m) # (y % m)
<1> DEFINE a == x \div m
           b == y \div m
<1> SUFFICES ASSUME (x % m) = (y % m) PROVE FALSE
  OBVIOUS
<1>1. x = (m * a) + (x % m) /\ a \in Nat /\ (x % m) \in 0..(m - 1)
  BY DivMod
<1>2. y = (m * b) + (y % m) /\ b \in Nat
  BY DivMod
<1>3. /\ x = (m * a) + (x % m) /\ a \in Nat /\ (x % m) \in Nat
      /\ y = (m * b) + (y % m) /\ b \in Nat
  BY <1>1, <1>2
<1> HIDE DEF a, b
<1>4. m * a \in Nat /\ m * b \in Nat
  BY <1>3
<1>5. CASE a < b
  BY <1>3, <1>4, <1>5, NextMultiple
<1>6. CASE b < a
  BY <1>3, <1>4, <1>6, NextMultiple
<1>7. CASE a = b
  BY <1>3, <1>7
<1> QED
  BY <1>3, <1>5, <1>6, <1>7

\* What a number below twice the modulus wraps to.
LEMMA WrapOnce ==
    ASSUME NEW m \in Nat \ {0}, NEW x \in Nat, x < m + m
    PROVE  (x % m) = IF x < m THEN x ELSE x - m
<1> DEFINE a == x \div m
<1>1. x = (m * a) + (x % m) /\ a \in Nat /\ (x % m) \in 0..(m - 1)
  BY DivMod
<1> HIDE DEF a
<1>2. CASE a = 0
  BY <1>1, <1>2
<1>3. CASE a = 1
  BY <1>1, <1>3
<1>4. CASE 1 < a
  <2>1. (m * 1) + m <= m * a
    BY <1>1, <1>4, NextMultiple
  <2> QED
    BY <1>1, <2>1
<1> QED
  BY <1>1, <1>2, <1>3, <1>4

LEMMA RingFacts == WndMod \in Nat \ {0} /\ TcbSize \in Nat \ {0} /\ WndMod = TcbSize + 1
  BY SeqSpaceAssumption DEF WndMod

\* readFromRecv cuts at most the bytes it was asked for out of the ring.
LEMMA SliceFits ==
    ASSUME NEW lbr \in Nat, NEW dist \in Nat
    PROVE  SliceLen(lbr, dist) \in 0..dist
<1> DEFINE m == WndMod
           s == lbr % m
           e == (lbr + dist) % m
           a == lbr \div m
           b == (lbr + dist) \div m
<1>1. /\ lbr = (m * a) + s /\ a \in Nat /\ s \in 0..(m - 1)
      /\ lbr + dist = (m * b) + e /\ b \in Nat /\ e \in 0..(m - 1)
      /\ m \in Nat \ {0}
  <2>1. m \in Nat \ {0} /\ lbr + dist \in Nat
    BY RingFacts
  <2> HIDE DEF m
  <2>2. lbr = (m * a) + s /\ a \in Nat /\ s \in 0..(m - 1)
    BY <2>1, DivMod
  <2>3. lbr + dist = (m * b) + e /\ b \in Nat /\ e \in 0..(m - 1)
    BY <2>1, DivMod
  <2> QED
    BY <2>1, <2>2, <2>3
<1>2. SliceLen(lbr, dist) = IF s > e THEN (m - s) + e ELSE e - s
  BY DEF SliceLen, wrapIndex
<1> HIDE DEF m, s, e, a, b
<1>3. m * a \in Nat /\ m * b \in Nat
  BY <1>1
<1>4. CASE a < b
  <2>1. (m * a) + m <= m * b
    BY <1>1, <1>4, NextMultiple
  <2> QED
    BY <1>1, <1>2, <1>3, <2>1
<1>5. CASE b < a
  <2>1. (m * b) + m <= m * a
    BY <1>1, <1>5, NextMultiple
  <2> QED
    BY <1>1, <1>3, <2>1
<1>6. CASE a = b
  BY <1>1, <1>2, <1>3, <1>6
<1> QED
  BY <1>1, <1>4, <1>5, <1>6

LEMMA DistFacts ==
    ASSUME NEW x \in Nat, NEW y \in Nat
    PROVE  wrappedDist(x, y) \in Nat /\ (y = x + 1 => wrappedDist(x, y) = 1)
  BY RingFacts DEF wrappedDist

-----------------------------------------------------------------------------
(* Types.  The window stays a window because nothing is cut out of the ring *)
(* that was not put there: rcvLbr never passes rcvNxt.                      *)

TypeInv == TypeOK /\ rcvLbr <= rcvNxt

LEMMA TypeInit == Init => TypeInv
  BY RingFacts DEF Init, TypeInv, TypeOK

LEMMA SegmentType ==
    ASSUME NEW n \in Nat, NEW a \in Nat
    PROVE  [i \in 1..n |-> a + i] \in Seq(Nat)
<1>1. \A i \in 1..n : a + i \in Nat
  OBVIOUS
<1> QED
  BY <1>1

LEMMA ReadFromRecvTypes ==
    ASSUME TypeInv, ReadFromRecv
    PROVE  TypeInv'
<1> DEFINE dist == Smaller(rcvNxt - rcvLbr, ctlCount)
           size == SliceLen(rcvLbr, dist)
<1>1. dist \in Nat /\ dist <= rcvNxt - rcvLbr
  BY DEF TypeInv, TypeOK, Smaller
<1> HIDE DEF dist
<1>2. size \in 0..dist
  BY <1>1, SliceFits DEF TypeInv, TypeOK
<1>3. /\ ctlData' = [k \in 1..size |-> rcvBuf[wrapIndex(rcvLbr + k - 1)]]
      /\ rcvLbr' = rcvLbr + size
      /\ rcvWnd' = Grow(rcvWnd, size)
  BY DEF ReadFromRecv, dist
<1> HIDE DEF size
<1>4. \A x \in Nat : wrapIndex(x) \in 0..TcbSize
  BY DivMod, RingFacts DEF wrapIndex
<1>5. ASSUME NEW k \in 1..size PROVE rcvBuf[wrapIndex(rcvLbr + k - 1)] \in Nat
  <2>1. rcvLbr + k - 1 \in Nat
    BY <1>2 DEF TypeInv, TypeOK
  <2> QED
    BY <2>1, <1>4 DEF TypeInv, TypeOK
<1>6. ctlData' \in Seq(Nat)
  BY <1>2, <1>3, <1>5
<1>7. rcvLbr' \in Nat /\ rcvLbr' <= rcvNxt
  BY <1>1, <1>2, <1>3 DEF TypeInv, TypeOK
<1>8. rcvWnd' \in 0..TcbSize
  <2>1. rcvWnd + size \in Nat
    BY <1>1, <1>2 DEF TypeInv, TypeOK
  <2>2. rcvWnd' = wrapIndex(rcvWnd + size)
    BY <1>3 DEF Grow, wrapIndex
  <2> QED
    BY <1>4, <2>1, <2>2
<1> QED
  BY <1>6, <1>7, <1>8 DEF ReadFromRecv, TypeInv, TypeOK

LEMMA Add2ReadTypes ==
    ASSUME TypeInv, Add2Read
    PROVE  TypeInv'
<1> DEFINE written(i) == \E k \in 1..Len(ctlData) : wrapIndex(rcvNxt + k - 1) = i
           source(i) == CHOOSE k \in 1..Len(ctlData) : wrapIndex(rcvNxt + k - 1) = i
<1>1. \A i \in 0..TcbSize : written(i) => source(i) \in 1..Len(ctlData)
  OBVIOUS
<1>2. rcvBuf' = [i \in 0..TcbSize |-> IF written(i) THEN ctlData[source(i)] ELSE rcvBuf[i]]
  BY DEF Add2Read
<1> HIDE DEF written, source
<1>3. rcvBuf' \in [0..TcbSize -> Nat]
  BY <1>1, <1>2 DEF TypeInv, TypeOK
<1>4. Len(ctlData) \in Nat /\ Len(ctlData) <= rcvWnd
  BY DEF Add2Read, MustWaitForRoom, TypeInv, TypeOK
<1>5. rcvNxt' \in Nat /\ rcvLbr <= rcvNxt' /\ rcvWnd' \in 0..TcbSize
  BY <1>4, RingFacts DEF Add2Read, TypeInv, TypeOK
<1>6. /\ ctl' = "select" /\ ctlData' = << >>
      /\ UNCHANGED <<rcvLbr, ctlCount, handler, payload, reader, want, arrived, fin, delivered>>
  BY DEF Add2Read
<1> QED
  BY <1>3, <1>5, <1>6 DEF TypeInv, TypeOK

LEMMA TypeNext == TypeInv /\ [Next]_vars => TypeInv'
<1> SUFFICES ASSUME TypeInv, [Next]_vars PROVE TypeInv'
  OBVIOUS
<1>1. ASSUME NEW n \in 1..MaxSegment, HandleData(n) PROVE TypeInv'
  <2>1. payload' \in Seq(Nat)
    BY <1>1, SegmentType, RecvAssumption DEF HandleData, TypeInv, TypeOK
  <2> QED
    BY <1>1, <2>1, RecvAssumption DEF HandleData, TypeInv, TypeOK, tcb, controller
<1>2. CASE HandleFin
  <2>1. rcvNxt' \in Nat /\ rcvLbr <= rcvNxt'
    <3>1. rcvNxt \in Nat /\ arrived + 2 \in Nat /\ rcvLbr \in Nat /\ rcvLbr <= rcvNxt
      BY DEF TypeInv, TypeOK
    <3>2. wrappedDist(rcvNxt, arrived + 2) \in Nat
      BY <3>1, DistFacts
    <3> QED
      BY <1>2, <3>1, <3>2 DEF HandleFin
  <2> QED
    BY <1>2, <2>1 DEF HandleFin, TypeInv, TypeOK, controller
<1>3. ASSUME NEW n \in 1..MaxRead, VRead(n) PROVE TypeInv'
  BY <1>3, RecvAssumption DEF VRead, TypeInv, TypeOK, tcb, controller
<1>4. CASE TakePayload
  BY <1>4 DEF TakePayload, TypeInv, TypeOK, tcb
<1>5. CASE TakeRequest
  BY <1>5 DEF TakeRequest, TypeInv, TypeOK, tcb
<1>6. CASE Add2Read
  BY <1>6, Add2ReadTypes
<1>7. CASE ReadFromRecv
  BY <1>7, ReadFromRecvTypes
<1>8. CASE Reply
  BY <1>8 DEF Reply, TypeInv, TypeOK, tcb
<1>9. CASE UNCHANGED vars
  BY <1>9 DEF vars, TypeInv, TypeOK, tcb, controller
<1> QED
  BY <1>1, <1>2, <1>3, <1>4, <1>5, <1>6, <1>7, <1>8, <1>9 DEF Next, Controller

\* Every field keeps its type; in particular the uint16 window never leaves
\* 0..tcbSize by a subtraction, however far past it the peer sends.
THEOREM RecvTypes == Spec => []TypeOK
<1>1. TypeInv => TypeOK
  BY DEF TypeInv
<1> QED
  BY <1>1, TypeInit, TypeNext, PTL DEF Spec

-----------------------------------------------------------------------------
(* The byte stream.  From here on the FIN's handler does not overtake the   *)
(* controller: when it does, the stream has a gap.                          *)

FinInTurn == ~(WithFin /\ EagerFin)

\* Bytes taken off the channel but not yet in the ring.
Unstored == IF ctl = "add2Read" THEN Len(ctlData) ELSE 0

\* What is on its way into the ring continues what is in it.
PendingInOrder ==
    /\ handler = "idle" => payload = << >>
    /\ handler = "AddRead" => Len(payload) > 0
    /\ \A i \in 1..Len(payload) : payload[i] = arrived - Len(payload) + i
    /\ ctl = "add2Read" => Len(ctlData) > 0
    /\ ctl = "add2Read" => \A i \in 1..Len(ctlData) : ctlData[i] = rcvNxt - 1 + i
    /\ arrived = Stored + Unstored + Len(payload)
    /\ fin = 1 => ctl # "add2Read" /\ handler = "idle"

\* The window in plain arithmetic, without the wrapping.
WindowExact ==
    /\ rcvNxt - rcvLbr <= TcbSize + fin
    /\ rcvWnd = IF fin = 1 /\ rcvLbr = rcvNxt THEN 0 ELSE TcbSize + fin - (rcvNxt - rcvLbr)

\* No unread byte is overwritten.
RingKeeps == \A p \in rcvLbr..Stored : rcvBuf[wrapIndex(p)] = p

HandedInOrder ==
    /\ Len(HandedOut) = rcvLbr - 1
    /\ \A i \in 1..Len(HandedOut) : i <= Stored => HandedOut[i] = i

StreamInv ==
    TypeInv /\ PendingInOrder /\ WindowExact /\ RingKeeps /\ HandedInOrder

LEMMA StreamInit == Init => StreamInv
<1> SUFFICES ASSUME Init PROVE StreamInv
  OBVIOUS
<1>1. TypeInv
  BY TypeInit
<1> QED
  BY <1>1, RingFacts
  DEF Init, StreamInv, PendingInOrder, WindowExact, RingKeeps, HandedInOrder,
      Stored, Unstored, HandedOut

LEMMA HandleDataStream ==
    ASSUME StreamInv, NEW n \in 1..MaxSegment, HandleData(n)
    PROVE  PendingInOrder' /\ WindowExact' /\ RingKeeps' /\ HandedInOrder'
<1>1. /\ arrived \in Nat /\ n \in Nat \ {0} /\ rcvNxt \in Nat /\ fin = 0
      /\ payload = << >> /\ handler = "idle"
  BY RecvAssumption DEF HandleData, StreamInv, TypeInv, TypeOK, PendingInOrder
<1>2. /\ payload' = [i \in 1..n |-> arrived + i] /\ arrived' = arrived + n
      /\ handler' = "AddRead"
      /\ UNCHANGED <<rcvBuf, rcvNxt, rcvLbr, rcvWnd, ctl, ctlData, fin, delivered>>
  BY DEF HandleData, tcb, controller
<1>3. Len(payload') = n /\ Len(payload) = 0
  BY <1>1, <1>2
<1>4. Stored' = Stored /\ Unstored' = Unstored /\ HandedOut' = HandedOut /\ Stored \in Int
  BY <1>1, <1>2 DEF Stored, Unstored, HandedOut
<1>5. \A i \in 1..Len(payload') : payload'[i] = arrived' - Len(payload') + i
  BY <1>1, <1>2, <1>3
<1>6. arrived' = Stored' + Unstored' + Len(payload')
  <2>1. arrived = Stored + Unstored + 0 /\ Unstored \in Nat
    BY <1>3 DEF StreamInv, PendingInOrder, Unstored, TypeInv, TypeOK
  <2> QED
    BY <1>1, <1>2, <1>3, <1>4, <2>1
<1>7. PendingInOrder'
  BY <1>1, <1>2, <1>3, <1>4, <1>5, <1>6 DEF StreamInv, PendingInOrder
<1>8. WindowExact' /\ RingKeeps' /\ HandedInOrder'
  BY <1>2, <1>4 DEF StreamInv, WindowExact, RingKeeps, HandedInOrder, Stored, wrapIndex
<1> QED
  BY <1>7, <1>8

LEMMA HandleFinStream ==
    ASSUME StreamInv, FinInTurn, HandleFin
    PROVE  PendingInOrder' /\ WindowExact' /\ RingKeeps' /\ HandedInOrder'
<1>1. /\ arrived \in Nat /\ rcvNxt \in Nat /\ rcvLbr \in Nat /\ fin = 0
      /\ payload = << >> /\ handler = "idle" /\ ctl # "add2Read"
  BY DEF HandleFin, FinInTurn, StreamInv, TypeInv, TypeOK, PendingInOrder
<1>2. /\ rcvNxt' = rcvNxt + wrappedDist(rcvNxt, arrived + 2)
      /\ fin' = 1
      /\ UNCHANGED <<rcvBuf, rcvLbr, rcvWnd, ctl, ctlData, handler, payload, arrived, delivered>>
  BY DEF HandleFin, controller
<1>3. arrived + 2 = rcvNxt + 1
  <2>1. Len(payload) = 0 /\ Unstored = 0
    BY <1>1 DEF Unstored
  <2> QED
    BY <1>1, <2>1 DEF StreamInv, PendingInOrder, Stored
<1>4. rcvNxt' = rcvNxt + 1
  BY <1>1, <1>2, <1>3, DistFacts
<1>5. Stored' = Stored /\ Unstored' = Unstored /\ HandedOut' = HandedOut
  BY <1>1, <1>2, <1>4 DEF Stored, Unstored, HandedOut
<1>6. PendingInOrder'
  BY <1>1, <1>2, <1>5 DEF StreamInv, PendingInOrder
<1>7. WindowExact'
  BY <1>1, <1>2, <1>4, RingFacts DEF StreamInv, TypeInv, WindowExact
<1>8. RingKeeps' /\ HandedInOrder'
  BY <1>2, <1>5 DEF StreamInv, RingKeeps, HandedInOrder, wrapIndex
<1> QED
  BY <1>6, <1>7, <1>8

LEMMA TakePayloadStream ==
    ASSUME StreamInv, TakePayload
    PROVE  PendingInOrder' /\ WindowExact' /\ RingKeeps' /\ HandedInOrder'
<1>1. /\ arrived \in Nat /\ rcvNxt \in Nat /\ fin \in {0, 1} /\ fin # 1
      /\ payload \in Seq(Nat) /\ Len(payload) > 0
  BY DEF TakePayload, StreamInv, TypeInv, TypeOK, PendingInOrder
<1>2. /\ ctl = "select" /\ ctl' = "add2Read" /\ ctlData' = payload
      /\ handler' = "idle" /\ payload' = << >>
      /\ UNCHANGED <<rcvBuf, rcvNxt, rcvLbr, rcvWnd, arrived, fin, delivered>>
  BY DEF TakePayload, tcb
<1>3. arrived = Stored + Len(payload)
  <2>1. Unstored = 0 /\ Stored \in Int /\ Len(payload) \in Nat
    BY <1>1, <1>2 DEF Unstored, Stored
  <2> QED
    BY <2>1 DEF StreamInv, PendingInOrder
<1>4. Stored' = Stored /\ Unstored' = Len(payload) /\ HandedOut' = HandedOut
  BY <1>2 DEF Stored, Unstored, HandedOut
<1>5. \A i \in 1..Len(ctlData') : ctlData'[i] = rcvNxt' - 1 + i
  <2>1. \A i \in 1..Len(payload) : payload[i] = arrived - Len(payload) + i
    BY DEF StreamInv, PendingInOrder
  <2>2. arrived - Len(payload) = rcvNxt - 1 /\ Len(payload) \in Nat
    BY <1>1, <1>3 DEF Stored
  <2> QED
    BY <1>1, <1>2, <2>1, <2>2
<1>6. arrived' = Stored' + Unstored' + Len(payload')
  <2>1. Len(payload') = 0 /\ Len(payload) \in Nat /\ Stored \in Int
    BY <1>1, <1>2 DEF Stored
  <2> QED
    BY <1>2, <1>3, <1>4, <2>1
<1>7. PendingInOrder'
  BY <1>1, <1>2, <1>5, <1>6 DEF PendingInOrder
<1>8. WindowExact' /\ RingKeeps' /\ HandedInOrder'
  BY <1>2, <1>4 DEF StreamInv, WindowExact, RingKeeps, HandedInOrder, wrapIndex
<1> QED
  BY <1>7, <1>8

LEMMA Add2ReadStream ==
    ASSUME StreamInv, Add2Read
    PROVE  PendingInOrder' /\ WindowExact' /\ RingKeeps' /\ HandedInOrder'
<1> DEFINE n == Len(ctlData)
           written(i) == \E k \in 1..n : wrapIndex(rcvNxt + k - 1) = i
           source(i) == CHOOSE k \in 1..n : wrapIndex(rcvNxt + k - 1) = i
<1>1. /\ rcvNxt \in Nat /\ rcvLbr \in Nat /\ rcvLbr <= rcvNxt /\ fin = 0
      /\ n \in Nat \ {0} /\ n <= rcvWnd /\ ctl = "add2Read" /\ arrived \in Nat
      /\ Len(payload) \in Nat
  BY DEF Add2Read, MustWaitForRoom, StreamInv, TypeInv, TypeOK, PendingInOrder
<1>2. /\ rcvBuf' = [i \in 0..TcbSize |-> IF written(i) THEN ctlData[source(i)] ELSE rcvBuf[i]]
      /\ rcvNxt' = rcvNxt + n /\ rcvWnd' = rcvWnd - n
      /\ ctl' = "select"
      /\ UNCHANGED <<rcvLbr, handler, payload, arrived, fin, delivered>>
  BY DEF Add2Read
<1>3. rcvWnd = TcbSize - (rcvNxt - rcvLbr)
  <2>1. rcvWnd = TcbSize + 0 - (rcvNxt - rcvLbr)
    BY <1>1 DEF StreamInv, WindowExact
  <2> QED
    BY <1>1, <2>1, RingFacts
<1>4. \A i \in 1..n : ctlData[i] = rcvNxt - 1 + i
  BY <1>1 DEF StreamInv, PendingInOrder
<1>5. arrived = Stored + n + Len(payload)
  BY <1>1 DEF StreamInv, PendingInOrder, Unstored
<1> HIDE DEF n, written, source
<1>6. Stored = rcvNxt - 1 /\ Stored' = rcvNxt - 1 + n /\ Unstored' = 0
  BY <1>1, <1>2 DEF Stored, Unstored
<1>7. HandedOut' = HandedOut
  BY <1>1, <1>2 DEF HandedOut
<1>8. PendingInOrder'
  <2>1. arrived' = Stored' + Unstored' + Len(payload')
    BY <1>1, <1>2, <1>5, <1>6
  <2> QED
    BY <1>1, <1>2, <2>1 DEF StreamInv, PendingInOrder
<1>9. WindowExact'
  BY <1>1, <1>2, <1>3, RingFacts DEF WindowExact
<1>10. ASSUME NEW p \in rcvLbr..Stored' PROVE rcvBuf'[wrapIndex(p)] = p
  <2>1. p \in Nat /\ wrapIndex(p) \in 0..TcbSize
    BY <1>1, <1>6, DivMod, RingFacts DEF wrapIndex
  <2>2. \A q \in rcvLbr..Stored' : q # p => wrapIndex(q) # wrapIndex(p)
    <3> SUFFICES ASSUME NEW q \in rcvLbr..Stored', q # p PROVE (q % WndMod) # (p % WndMod)
      BY DEF wrapIndex
    <3>1. q \in Nat /\ q < p + WndMod /\ p < q + WndMod
      BY <1>1, <1>3, <1>6, <2>1, RingFacts
    <3>2. CASE q < p
      BY <2>1, <3>1, <3>2, SlotsDiffer, RingFacts
    <3>3. CASE p < q
      BY <2>1, <3>1, <3>3, SlotsDiffer, RingFacts
    <3> QED
      BY <2>1, <3>1, <3>2, <3>3
  <2>3. \A k \in 1..n : rcvNxt + k - 1 \in rcvLbr..Stored'
    BY <1>1, <1>6
  <2>4. CASE p < rcvNxt
    <3>1. ~written(wrapIndex(p))
      <4> SUFFICES ASSUME NEW k \in 1..n, wrapIndex(rcvNxt + k - 1) = wrapIndex(p) PROVE FALSE
        BY DEF written
      <4>1. rcvNxt + k - 1 # p
        BY <1>1, <2>1, <2>4
      <4> QED
        BY <2>2, <2>3, <4>1
    <3>2. p \in rcvLbr..Stored
      BY <1>1, <1>6, <2>1, <2>4
    <3> QED
      BY <1>2, <2>1, <3>1, <3>2 DEF StreamInv, RingKeeps
  <2>5. CASE rcvNxt <= p
    <3> DEFINE k == p - rcvNxt + 1
    <3>1. k \in 1..n /\ rcvNxt + k - 1 = p
      BY <1>1, <1>6, <2>1, <2>5
    <3>2. written(wrapIndex(p))
      BY <3>1 DEF written
    <3>3. source(wrapIndex(p)) \in 1..n /\ wrapIndex(rcvNxt + source(wrapIndex(p)) - 1) = wrapIndex(p)
      BY <3>2 DEF written, source
    <3>4. rcvNxt + source(wrapIndex(p)) - 1 = p
      BY <2>2, <2>3, <3>3
    <3>5. ctlData[source(wrapIndex(p))] = p
      BY <1>1, <1>4, <2>1, <3>3, <3>4
    <3> QED
      BY <1>2, <2>1, <3>2, <3>5
  <2> QED
    BY <1>1, <2>1, <2>4, <2>5
<1>11. RingKeeps'
  BY <1>2, <1>10 DEF RingKeeps, wrapIndex
<1>12. HandedInOrder'
  <2>1. Len(HandedOut) <= Stored
    BY <1>1, <1>6 DEF StreamInv, HandedInOrder
  <2>2. \A i \in 1..Len(HandedOut) : i <= Stored
    BY <1>1, <1>6, <2>1 DEF StreamInv, HandedInOrder
  <2> QED
    BY <1>2, <1>7, <2>2 DEF StreamInv, HandedInOrder
<1> QED
  BY <1>8, <1>9, <1>11, <1>12

LEMMA ReadFromRecvStream ==
    ASSUME StreamInv, ReadFromRecv
    PROVE  PendingInOrder' /\ WindowExact' /\ RingKeeps' /\ HandedInOrder'
<1> DEFINE dist == Smaller(rcvNxt - rcvLbr, ctlCount)
           size == SliceLen(rcvLbr, dist)
<1>1. /\ rcvNxt \in Nat /\ rcvLbr \in Nat /\ rcvLbr <= rcvNxt /\ fin \in {0, 1}
      /\ rcvWnd \in 0..TcbSize /\ delivered \in Seq(Nat)
  BY DEF StreamInv, TypeInv, TypeOK
<1>2. dist \in Nat /\ dist <= rcvNxt - rcvLbr
  BY DEF StreamInv, TypeInv, TypeOK, Smaller
<1> HIDE DEF dist
<1>3. size \in 0..(rcvNxt - rcvLbr)
  <2>1. size \in 0..dist
    BY <1>1, <1>2, SliceFits
  <2> HIDE DEF size
  <2> QED
    BY <1>1, <1>2, <2>1
<1>4. /\ ctlData' = [k \in 1..size |-> rcvBuf[wrapIndex(rcvLbr + k - 1)]]
      /\ rcvLbr' = rcvLbr + size
      /\ rcvWnd' = Grow(rcvWnd, size)
      /\ ctl = "readFromRecv" /\ ctl' = "reply"
      /\ UNCHANGED <<rcvBuf, rcvNxt, handler, payload, arrived, fin, delivered>>
  BY DEF ReadFromRecv, dist
<1> HIDE DEF size
<1>5. Stored' = Stored /\ Unstored' = Unstored /\ HandedOut = delivered /\ HandedOut' = delivered \o ctlData'
  BY <1>4 DEF Stored, Unstored, HandedOut
<1>6. PendingInOrder'
  BY <1>4, <1>5 DEF StreamInv, PendingInOrder
<1>7. WindowExact'
  <2>1. rcvWnd + size \in Nat /\ rcvWnd + size <= WndMod
    BY <1>1, <1>3, RingFacts DEF StreamInv, WindowExact
  <2>2. rcvWnd' = IF rcvWnd + size < WndMod THEN rcvWnd + size ELSE (rcvWnd + size) - WndMod
    BY <1>4, <2>1, WrapOnce, RingFacts DEF Grow
  <2> QED
    BY <1>1, <1>3, <1>4, <2>1, <2>2, RingFacts DEF StreamInv, WindowExact
<1>8. RingKeeps'
  BY <1>1, <1>3, <1>4, <1>5 DEF StreamInv, RingKeeps, wrapIndex
<1>9. HandedInOrder'
  <2>1. Len(delivered) = rcvLbr - 1 /\ \A i \in 1..Len(delivered) : i <= Stored => delivered[i] = i
    BY <1>5 DEF StreamInv, HandedInOrder
  <2>2. ctlData' \in Seq(Nat) /\ Len(ctlData') = size
    <3>1. ctlData' \in Seq(Nat)
      BY ReadFromRecvTypes DEF StreamInv, TypeInv, TypeOK
    <3> QED
      BY <1>3, <1>4, <3>1
  <2>3. Len(HandedOut') = rcvLbr' - 1
    <3>1. Len(delivered \o ctlData') = Len(delivered) + Len(ctlData')
      BY <1>1, <2>2
    <3>2. rcvLbr - 1 + size = rcvLbr' - 1
      BY <1>1, <1>3, <1>4
    <3> QED
      BY <1>5, <2>1, <2>2, <3>1, <3>2
  <2>4. ASSUME NEW i \in 1..Len(HandedOut'), i <= Stored' PROVE HandedOut'[i] = i
    <3>1. CASE i <= Len(delivered)
      BY <1>1, <1>5, <2>1, <2>2, <2>4, <3>1
    <3>2. CASE i > Len(delivered)
      <4> DEFINE k == i - Len(delivered)
      <4>1. k \in 1..size /\ rcvLbr + k - 1 = i /\ i \in rcvLbr..Stored
        BY <1>1, <1>3, <1>4, <1>5, <2>1, <2>3, <2>4, <3>2 DEF Stored
      <4>2. HandedOut'[i] = ctlData'[k]
        BY <1>1, <1>5, <2>1, <2>2, <3>2, <4>1
      <4>3. ctlData'[k] = rcvBuf[wrapIndex(i)]
        BY <1>4, <4>1
      <4> QED
        BY <4>1, <4>2, <4>3 DEF StreamInv, RingKeeps
    <3> QED
      BY <1>1, <2>1, <2>3, <3>1, <3>2
  <2> QED
    BY <2>3, <2>4 DEF HandedInOrder
<1> QED
  BY <1>6, <1>7, <1>8, <1>9

LEMMA StreamNext == ASSUME FinInTurn PROVE StreamInv /\ [Next]_vars => StreamInv'
<1> SUFFICES ASSUME StreamInv, [Next]_vars PROVE StreamInv'
  OBVIOUS
<1>1. TypeInv'
  BY TypeNext DEF StreamInv
<1>2. CASE \E n \in 1..MaxSegment : HandleData(n)
  BY <1>1, <1>2, HandleDataStream DEF StreamInv
<1>3. CASE HandleFin
  BY <1>1, <1>3, HandleFinStream DEF StreamInv
<1>4. CASE TakePayload
  BY <1>1, <1>4, TakePayloadStream DEF StreamInv
<1>5. CASE Add2Read
  BY <1>1, <1>5, Add2ReadStream DEF StreamInv
<1>6. CASE ReadFromRecv
  BY <1>1, <1>6, ReadFromRecvStream DEF StreamInv
<1>7. CASE Reply
  <2>1. /\ ctl = "reply" /\ ctl' = "select" /\ delivered' = delivered \o ctlData
        /\ UNCHANGED <<rcvBuf, rcvNxt, rcvLbr, rcvWnd, handler, payload, arrived, fin>>
    BY <1>7 DEF Reply, tcb
  <2>2. Stored' = Stored /\ Unstored' = Unstored /\ HandedOut' = HandedOut
    BY <2>1 DEF Stored, Unstored, HandedOut
  <2> QED
    BY <1>1, <2>1, <2>2 DEF StreamInv, PendingInOrder, WindowExact, RingKeeps, HandedInOrder, wrapIndex
<1>8. CASE TakeRequest \/ (\E n \in 1..MaxRead : VRead(n)) \/ UNCHANGED vars
  <2>1. /\ UNCHANGED <<rcvBuf, rcvNxt, rcvLbr, rcvWnd, ctlData, handler, payload, arrived, fin, delivered>>
        /\ \/ ctl' = ctl
           \/ ctl = "select" /\ ctl' = "readFromRecv"
    BY <1>8 DEF TakeRequest, VRead, vars, tcb, controller
  <2>2. Stored' = Stored /\ Unstored' = Unstored /\ HandedOut' = HandedOut
    BY <2>1 DEF Stored, Unstored, HandedOut
  <2> QED
    BY <1>1, <2>1, <2>2 DEF StreamInv, PendingInOrder, WindowExact, RingKeeps, HandedInOrder, wrapIndex
<1> QED
  BY <1>2, <1>3, <1>4, <1>5, <1>6, <1>7, <1>8 DEF Next, Controller

\* The advertised window accounts for every byte between the two receive
\* pointers, FIN included, for a FIN handled in its turn.
THEOREM WindowAccounts == ASSUME FinInTurn PROVE Spec => []WindowAccounting
<1>1. ASSUME StreamInv PROVE WindowAccounting
  <2> DEFINE x == TcbSize + fin - (rcvNxt - rcvLbr)
  <2>1. x \in Nat /\ x <= WndMod /\ (x = WndMod <=> fin = 1 /\ rcvLbr = rcvNxt)
    BY <1>1, RingFacts DEF StreamInv, TypeInv, TypeOK, WindowExact
  <2>2. rcvWnd = IF x = WndMod THEN 0 ELSE x
    BY <1>1, <2>1 DEF StreamInv, WindowExact
  <2> HIDE DEF x
  <2>3. (x % WndMod) = IF x < WndMod THEN x ELSE x - WndMod
    <3>1. x < WndMod + WndMod
      BY <2>1, RingFacts
    <3> QED
      BY <2>1, <3>1, WrapOnce, RingFacts
  <2>4. rcvWnd = x % WndMod
    BY <2>1, <2>2, <2>3, RingFacts
  <2> QED
    BY <2>4 DEF WindowAccounting, x
<1> QED
  BY <1>1, StreamInit, StreamNext, PTL DEF Spec

\* VRead returns the peer's bytes in order, none lost, repeated or overwritten
\* in the ring, and at most one byte too many, for a FIN handled in its turn.
THEOREM StreamComesInOrder == ASSUME FinInTurn PROVE Spec => []StreamInOrder
<1>1. ASSUME StreamInv PROVE StreamInOrder
  <2>1. /\ delivered \in Seq(Nat) /\ ctlData \in Seq(Nat) /\ fin \in {0, 1} /\ arrived \in Nat
        /\ rcvNxt \in Nat /\ rcvLbr \in Nat /\ rcvLbr <= rcvNxt /\ payload \in Seq(Nat)
    BY <1>1 DEF StreamInv, TypeInv, TypeOK
  <2>2. /\ Len(HandedOut) = rcvLbr - 1
        /\ \A i \in 1..Len(HandedOut) : i <= Stored => HandedOut[i] = i
    BY <1>1 DEF StreamInv, HandedInOrder
  <2>3. Len(delivered) <= Len(HandedOut) /\ \A i \in 1..Len(delivered) : HandedOut[i] = delivered[i]
    BY <2>1 DEF HandedOut
  <2>4. arrived = Stored + Unstored + Len(payload) /\ Unstored \in Nat /\ Len(payload) \in Nat
    BY <1>1, <2>1 DEF StreamInv, PendingInOrder, Unstored
  <2>5. fin = 1 => Unstored = 0 /\ Len(payload) = 0
    BY <1>1 DEF StreamInv, PendingInOrder, Unstored
  <2>6. Stored = rcvNxt - 1 - fin
    BY DEF Stored
  <2>7. Len(delivered) \in Nat /\ Len(delivered) <= rcvNxt - 1
    BY <2>1, <2>2, <2>3
  <2>8. Len(delivered) <= arrived + fin
    BY <2>1, <2>4, <2>6, <2>7
  <2>9. ASSUME NEW i \in 1..Len(delivered), i <= arrived PROVE delivered[i] = i
    <3>1. i <= Stored /\ i \in 1..Len(HandedOut)
      BY <2>1, <2>2, <2>3, <2>4, <2>5, <2>6, <2>7, <2>9
    <3> QED
      BY <2>2, <2>3, <3>1
  <2> QED
    BY <2>8, <2>9 DEF StreamInOrder
<1> QED
  BY <1>1, StreamInit, StreamNext, PTL DEF Spec

-----------------------------------------------------------------------------
(* The window's right edge and the pipe of module ByteStream.               *)

\* readFromRecv alone moves rcvLbr, and only forward.
LEMMA LbrGrows == ASSUME TypeInv, [Next]_vars PROVE rcvLbr' \in Nat /\ rcvLbr' >= rcvLbr
<1>1. rcvLbr \in Nat
  BY DEF TypeInv, TypeOK
<1>2. CASE ReadFromRecv
  <2> DEFINE dist == Smaller(rcvNxt - rcvLbr, ctlCount)
  <2>1. dist \in Nat
    BY DEF TypeInv, TypeOK, Smaller
  <2>2. rcvLbr' = rcvLbr + SliceLen(rcvLbr, dist)
    BY <1>2 DEF ReadFromRecv
  <2> HIDE DEF dist
  <2>3. SliceLen(rcvLbr, dist) \in Nat
    BY <1>1, <2>1, SliceFits
  <2> QED
    BY <1>1, <2>2, <2>3
<1>3. CASE ~ReadFromRecv
  <2>1. rcvLbr' = rcvLbr
    BY <1>3 DEF Next, Controller, HandleData, HandleFin, VRead, TakePayload, TakeRequest,
                Add2Read, Reply, vars, tcb
  <2> QED
    BY <1>1, <2>1
<1> QED
  BY <1>2, <1>3

\* Until the peer closes, the right edge of the window never moves left.
THEOREM EdgeNeverShrinks == ASSUME FinInTurn PROVE Spec => RightEdgeNeverShrinks
<1>1. ASSUME StreamInv, StreamInv', [Next]_vars, fin' = 0
      PROVE  rcvNxt' + rcvWnd' >= rcvNxt + rcvWnd
  <2>1. fin = 0
    BY <1>1 DEF Next, Controller, HandleData, HandleFin, VRead, TakePayload, TakeRequest,
                Add2Read, ReadFromRecv, Reply, vars
  <2>2. rcvNxt \in Nat /\ rcvLbr \in Nat /\ rcvWnd = TcbSize + 0 - (rcvNxt - rcvLbr)
    BY <1>1, <2>1 DEF StreamInv, TypeInv, TypeOK, WindowExact
  <2>3. rcvNxt' \in Nat /\ rcvLbr' \in Nat /\ rcvWnd' = TcbSize + 0 - (rcvNxt' - rcvLbr')
    BY <1>1 DEF StreamInv, TypeInv, TypeOK, WindowExact
  <2>4. rcvLbr' >= rcvLbr
    BY <1>1, LbrGrows DEF StreamInv
  <2>5. rcvNxt + rcvWnd = rcvLbr + TcbSize /\ rcvNxt' + rcvWnd' = rcvLbr' + TcbSize
    BY <2>2, <2>3, RingFacts
  <2>6. rcvLbr \in Nat /\ rcvLbr' \in Nat
    BY <2>2, <2>3
  <2> QED
    BY <2>4, <2>5, <2>6, RingFacts
<1>2. StreamInv /\ StreamInv' /\ [Next]_vars
        => [fin' = 0 => rcvNxt' + rcvWnd' >= rcvNxt + rcvWnd]_vars
  BY <1>1
<1> QED
  BY <1>2, StreamInit, StreamNext, PTL DEF Spec, RightEdgeNeverShrinks

\* How many bytes of the stream have left the ring.
Count == Smaller(Len(HandedOut), Stored)

\* The first n bytes of the stream.
First(n) == [i \in 1..n |-> i]

\* What the pipe has handed out is the beginning of the stream.
OutFirst ==
    /\ SubSeq(HandedOut, 1, Count) = First(Count)
    /\ Count \in Nat /\ Stored \in Nat
    /\ Count = Smaller(rcvLbr - 1, Stored)

LEMMA OutIsFirst == StreamInv => OutFirst
<1> SUFFICES ASSUME StreamInv PROVE OutFirst
  OBVIOUS
<1>1. HandedOut \in Seq(Nat)
  BY DEF StreamInv, TypeInv, TypeOK, HandedOut
<1>2. /\ Len(HandedOut) = rcvLbr - 1 /\ Len(HandedOut) \in Nat
      /\ \A i \in 1..Len(HandedOut) : i <= Stored => HandedOut[i] = i
  BY <1>1 DEF StreamInv, HandedInOrder
<1>3. Stored \in Nat
  <2>1. rcvNxt \in Nat /\ fin \in {0, 1} /\ arrived \in Nat
    BY DEF StreamInv, TypeInv, TypeOK
  <2>2. rcvLbr - 1 \in Nat /\ rcvLbr <= rcvNxt
    BY <1>2 DEF StreamInv, TypeInv
  <2>3. CASE fin = 0
    BY <2>1, <2>2, <2>3 DEF Stored, StreamInv, TypeInv, TypeOK
  <2>4. CASE fin = 1
    <3>1. Len(payload) = 0 /\ Unstored = 0
      BY <2>4 DEF StreamInv, PendingInOrder, Unstored
    <3>2. arrived = Stored + 0 + 0
      BY <3>1 DEF StreamInv, PendingInOrder
    <3> QED
      BY <2>1, <3>2 DEF Stored
  <2> QED
    BY <2>1, <2>3, <2>4
<1>4. /\ Count \in Nat /\ Count <= Len(HandedOut) /\ Count <= Stored
      /\ Count = Smaller(rcvLbr - 1, Stored)
  BY <1>2, <1>3 DEF Count, Smaller
<1> HIDE DEF StreamInv
<1>5. \A i \in 1..Count : HandedOut[i] = i
  BY <1>2, <1>3, <1>4
<1>6. SubSeq(HandedOut, 1, Count) = [i \in 1..Count |-> HandedOut[i]]
  BY <1>1, <1>4
<1> QED
  BY <1>3, <1>4, <1>5, <1>6 DEF First, OutFirst

LEMMA SeqIsFunction == ASSUME NEW s \in Seq(Nat) PROVE s = [i \in 1..Len(s) |-> s[i]]
  OBVIOUS

\* Handing out the bytes n + 1 to m after the first n makes the first m.
LEMMA FirstGrows ==
    ASSUME NEW n \in Nat, NEW m \in Nat, n < m
    PROVE  Len(First(n)) = n /\ First(m) = First(n) \o [i \in 1..(m - n) |-> Len(First(n)) + i]
<1>1. First(n) \in Seq(Nat) /\ Len(First(n)) = n
  BY DEF First
<1> DEFINE rest == [i \in 1..(m - n) |-> n + i]
<1>2. rest \in Seq(Nat) /\ Len(rest) = m - n
  OBVIOUS
<1>3. Len(First(n) \o rest) = m /\ First(n) \o rest \in Seq(Nat)
  BY <1>1, <1>2
<1>4. ASSUME NEW i \in 1..m PROVE (First(n) \o rest)[i] = i
  <2>1. CASE i <= n
    BY <1>1, <1>2, <2>1 DEF First
  <2>2. CASE n < i
    BY <1>1, <1>2, <2>2
  <2>3. i <= n \/ n < i
    OBVIOUS
  <2> QED
    BY <2>1, <2>2, <2>3
<1> HIDE DEF rest
<1>5. First(n) \o rest = [i \in 1..m |-> (First(n) \o rest)[i]]
  BY <1>3, SeqIsFunction
<1>6. First(n) \o rest = [i \in 1..m |-> i]
  BY <1>4, <1>5
<1> QED
  BY <1>1, <1>6 DEF rest, First

LEMMA SumOfZeros == ASSUME NEW x \in Nat PROVE x + 0 + 0 = x
  OBVIOUS

LEMMA SmallerGrows ==
    ASSUME NEW x \in Nat, NEW y \in Nat, NEW s \in Nat, y >= x
    PROVE  Smaller(x - 1, s) <= Smaller(y - 1, s) /\ Smaller(y - 1, s) <= s
  BY DEF Smaller

\* The receive half is a bounded first-in first-out pipe: add2Read accepts,
\* readFromRecv hands out, for a FIN handled in its turn.
THEOREM RecvIsAPipe == ASSUME FinInTurn PROVE Spec => ImplementsByteStream
<1> DEFINE taken == Stored
           out == SubSeq(HandedOut, 1, Smaller(Len(HandedOut), Stored))
<1>1. Init => Stream!Init
  BY DEF Init, Stream!Init, Stored, HandedOut, Smaller
<1>2. ASSUME StreamInv, StreamInv', OutFirst, OutFirst', [Next]_vars
      PROVE  [Stream!Next]_<<taken, out>>
  <2>1. out = First(Count) /\ out' = First(Count')
    BY <1>2 DEF OutFirst, Count, First
  <2>2. /\ Count \in Nat /\ Stored \in Nat /\ Count = Smaller(rcvLbr - 1, Stored)
        /\ Count' \in Nat /\ Stored' \in Nat /\ Count' = Smaller(rcvLbr' - 1, Stored')
    BY <1>2 DEF OutFirst, Smaller
  <2>3. /\ rcvNxt \in Nat /\ rcvLbr \in Nat /\ rcvLbr <= rcvNxt /\ fin \in {0, 1}
        /\ ctlData \in Seq(Nat)
    BY <1>2 DEF StreamInv, TypeInv, TypeOK
  <2> HIDE DEF out
  <2>4. CASE Add2Read
    <3>1. /\ fin = 0 /\ fin' = 0 /\ rcvLbr' = rcvLbr /\ rcvNxt' = rcvNxt + Len(ctlData)
          /\ Len(ctlData) \in Nat \ {0} /\ Len(ctlData) <= rcvWnd
      <4>1. ctl = "add2Read" /\ fin' = fin /\ rcvLbr' = rcvLbr /\ rcvNxt' = rcvNxt + Len(ctlData)
        BY <2>4 DEF Add2Read
      <4>2. fin = 0 /\ Len(ctlData) > 0
        BY <1>2, <2>3, <4>1 DEF StreamInv, PendingInOrder
      <4>3. Len(ctlData) <= rcvWnd
        BY <1>2, <2>3, <2>4, RingFacts DEF Add2Read, MustWaitForRoom, StreamInv, TypeInv, TypeOK
      <4> QED
        BY <2>3, <4>1, <4>2, <4>3
    <3>2. rcvWnd = TcbSize + 0 - (rcvNxt - rcvLbr)
      BY <1>2, <3>1 DEF StreamInv, WindowExact
    <3>3. Count = rcvLbr - 1 /\ Count' = rcvLbr - 1
      BY <2>2, <2>3, <3>1 DEF Smaller, Stored
    <3>4. Len(out) = rcvLbr - 1 /\ out' = out
      BY <2>1, <2>2, <3>3 DEF First
    <3>5. Stored' \in (Stored + 1)..(Len(out) + TcbSize)
      BY <2>2, <2>3, <3>1, <3>2, <3>4, RingFacts DEF Stored
    <3> QED
      BY <3>4, <3>5 DEF Stream!Next, Stream!Accept, out
  <2>5. CASE ~Add2Read
    <3>1. Stored' = Stored
      <4>1. CASE HandleFin
        <5>1. fin = 0 /\ fin' = 1 /\ arrived' = arrived /\ payload = << >> /\ payload' = payload
              /\ ctl # "add2Read" /\ ctl' = ctl
          BY <1>2, <4>1 DEF HandleFin, FinInTurn, StreamInv, PendingInOrder, controller
        <5>2. Unstored = 0 /\ Unstored' = 0 /\ Len(payload) = 0 /\ Len(payload') = 0
          BY <5>1 DEF Unstored
        <5>3. arrived = Stored + 0 + 0 /\ arrived' = Stored' + 0 + 0
          BY <1>2, <5>2 DEF StreamInv, PendingInOrder
        <5> QED
          BY <2>2, <5>1, <5>3, SumOfZeros
      <4>2. CASE ~HandleFin
        BY <1>2, <2>5, <4>2 DEF Stored, Next, Controller, HandleData, VRead, TakePayload,
                                TakeRequest, ReadFromRecv, Reply, vars, tcb
      <4> QED
        BY <4>1, <4>2
    <3>2. Count <= Count' /\ Count' <= Stored
      <4>1. rcvLbr' \in Nat /\ rcvLbr' >= rcvLbr
        BY <1>2, LbrGrows DEF StreamInv
      <4>2. Count = Smaller(rcvLbr - 1, Stored) /\ Count' = Smaller(rcvLbr' - 1, Stored)
        BY <2>2, <3>1
      <4>3. rcvLbr \in Nat /\ Stored \in Nat
        BY <2>2, <2>3
      <4> QED
        BY <4>1, <4>2, <4>3, SmallerGrows
    <3>3. CASE Count' = Count
      BY <2>1, <3>1, <3>3
    <3>4. CASE Count < Count'
      <4>1. out' = out \o [i \in 1..(Count' - Count) |-> Len(out) + i] /\ Len(out) = Count
        BY <2>1, <2>2, <3>4, FirstGrows
      <4>2. Count' - Count \in 1..(Stored - Len(out))
        BY <2>2, <3>2, <3>4, <4>1
      <4> QED
        BY <3>1, <4>1, <4>2 DEF Stream!Next, Stream!HandOut, out
    <3> QED
      BY <2>2, <3>2, <3>3, <3>4
  <2> QED
    BY <2>4, <2>5
<1> QED
  BY <1>1, <1>2, OutIsFirst, StreamInit, StreamNext, PTL DEF Spec, Stream!Spec, ImplementsByteStream
=============================================================================
