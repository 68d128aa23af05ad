-------------------------- MODULE ConnTimersProofs --------------------------
(***************************************************************************)
(* Proofs about ConnTimers, for every set of timer objects and goroutines  *)
(* and every bound of the queue.                                           *)
(***************************************************************************)
EXTENDS ConnTimers, FiniteSetTheorems, TLAPS

Running(g) == rto[g].pc # "none"

\* Until the connection is deleted, rtoTimer points to a timer exactly if a
\* goroutine of rtoTimeout runs, there is one such goroutine, and nothing was
\* queued before.  startRtoTimer decides by the pointer, OneRetransmitter
\* speaks of the goroutines: neither implies the other without this.
PointerTells ==
    status # "Closed" =>
        /\ rtoTimer # nil <=> \E g \in Goroutines : Running(g)
        /\ rtoTimer = nil => queue = 0
        /\ \A g, h \in Goroutines : Running(g) /\ Running(h) => g = h

Inv == TypeOK /\ PointerTells

RtoStates == [pc : {"none", "check", "eval", "wait", "items", "peek", "reset"},
              on : Timers \cup {nil}]

LEMMA InvInit == Init => Inv
<1> SUFFICES ASSUME Init PROVE Inv
  OBVIOUS
<1>1. TypeOK
  <2>1. /\ status \in {"Open", "TimeWait", "Closed"}
        /\ {rtoTimer, timeWaitTimer} \subseteq Timers \cup {nil}
        /\ timer \in [Timers -> {"armed", "fired", "drained"}]
    BY DEF Init
  <2>2. queue \in 0..MaxQueue
    BY TimersAssumption DEF Init
  <2>3. rto \in [Goroutines -> [pc : {"none", "check", "eval", "wait", "items", "peek", "reset"},
                               on : Timers \cup {nil}]]
    BY DEF Init, Nowhere
  <2>4. timeWait \in [pc : {"none", "eval", "wait"}, on : Timers \cup {nil}]
    BY DEF Init, Nowhere
  <2>5. {writing, crashed, idled} \subseteq BOOLEAN
    BY DEF Init
  <2> QED
    BY <2>1, <2>2, <2>3, <2>4, <2>5 DEF TypeOK
<1>2. PointerTells
  BY DEF Init, PointerTells, Running, Nowhere
<1> QED
  BY <1>1, <1>2 DEF Inv

-----------------------------------------------------------------------------
(* Type correctness.                                                        *)

LEMMA NewTimerType ==
    ASSUME TypeOK, NEW t \in Timers, NewTimer(t)
    PROVE  timer' \in [Timers -> {"armed", "fired", "drained"}]
  BY DEF TypeOK, NewTimer

LEMMA StartType ==
    ASSUME TypeOK, startRtoTimer
    PROVE  /\ rtoTimer' \in Timers \cup {nil}
           /\ timer' \in [Timers -> {"armed", "fired", "drained"}]
           /\ rto' \in [Goroutines -> RtoStates]
<1>1. CASE NeedsTimer
  <2>1. PICK t \in Timers, g \in Goroutines :
           /\ NewTimer(t) /\ rtoTimer' = t
           /\ rto' = [rto EXCEPT ![g] = [pc |-> "check", on |-> nil]]
    BY <1>1 DEF startRtoTimer
  <2> QED
    BY <2>1, NewTimerType DEF TypeOK, RtoStates
<1>2. CASE ~NeedsTimer
  BY <1>2 DEF startRtoTimer, TypeOK, RtoStates
<1> QED
  BY <1>1, <1>2

LEMMA TypeParts ==
    TypeOK' <=>
      /\ status' \in {"Open", "TimeWait", "Closed"}
      /\ rtoTimer' \in Timers \cup {nil} /\ timeWaitTimer' \in Timers \cup {nil}
      /\ timer' \in [Timers -> {"armed", "fired", "drained"}]
      /\ queue' \in 0..MaxQueue
      /\ rto' \in [Goroutines -> RtoStates]
      /\ timeWait' \in [pc : {"none", "eval", "wait"}, on : Timers \cup {nil}]
      /\ writing' \in BOOLEAN /\ crashed' \in BOOLEAN /\ idled' \in BOOLEAN
  BY DEF TypeOK, RtoStates

LEMMA RtoTimeoutType ==
    ASSUME TypeOK, NEW g \in Goroutines, RtoTimeout(g)
    PROVE  TypeOK'
<1> USE DEF TypeOK, Nowhere, pointers, RtoStates
<1>1. CASE RtoCheck(g)
  BY <1>1, TypeParts DEF RtoCheck
<1>2. CASE RtoEval(g)
  BY <1>2, TypeParts DEF RtoEval
<1>3. CASE RtoFired(g)
  BY <1>3, TypeParts DEF RtoFired
<1>4. CASE RtoItems(g)
  BY <1>4, TypeParts DEF RtoItems
<1>5. CASE RtoPeek(g)
  BY <1>5, TypeParts DEF RtoPeek
<1>6. CASE RtoReset(g)
  BY <1>6, TypeParts, NewTimerType DEF RtoReset, resetRtoTimer
<1> QED
  BY <1>1, <1>2, <1>3, <1>4, <1>5, <1>6 DEF RtoTimeout

LEMMA TypeNext == TypeOK /\ [Next]_vars => TypeOK'
<1> SUFFICES ASSUME TypeOK, [Next]_vars PROVE TypeOK'
  OBVIOUS
<1> USE DEF TypeOK, Nowhere, pointers, RtoStates
<1>1. CASE SendFlags
  BY <1>1, TypeParts, StartType, TimersAssumption DEF SendFlags
<1>2. CASE WriteTest
  BY <1>2, TypeParts DEF WriteTest
<1>3. CASE WriteSend
  <2>1. writing' \in BOOLEAN /\ crashed' \in BOOLEAN /\ idled' \in BOOLEAN
    BY <1>3 DEF WriteSend
  <2>2. queue' \in 0..MaxQueue
    BY <1>3, TimersAssumption DEF WriteSend
  <2> QED
    BY <1>3, <2>1, <2>2, TypeParts, StartType DEF WriteSend
<1>4. CASE HandleAck
  BY <1>4, TypeParts, NewTimerType, TimersAssumption DEF HandleAck, AfterCleanup, resetRtoTimer
<1>5. CASE EnterTimeWait
  BY <1>5, TypeParts, NewTimerType DEF EnterTimeWait
<1>6. CASE ResetTimeWaitTimer
  BY <1>6, TypeParts, NewTimerType DEF ResetTimeWaitTimer
<1>7. CASE Delete
  BY <1>7, TypeParts, TimersAssumption DEF Delete, closeDelete
<1>8. CASE \E g \in Goroutines : RtoTimeout(g)
  BY <1>8, RtoTimeoutType
<1>9. CASE TimeWaitEval
  BY <1>9, TypeParts DEF TimeWaitEval
<1>10. CASE TimeWaitFired
  <2>1. writing' \in BOOLEAN /\ crashed' \in BOOLEAN /\ idled' \in BOOLEAN
    BY <1>10 DEF TimeWaitFired
  <2>2. /\ status' = "Closed" /\ rtoTimer' = nil /\ timeWaitTimer' = nil
        /\ queue' \in 0..MaxQueue /\ rto' \in [Goroutines -> RtoStates]
    BY <1>10, TimersAssumption DEF TimeWaitFired, closeDelete
  <2>3. timer' \in [Timers -> {"armed", "fired", "drained"}]
    BY <1>10 DEF TimeWaitFired
  <2>4. timeWait' \in [pc : {"none", "eval", "wait"}, on : Timers \cup {nil}]
    BY <1>10 DEF TimeWaitFired
  <2> HIDE DEF TypeOK
  <2> QED
    BY <2>1, <2>2, <2>3, <2>4, TypeParts
<1>11. CASE \E t \in Timers : Fire(t)
  BY <1>11, TypeParts DEF Fire
<1>12. CASE UNCHANGED vars
  BY <1>12, TypeParts DEF vars
<1> QED
  BY <1>1, <1>2, <1>3, <1>4, <1>5, <1>6, <1>7, <1>8, <1>9, <1>10, <1>11, <1>12
     DEF Next, TimeWaitTimeout

-----------------------------------------------------------------------------
(* One goroutine per pointer.                                               *)

\* A step that neither starts nor ends a goroutine, and neither sets nor
\* clears the pointer, adds nothing to a queue without a timer.
LEMMA SameGoroutines ==
    ASSUME PointerTells,
           \A g \in Goroutines : rto'[g].pc # "none" <=> rto[g].pc # "none",
           rtoTimer' = nil <=> rtoTimer = nil,
           status # "Closed" /\ rtoTimer = nil => queue' = 0,
           status' # "Closed" => status # "Closed"
    PROVE  PointerTells'
  BY DEF PointerTells, Running

\* startRtoTimer starts a goroutine only where none runs.
LEMMA StartKeeps ==
    ASSUME Inv, startRtoTimer, status' = status
    PROVE  PointerTells'
<1> SUFFICES ASSUME status # "Closed"
             PROVE  /\ rtoTimer' # nil
                    /\ \E g \in Goroutines : rto'[g].pc # "none"
                    /\ \A g, h \in Goroutines : rto'[g].pc # "none" /\ rto'[h].pc # "none" => g = h
  BY DEF PointerTells, Running
<1>1. CASE rtoTimer = nil
  <2>1. PICK t \in Timers, f \in Goroutines :
           /\ rtoTimer' = t
           /\ rto' = [rto EXCEPT ![f] = [pc |-> "check", on |-> nil]]
    BY <1>1 DEF startRtoTimer, NeedsTimer
  <2>2. \A g \in Goroutines : rto[g].pc = "none"
    BY <1>1 DEF Inv, PointerTells, Running
  <2>3. /\ rto'[f].pc = "check"
        /\ \A g \in Goroutines \ {f} : rto'[g].pc = "none"
    BY <2>1, <2>2 DEF Inv, TypeOK
  <2> QED
    BY <2>1, <2>3, NilAssumption
<1>2. CASE rtoTimer # nil
  BY <1>2 DEF startRtoTimer, NeedsTimer, Inv, PointerTells, Running
<1> QED
  BY <1>1, <1>2

LEMMA RtoTimeoutKeeps ==
    ASSUME Inv, NEW g \in Goroutines, RtoTimeout(g)
    PROVE  PointerTells'
<1> USE DEF Inv, TypeOK
<1>1. CASE RtoCheck(g)
  <2>1. status' = status /\ rtoTimer' = rtoTimer /\ queue' = queue
    BY <1>1 DEF RtoCheck, pointers
  <2>2. CASE status = "Closed"
    BY <2>1, <2>2 DEF PointerTells
  <2>3. CASE status # "Closed"
    <3>1. \A h \in Goroutines : rto'[h].pc # "none" <=> rto[h].pc # "none"
      BY <1>1, <2>3 DEF RtoCheck
    <3> QED
      BY <2>1, <3>1, SameGoroutines DEF PointerTells
  <2> QED
    BY <2>2, <2>3
<1>2. CASE RtoEval(g) \/ RtoFired(g) \/ RtoItems(g) \/ RtoPeek(g)
  <2>1. status' = status /\ rtoTimer' = rtoTimer /\ queue' = queue
    BY <1>2 DEF RtoEval, RtoFired, RtoItems, RtoPeek, pointers
  <2>2. \A h \in Goroutines : rto'[h].pc # "none" <=> rto[h].pc # "none"
    BY <1>2 DEF RtoEval, RtoFired, RtoItems, RtoPeek
  <2> QED
    BY <2>1, <2>2, SameGoroutines DEF PointerTells
<1>3. CASE RtoReset(g)
  <2>1. status' = status /\ rtoTimer' # nil /\ queue' = queue
    BY <1>3, NilAssumption DEF RtoReset, resetRtoTimer
  <2>2. \A h \in Goroutines : rto'[h].pc # "none" <=> rto[h].pc # "none"
    BY <1>3 DEF RtoReset
  <2>3. status # "Closed" => rtoTimer # nil
    BY <1>3 DEF RtoReset, PointerTells, Running
  <2> QED
    BY <2>1, <2>2, <2>3 DEF PointerTells, Running
<1> QED
  BY <1>1, <1>2, <1>3 DEF RtoTimeout

LEMMA InvNext == Inv /\ [Next]_vars => Inv'
<1> SUFFICES ASSUME Inv, [Next]_vars PROVE PointerTells'
  BY TypeNext DEF Inv
<1>1. CASE SendFlags \/ WriteSend
  BY <1>1, StartKeeps DEF SendFlags, WriteSend
<1>2. CASE WriteTest \/ ResetTimeWaitTimer \/ EnterTimeWait
  <2>1. /\ rtoTimer' = rtoTimer /\ queue' = queue /\ rto' = rto
        /\ status' # "Closed" => status # "Closed"
    BY <1>2 DEF WriteTest, ResetTimeWaitTimer, EnterTimeWait, pointers
  <2> QED
    BY <2>1 DEF Inv, PointerTells, Running
<1>3. CASE HandleAck
  <2>1. queue > 0 /\ status' = status /\ rto' = rto /\ status # "Closed"
    BY <1>3 DEF HandleAck, AfterCleanup, Inv, TypeOK
  <2>2. rtoTimer' # nil
    BY <1>3, NilAssumption DEF HandleAck, resetRtoTimer
  <2>3. rtoTimer # nil
    BY <2>1 DEF Inv, PointerTells
  <2> QED
    BY <2>1, <2>2, <2>3 DEF Inv, PointerTells, Running
<1>4. CASE Delete \/ TimeWaitFired
  BY <1>4 DEF Delete, TimeWaitFired, closeDelete, PointerTells
<1>5. CASE \E g \in Goroutines : RtoTimeout(g)
  BY <1>5, RtoTimeoutKeeps
<1>6. CASE TimeWaitEval \/ (\E t \in Timers : Fire(t)) \/ UNCHANGED vars
  <2>1. rtoTimer' = rtoTimer /\ queue' = queue /\ rto' = rto /\ status' = status
    BY <1>6 DEF TimeWaitEval, Fire, vars, pointers
  <2> QED
    BY <2>1 DEF Inv, PointerTells, Running
<1> QED
  BY <1>1, <1>2, <1>3, <1>4, <1>5, <1>6 DEF Next, TimeWaitTimeout

-----------------------------------------------------------------------------
\* The pointers, timer objects and goroutines of a connection keep their
\* types: no step waits on anything but a timer object or nil.
THEOREM TypeCorrect == Spec => []TypeOK
<1>1. Init => TypeOK
  BY InvInit DEF Inv
<1> QED
  BY <1>1, TypeNext, PTL DEF Spec

\* startRtoTimer, resetRtoTimer and closeDelete between them never start a
\* second rtoTimeout on a connection that is not deleted, and never leave an
\* entry in its queue without one.
THEOREM RetransmitsOnce == Spec => []OneRetransmitter
<1>1. ASSUME Inv PROVE OneRetransmitter
  <2> DEFINE running == {g \in Goroutines : rto[g].pc # "none"}
  <2> SUFFICES ASSUME status # "Closed"
               PROVE  Cardinality(running) <= 1 /\ (queue > 0 => running # {})
    BY DEF OneRetransmitter
  <2>1. \A g, h \in running : g = h
    BY <1>1 DEF Inv, PointerTells, Running
  <2>2. Cardinality(running) <= 1
    <3> HIDE DEF running
    <3>1. CASE running = {}
      BY <3>1, FS_EmptySet
    <3>2. CASE running # {}
      <4>1. PICK g \in running : running = {g}
        BY <2>1, <3>2
      <4>2. Cardinality({g}) = 1
        BY FS_Singleton
      <4> QED
        BY <4>1, <4>2
    <3> QED
      BY <3>1, <3>2
  <2>3. queue > 0 => running # {}
    BY <1>1 DEF Inv, TypeOK, PointerTells, Running
  <2> QED
    BY <2>2, <2>3
<1> QED
  BY InvInit, InvNext, <1>1, PTL DEF Spec
=============================================================================
