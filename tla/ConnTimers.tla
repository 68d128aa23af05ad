----------------------------- MODULE ConnTimers -----------------------------
(***************************************************************************)
(* The timers of one connection and the goroutines that wait on them:      *)
(* rtoTimeout, which retransmits, and timeWaitTimeout.                     *)
(*                                                                         *)
(* conn.rtoTimer and conn.timeWaitTimer point to timer objects.            *)
(* resetRtoTimer and resetTimeWaitTimer put a new object there, while a    *)
(* goroutine that evaluated conn.rtoTimer.C before waits on the old one; a *)
(* timer fires once, and whoever waits on one that was received from waits *)
(* forever.  closeDelete sets both pointers to nil.                        *)
(*                                                                         *)
(* A panic (nil pointer) ends the process: crashed, after which nothing    *)
(* happens.                                                                *)
(***************************************************************************)
EXTENDS Integers, FiniteSets

CONSTANTS Timers,       \* timer objects; one nobody refers to is used again
          Goroutines,   \* goroutines that may run rtoTimeout
          MaxQueue      \* bound: entries in the retransmission queue

ASSUME TimersAssumption ==
    /\ IsFiniteSet(Timers)
    /\ MaxQueue \in Nat \ {0}

nil == "nil"
ASSUME NilAssumption == nil \notin Timers

VARIABLES
    status,         \* of the connection: "Open" until TIME-WAIT
    rtoTimer, timeWaitTimer,   \* pointers: a timer object or nil
    timer,          \* state of each timer object
    queue,          \* length of the retransmission queue
    rto,            \* per goroutine of rtoTimeout: where it is, and on which timer
    timeWait,       \* the same for timeWaitTimeout
    writing,        \* a VWrite has tested the status and not yet called send
    crashed,
    idled           \* history: the timer fired when the queue was empty

pointers == <<rtoTimer, timeWaitTimer, timer>>
vars == <<status, pointers, queue, rto, timeWait, writing, crashed, idled>>

Nowhere == [pc |-> "none", on |-> nil]

Init ==
    /\ status = "Open"
    /\ rtoTimer = nil
    /\ timeWaitTimer = nil
    /\ timer = [t \in Timers |-> "fired"]
    /\ queue = 0
    /\ rto = [g \in Goroutines |-> Nowhere]
    /\ timeWait = Nowhere
    /\ writing = FALSE
    /\ crashed = FALSE
    /\ idled = FALSE

Referenced == {rtoTimer, timeWaitTimer, timeWait.on} \cup {rto[g].on : g \in Goroutines}

\* time.NewTimer makes the object t; objects nobody refers to are collected.
NewTimer(t) ==
    /\ t = CHOOSE u \in Timers \ Referenced : TRUE
    /\ timer' = [u \in Timers |-> IF u = t THEN "armed"
                                  ELSE IF u \in Referenced THEN timer[u]
                                  ELSE "fired"]

\* mutant: the test for a timer that runs already is missing
NeedsTimerAlways == TRUE
NeedsTimer == rtoTimer = nil

-----------------------------------------------------------------------------
(* send, and the callers that need no lock for it                           *)

\* startRtoTimer: the first call starts the timer and its goroutine.
startRtoTimer ==
    IF NeedsTimer
    THEN \E t \in Timers, g \in Goroutines :
            /\ NewTimer(t)
            /\ rtoTimer' = t
            /\ rto[g].pc = "none"
            /\ rto' = [rto EXCEPT ![g] = [pc |-> "check", on |-> nil]]
    ELSE UNCHANGED <<rtoTimer, timer, rto>>

\* The SYN of VConnect or VAccept, or a FIN.
SendFlags ==
    /\ ~crashed
    /\ status = "Open"
    /\ queue < MaxQueue
    /\ queue' = queue + 1
    /\ startRtoTimer
    /\ UNCHANGED <<status, timeWaitTimer, timeWait, writing, crashed, idled>>

\* VWrite tests the status ...
WriteTest ==
    /\ ~crashed
    /\ status = "Open"
    /\ rtoTimer # nil
    /\ ~writing
    /\ writing' = TRUE
    /\ UNCHANGED <<status, pointers, queue, rto, timeWait, crashed, idled>>

\* ... and sends later, perhaps on a connection that was deleted meanwhile.
WriteSend ==
    /\ ~crashed
    /\ writing
    /\ queue < MaxQueue
    /\ writing' = FALSE
    /\ queue' = queue + 1
    /\ startRtoTimer
    /\ UNCHANGED <<status, timeWaitTimer, timeWait, crashed, idled>>

-----------------------------------------------------------------------------
(* The segment handler                                                      *)

resetRtoTimerNever == UNCHANGED <<rtoTimer, timer>>   \* mutant: the old timer stays
resetRtoTimer == \E t \in Timers : NewTimer(t) /\ rtoTimer' = t

AfterCleanupMore == (-1)..(queue - 1)   \* mutant: Pop does not test for an empty queue
\* The lengths Cleanup may leave when it takes at least one entry.
AfterCleanup == 0..(queue - 1)

\* An acknowledgement that takes entries out of the queue: Cleanup and
\* resetRtoTimer.
HandleAck ==
    /\ ~crashed
    /\ status # "Closed"
    /\ queue' \in AfterCleanup
    /\ resetRtoTimer
    /\ UNCHANGED <<status, timeWaitTimer, rto, timeWait, writing, crashed, idled>>

\* Into TIME-WAIT: startTimeOutTimer.
EnterTimeWait ==
    /\ ~crashed
    /\ status = "Open"
    /\ rtoTimer # nil
    /\ status' = "TimeWait"
    /\ \E t \in Timers : NewTimer(t) /\ timeWaitTimer' = t
    /\ timeWait' = [pc |-> "eval", on |-> nil]
    /\ UNCHANGED <<rtoTimer, queue, rto, writing, crashed, idled>>

\* A FIN in TIME-WAIT: resetTimeWaitTimer.
ResetTimeWaitTimer ==
    /\ ~crashed
    /\ status = "TimeWait"
    /\ \E t \in Timers : NewTimer(t) /\ timeWaitTimer' = t
    /\ UNCHANGED <<status, rtoTimer, queue, rto, timeWait, writing, crashed, idled>>

closeDelete ==
    /\ status' = "Closed"
    /\ rtoTimer' = nil
    /\ timeWaitTimer' = nil
    /\ queue' = 0

\* closeDelete on a reset, in LAST-ACK, by VClose in SYN-SENT, or when VConnect
\* or VAccept gives up; the last two hold no lock.
Delete ==
    /\ ~crashed
    /\ status # "Closed"
    /\ rtoTimer # nil
    /\ closeDelete
    /\ UNCHANGED <<timer, rto, timeWait, writing, crashed, idled>>

-----------------------------------------------------------------------------
(* rtoTimeout                                                               *)

\* if conn.status == Closed { return }
RtoCheck(g) ==
    /\ ~crashed
    /\ rto[g].pc = "check"
    /\ rto' = [rto EXCEPT ![g] = IF status = "Closed" THEN Nowhere
                                                       ELSE [pc |-> "eval", on |-> nil]]
    /\ UNCHANGED <<status, pointers, queue, timeWait, writing, crashed, idled>>

\* conn.rtoTimer.C: the timer that is current now, a panic if there is none.
RtoEval(g) ==
    /\ ~crashed
    /\ rto[g].pc = "eval"
    /\ crashed' = (rtoTimer = nil)
    /\ rto' = [rto EXCEPT ![g] = [pc |-> "wait", on |-> rtoTimer]]
    /\ UNCHANGED <<status, pointers, queue, timeWait, writing, idled>>

\* <-conn.rtoTimer.C
RtoFired(g) ==
    /\ ~crashed
    /\ rto[g].pc = "wait"
    /\ timer[rto[g].on] = "fired"
    /\ timer' = [timer EXCEPT ![rto[g].on] = "drained"]
    /\ rto' = [rto EXCEPT ![g] = [pc |-> "items", on |-> nil]]
    /\ idled' = (idled \/ queue = 0)
    /\ UNCHANGED <<status, rtoTimer, timeWaitTimer, queue, timeWait, writing, crashed>>

SeveralItems == queue > 1   \* mutant: a single entry is not retransmitted
SomeItems == queue > 0

\* items := conn.queue.Items(); if len(items) > 0
RtoItems(g) ==
    /\ ~crashed
    /\ rto[g].pc = "items"
    /\ rto' = [rto EXCEPT ![g].pc = IF SomeItems THEN "peek" ELSE "check"]
    /\ UNCHANGED <<status, pointers, queue, timeWait, writing, crashed, idled>>

\* entry := conn.queue.Peek(), nil if the queue was emptied in between; the
\* segment is sent again.
RtoPeek(g) ==
    /\ ~crashed
    /\ rto[g].pc = "peek"
    /\ crashed' = (queue = 0)
    /\ rto' = [rto EXCEPT ![g].pc = "reset"]
    /\ UNCHANGED <<status, pointers, queue, timeWait, writing, idled>>

\* resetRtoTimer, and back to the head of the loop.
RtoReset(g) ==
    /\ ~crashed
    /\ rto[g].pc = "reset"
    /\ resetRtoTimer
    /\ rto' = [rto EXCEPT ![g].pc = "check"]
    /\ UNCHANGED <<status, timeWaitTimer, queue, timeWait, writing, crashed, idled>>

-----------------------------------------------------------------------------
(* timeWaitTimeout                                                          *)

TimeWaitEval ==
    /\ ~crashed
    /\ timeWait.pc = "eval"
    /\ crashed' = (timeWaitTimer = nil)
    /\ timeWait' = [pc |-> "wait", on |-> timeWaitTimer]
    /\ UNCHANGED <<status, pointers, queue, rto, writing, idled>>

TimeWaitFired ==
    /\ ~crashed
    /\ timeWait.pc = "wait"
    /\ timer[timeWait.on] = "fired"
    /\ timer' = [timer EXCEPT ![timeWait.on] = "drained"]
    /\ timeWait' = Nowhere
    /\ closeDelete
    /\ UNCHANGED <<rto, writing, crashed, idled>>

\* Time passes: a timer that somebody can see fires.
Fire(t) ==
    /\ ~crashed
    /\ t \in Referenced
    /\ timer[t] = "armed"
    /\ timer' = [timer EXCEPT ![t] = "fired"]
    /\ UNCHANGED <<status, rtoTimer, timeWaitTimer, queue, rto, timeWait, writing, crashed, idled>>

-----------------------------------------------------------------------------
RtoTimeout(g) ==
    \/ RtoCheck(g) \/ RtoEval(g) \/ RtoFired(g) \/ RtoItems(g) \/ RtoPeek(g) \/ RtoReset(g)

TimeWaitTimeout == TimeWaitEval \/ TimeWaitFired

Next ==
    \/ SendFlags \/ WriteTest \/ WriteSend
    \/ HandleAck \/ EnterTimeWait \/ ResetTimeWaitTimer \/ Delete
    \/ \E g \in Goroutines : RtoTimeout(g)
    \/ TimeWaitTimeout
    \/ \E t \in Timers : Fire(t)

\* Goroutines that can run do, and armed timers fire.  Neither peer nor user
\* has to do anything.
Spec ==
    /\ Init
    /\ [][Next]_vars
    /\ \A g \in Goroutines : WF_vars(RtoTimeout(g))
    /\ WF_vars(TimeWaitTimeout)
    /\ \A t \in Timers : WF_vars(Fire(t))
-----------------------------------------------------------------------------
(* Properties.                                                              *)

TypeOK ==
    /\ status \in {"Open", "TimeWait", "Closed"}
    /\ {rtoTimer, timeWaitTimer} \subseteq Timers \cup {nil}
    /\ timer \in [Timers -> {"armed", "fired", "drained"}]
    /\ queue \in 0..MaxQueue
    /\ rto \in [Goroutines -> [pc : {"none", "check", "eval", "wait", "items", "peek", "reset"},
                               on : Timers \cup {nil}]]
    /\ timeWait \in [pc : {"none", "eval", "wait"}, on : Timers \cup {nil}]
    /\ {writing, crashed, idled} \subseteq BOOLEAN

\* A connection that is not deleted has at most one goroutine that
\* retransmits, whatever replaces its timer; and if anything is in the queue it
\* has one.
OneRetransmitter ==
    status # "Closed" =>
        LET running == {g \in Goroutines : rto[g].pc # "none"}
        IN  /\ Cardinality(running) <= 1
            /\ queue > 0 => running # {}

\* The goroutine waits on a timer that was received from already.
Deaf == \E g \in Goroutines : rto[g].pc = "wait" /\ rto[g].on # nil
                              /\ timer[rto[g].on] = "drained"

\* An entry of the queue is retransmitted, unless the queue empties or the
\* connection is deleted first; the one exception is a connection that was idle
\* when its timer fired, whose goroutine waits on that timer ever after.
EntriesAreRetried ==
    (queue > 0 /\ status # "Closed") ~>
        \/ \E g \in Goroutines : rto[g].pc = "reset"
        \/ queue = 0
        \/ status = "Closed"
        \/ idled /\ Deaf
        \/ crashed

\* TIME-WAIT ends, however often its timer is replaced, and when the
\* connection is deleted its goroutines end, but for one that is deaf.
GoroutinesEnd ==
    (status # "Open") ~>
        \/ status = "Closed" /\ \A g \in Goroutines : rto[g].pc = "none"
        \/ idled /\ Deaf
        \/ crashed
=============================================================================
