-------------------------------- MODULE Host --------------------------------
(***************************************************************************)
(* The goroutines of one host that share its socket tables: a handler per  *)
(* packet, which holds Device.Mutex; listenPort, which loops over VAccept; *)
(* the TIME-WAIT goroutines; and the REPL with its commands ls and cl.     *)
(* ListenTable and ConnTable are written under Device.Mutex by some of     *)
(* them and without it by the others, and SocketIds, the numbers that the  *)
(* REPL gives to sockets, is not protected at all.                         *)
(*                                                                         *)
(* A handler blocks on an unbuffered channel with Device.Mutex held: on    *)
(* listenChannel until VAccept takes a SYN, on signalChannel until VAccept *)
(* learns that the connection is established.  A handler that waits for    *)
(* the mutex has done nothing yet: its packet may as well come when it     *)
(* gets the mutex, so that there is one handler at a time.                 *)
(*                                                                         *)
(* There is one listener.  What a connection does after it is established  *)
(* (TcpConn) is reduced to its end: the statuses between ESTABLISHED and   *)
(* TIME-WAIT are one, "Closing".  Go may notice that two goroutines use a  *)
(* map at a time and stop the program: nothing happens any more, which     *)
(* every behaviour of Spec may end with.                                   *)
(***************************************************************************)
EXTENDS Integers, FiniteSets

CONSTANTS Clients,      \* remote ends: the keys of accepted connections
          MaxSyns,      \* bound: SYNs that arrive, and so connections made
          MaxCommands,  \* bound: commands typed at the REPL
          Rounds        \* timers VAccept waits for (4 in the code)

ASSUME HostAssumption ==
    /\ IsFiniteSet(Clients)
    /\ MaxSyns \in Nat /\ MaxCommands \in Nat /\ Rounds \in Nat \ {0}

lnKey == "0.0.0.0"              \* the key of the listening socket
noOne == "none"                 \* nobody, no socket
NoId == -1
NoConn == 0
Conns == 1..MaxSyns
Sockets == Clients \cup {lnKey}
Ids == 0..(2 * Cardinality(Sockets))
ASSUME KeyAssumption == {lnKey, noOne} \cap Clients = {}

Updaters == {"accept", "repl"}  \* goroutines that call updataSocketIds

VARIABLES
    ListenTable,    \* the keys in it
    ConnTable,      \* the connection of each key, or NoConn
    status, keyOf,  \* of each connection object
    timeWait,       \* connections with a goroutine of timeWaitTimeout
    handler,        \* the handler that holds Device.Mutex: where it blocks
    accept,         \* the goroutine of listenPort
    repl,           \* the REPL
    IdToSocketKey, SocketKeyToId,
    update,         \* the calls of updataSocketIds
    syns, commands, \* how many there were
    crashed,        \* a panic ended the program
    returned,       \* history: connections VAccept has returned
    robbed          \* history: connections whose entry an earlier one deleted

tables == <<ListenTable, ConnTable, status, keyOf, timeWait>>
ids == <<IdToSocketKey, SocketKeyToId>>
vars == <<tables, handler, accept, repl, ids, update, syns, commands, crashed, returned, robbed>>

Idle == [pc |-> "idle", key |-> noOne, conn |-> NoConn]
NoUpdate == [pc |-> "idle", all |-> {}, new |-> [k \in Sockets |-> NoId], overlaps |-> FALSE]

Init ==
    /\ ListenTable = {}
    /\ ConnTable = [k \in Clients |-> NoConn]
    /\ status = [c \in Conns |-> "None"]
    /\ keyOf = [c \in Conns |-> noOne]
    /\ timeWait = {}
    /\ handler = Idle
    /\ accept = [pc |-> "listen", key |-> noOne, conn |-> NoConn, round |-> 0]
    /\ repl = [pc |-> "idle", id |-> NoId, conn |-> NoConn]
    /\ IdToSocketKey = [i \in Ids |-> noOne]
    /\ SocketKeyToId = [k \in Sockets |-> NoId]
    /\ update = [u \in Updaters |-> NoUpdate]
    /\ syns = 0
    /\ commands = 0
    /\ crashed = FALSE
    /\ returned = {}
    /\ robbed = {}

-----------------------------------------------------------------------------
(* Handler goroutines: from Device.Mutex.Lock to where they block or return *)

MutexFree == handler.pc = "idle"

closeDelete(c) ==
    /\ status' = [status EXCEPT ![c] = "Closed"]
    /\ ConnTable' = [ConnTable EXCEPT ![keyOf[c]] = NoConn]

\* mutant: the SYN is not looked up in ConnTable
IsForListenerAlways(k) == lnKey \in ListenTable
\* tcpHandler: no connection has the key, and there is a listener.
IsForListener(k) == ConnTable[k] = NoConn /\ lnKey \in ListenTable

\* handleListenState blocks with a SYN.  Clients are interchangeable: the
\* first SYN is that of a fixed one.
handleListenState(k) ==
    /\ ~crashed
    /\ MutexFree
    /\ syns < MaxSyns
    /\ syns = 0 => k = CHOOSE first \in Clients : TRUE
    /\ syns' = syns + 1
    /\ IsForListener(k)
    /\ handler' = [pc |-> "listen", key |-> k, conn |-> NoConn]
    /\ UNCHANGED <<tables, accept, repl, ids, update, commands, crashed, returned, robbed>>

\* tcpHandler finds c by the key of the packet.
Finds(c) == keyOf[c] # noOne /\ ConnTable[keyOf[c]] = c

\* handleOtherStates establishes the connection and blocks with the signal.
Establish(c) ==
    /\ ~crashed
    /\ MutexFree
    /\ Finds(c)
    /\ status[c] = "SynRecv"
    /\ status' = [status EXCEPT ![c] = "Established"]
    /\ handler' = [pc |-> "signal", key |-> keyOf[c], conn |-> c]
    /\ UNCHANGED <<ListenTable, ConnTable, keyOf, timeWait, accept, repl, ids, update, syns, commands, crashed, returned, robbed>>

\* handleFinOtherStates: the peer has closed too, and startTimeOutTimer
\* starts the goroutine that will delete the connection.
StartTimeOutTimer(c) ==
    /\ ~crashed
    /\ MutexFree
    /\ Finds(c)
    /\ status[c] = "Closing"
    /\ status' = [status EXCEPT ![c] = "TimeWait"]
    /\ timeWait' = timeWait \cup {c}
    /\ UNCHANGED <<ListenTable, ConnTable, keyOf, handler, accept, repl, ids, update, syns, commands, crashed, returned, robbed>>

\* handleOtherStates deletes the connection: an RST that is accepted, or an
\* ACK in LAST-ACK.
Reset(c) ==
    /\ ~crashed
    /\ MutexFree
    /\ Finds(c)
    /\ closeDelete(c)
    /\ UNCHANGED <<ListenTable, keyOf, timeWait, handler, accept, repl, ids, update, syns, commands, crashed, returned, robbed>>

-----------------------------------------------------------------------------
(* updataSocketIds                                                          *)

Open == ListenTable \cup {k \in Clients : ConnTable[k] # NoConn}

\* A call of updataSocketIds begins.
Begin(u) ==
    LET other == CHOOSE v \in Updaters : v # u
        busy == update[other].pc # "idle"
    IN  update' = [update EXCEPT ![u] = [NoUpdate EXCEPT !.pc = "scan", !.overlaps = busy],
                                 ![other].overlaps = @ \/ busy]

\* addAllSocketsToMap
addAllSocketsToMap(u) ==
    /\ ~crashed
    /\ update[u].pc = "scan"
    /\ update' = [update EXCEPT ![u].pc = "assign", ![u].all = Open]
    /\ UNCHANGED <<tables, handler, accept, repl, ids, syns, commands, crashed, returned, robbed>>

\* mutant: ids of sockets that stay are not copied
KeptNone(all) == [k \in Sockets |-> NoId]
Kept(all) == [k \in Sockets |-> IF k \in all THEN SocketKeyToId[k] ELSE NoId]

Used(map) == {map[k] : k \in Sockets} \ {NoId}

\* mutant: the search for an id takes the next number without looking
FreeIdNext(map, count) == count
FreeId(map, count) == CHOOSE i \in Ids : /\ i >= count /\ i \notin Used(map)
                                         /\ \A j \in Ids : j >= count /\ j \notin Used(map) => i <= j

\* One round of the second loop: a socket without an id gets one, and
\* count never goes back.
Number(s, k) ==
    LET id == FreeId(s.map, s.count)
    IN  [left |-> s.left \ {k},
         count |-> IF s.map[k] # NoId THEN s.count + 1 ELSE id + 1,
         map |-> IF s.map[k] # NoId THEN s.map ELSE [s.map EXCEPT ![k] = id]]

\* What the second loop may end with: range visits the sockets in any order.
Numbered(all, kept) ==
    LET after[n \in 0..Cardinality(all)] ==
            IF n = 0 THEN {[left |-> all, count |-> 0, map |-> kept]}
            ELSE UNION {{Number(s, k) : k \in s.left} : s \in after[n - 1]}
    IN  {s.map : s \in after[Cardinality(all)]}

Purged(u) == {k \in Sockets \ update[u].all : SocketKeyToId[k] # NoId}

\* The two loops: ids of closed sockets are deleted from both maps in
\* place, the others copied; then new sockets are numbered.
Assign(u) ==
    LET all == update[u].all
        gone == Purged(u)
    IN  /\ ~crashed
        /\ update[u].pc = "assign"
        /\ IdToSocketKey' = [i \in Ids |-> IF \E k \in gone : SocketKeyToId[k] = i
                                           THEN noOne ELSE IdToSocketKey[i]]
        /\ SocketKeyToId' = [k \in Sockets |-> IF k \in gone THEN NoId ELSE SocketKeyToId[k]]
        /\ \E new \in Numbered(all, Kept(all)) :
              update' = [update EXCEPT ![u].pc = "store", ![u].new = new]
        /\ UNCHANGED <<tables, handler, accept, repl, syns, commands, crashed, returned, robbed>>

Inverted(map) == [i \in Ids |-> IF i \in Used(map) THEN CHOOSE k \in Sockets : map[k] = i ELSE noOne]

\* socketIds.IdToSocketKey = newIdToSocketKey
StoreKeys(u) ==
    /\ ~crashed
    /\ update[u].pc = "store"
    /\ IdToSocketKey' = Inverted(update[u].new)
    /\ update' = [update EXCEPT ![u].pc = "store2"]
    /\ UNCHANGED <<tables, handler, accept, repl, SocketKeyToId, syns, commands, crashed, returned, robbed>>

\* socketIds.SocketKeyToId = newSocketKeyToId, and back in the caller
StoreIds(u) ==
    /\ ~crashed
    /\ update[u].pc = "store2"
    /\ SocketKeyToId' = update[u].new
    /\ update' = [update EXCEPT ![u] = NoUpdate]
    /\ \/ /\ u = "accept"
          /\ accept' = [accept EXCEPT !.pc = "recv", !.key = noOne, !.conn = NoConn, !.round = 0]
          /\ UNCHANGED repl
       \/ /\ u = "repl"
          /\ repl' = [repl EXCEPT !.pc = CASE repl.pc = "lsUpdate" -> "print"
                                           [] repl.pc = "clUpdate" -> "getListenSocket"
                                           [] OTHER -> "idle",
                                   !.id = IF repl.pc = "clUpdate" THEN @ ELSE NoId]
          /\ UNCHANGED accept
    /\ UNCHANGED <<tables, handler, IdToSocketKey, syns, commands, crashed, returned, robbed>>

-----------------------------------------------------------------------------
(* The goroutine of command a: VListen, then VAccept for ever               *)

VListen ==
    /\ ~crashed
    /\ accept.pc = "listen"
    /\ ListenTable' = {lnKey}
    /\ accept' = [accept EXCEPT !.pc = "update"]
    /\ Begin("accept")
    /\ UNCHANGED <<ConnTable, status, keyOf, timeWait, handler, repl, ids, syns, commands, crashed, returned, robbed>>

\* VAccept takes the SYN a handler is blocked with.
TakeSyn ==
    /\ ~crashed
    /\ handler.pc = "listen"
    /\ accept.pc = "recv"
    /\ accept' = [accept EXCEPT !.pc = "create", !.key = handler.key]
    /\ handler' = Idle
    /\ UNCHANGED <<tables, repl, ids, update, syns, commands, crashed, returned, robbed>>

\* mutant: listenPort returns where it should continue
AfterErrorReturn == [accept EXCEPT !.pc = "done", !.key = noOne, !.conn = NoConn, !.round = 0]
\* VAccept returned an error: listenPort calls it again.
AfterError == [accept EXCEPT !.pc = "recv", !.key = noOne, !.conn = NoConn, !.round = 0]

\* The connection is made and put into ConnTable, and the SYN+ACK is sent;
\* when sending fails (interface down) VAccept returns and leaves it there.
Create ==
    LET c == CHOOSE d \in Conns : status[d] = "None" /\ \A e \in Conns : status[e] = "None" => d <= e
    IN  /\ ~crashed
        /\ accept.pc = "create"
        /\ status' = [status EXCEPT ![c] = "SynRecv"]
        /\ keyOf' = [keyOf EXCEPT ![c] = accept.key]
        /\ ConnTable' = [ConnTable EXCEPT ![accept.key] = c]
        /\ \/ accept' = [accept EXCEPT !.pc = "wait", !.conn = c]
           \/ accept' = AfterError
        /\ UNCHANGED <<ListenTable, timeWait, handler, repl, ids, update, syns, commands, crashed, returned, robbed>>

\* VAccept receives the signal and returns the connection to listenPort.
Signal ==
    /\ ~crashed
    /\ handler.pc = "signal"
    /\ accept.pc = "wait"
    /\ accept.conn = handler.conn
    /\ accept' = [accept EXCEPT !.pc = "update"]
    /\ Begin("accept")
    /\ handler' = Idle
    /\ returned' = returned \cup {accept.conn}
    /\ UNCHANGED <<tables, repl, ids, syns, commands, crashed, robbed>>

\* mutant: the loop goes on once too often
LastRoundLate == accept.round = Rounds
LastRound == accept.round = Rounds - 1

\* A timer of VAccept fires; after the last one it gives the connection up,
\* without Device.Mutex.
Timeout ==
    /\ ~crashed
    /\ accept.pc = "wait"
    /\ \/ /\ ~LastRound
          /\ accept' = [accept EXCEPT !.round = @ + 1]
          /\ UNCHANGED tables
       \/ /\ LastRound
          /\ accept' = AfterError
          /\ closeDelete(accept.conn)
          /\ UNCHANGED <<ListenTable, keyOf, timeWait>>
    /\ UNCHANGED <<handler, repl, ids, update, syns, commands, crashed, returned, robbed>>

\* timeWaitTimeout deletes the entry of its connection's key, whosever it
\* is: the goroutine outlives a reset in TIME-WAIT.
TimeWaitTimeout(c) ==
    /\ ~crashed
    /\ c \in timeWait
    /\ timeWait' = timeWait \ {c}
    /\ closeDelete(c)
    /\ robbed' = robbed \cup ({ConnTable[keyOf[c]]} \ {c, NoConn})
    /\ UNCHANGED <<ListenTable, keyOf, handler, accept, repl, ids, update, syns, commands, crashed, returned>>

-----------------------------------------------------------------------------
(* The REPL                                                                 *)

\* ls
ListSockets ==
    /\ ~crashed
    /\ repl.pc = "idle"
    /\ commands < MaxCommands
    /\ commands' = commands + 1
    /\ repl' = [repl EXCEPT !.pc = "lsUpdate"]
    /\ Begin("repl")
    /\ UNCHANGED <<tables, handler, accept, ids, syns, crashed, returned, robbed>>

\* ls prints every id; a socket that closed since the update is a nil
\* pointer.
PrintSockets ==
    /\ ~crashed
    /\ repl.pc = "print"
    /\ repl' = [repl EXCEPT !.pc = "idle"]
    /\ crashed' = ~({IdToSocketKey[i] : i \in Ids} \ {noOne} \subseteq Open)
    /\ UNCHANGED <<tables, handler, accept, ids, update, syns, commands, returned, robbed>>

\* cl: getSocket; an id no socket has is only an error message.
CloseSocket(i) ==
    LET k == IdToSocketKey[i]
    IN  /\ ~crashed
        /\ repl.pc = "idle"
        /\ commands < MaxCommands
        /\ commands' = commands + 1
        /\ k # noOne
        /\ repl' = IF k \in Clients /\ ConnTable[k] # NoConn
                   THEN [pc |-> "close", id |-> i, conn |-> ConnTable[k]]
                   ELSE [pc |-> "getListenSocket", id |-> i, conn |-> NoConn]
        /\ UNCHANGED <<tables, handler, accept, ids, update, syns, crashed, returned, robbed>>

\* conn.VClose, which waits for the connection's own mutex (a handler that
\* signals holds it).  In FIN-WAIT-2 and TIME-WAIT it is an error, and so is a
\* FIN that cannot be sent, after the status has changed.
VClose ==
    /\ ~crashed
    /\ repl.pc = "close"
    /\ ~(handler.pc = "signal" /\ handler.conn = repl.conn)
    /\ \/ /\ status[repl.conn] # "TimeWait"
          /\ status' = [status EXCEPT ![repl.conn] = "Closing"]
          /\ repl' = [repl EXCEPT !.pc = "clUpdate", !.conn = NoConn]
          /\ Begin("repl")
       \/ /\ status' = [status EXCEPT ![repl.conn] = IF @ = "TimeWait" THEN @ ELSE "Closing"]
          /\ repl' = [repl EXCEPT !.pc = "idle", !.id = NoId, !.conn = NoConn]
          /\ UNCHANGED update
    /\ UNCHANGED <<ListenTable, ConnTable, keyOf, timeWait, handler, accept, ids, syns, commands, crashed, returned, robbed>>

\* cl looks the same id up again, now as a listening socket.
getListenSocket ==
    /\ ~crashed
    /\ repl.pc = "getListenSocket"
    /\ repl' = [repl EXCEPT !.pc = IF IdToSocketKey[repl.id] \in ListenTable THEN "closeListener" ELSE "idle",
                            !.id = NoId]
    /\ UNCHANGED <<tables, handler, accept, ids, update, syns, commands, crashed, returned, robbed>>

\* ln.VClose under Device.Mutex
CloseListener ==
    /\ ~crashed
    /\ repl.pc = "closeListener"
    /\ MutexFree
    /\ ListenTable' = {}
    /\ repl' = [repl EXCEPT !.pc = "clUpdate2"]
    /\ Begin("repl")
    /\ UNCHANGED <<ConnTable, status, keyOf, timeWait, handler, accept, ids, syns, commands, crashed, returned, robbed>>

-----------------------------------------------------------------------------
Next ==
    \/ \E k \in Clients : handleListenState(k)
    \/ \E c \in Conns : Establish(c) \/ StartTimeOutTimer(c) \/ Reset(c) \/ TimeWaitTimeout(c)
    \/ \E u \in Updaters : addAllSocketsToMap(u) \/ Assign(u) \/ StoreKeys(u) \/ StoreIds(u)
    \/ VListen \/ TakeSyn \/ Create \/ Signal \/ Timeout
    \/ ListSockets \/ PrintSockets \/ VClose \/ getListenSocket \/ CloseListener
    \/ \E i \in Ids : CloseSocket(i)

Spec == Init /\ [][Next]_vars

\* The goroutine of listenPort, which nothing but its channels blocks,
\* keeps running; the others need not.
ListenPortStep ==
    \/ VListen \/ TakeSyn \/ Create \/ Signal \/ Timeout
    \/ addAllSocketsToMap("accept") \/ StoreKeys("accept") \/ StoreIds("accept") \/ Assign("accept")

Fairness == WF_vars(ListenPortStep)

FairSpec == Spec /\ Fairness

-----------------------------------------------------------------------------
(* Properties                                                               *)

TypeOK ==
    /\ ListenTable \subseteq {lnKey}
    /\ ConnTable \in [Clients -> Conns \cup {NoConn}]
    /\ status \in [Conns -> {"None", "SynRecv", "Established", "Closing", "TimeWait", "Closed"}]
    /\ timeWait \subseteq Conns
    /\ keyOf \in [Conns -> Clients \cup {noOne}]
    /\ IdToSocketKey \in [Ids -> Sockets \cup {noOne}]
    /\ SocketKeyToId \in [Sockets -> Ids \cup {NoId}]
    /\ accept.round \in 0..(Rounds - 1)
    /\ accept.conn \in Conns \cup {NoConn}
    /\ handler.pc = "signal" => handler.conn \in Conns
    /\ crashed \in BOOLEAN

\* An established connection that VAccept has returned can be reached by
\* its packets: VAccept, which stores a connection without Device.Mutex
\* after the handler looked its key up with it, never stores one over it,
\* and nobody deletes its entry but the TIME-WAIT goroutine of an earlier
\* connection with the same key that a reset had ended.
EstablishedReachable ==
    \A c \in returned \ robbed : status[c] = "Established" => Finds(c)

\* No two sockets ever have the same id, whatever calls of updataSocketIds
\* overlap: the command of a user reaches one socket.
IdsUnique ==
    \A j, k \in Sockets : j # k /\ SocketKeyToId[j] # NoId => SocketKeyToId[j] # SocketKeyToId[k]

\* A socket that a call of updataSocketIds finds in the tables keeps the id
\* it has, unless another call overlaps.
IdStable ==
    [][\A u \in Updaters, k \in Sockets :
          update[u].pc = "store2" /\ ~update[u].overlaps /\ update'[u].pc = "idle"
              /\ k \in update[u].all /\ SocketKeyToId[k] # NoId
          => SocketKeyToId'[k] = SocketKeyToId[k]]_vars

\* A handler that signals a connection nobody waits for any more.
Orphaned == handler.pc = "signal" /\ ~(accept.pc = "wait" /\ accept.conn = handler.conn)

\* Device.Mutex is released by every handler, or the handler signals a
\* connection that VAccept has given up (or left after a failed send), or
\* ls has ended the program.
MutexReleased == []<>(MutexFree \/ Orphaned \/ crashed)
=============================================================================
