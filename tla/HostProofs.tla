----------------------------- MODULE HostProofs -----------------------------
(***************************************************************************)
(* Proofs about Host, for every set of clients, every number of SYNs and   *)
(* commands and every number of rounds of VAccept.                         *)
(***************************************************************************)
EXTENDS Host, FiniteSetTheorems, WellFoundedInduction, TLAPS

LEMMA Distinct ==
    /\ lnKey \notin Clients /\ noOne \notin Clients /\ lnKey # noOne
    /\ NoConn \notin Conns /\ NoId \notin Ids
    /\ noOne \notin Sockets /\ Clients \subseteq Sockets
    /\ Conns \subseteq Nat /\ Ids \subseteq Nat
<1>1. lnKey \notin Clients /\ noOne \notin Clients /\ lnKey # noOne /\ Clients \subseteq Sockets
  BY KeyAssumption DEF lnKey, noOne, Sockets
<1>2. noOne \notin Sockets
  BY <1>1 DEF Sockets
<1>3. NoConn \notin Conns /\ NoId \notin Ids /\ Conns \subseteq Nat /\ Ids \subseteq Nat
  BY DEF NoConn, Conns, NoId, Ids
<1> QED
  BY <1>1, <1>2, <1>3

-----------------------------------------------------------------------------
(* The connections.                                                         *)

TableTypes ==
    /\ ListenTable \subseteq {lnKey}
    /\ ConnTable \in [Clients -> Conns \cup {NoConn}]
    /\ status \in [Conns -> {"None", "SynRecv", "Established", "Closing", "TimeWait", "Closed"}]
    /\ timeWait \subseteq Conns
    /\ keyOf \in [Conns -> Clients \cup {noOne}]
    /\ handler \in [pc : {"idle", "listen", "signal"}, key : Clients \cup {noOne},
                    conn : Conns \cup {NoConn}]
    /\ handler.pc = "signal" => handler.conn \in Conns
    /\ accept \in [pc : {"listen", "recv", "create", "wait", "update"}, key : Clients \cup {noOne},
                   conn : Conns \cup {NoConn}, round : 0..(Rounds - 1)]
    /\ repl \in [pc : {"idle", "lsUpdate", "print", "close", "clUpdate", "getListenSocket",
                       "closeListener", "clUpdate2"},
                 id : Ids \cup {NoId}, conn : Conns \cup {NoConn}]
    /\ syns \in 0..MaxSyns
    /\ returned \subseteq Conns

\* Whoever refers to a connection refers to one that was made, the entry of
\* a key is a connection with that key, and nobody stores another one over
\* the connection that VAccept waits for.
Owners ==
    /\ \A c \in returned \cup timeWait : status[c] # "None"
    /\ \A k \in Clients : ConnTable[k] # NoConn =>
          status[ConnTable[k]] # "None" /\ keyOf[ConnTable[k]] = k
    /\ accept.pc = "wait" =>
          /\ accept.conn \in Conns /\ status[accept.conn] # "None"
          /\ keyOf[accept.conn] \in Clients
          /\ ConnTable[keyOf[accept.conn]] \in {accept.conn, NoConn}
    /\ repl.pc = "close" => repl.conn \in Conns /\ status[repl.conn] # "None"

\* A SYN on its way to VAccept is not that of a connection VAccept has
\* returned: between the lookup in tcpHandler and the store in VAccept no
\* other connection can have been accepted.
Pending ==
    /\ accept.pc = "create" => accept.key \in Clients /\ ConnTable[accept.key] \notin returned
    /\ handler.pc = "listen" => handler.key \in Clients /\ ConnTable[handler.key] \notin returned

\* The same as EstablishedReachable while VAccept waits for the signal.
Reachable ==
    \A c \in Conns \ robbed :
       (c \in returned \/ (accept.pc = "wait" /\ accept.conn = c)) /\ status[c] = "Established"
       => Finds(c)

\* SYNs that are not connections yet.
Waiting == (IF accept.pc = "create" THEN 1 ELSE 0) + (IF handler.pc = "listen" THEN 1 ELSE 0)

\* There is a connection object for every SYN.
Counted ==
    \E n \in Nat : /\ \A c \in Conns : status[c] = "None" <=> c > n
                   /\ n + Waiting <= syns

TablesOK == TableTypes /\ Owners /\ Pending /\ Reachable /\ Counted

LEMMA TablesInit == Init => TablesOK
<1> SUFFICES ASSUME Init PROVE TablesOK
  OBVIOUS
<1> USE Distinct, HostAssumption
<1>1. TableTypes
  BY DEF Init, TableTypes, Idle
<1>2. Owners /\ Pending
  BY DEF Init, Owners, Pending, Idle
<1>3. Reachable
  BY DEF Init, Reachable
<1>4. Counted
  <2>1. Waiting = 0
    BY DEF Init, Waiting, Idle
  <2>2. \A c \in Conns : status[c] = "None" <=> c > 0
    BY DEF Init, Conns
  <2> QED
    BY <2>1, <2>2 DEF Init, Counted
<1> QED
  BY <1>1, <1>2, <1>3, <1>4 DEF TablesOK

\* Statuses change and no connection is made.
SameMade == \A c \in Conns : status'[c] = "None" <=> status[c] = "None"

LEMMA CountedKeeps ==
    ASSUME TablesOK, SameMade, Waiting' \in Nat, syns' \in Nat,
           Waiting' - Waiting <= syns' - syns
    PROVE  Counted'
<1>1. PICK n \in Nat : /\ \A c \in Conns : status[c] = "None" <=> c > n
                       /\ n + Waiting <= syns
  BY DEF TablesOK, Counted
<1>2. Waiting \in Nat /\ syns \in Nat
  BY DEF TablesOK, TableTypes, Waiting
<1>3. n + Waiting' <= syns'
  <2>1. ASSUME NEW w \in Nat, NEW v \in Nat, NEW x \in Nat, NEW y \in Nat,
               n + w <= x, v - w <= y - x
        PROVE  n + v <= y
    BY <2>1
  <2> QED
    BY <1>1, <1>2, <2>1
<1>4. \A c \in Conns : status'[c] = "None" <=> c > n
  BY <1>1 DEF SameMade
<1> QED
  BY <1>3, <1>4 DEF Counted

\* closeDelete deletes the entry of the connection's key: its own, or
\* nobody's, or that of one which is robbed by it.
LEMMA DeleteKeeps ==
    ASSUME TablesOK, NEW c \in Conns, status[c] # "None", closeDelete(c), TableTypes',
           timeWait' \subseteq timeWait, robbed \subseteq robbed',
           \A d \in Conns : keyOf[c] \in Clients /\ ConnTable[keyOf[c]] = d => d = c \/ d \in robbed',
           UNCHANGED <<keyOf, handler, repl, returned, syns>>,
           accept' = accept \/ accept' = AfterError
    PROVE  TablesOK'
<1> USE Distinct
<1>1. /\ status' = [status EXCEPT ![c] = "Closed"]
      /\ ConnTable' = [ConnTable EXCEPT ![keyOf[c]] = NoConn]
  BY DEF closeDelete
<1>2. /\ \A k \in Clients : ConnTable'[k] = IF k = keyOf[c] THEN NoConn ELSE ConnTable[k]
      /\ \A d \in Conns : status'[d] = IF d = c THEN "Closed" ELSE status[d]
      /\ SameMade
  BY <1>1 DEF TablesOK, TableTypes, SameMade
<1>3. AfterError.pc = "recv"
  <2>1. accept \in [pc : {"listen", "recv", "create", "wait", "update"}, key : Clients \cup {noOne},
                    conn : Conns \cup {NoConn}, round : 0..(Rounds - 1)]
    BY DEF TablesOK, TableTypes
  <2> QED
    BY <2>1 DEF AfterError
<1>4. accept'.pc \in {"wait", "create"} => accept' = accept
  BY <1>3
<1>5. Owners'
  <2>1. /\ \A d \in returned' \cup timeWait' : status'[d] # "None"
        /\ repl'.pc = "close" => repl'.conn \in Conns /\ status'[repl'.conn] # "None"
    BY <1>2 DEF TablesOK, TableTypes, Owners, SameMade
  <2>2. ASSUME NEW k \in Clients, ConnTable'[k] # NoConn
        PROVE  status'[ConnTable'[k]] # "None" /\ keyOf'[ConnTable'[k]] = k
    <3>1. ConnTable'[k] = ConnTable[k] /\ ConnTable[k] \in Conns
      BY <1>2, <2>2 DEF TablesOK, TableTypes
    <3> QED
      BY <1>2, <2>2, <3>1 DEF TablesOK, Owners, SameMade
  <2>3. ASSUME accept'.pc = "wait"
        PROVE  /\ accept'.conn \in Conns /\ status'[accept'.conn] # "None"
               /\ keyOf'[accept'.conn] \in Clients
               /\ ConnTable'[keyOf'[accept'.conn]] \in {accept'.conn, NoConn}
    BY <1>2, <1>4, <2>3 DEF TablesOK, Owners, SameMade
  <2> QED
    BY <2>1, <2>2, <2>3 DEF Owners
<1>6. Pending'
  <2>1. NoConn \notin returned /\ returned' = returned
    BY DEF TablesOK, TableTypes
  <2> QED
    BY <1>2, <1>4, <2>1 DEF TablesOK, Pending
<1>7. Reachable'
  <2> SUFFICES ASSUME NEW d \in Conns \ robbed', status'[d] = "Established",
                      d \in returned \/ (accept.pc = "wait" /\ accept.conn = d)
               PROVE  Finds(d)'
    BY <1>4 DEF Reachable
  <2>1. d # c /\ status[d] = "Established"
    BY <1>2
  <2>2. Finds(d)
    BY <2>1 DEF TablesOK, Reachable
  <2>3. keyOf[d] \in Clients /\ ConnTable[keyOf[d]] = d
    BY <2>2 DEF Finds, TablesOK, TableTypes
  <2>4. keyOf[d] # keyOf[c]
    BY <2>1, <2>3
  <2> QED
    BY <1>2, <2>3, <2>4 DEF Finds
<1>8. Counted'
  <2>1. Waiting' <= Waiting /\ Waiting \in Nat /\ Waiting' \in Nat
    BY <1>4 DEF Waiting
  <2>2. syns' = syns /\ syns \in Nat
    BY DEF TablesOK, TableTypes
  <2>3. ASSUME NEW w \in Nat, NEW v \in Nat, NEW x \in Nat, v <= w
        PROVE  v - w <= x - x
    BY <2>3
  <2>4. Waiting' - Waiting <= syns' - syns
    BY <2>1, <2>2, <2>3
  <2> QED
    BY <1>2, <2>1, <2>2, <2>4, CountedKeeps
<1> QED
  BY <1>5, <1>6, <1>7, <1>8 DEF TablesOK

\* A connection that is made already changes its status.
LEMMA StatusKeeps ==
    ASSUME TablesOK, NEW c \in Conns, NEW s, s # "None", status[c] # "None",
           status' = [status EXCEPT ![c] = s],
           s = "Established" => Finds(c),
           TableTypes', timeWait' \subseteq timeWait \cup {c},
           UNCHANGED <<ConnTable, keyOf, accept, returned, robbed, syns>>,
           handler'.pc = "listen" => handler' = handler,
           repl'.pc = "close" => repl' = repl
    PROVE  TablesOK'
<1> USE Distinct
<1>1. /\ \A d \in Conns : status'[d] = IF d = c THEN s ELSE status[d]
      /\ SameMade
  BY DEF TablesOK, TableTypes, SameMade
<1>2. Owners'
  BY <1>1 DEF TablesOK, TableTypes, Owners, SameMade
<1>3. Pending'
  BY DEF TablesOK, Pending
<1>4. Reachable'
  BY <1>1 DEF TablesOK, Reachable, Finds
<1>5. Counted'
  <2>1. Waiting' <= Waiting /\ Waiting \in Nat /\ Waiting' \in Nat
    BY DEF Waiting
  <2>2. syns' = syns /\ syns \in Nat
    BY DEF TablesOK, TableTypes
  <2>3. ASSUME NEW w \in Nat, NEW v \in Nat, NEW x \in Nat, v <= w
        PROVE  v - w <= x - x
    BY <2>3
  <2>4. Waiting' - Waiting <= syns' - syns
    BY <2>1, <2>2, <2>3
  <2> QED
    BY <1>1, <2>1, <2>2, <2>4, CountedKeeps
<1> QED
  BY <1>2, <1>3, <1>4, <1>5 DEF TablesOK

\* Goroutines move on, and the tables stay.
LEMMA ControlKeeps ==
    ASSUME TablesOK, TableTypes',
           UNCHANGED <<ConnTable, status, keyOf, timeWait, robbed>>,
           accept'.pc = "wait" => accept.pc = "wait" /\ accept'.conn = accept.conn,
           repl'.pc = "close" => repl'.conn \in Conns /\ status[repl'.conn] # "None",
           returned' = returned \/ (accept.pc = "wait" /\ returned' = returned \cup {accept.conn}),
           Pending', Waiting' - Waiting <= syns' - syns
    PROVE  TablesOK'
<1>1. Owners'
  BY DEF TablesOK, TableTypes, Owners
<1>2. Reachable'
  BY DEF TablesOK, Reachable, Finds
<1>3. Counted'
  <2>1. Waiting' \in Nat /\ syns' \in Nat /\ SameMade
    BY DEF Waiting, TableTypes, SameMade
  <2> QED
    BY <2>1, CountedKeeps
<1> QED
  BY <1>1, <1>2, <1>3 DEF TablesOK

-----------------------------------------------------------------------------
(* What the actions do to the tables.                                       *)

LEMMA HandleListenTables ==
    ASSUME TablesOK, NEW k \in Clients, handleListenState(k)
    PROVE  TablesOK'
<1> USE Distinct
<1>1. /\ syns < MaxSyns /\ syns' = syns + 1 /\ handler.pc = "idle" /\ ConnTable[k] = NoConn
      /\ handler' = [pc |-> "listen", key |-> k, conn |-> NoConn]
      /\ UNCHANGED <<ListenTable, ConnTable, status, keyOf, timeWait, accept, repl, returned, robbed>>
  BY DEF handleListenState, MutexFree, IsForListener, tables
<1>2. syns \in Nat /\ syns' \in 0..MaxSyns
  BY <1>1, HostAssumption DEF TablesOK, TableTypes
<1>3. TableTypes'
  BY <1>1, <1>2 DEF TablesOK, TableTypes
<1>4. Pending'
  BY <1>1 DEF TablesOK, Pending, TableTypes
<1>5. Waiting' - Waiting <= syns' - syns
  BY <1>1, <1>2 DEF Waiting
<1> QED
  BY <1>1, <1>3, <1>4, <1>5, ControlKeeps DEF TablesOK, Owners

LEMMA FoundIsMade ==
    ASSUME TablesOK, NEW c \in Conns, Finds(c)
    PROVE  status[c] # "None" /\ keyOf[c] \in Clients /\ ConnTable[keyOf[c]] = c
  BY Distinct DEF TablesOK, TableTypes, Owners, Finds

LEMMA EstablishTables ==
    ASSUME TablesOK, NEW c \in Conns, Establish(c)
    PROVE  TablesOK'
<1>1. /\ Finds(c) /\ status[c] # "None" /\ status' = [status EXCEPT ![c] = "Established"]
      /\ handler' = [pc |-> "signal", key |-> keyOf[c], conn |-> c]
      /\ UNCHANGED <<ListenTable, ConnTable, keyOf, timeWait, accept, repl, syns, returned, robbed>>
  BY DEF Establish
<1>2. TableTypes'
  BY <1>1 DEF TablesOK, TableTypes
<1> QED
  BY <1>1, <1>2, StatusKeeps

LEMMA StartTimeOutTables ==
    ASSUME TablesOK, NEW c \in Conns, StartTimeOutTimer(c)
    PROVE  TablesOK'
<1>1. /\ status[c] # "None" /\ status' = [status EXCEPT ![c] = "TimeWait"]
      /\ timeWait' = timeWait \cup {c}
      /\ UNCHANGED <<ListenTable, ConnTable, keyOf, handler, accept, repl, syns, returned, robbed>>
  BY DEF StartTimeOutTimer
<1>2. TableTypes'
  BY <1>1 DEF TablesOK, TableTypes
<1> QED
  BY <1>1, <1>2, StatusKeeps

AcceptStates ==
    [pc : {"listen", "recv", "create", "wait", "update"}, key : Clients \cup {noOne},
     conn : Conns \cup {NoConn}, round : 0..(Rounds - 1)]

LEMMA AfterErrorType ==
    ASSUME TablesOK
    PROVE  AfterError \in AcceptStates /\ AfterError.pc = "recv"
<1>1. 0 \in 0..(Rounds - 1)
  BY HostAssumption
<1>2. accept \in AcceptStates
  BY DEF TablesOK, TableTypes, AcceptStates
<1>3. AfterError \in AcceptStates
  <2>1. ASSUME NEW P, NEW K, NEW C, NEW R, NEW a \in [pc : P, key : K, conn : C, round : R],
               NEW p \in P, NEW k \in K, NEW c \in C, NEW r \in R
        PROVE  [a EXCEPT !.pc = p, !.key = k, !.conn = c, !.round = r]
                  \in [pc : P, key : K, conn : C, round : R]
    OBVIOUS
  <2>2. "recv" \in {"listen", "recv", "create", "wait", "update"}
    OBVIOUS
  <2> QED
    BY <1>1, <1>2, <2>1, <2>2, Zenon DEF AfterError, AcceptStates
<1>4. AfterError.pc = "recv"
  BY <1>2 DEF AfterError, AcceptStates
<1> QED
  BY <1>3, <1>4

LEMMA DeleteTypes ==
    ASSUME TablesOK, NEW c \in Conns, closeDelete(c), timeWait' \subseteq timeWait,
           UNCHANGED <<ListenTable, keyOf, handler, repl, syns, returned>>,
           accept' = accept \/ accept' = AfterError
    PROVE  TableTypes'
<1>1. accept' \in [pc : {"listen", "recv", "create", "wait", "update"}, key : Clients \cup {noOne},
                   conn : Conns \cup {NoConn}, round : 0..(Rounds - 1)]
  BY AfterErrorType DEF TablesOK, TableTypes, AcceptStates
<1>2. /\ status' \in [Conns -> {"None", "SynRecv", "Established", "Closing", "TimeWait", "Closed"}]
      /\ ConnTable' \in [Clients -> Conns \cup {NoConn}]
  BY DEF TablesOK, TableTypes, closeDelete
<1> QED
  BY <1>1, <1>2 DEF TablesOK, TableTypes

LEMMA ResetTables ==
    ASSUME TablesOK, NEW c \in Conns, Reset(c)
    PROVE  TablesOK'
<1>1. /\ Finds(c) /\ closeDelete(c)
      /\ UNCHANGED <<ListenTable, keyOf, timeWait, handler, accept, repl, syns, returned, robbed>>
  BY DEF Reset
<1>2. TableTypes'
  BY <1>1, DeleteTypes
<1>3. \A d \in Conns : keyOf[c] \in Clients /\ ConnTable[keyOf[c]] = d => d = c \/ d \in robbed'
  BY <1>1, FoundIsMade
<1> QED
  BY <1>1, <1>2, <1>3, FoundIsMade, DeleteKeeps

LEMMA TimeWaitTables ==
    ASSUME TablesOK, NEW c \in Conns, TimeWaitTimeout(c)
    PROVE  TablesOK'
<1>1. /\ c \in timeWait /\ timeWait' = timeWait \ {c} /\ closeDelete(c)
      /\ robbed' = robbed \cup ({ConnTable[keyOf[c]]} \ {c, NoConn})
      /\ UNCHANGED <<ListenTable, keyOf, handler, accept, repl, syns, returned>>
  BY DEF TimeWaitTimeout
<1>2. TableTypes'
  BY <1>1, DeleteTypes
<1>3. \A d \in Conns : keyOf[c] \in Clients /\ ConnTable[keyOf[c]] = d => d = c \/ d \in robbed'
  BY <1>1, Distinct
<1>4. status[c] # "None"
  BY <1>1 DEF TablesOK, Owners
<1> QED
  BY <1>1, <1>2, <1>3, <1>4, DeleteKeeps

LEMMA TimeoutTables ==
    ASSUME TablesOK, Timeout
    PROVE  TablesOK'
<1> DEFINE c == accept.conn
<1>1. /\ accept.pc = "wait"
      /\ UNCHANGED <<handler, repl, syns, returned, robbed>>
  BY DEF Timeout
<1>2. CASE ~LastRound /\ accept' = [accept EXCEPT !.round = @ + 1] /\ UNCHANGED tables
  <2>1. accept \in [pc : {"listen", "recv", "create", "wait", "update"}, key : Clients \cup {noOne},
                   conn : Conns \cup {NoConn}, round : 0..(Rounds - 1)]
    BY DEF TablesOK, TableTypes
  <2>2. accept.round + 1 \in 0..(Rounds - 1)
    BY <1>2, <2>1, HostAssumption DEF LastRound
  <2>3. /\ accept' \in [pc : {"listen", "recv", "create", "wait", "update"}, key : Clients \cup {noOne},
                        conn : Conns \cup {NoConn}, round : 0..(Rounds - 1)]
        /\ accept'.pc = "wait" /\ accept'.conn = accept.conn
    BY <1>1, <1>2, <2>1, <2>2
  <2>4. UNCHANGED <<ListenTable, ConnTable, status, keyOf, timeWait>>
    BY <1>2 DEF tables
  <2>5. TableTypes'
    BY <1>1, <2>3, <2>4 DEF TablesOK, TableTypes
  <2>6. Pending'
    BY <1>1, <2>3, <2>4 DEF TablesOK, Pending
  <2>7. Waiting' = Waiting /\ syns' = syns /\ syns \in Nat /\ Waiting \in Nat
    BY <1>1, <2>3 DEF Waiting, TablesOK, TableTypes
  <2>8. Waiting' - Waiting <= syns' - syns
    BY <2>7
  <2> QED
    BY <1>1, <2>3, <2>4, <2>5, <2>6, <2>8, ControlKeeps DEF TablesOK, Owners
<1>3. CASE accept' = AfterError /\ closeDelete(c) /\ UNCHANGED <<ListenTable, keyOf, timeWait>>
  <2>1. c \in Conns /\ status[c] # "None" /\ ConnTable[keyOf[c]] \in {c, NoConn}
    BY <1>1 DEF TablesOK, Owners
  <2>2. TableTypes'
    BY <1>1, <1>3, <2>1, DeleteTypes
  <2> QED
    BY <1>1, <1>3, <2>1, <2>2, Distinct, DeleteKeeps
<1> QED
  BY <1>2, <1>3 DEF Timeout

LEMMA VCloseTables ==
    ASSUME TablesOK, VClose
    PROVE  TablesOK'
<1> DEFINE c == repl.conn
<1>1. /\ c \in Conns /\ status[c] # "None"
      /\ UNCHANGED <<ListenTable, ConnTable, keyOf, timeWait, handler, accept, syns, returned, robbed>>
  BY DEF VClose, TablesOK, Owners
<1>2. PICK s \in {"Closing", "TimeWait"} : status' = [status EXCEPT ![c] = s]
  BY DEF VClose
<1>3. /\ repl' \in [pc : {"idle", "lsUpdate", "print", "close", "clUpdate", "getListenSocket",
                       "closeListener", "clUpdate2"},
                 id : Ids \cup {NoId}, conn : Conns \cup {NoConn}]
      /\ repl'.pc # "close"
  BY DEF VClose, TablesOK, TableTypes
<1>4. TableTypes'
  BY <1>1, <1>2, <1>3 DEF TablesOK, TableTypes
<1> QED
  BY <1>1, <1>2, <1>3, <1>4, StatusKeeps

LEMMA CreateTables ==
    ASSUME TablesOK, Create
    PROVE  TablesOK'
<1> USE Distinct
<1> DEFINE least(d) == status[d] = "None" /\ \A e \in Conns : status[e] = "None" => d <= e
<1> DEFINE c == CHOOSE d \in Conns : least(d)
<1>1. /\ accept.pc = "create"
      /\ status' = [status EXCEPT ![c] = "SynRecv"]
      /\ keyOf' = [keyOf EXCEPT ![c] = accept.key]
      /\ ConnTable' = [ConnTable EXCEPT ![accept.key] = c]
      /\ accept' = [accept EXCEPT !.pc = "wait", !.conn = c] \/ accept' = AfterError
      /\ UNCHANGED <<ListenTable, timeWait, handler, repl, syns, returned, robbed>>
  BY DEF Create
<1>2. PICK n \in Nat : /\ \A d \in Conns : status[d] = "None" <=> d > n
                       /\ n + Waiting <= syns
  BY DEF TablesOK, Counted
<1>3. n + 1 \in Conns /\ n + Waiting <= syns /\ Waiting \in Nat /\ syns \in Nat
  BY <1>1, <1>2, HostAssumption DEF Waiting, Conns, TablesOK, TableTypes
<1>4. least(n + 1)
  BY <1>2, <1>3
<1>5. \A d \in Conns : least(d) => d = n + 1
  BY <1>2, <1>3
<1>6. c = n + 1
  BY <1>3, <1>4, <1>5
<1> HIDE DEF c
<1>7. /\ c \in Conns /\ status[c] = "None" /\ accept.key \in Clients
      /\ ConnTable[accept.key] \notin returned
  BY <1>1, <1>3, <1>4, <1>6 DEF TablesOK, Pending
<1>8. accept \in [pc : {"listen", "recv", "create", "wait", "update"}, key : Clients \cup {noOne},
                  conn : Conns \cup {NoConn}, round : 0..(Rounds - 1)]
  BY DEF TablesOK, TableTypes
<1>9. /\ accept' \in [pc : {"listen", "recv", "create", "wait", "update"}, key : Clients \cup {noOne},
                      conn : Conns \cup {NoConn}, round : 0..(Rounds - 1)]
      /\ accept'.pc \in {"wait", "recv"}
      /\ accept'.pc = "wait" => accept'.conn = c
  <2>1. CASE accept' = [accept EXCEPT !.pc = "wait", !.conn = c]
    BY <1>7, <1>8, <2>1
  <2>2. CASE accept' = AfterError
    BY <2>2, AfterErrorType DEF AcceptStates
  <2> QED
    BY <1>1, <2>1, <2>2
<1>10. /\ \A d \in Conns : status'[d] = IF d = c THEN "SynRecv" ELSE status[d]
       /\ \A d \in Conns : keyOf'[d] = IF d = c THEN accept.key ELSE keyOf[d]
       /\ \A k \in Clients : ConnTable'[k] = IF k = accept.key THEN c ELSE ConnTable[k]
  BY <1>1, <1>7 DEF TablesOK, TableTypes
<1>11. TableTypes'
  BY <1>1, <1>7, <1>9 DEF TablesOK, TableTypes
<1>12. Owners'
  <2>1. \A d \in returned \cup timeWait : status'[d] # "None"
    BY <1>10 DEF TablesOK, TableTypes, Owners
  <2>2. ASSUME NEW k \in Clients, ConnTable'[k] # NoConn
        PROVE  status'[ConnTable'[k]] # "None" /\ keyOf'[ConnTable'[k]] = k
    <3>1. CASE k = accept.key
      BY <1>7, <1>10, <3>1
    <3>2. CASE k # accept.key
      <4>1. ConnTable'[k] = ConnTable[k] /\ ConnTable[k] \in Conns
        BY <1>10, <2>2, <3>2 DEF TablesOK, TableTypes
      <4>2. status[ConnTable[k]] # "None" /\ keyOf[ConnTable[k]] = k
        BY <2>2, <4>1 DEF TablesOK, Owners
      <4> QED
        BY <1>7, <1>10, <4>1, <4>2
    <3> QED
      BY <3>1, <3>2
  <2>3. accept'.pc = "wait" =>
          /\ accept'.conn \in Conns /\ status'[accept'.conn] # "None"
          /\ keyOf'[accept'.conn] \in Clients
          /\ ConnTable'[keyOf'[accept'.conn]] \in {accept'.conn, NoConn}
    BY <1>7, <1>9, <1>10
  <2>4. repl'.pc = "close" => repl'.conn \in Conns /\ status'[repl'.conn] # "None"
    BY <1>1, <1>10 DEF TablesOK, Owners
  <2> QED
    BY <1>1, <2>1, <2>2, <2>3, <2>4 DEF Owners
<1>13. c \notin returned
  BY <1>7 DEF TablesOK, Owners
<1>14. Pending'
  BY <1>1, <1>9, <1>10, <1>13 DEF TablesOK, Pending
<1>15. Reachable'
  <2> SUFFICES ASSUME NEW d \in Conns \ robbed, status'[d] = "Established",
                      d \in returned \/ (accept'.pc = "wait" /\ accept'.conn = d)
               PROVE  Finds(d)'
    BY <1>1 DEF Reachable
  <2>1. d # c /\ d \in returned /\ status[d] = "Established"
    BY <1>9, <1>10
  <2>2. Finds(d)
    BY <2>1 DEF TablesOK, Reachable
  <2>3. keyOf[d] \in Clients /\ ConnTable[keyOf[d]] = d
    BY <2>2, FoundIsMade
  <2>4. keyOf[d] # accept.key
    BY <1>7, <2>1, <2>3
  <2> QED
    BY <1>10, <2>1, <2>3, <2>4 DEF Finds
<1>16. Counted'
  <2>1. \A d \in Conns : status'[d] = "None" <=> d > n + 1
    BY <1>2, <1>3, <1>6, <1>10
  <2>2. (n + 1) + Waiting' <= syns'
    BY <1>1, <1>2, <1>3, <1>9 DEF Waiting
  <2> QED
    BY <1>3, <2>1, <2>2 DEF Counted
<1> QED
  BY <1>11, <1>12, <1>14, <1>15, <1>16 DEF TablesOK

LEMMA TakeSynTables ==
    ASSUME TablesOK, TakeSyn
    PROVE  TablesOK'
<1>1. /\ handler.pc = "listen" /\ accept.pc = "recv"
      /\ accept' = [accept EXCEPT !.pc = "create", !.key = handler.key]
      /\ handler' = Idle
      /\ UNCHANGED <<ListenTable, ConnTable, status, keyOf, timeWait, repl, syns, returned, robbed>>
  BY DEF TakeSyn, tables
<1>2. /\ accept' \in AcceptStates /\ accept'.pc = "create" /\ accept'.key = handler.key
      /\ handler' \in [pc : {"idle", "listen", "signal"}, key : Clients \cup {noOne},
                       conn : Conns \cup {NoConn}]
      /\ handler'.pc = "idle"
  BY <1>1 DEF TablesOK, TableTypes, AcceptStates, Idle
<1>3. TableTypes'
  BY <1>1, <1>2 DEF TablesOK, TableTypes, AcceptStates
<1>4. Pending'
  BY <1>1, <1>2 DEF TablesOK, Pending
<1>5. Waiting' - Waiting <= syns' - syns
  <2>1. syns \in Nat /\ syns' = syns
    BY <1>1 DEF TablesOK, TableTypes
  <2> QED
    BY <1>1, <1>2, <2>1 DEF Waiting
<1> QED
  BY <1>1, <1>2, <1>3, <1>4, <1>5, ControlKeeps DEF TablesOK, Owners

LEMMA SignalTables ==
    ASSUME TablesOK, Signal
    PROVE  TablesOK'
<1>1. /\ handler.pc = "signal" /\ accept.pc = "wait"
      /\ accept' = [accept EXCEPT !.pc = "update"] /\ handler' = Idle
      /\ returned' = returned \cup {accept.conn}
      /\ UNCHANGED <<ListenTable, ConnTable, status, keyOf, timeWait, repl, syns, robbed>>
  BY DEF Signal, tables
<1>2. /\ accept' \in AcceptStates /\ accept'.pc = "update"
      /\ handler' \in [pc : {"idle", "listen", "signal"}, key : Clients \cup {noOne},
                       conn : Conns \cup {NoConn}]
      /\ handler'.pc = "idle"
  BY <1>1 DEF TablesOK, TableTypes, AcceptStates, Idle
<1>3. TableTypes'
  BY <1>1, <1>2 DEF TablesOK, TableTypes, Owners, AcceptStates
<1>4. Pending'
  BY <1>2 DEF Pending
<1>5. Waiting' - Waiting <= syns' - syns
  <2>1. syns \in Nat /\ syns' = syns
    BY <1>1 DEF TablesOK, TableTypes
  <2> QED
    BY <1>1, <1>2, <2>1 DEF Waiting
<1> QED
  BY <1>1, <1>2, <1>3, <1>4, <1>5, ControlKeeps DEF TablesOK, Owners

ReplStates ==
    [pc : {"idle", "lsUpdate", "print", "close", "clUpdate", "getListenSocket",
           "closeListener", "clUpdate2"},
     id : Ids \cup {NoId}, conn : Conns \cup {NoConn}]

\* Steps of the REPL and of listenPort that need no connection.
LEMMA CommandKeeps ==
    ASSUME TablesOK, ListenTable' \subseteq {lnKey},
           UNCHANGED <<ConnTable, status, keyOf, timeWait, handler, syns, returned, robbed>>,
           accept' \in AcceptStates,
           accept' = accept \/ (accept'.pc \in {"update", "recv"}),
           repl' \in ReplStates,
           repl' = repl \/ repl'.pc # "close" \/ (repl'.conn \in Conns /\ status[repl'.conn] # "None")
    PROVE  TablesOK'
<1>1. TableTypes'
  BY DEF TablesOK, TableTypes, AcceptStates, ReplStates
<1>2. Pending'
  BY DEF TablesOK, Pending
<1>3. Waiting' - Waiting <= syns' - syns
  <2>1. syns \in Nat /\ syns' = syns
    BY DEF TablesOK, TableTypes
  <2> QED
    BY <2>1 DEF Waiting
<1> QED
  BY <1>1, <1>2, <1>3, ControlKeeps DEF TablesOK, Owners

LEMMA CommandTypes ==
    ASSUME TablesOK
    PROVE  ListenTable \subseteq {lnKey} /\ accept \in AcceptStates /\ repl \in ReplStates
  BY DEF TablesOK, TableTypes, AcceptStates, ReplStates

LEMMA VListenTables ==
    ASSUME TablesOK, VListen
    PROVE  TablesOK'
<1>1. /\ accept' = [accept EXCEPT !.pc = "update"] /\ ListenTable' = {lnKey}
      /\ UNCHANGED <<ConnTable, status, keyOf, timeWait, handler, repl, syns, returned, robbed>>
  BY DEF VListen
<1>2. accept' \in AcceptStates /\ accept'.pc = "update"
  BY <1>1, CommandTypes DEF AcceptStates
<1> QED
  BY <1>1, <1>2, CommandTypes, CommandKeeps

LEMMA StoreIdsTables ==
    ASSUME TablesOK, NEW u \in Updaters, StoreIds(u)
    PROVE  TablesOK'
<1>1. UNCHANGED <<ListenTable, ConnTable, status, keyOf, timeWait, handler, syns, returned, robbed>>
  BY DEF StoreIds, tables
<1>2. CASE accept' = AfterError /\ repl' = repl
  BY <1>1, <1>2, AfterErrorType, CommandTypes, CommandKeeps
<1>3. CASE accept' = accept /\ repl' = [repl EXCEPT !.pc = CASE repl.pc = "lsUpdate" -> "print"
                                           [] repl.pc = "clUpdate" -> "getListenSocket"
                                           [] OTHER -> "idle",
                                   !.id = IF repl.pc = "clUpdate" THEN @ ELSE NoId]
  <2>1. repl' \in ReplStates /\ repl'.pc \in {"print", "getListenSocket", "idle"}
    BY <1>3, CommandTypes DEF ReplStates
  <2> QED
    BY <1>1, <1>3, <2>1, CommandTypes, CommandKeeps
<1> QED
  BY <1>2, <1>3 DEF StoreIds, AfterError

LEMMA ReplTables ==
    ASSUME TablesOK,
           ListSockets \/ PrintSockets \/ getListenSocket \/ CloseListener
    PROVE  TablesOK'
<1>1. /\ UNCHANGED <<ConnTable, status, keyOf, timeWait, handler, accept, syns, returned, robbed>>
      /\ ListenTable' = ListenTable \/ ListenTable' = {}
  BY DEF ListSockets, PrintSockets, getListenSocket, CloseListener, tables
<1>2. repl' \in ReplStates /\ repl'.pc # "close"
  <2>1. CASE ListSockets
    BY <2>1, CommandTypes DEF ListSockets, ReplStates
  <2>2. CASE PrintSockets
    BY <2>2, CommandTypes DEF PrintSockets, ReplStates
  <2>3. CASE getListenSocket
    BY <2>3, CommandTypes DEF getListenSocket, ReplStates
  <2>4. CASE CloseListener
    BY <2>4, CommandTypes DEF CloseListener, ReplStates
  <2> QED
    BY <2>1, <2>2, <2>3, <2>4
<1> QED
  BY <1>1, <1>2, CommandTypes, CommandKeeps

LEMMA CloseSocketTables ==
    ASSUME TablesOK, NEW i \in Ids, CloseSocket(i)
    PROVE  TablesOK'
<1> DEFINE k == IdToSocketKey[i]
<1>1. /\ repl' = IF k \in Clients /\ ConnTable[k] # NoConn
                 THEN [pc |-> "close", id |-> i, conn |-> ConnTable[k]]
                 ELSE [pc |-> "getListenSocket", id |-> i, conn |-> NoConn]
      /\ UNCHANGED <<ListenTable, ConnTable, status, keyOf, timeWait, handler, accept, syns, returned, robbed>>
  BY DEF CloseSocket, tables
<1>2. CASE k \in Clients /\ ConnTable[k] # NoConn
  <2>1. ConnTable[k] \in Conns /\ status[ConnTable[k]] # "None"
    BY <1>2 DEF TablesOK, TableTypes, Owners
  <2>2. repl' \in ReplStates /\ repl'.conn \in Conns /\ status[repl'.conn] # "None"
    BY <1>1, <1>2, <2>1 DEF ReplStates
  <2> QED
    BY <1>1, <2>2, CommandTypes, CommandKeeps
<1>3. CASE ~(k \in Clients /\ ConnTable[k] # NoConn)
  <2>1. repl' \in ReplStates /\ repl'.pc # "close"
    BY <1>1, <1>3 DEF ReplStates
  <2> QED
    BY <1>1, <2>1, CommandTypes, CommandKeeps
<1> QED
  BY <1>2, <1>3

LEMMA TablesNext == TablesOK /\ [Next]_vars => TablesOK'
<1> SUFFICES ASSUME TablesOK, [Next]_vars PROVE TablesOK'
  OBVIOUS
<1>1. CASE \E k \in Clients : handleListenState(k)
  BY <1>1, HandleListenTables
<1>2. CASE \E c \in Conns : Establish(c) \/ StartTimeOutTimer(c) \/ Reset(c) \/ TimeWaitTimeout(c)
  BY <1>2, EstablishTables, StartTimeOutTables, ResetTables, TimeWaitTables
<1>3. ASSUME UNCHANGED <<tables, handler, accept, repl, syns, returned, robbed>>
      PROVE  TablesOK'
  BY <1>3, CommandTypes, CommandKeeps DEF tables
<1>4. ASSUME NEW u \in Updaters, addAllSocketsToMap(u) \/ Assign(u) \/ StoreKeys(u) \/ StoreIds(u)
      PROVE  TablesOK'
  <2>1. CASE addAllSocketsToMap(u) \/ Assign(u) \/ StoreKeys(u)
    BY <1>3, <2>1 DEF addAllSocketsToMap, Assign, StoreKeys
  <2> QED
    BY <1>4, <2>1, StoreIdsTables
<1>5. CASE VListen \/ TakeSyn \/ Create \/ Signal \/ Timeout
  BY <1>5, VListenTables, TakeSynTables, CreateTables, SignalTables, TimeoutTables
<1>6. CASE ListSockets \/ PrintSockets \/ VClose \/ getListenSocket \/ CloseListener
  BY <1>6, ReplTables, VCloseTables
<1>7. CASE \E i \in Ids : CloseSocket(i)
  BY <1>7, CloseSocketTables
<1>8. CASE UNCHANGED vars
  BY <1>3, <1>8 DEF vars
<1> QED
  BY <1>1, <1>2, <1>4, <1>5, <1>6, <1>7, <1>8 DEF Next

\* VAccept stores a connection without Device.Mutex, after a handler looked
\* its key up with it; still no connection that VAccept has returned loses
\* its entry to another one, but to a stale timeWaitTimeout.
THEOREM ReturnedIsReachable == Spec => []EstablishedReachable
<1>1. TablesOK => EstablishedReachable
  BY DEF TablesOK, TableTypes, Reachable, EstablishedReachable
<1> QED
  BY TablesInit, TablesNext, <1>1, PTL DEF Spec

-----------------------------------------------------------------------------
(* Induction over the natural numbers, for sets, and what it takes to find  *)
(* a free id.                                                               *)

LEMMA LeastNat ==
    ASSUME NEW T, T \subseteq Nat, T # {}
    PROVE  \E x \in T : \A y \in T : x <= y
<1> DEFINE R == {ss \in Nat \X Nat : ss[1] < ss[2]}
<1>1. IsWellFoundedOn(R, Nat)
  BY NatLessThanWellFounded DEF OpToRel
<1>2. \A x, y \in Nat : x < y => <<x, y>> \in R
  OBVIOUS
<1> HIDE DEF R
<1>3. PICK x \in T : \A y \in T : ~ (<<y, x>> \in R)
  BY <1>1, WFMin
<1>4. ASSUME NEW y \in T PROVE x <= y
  <2>1. x \in Nat /\ y \in Nat
    OBVIOUS
  <2>2. ~(y < x)
    BY <1>2, <1>3, <2>1
  <2> QED
    BY <2>1, <2>2
<1> QED
  BY <1>4

LEMMA SetInduction ==
    ASSUME NEW S, 0 \in S, \A n \in Nat : n \in S => n + 1 \in S
    PROVE  Nat \subseteq S
<1> DEFINE T == {n \in Nat : n \notin S}
<1> SUFFICES ASSUME T # {} PROVE FALSE
  OBVIOUS
<1>1. PICK x \in T : \A y \in T : x <= y
  BY LeastNat
<1>2. x # 0 /\ x - 1 \in Nat /\ x - 1 \in S
  BY <1>1
<1> QED
  BY <1>2

IdMaps == [Sockets -> Ids \cup {NoId}]

\* No two sockets have the same id in map.
Unique(map) == \A j, k \in Sockets : j # k /\ map[j] # NoId => map[j] # map[k]

LEMMA SocketsFinite ==
    IsFiniteSet(Sockets) /\ Cardinality(Sockets) \in Nat
<1>1. IsFiniteSet(Sockets)
  BY HostAssumption, FS_AddElement DEF Sockets
<1> QED
  BY <1>1, FS_CardinalityType

LEMMA UsedFinite ==
    ASSUME NEW map \in IdMaps
    PROVE  IsFiniteSet(Used(map)) /\ Cardinality(Used(map)) <= Cardinality(Sockets)
           /\ Cardinality(Used(map)) \in Nat
<1> DEFINE T == {map[k] : k \in Sockets}
<1>1. map \in Surjection(Sockets, T)
  BY DEF Surjection, IdMaps
<1>2. IsFiniteSet(T) /\ Cardinality(T) <= Cardinality(Sockets)
  BY <1>1, SocketsFinite, FS_Surjection
<1>3. Used(map) \in SUBSET T
  BY DEF Used
<1> HIDE DEF T
<1>4. IsFiniteSet(Used(map)) /\ Cardinality(Used(map)) <= Cardinality(T)
  BY <1>2, <1>3, FS_Subset
<1>5. Cardinality(T) \in Nat /\ Cardinality(Used(map)) \in Nat
  BY <1>2, <1>4, FS_CardinalityType
<1> QED
  BY <1>2, <1>4, <1>5, SocketsFinite

\* The counter has passed only used ids and as many others as there were
\* rounds: W are those others.
Passed(map, count, n) ==
    \E W \in SUBSET Nat : /\ IsFiniteSet(W) /\ Cardinality(W) <= n
                          /\ 0..(count - 1) \subseteq W \cup Used(map)

\* With an id per socket and one more for each round there is a free one.
LEMMA FreeIdExists ==
    ASSUME NEW map \in IdMaps, NEW count \in Nat, NEW n \in Nat,
           n <= Cardinality(Sockets), Passed(map, count, n)
    PROVE  \E i \in Ids : i >= count /\ i \notin Used(map)
<1> DEFINE m == Cardinality(Sockets)
<1> SUFFICES ASSUME \A i \in Ids : i >= count => i \in Used(map)
             PROVE  FALSE
  OBVIOUS
<1>1. PICK W \in SUBSET Nat : /\ IsFiniteSet(W) /\ Cardinality(W) <= n
                              /\ 0..(count - 1) \subseteq W \cup Used(map)
  BY DEF Passed
<1>2. m \in Nat /\ IsFiniteSet(Used(map)) /\ Cardinality(Used(map)) <= m
      /\ Cardinality(Used(map)) \in Nat
  BY SocketsFinite, UsedFinite
<1>3. 0..(2 * m) \subseteq W \cup Used(map)
  <2> SUFFICES ASSUME NEW i \in 0..(2 * m) PROVE i \in W \cup Used(map)
    OBVIOUS
  <2>1. CASE i >= count
    BY <2>1 DEF Ids
  <2>2. CASE ~(i >= count)
    <3>1. i \in 0..(count - 1)
      BY <2>2
    <3> QED
      BY <1>1, <3>1
  <2> QED
    BY <2>1, <2>2
<1>4. /\ IsFiniteSet(W \cup Used(map))
      /\ Cardinality(W \cup Used(map)) = Cardinality(W) + Cardinality(Used(map)) - Cardinality(W \cap Used(map))
  BY <1>1, <1>2, FS_Union
<1>5. Cardinality(W) \in Nat /\ Cardinality(W \cap Used(map)) \in Nat
  BY <1>1, FS_Intersection, FS_CardinalityType
<1>6. Cardinality(0..(2 * m)) = 2 * m + 1
  BY <1>2, FS_Interval
<1>7. Cardinality(0..(2 * m)) <= Cardinality(W \cup Used(map))
  BY <1>3, <1>4, FS_Subset
<1> HIDE DEF m
<1> QED
  BY <1>1, <1>2, <1>4, <1>5, <1>6, <1>7 DEF m

LEMMA FreeIdFacts ==
    ASSUME NEW map \in IdMaps, NEW count \in Nat, NEW n \in Nat,
           n <= Cardinality(Sockets), Passed(map, count, n)
    PROVE  LET id == FreeId(map, count)
           IN  /\ id \in Ids /\ id >= count /\ id \notin Used(map)
               /\ \A j \in Ids : j >= count /\ j < id => j \in Used(map)
<1> DEFINE T == {i \in Ids : i >= count /\ i \notin Used(map)}
<1> DEFINE P(i) == /\ i >= count /\ i \notin Used(map)
                   /\ \A j \in Ids : j >= count /\ j \notin Used(map) => i <= j
<1>1. T # {} /\ T \subseteq Nat
  BY FreeIdExists, Distinct
<1>2. PICK x \in T : \A y \in T : x <= y
  BY <1>1, LeastNat
<1>3. P(x) /\ x \in Ids
  BY <1>2
<1>4. FreeId(map, count) = CHOOSE i \in Ids : P(i)
  BY DEF FreeId
<1> DEFINE id == CHOOSE i \in Ids : P(i)
<1>5. id \in Ids /\ P(id)
  BY <1>3
<1> HIDE DEF id
<1>6. \A j \in Ids : j >= count /\ j < id => j \in Used(map)
  BY <1>5, Distinct
<1> QED
  BY <1>4, <1>5, <1>6 DEF id

-----------------------------------------------------------------------------
(* The second loop of updataSocketIds.                                      *)

\* After n rounds: the ids that were kept are still there, and no socket
\* has the id of another.
Numbering(s, all, kept, n) ==
    /\ s \in [left : SUBSET all, count : Nat, map : IdMaps]
    /\ Unique(s.map)
    /\ \A k \in Sockets : kept[k] # NoId => s.map[k] = kept[k]
    /\ Passed(s.map, s.count, n)

LEMMA NumberKeeps ==
    ASSUME NEW all \in SUBSET Sockets, NEW kept, NEW n \in Nat, n <= Cardinality(Sockets),
           NEW s, Numbering(s, all, kept, n), NEW k \in s.left
    PROVE  Numbering(Number(s, k), all, kept, n + 1)
<1> DEFINE map == s.map
           count == s.count
           id == FreeId(map, count)
<1>1. /\ map \in IdMaps /\ count \in Nat /\ s.left \subseteq all /\ k \in Sockets
      /\ Unique(map) /\ Passed(map, count, n)
      /\ \A j \in Sockets : kept[j] # NoId => map[j] = kept[j]
  BY DEF Numbering
<1>2. PICK W \in SUBSET Nat : /\ IsFiniteSet(W) /\ Cardinality(W) <= n
                              /\ 0..(count - 1) \subseteq W \cup Used(map)
  BY <1>1 DEF Passed
<1>3. Cardinality(W) \in Nat
  BY <1>2, FS_CardinalityType
<1>4. CASE map[k] # NoId
  <2>1. Number(s, k) = [left |-> s.left \ {k}, count |-> count + 1, map |-> map]
    BY <1>4 DEF Number
  <2>2. Passed(map, count + 1, n + 1)
    <3>1. IsFiniteSet(W \cup {count}) /\ Cardinality(W \cup {count}) <= n + 1
      BY <1>2, <1>3, FS_AddElement
    <3>2. 0..((count + 1) - 1) \subseteq (W \cup {count}) \cup Used(map)
      <4> SUFFICES ASSUME NEW j \in 0..((count + 1) - 1)
                   PROVE  j \in (W \cup {count}) \cup Used(map)
        OBVIOUS
      <4>1. j = count \/ j \in 0..(count - 1)
        BY <1>1
      <4> QED
        BY <1>2, <4>1
    <3>3. W \cup {count} \in SUBSET Nat
      BY <1>1
    <3> QED
      BY <3>1, <3>2, <3>3 DEF Passed
  <2> QED
    BY <1>1, <2>1, <2>2 DEF Numbering
<1>5. CASE map[k] = NoId
  <2> DEFINE new == [map EXCEPT ![k] = id]
  <2>1. Number(s, k) = [left |-> s.left \ {k}, count |-> id + 1, map |-> new]
    BY <1>5 DEF Number
  <2>2. /\ id \in Ids /\ id >= count /\ id \notin Used(map)
        /\ \A j \in Ids : j >= count /\ j < id => j \in Used(map)
    BY <1>1, FreeIdFacts
  <2> HIDE DEF id
  <2>3. id # NoId /\ id \in Nat
    BY <2>2, Distinct
  <2>4. /\ new \in IdMaps
        /\ \A j \in Sockets : new[j] = IF j = k THEN id ELSE map[j]
    BY <1>1, <2>2 DEF IdMaps
  <2>5. Unique(new)
    BY <1>1, <2>2, <2>3, <2>4 DEF Unique, Used
  <2>6. \A j \in Sockets : kept[j] # NoId => new[j] = kept[j]
    BY <1>1, <1>5, <2>4
  <2>7. Used(map) \cup {id} \subseteq Used(new)
    BY <1>1, <1>5, <2>3, <2>4 DEF Used
  <2>8. 0..((id + 1) - 1) \subseteq W \cup Used(new)
    <3> SUFFICES ASSUME NEW j \in 0..((id + 1) - 1)
                 PROVE  j \in W \cup Used(new)
      OBVIOUS
    <3>1. CASE j < count
      <4>1. j \in 0..(count - 1)
        BY <1>1, <3>1
      <4> QED
        BY <1>2, <2>7, <4>1
    <3>2. CASE j >= count /\ j < id
      <4>1. j \in Ids
        BY <2>2, <3>2, SocketsFinite DEF Ids
      <4> QED
        BY <2>2, <2>7, <3>2, <4>1
    <3>3. CASE j = id
      BY <2>7, <3>3
    <3> QED
      BY <1>1, <2>3, <3>1, <3>2, <3>3
  <2>9. Passed(new, id + 1, n + 1)
    <3>1. Cardinality(W) <= n + 1
      BY <1>2, <1>3
    <3> QED
      BY <1>2, <2>8, <3>1 DEF Passed
  <2> HIDE DEF new
  <2> QED
    BY <1>1, <2>1, <2>3, <2>4, <2>5, <2>6, <2>9 DEF Numbering
<1> QED
  BY <1>4, <1>5

\* The states of the loop after one more round.
MoreRounds(S) == UNION {{Number(s, k) : k \in s.left} : s \in S}
Begun(all, kept) == {[left |-> all, count |-> 0, map |-> kept]}
RoundsOf(f, N, base) == f = [n \in 0..N |-> IF n = 0 THEN base ELSE MoreRounds(f[n - 1])]

LEMMA RoundsExist ==
    ASSUME NEW N \in Nat, NEW base
    PROVE  \E f : RoundsOf(f, N, base)
<1> DEFINE S == {n \in Nat : \E f : RoundsOf(f, n, base)}
<1>1. 0 \in S
  <2> DEFINE f == [n \in 0..0 |-> base]
  <2>1. f = [n \in 0..0 |-> IF n = 0 THEN base ELSE MoreRounds(f[n - 1])]
    OBVIOUS
  <2> QED
    BY <2>1 DEF RoundsOf
<1>2. ASSUME NEW n \in Nat, n \in S
      PROVE  n + 1 \in S
  <2>1. PICK f : RoundsOf(f, n, base)
    BY <1>2
  <2> DEFINE g == [i \in 0..(n + 1) |-> IF i = n + 1 THEN MoreRounds(f[n]) ELSE f[i]]
  <2>2. f = [i \in 0..n |-> IF i = 0 THEN base ELSE MoreRounds(f[i - 1])]
    BY <2>1 DEF RoundsOf
  <2>3. ASSUME NEW i \in 0..(n + 1)
        PROVE  g[i] = IF i = 0 THEN base ELSE MoreRounds(g[i - 1])
    <3>1. CASE i = 0
      BY <2>2, <3>1
    <3>2. CASE i # 0 /\ i # n + 1
      <4>1. i \in 0..n /\ i - 1 \in 0..(n + 1) /\ i - 1 # n + 1
        BY <3>2
      <4>2. g[i] = f[i] /\ g[i - 1] = f[i - 1]
        BY <3>2, <4>1
      <4>3. f[i] = MoreRounds(f[i - 1])
        BY <2>2, <3>2, <4>1
      <4> QED
        BY <3>2, <4>2, <4>3
    <3>3. CASE i = n + 1
      <4>1. i # 0 /\ i - 1 = n /\ n \in 0..(n + 1) /\ n # n + 1
        BY <3>3
      <4>2. g[i] = MoreRounds(f[n]) /\ g[n] = f[n]
        BY <3>3, <4>1
      <4> QED
        BY <4>1, <4>2
    <3> QED
      BY <3>1, <3>2, <3>3
  <2>4. g = [i \in 0..(n + 1) |-> g[i]]
    OBVIOUS
  <2> HIDE DEF g
  <2>5. g = [i \in 0..(n + 1) |-> IF i = 0 THEN base ELSE MoreRounds(g[i - 1])]
    BY <2>3, <2>4
  <2> QED
    BY <2>5 DEF RoundsOf
<1> HIDE DEF S
<1>3. Nat \subseteq S
  BY <1>1, <1>2, SetInduction
<1> QED
  BY <1>3 DEF S

\* What the loop ends with is Numbering: induction over its rounds.
LEMMA NumberedFacts ==
    ASSUME NEW all \in SUBSET Sockets, NEW kept \in IdMaps, Unique(kept),
           NEW new \in Numbered(all, kept)
    PROVE  /\ new \in IdMaps /\ Unique(new)
           /\ \A k \in Sockets : kept[k] # NoId => new[k] = kept[k]
<1> DEFINE N == Cardinality(all)
           base == Begun(all, kept)
           after == CHOOSE f : f = [n \in 0..N |-> IF n = 0 THEN base ELSE MoreRounds(f[n - 1])]
<1>1. N \in Nat /\ N <= Cardinality(Sockets)
  BY SocketsFinite, FS_Subset, FS_CardinalityType
<1>2. Numbered(all, kept) = {s.map : s \in after[N]}
  BY DEF Numbered, MoreRounds, Begun
<1>3. after = [n \in 0..N |-> IF n = 0 THEN base ELSE MoreRounds(after[n - 1])]
  BY <1>1, RoundsExist DEF RoundsOf
<1> HIDE DEF after, N, base
<1> DEFINE S == {n \in Nat : n <= N => \A s \in after[n] : Numbering(s, all, kept, n)}
<1>4. 0 \in S
  <2>1. after[0] = base
    BY <1>1, <1>3
  <2> SUFFICES ASSUME NEW s \in base PROVE Numbering(s, all, kept, 0)
    BY <2>1
  <2>2. s = [left |-> all, count |-> 0, map |-> kept]
    BY DEF base, Begun
  <2>3. Passed(kept, 0, 0)
    <3>1. IsFiniteSet({}) /\ Cardinality({}) <= 0
      BY FS_EmptySet
    <3>2. 0..(0 - 1) \subseteq {} \cup Used(kept)
      OBVIOUS
    <3> QED
      BY <3>1, <3>2 DEF Passed
  <2> QED
    BY <2>2, <2>3 DEF Numbering
<1>5. ASSUME NEW n \in Nat, n \in S
      PROVE  n + 1 \in S
  <2> SUFFICES ASSUME n + 1 <= N, NEW t \in after[n + 1]
               PROVE  Numbering(t, all, kept, n + 1)
    OBVIOUS
  <2>1. n + 1 \in 0..N /\ n + 1 # 0 /\ (n + 1) - 1 = n /\ n <= Cardinality(Sockets) /\ n <= N
    BY <1>1, SocketsFinite
  <2>2. after[n + 1] = MoreRounds(after[n])
    BY <1>3, <2>1
  <2>3. PICK s \in after[n] : \E k \in s.left : t = Number(s, k)
    BY <2>2 DEF MoreRounds
  <2>4. Numbering(s, all, kept, n)
    BY <1>5, <2>1
  <2> QED
    BY <2>1, <2>3, <2>4, NumberKeeps
<1> HIDE DEF S
<1>6. N \in S
  BY <1>1, <1>4, <1>5, SetInduction
<1>7. \A s \in after[N] : Numbering(s, all, kept, N)
  BY <1>1, <1>6 DEF S
<1>8. PICK s \in after[N] : new = s.map
  BY <1>2
<1> QED
  BY <1>7, <1>8 DEF Numbering

-----------------------------------------------------------------------------
(* The ids.                                                                 *)

UpdateStates ==
    [pc : {"idle", "scan", "assign", "store", "store2"}, all : SUBSET Sockets,
     new : IdMaps, overlaps : BOOLEAN]

Busy(u) == update[u].pc # "idle"

IdTypes ==
    /\ IdToSocketKey \in [Ids -> Sockets \cup {noOne}]
    /\ SocketKeyToId \in IdMaps
    /\ update \in [Updaters -> UpdateStates]

\* The map in use, and the one each call is about to store.
UniqueIds ==
    /\ Unique(SocketKeyToId)
    /\ \A u \in Updaters : Unique(update[u].new)

\* Calls that run at a time know it.
Overlapping ==
    \A u, v \in Updaters : u # v /\ Busy(u) /\ Busy(v) => update[u].overlaps

\* What a call that runs alone is about to store agrees with the map in use.
Keeping ==
    \A u \in Updaters : update[u].pc \in {"store", "store2"} /\ ~update[u].overlaps =>
       \A k \in update[u].all : SocketKeyToId[k] # NoId => update[u].new[k] = SocketKeyToId[k]

IdsOK == IdTypes /\ UniqueIds /\ Overlapping /\ Keeping

LEMMA NoUpdateType == NoUpdate \in UpdateStates /\ Unique(NoUpdate.new)
  BY DEF NoUpdate, UpdateStates, IdMaps, Unique

LEMMA IdsInit == Init => IdsOK
<1> SUFFICES ASSUME Init PROVE IdsOK
  OBVIOUS
<1>1. IdTypes
  BY NoUpdateType DEF Init, IdTypes, IdMaps
<1>2. UniqueIds
  BY NoUpdateType DEF Init, UniqueIds, Unique
<1>3. Overlapping /\ Keeping
  BY DEF Init, Overlapping, Keeping, Busy, NoUpdate
<1> QED
  BY <1>1, <1>2, <1>3 DEF IdsOK

LEMMA BeginIds ==
    ASSUME IdsOK, NEW u \in Updaters, Begin(u), UNCHANGED ids
    PROVE  IdsOK'
<1> DEFINE v == CHOOSE w \in Updaters : w # u
           begun == [NoUpdate EXCEPT !.pc = "scan", !.overlaps = Busy(v)]
<1>1. v \in Updaters /\ v # u /\ Updaters = {u, v}
  BY DEF Updaters
<1>2. update' = [update EXCEPT ![u] = begun, ![v].overlaps = @ \/ Busy(v)]
  BY DEF Begin, Busy
<1> HIDE DEF v
<1>3. Busy(v) \in BOOLEAN
  BY DEF Busy
<1>4. /\ begun \in UpdateStates /\ begun.pc = "scan" /\ begun.new = NoUpdate.new
      /\ begun.overlaps = Busy(v)
  BY <1>3 DEF NoUpdate, UpdateStates, IdMaps
<1> HIDE DEF begun
<1>5. /\ update'[u] = begun
      /\ update'[v] = [update[v] EXCEPT !.overlaps = @ \/ Busy(v)]
      /\ update' \in [Updaters -> UpdateStates]
  <2>1. update[v] \in UpdateStates /\ update \in [Updaters -> UpdateStates]
    BY <1>1 DEF IdsOK, IdTypes
  <2>2. (update[v].overlaps \/ Busy(v)) \in BOOLEAN
    OBVIOUS
  <2>3. [update[v] EXCEPT !.overlaps = update[v].overlaps \/ Busy(v)] \in UpdateStates
    BY <2>1, <2>2 DEF UpdateStates
  <2> QED
    BY <1>1, <1>2, <1>4, <2>1, <2>3
<1>6. /\ update'[v].pc = update[v].pc /\ update'[v].all = update[v].all
      /\ update'[v].new = update[v].new
      /\ update'[v].overlaps = (update[v].overlaps \/ Busy(v))
  BY <1>1, <1>5 DEF IdsOK, IdTypes, UpdateStates
<1>7. IdTypes'
  BY <1>5 DEF IdsOK, IdTypes, ids
<1>8. UniqueIds'
  BY <1>1, <1>4, <1>5, <1>6, NoUpdateType DEF IdsOK, UniqueIds, ids
<1>9. Overlapping'
  BY <1>1, <1>4, <1>5, <1>6 DEF Overlapping, Busy
<1>10. Keeping'
  <2> SUFFICES ASSUME NEW w \in Updaters, update'[w].pc \in {"store", "store2"}, ~update'[w].overlaps,
                      NEW k \in update'[w].all, SocketKeyToId'[k] # NoId
               PROVE  update'[w].new[k] = SocketKeyToId'[k]
    BY DEF Keeping
  <2>1. w = v
    BY <1>1, <1>4, <1>5
  <2>2. Busy(v) /\ ~Busy(v)
    BY <1>6, <2>1 DEF Busy
  <2> QED
    BY <2>2
<1> QED
  BY <1>7, <1>8, <1>9, <1>10 DEF IdsOK

\* A call of updataSocketIds takes its next step.
LEMMA AddAllIds ==
    ASSUME IdsOK, TablesOK, NEW u \in Updaters, addAllSocketsToMap(u)
    PROVE  IdsOK'
<1>1. /\ update' = [update EXCEPT ![u].pc = "assign", ![u].all = Open]
      /\ update[u].pc = "scan" /\ UNCHANGED ids
  BY DEF addAllSocketsToMap
<1>2. Open \subseteq Sockets
  BY DEF Open, TablesOK, TableTypes, Sockets
<1>3. /\ update' \in [Updaters -> UpdateStates]
      /\ update'[u].pc = "assign"
      /\ \A v \in Updaters : /\ update'[v].overlaps = update[v].overlaps
                             /\ update'[v].new = update[v].new
      /\ \A v \in Updaters \ {u} : update'[v] = update[v]
  BY <1>1, <1>2 DEF IdsOK, IdTypes, UpdateStates
<1>4. IdTypes' /\ UniqueIds'
  BY <1>1, <1>3 DEF IdsOK, IdTypes, UniqueIds, ids
<1>5. Overlapping'
  BY <1>1, <1>3 DEF IdsOK, Overlapping, Busy
<1>6. Keeping'
  BY <1>1, <1>3 DEF IdsOK, Keeping, ids
<1> QED
  BY <1>4, <1>5, <1>6 DEF IdsOK

LEMMA AssignIds ==
    ASSUME IdsOK, NEW u \in Updaters, Assign(u)
    PROVE  IdsOK'
<1> USE Distinct
<1> DEFINE all == update[u].all
           gone == Purged(u)
<1>1. PICK new \in Numbered(all, Kept(all)) : update' = [update EXCEPT ![u].pc = "store", ![u].new = new]
  BY DEF Assign
<1>2. /\ update[u].pc = "assign"
      /\ IdToSocketKey' = [i \in Ids |-> IF \E k \in gone : SocketKeyToId[k] = i
                                         THEN noOne ELSE IdToSocketKey[i]]
      /\ SocketKeyToId' = [k \in Sockets |-> IF k \in gone THEN NoId ELSE SocketKeyToId[k]]
  BY DEF Assign
<1>3. all \in SUBSET Sockets
  BY DEF IdsOK, IdTypes, UpdateStates
<1>4. gone = {k \in Sockets \ all : SocketKeyToId[k] # NoId}
  BY DEF Purged
<1>5. Kept(all) \in IdMaps /\ Unique(Kept(all))
  BY <1>3 DEF Kept, IdMaps, Unique, IdsOK, IdTypes, UniqueIds
<1>6. /\ new \in IdMaps /\ Unique(new)
      /\ \A k \in Sockets : Kept(all)[k] # NoId => new[k] = Kept(all)[k]
  BY <1>1, <1>3, <1>5, NumberedFacts
<1> HIDE DEF gone
<1>7. /\ update' \in [Updaters -> UpdateStates]
      /\ update'[u].pc = "store" /\ update'[u].new = new /\ update'[u].all = all
      /\ \A v \in Updaters : update'[v].overlaps = update[v].overlaps
      /\ \A v \in Updaters \ {u} : update'[v] = update[v]
  BY <1>1, <1>6 DEF IdsOK, IdTypes, UpdateStates
<1> HIDE DEF all
<1>8. IdTypes'
  BY <1>2, <1>7 DEF IdsOK, IdTypes, IdMaps
<1>9. UniqueIds'
  <2>1. Unique(SocketKeyToId')
    BY <1>2 DEF IdsOK, UniqueIds, Unique
  <2>2. \A v \in Updaters : Unique(update'[v].new)
    BY <1>6, <1>7 DEF IdsOK, UniqueIds
  <2> QED
    BY <2>1, <2>2 DEF UniqueIds
<1>10. Overlapping'
  BY <1>2, <1>7 DEF IdsOK, Overlapping, Busy
<1>11. Keeping'
  <2> SUFFICES ASSUME NEW v \in Updaters, update'[v].pc \in {"store", "store2"}, ~update'[v].overlaps,
                      NEW k \in update'[v].all, SocketKeyToId'[k] # NoId
               PROVE  update'[v].new[k] = SocketKeyToId'[k]
    BY DEF Keeping
  <2>1. v = u
    BY <1>2, <1>7 DEF IdsOK, Overlapping, Busy
  <2>2. k \in all /\ k \in Sockets
    BY <1>3, <1>7, <2>1
  <2>3. SocketKeyToId'[k] = SocketKeyToId[k] /\ SocketKeyToId[k] # NoId
    BY <1>2, <1>4, <2>2
  <2> QED
    BY <1>6, <1>7, <2>1, <2>2, <2>3 DEF Kept
<1> QED
  BY <1>8, <1>9, <1>10, <1>11 DEF IdsOK

LEMMA StoreKeysIds ==
    ASSUME IdsOK, NEW u \in Updaters, StoreKeys(u)
    PROVE  IdsOK'
<1>1. /\ IdToSocketKey' = Inverted(update[u].new)
      /\ update' = [update EXCEPT ![u].pc = "store2"]
      /\ update[u].pc = "store" /\ UNCHANGED SocketKeyToId
  BY DEF StoreKeys
<1>2. update[u].new \in IdMaps
  BY DEF IdsOK, IdTypes, UpdateStates
<1>3. Inverted(update[u].new) \in [Ids -> Sockets \cup {noOne}]
  <2> SUFFICES ASSUME NEW i \in Ids, i \in Used(update[u].new)
               PROVE  (CHOOSE k \in Sockets : update[u].new[k] = i) \in Sockets
    BY DEF Inverted
  <2>1. \E k \in Sockets : update[u].new[k] = i
    BY DEF Used
  <2> QED
    BY <2>1
<1>4. /\ update' \in [Updaters -> UpdateStates]
      /\ update'[u].pc = "store2"
      /\ \A v \in Updaters : /\ update'[v].overlaps = update[v].overlaps
                             /\ update'[v].new = update[v].new
                             /\ update'[v].all = update[v].all
      /\ \A v \in Updaters \ {u} : update'[v] = update[v]
  BY <1>1 DEF IdsOK, IdTypes, UpdateStates
<1>5. IdTypes'
  BY <1>1, <1>3, <1>4 DEF IdsOK, IdTypes
<1>6. UniqueIds'
  BY <1>1, <1>4 DEF IdsOK, UniqueIds
<1>7. Overlapping'
  BY <1>1, <1>4 DEF IdsOK, Overlapping, Busy
<1>8. Keeping'
  BY <1>1, <1>4 DEF IdsOK, Keeping
<1> QED
  BY <1>5, <1>6, <1>7, <1>8 DEF IdsOK

LEMMA StoreIdsIds ==
    ASSUME IdsOK, NEW u \in Updaters, StoreIds(u)
    PROVE  IdsOK'
<1>1. /\ SocketKeyToId' = update[u].new
      /\ update' = [update EXCEPT ![u] = NoUpdate]
      /\ update[u].pc = "store2" /\ UNCHANGED IdToSocketKey
  BY DEF StoreIds
<1>2. /\ update' \in [Updaters -> UpdateStates]
      /\ update'[u] = NoUpdate
      /\ \A v \in Updaters \ {u} : update'[v] = update[v]
      /\ update[u].new \in IdMaps
  BY <1>1, NoUpdateType DEF IdsOK, IdTypes, UpdateStates
<1>3. IdTypes'
  BY <1>1, <1>2 DEF IdsOK, IdTypes
<1>4. UniqueIds'
  BY <1>1, <1>2, NoUpdateType DEF IdsOK, UniqueIds
<1>5. NoUpdate.pc = "idle"
  BY DEF NoUpdate
<1>6. Overlapping'
  BY <1>2, <1>5 DEF IdsOK, Overlapping, Busy
<1>7. Keeping'
  BY <1>1, <1>2, <1>5 DEF IdsOK, Keeping, Overlapping, Busy
<1> QED
  BY <1>3, <1>4, <1>6, <1>7 DEF IdsOK

LEMMA SameIds ==
    ASSUME IdsOK, UNCHANGED <<ids, update>>
    PROVE  IdsOK'
  BY DEF IdsOK, IdTypes, UniqueIds, Overlapping, Keeping, Busy, ids

\* Only the calls of updataSocketIds touch the ids.
LEMMA UpdateSteps ==
    ASSUME [Next]_vars
    PROVE  \/ UNCHANGED <<ids, update>>
           \/ \E u \in Updaters : Begin(u) /\ UNCHANGED ids
           \/ \E u \in Updaters : addAllSocketsToMap(u) \/ Assign(u) \/ StoreKeys(u) \/ StoreIds(u)
<1>1. CASE \E k \in Clients : handleListenState(k)
  BY <1>1 DEF handleListenState
<1>2. CASE \E c \in Conns : Establish(c) \/ StartTimeOutTimer(c) \/ Reset(c) \/ TimeWaitTimeout(c)
  BY <1>2 DEF Establish, StartTimeOutTimer, Reset, TimeWaitTimeout
<1>3. CASE TakeSyn \/ Create \/ Timeout \/ PrintSockets \/ getListenSocket
  BY <1>3 DEF TakeSyn, Create, Timeout, PrintSockets, getListenSocket
<1>4. CASE VListen \/ Signal
  BY <1>4 DEF VListen, Signal, Updaters
<1>5. CASE ListSockets \/ CloseListener
  BY <1>5 DEF ListSockets, CloseListener, Updaters
<1>6. CASE VClose
  BY <1>6 DEF VClose, Updaters
<1>7. CASE \E i \in Ids : CloseSocket(i)
  BY <1>7 DEF CloseSocket
<1>8. CASE UNCHANGED vars
  BY <1>8 DEF vars
<1> QED
  BY <1>1, <1>2, <1>3, <1>4, <1>5, <1>6, <1>7, <1>8 DEF Next

LEMMA IdsNext == TablesOK /\ IdsOK /\ [Next]_vars => IdsOK'
<1> SUFFICES ASSUME TablesOK, IdsOK, [Next]_vars PROVE IdsOK'
  OBVIOUS
<1> QED
  BY UpdateSteps, SameIds, BeginIds, AddAllIds, AssignIds, StoreKeysIds, StoreIdsIds

-----------------------------------------------------------------------------
Inv == TablesOK /\ IdsOK /\ crashed \in BOOLEAN

LEMMA CrashedNext == crashed \in BOOLEAN /\ [Next]_vars => crashed' \in BOOLEAN
<1> SUFFICES ASSUME crashed \in BOOLEAN, [Next]_vars PROVE crashed' \in BOOLEAN
  OBVIOUS
<1>1. CASE PrintSockets
  BY <1>1 DEF PrintSockets
<1>2. CASE ~PrintSockets
  <2>1. crashed' = crashed
    BY <1>2 DEF Next, handleListenState, Establish, StartTimeOutTimer, Reset, TimeWaitTimeout,
                addAllSocketsToMap, Assign, StoreKeys, StoreIds, VListen, TakeSyn, Create, Signal,
                Timeout, ListSockets, VClose, getListenSocket, CloseListener, CloseSocket, vars
  <2> QED
    BY <2>1
<1> QED
  BY <1>1, <1>2

LEMMA InvInit == Init => Inv
<1>1. Init => crashed \in BOOLEAN
  BY DEF Init
<1> QED
  BY <1>1, TablesInit, IdsInit DEF Inv

LEMMA InvNext == Inv /\ [Next]_vars => Inv'
  BY TablesNext, IdsNext, CrashedNext DEF Inv

\* Every table, id and goroutine keeps its type; in particular the search
\* for an id in updataSocketIds always finds one, and VAccept has a
\* connection object for every SYN.
THEOREM TypeCorrect == Spec => []TypeOK
<1>1. Inv => TypeOK
  BY DEF Inv, TablesOK, IdsOK, TableTypes, IdTypes, IdMaps, TypeOK
<1> QED
  BY InvInit, InvNext, <1>1, PTL DEF Spec

\* However many sockets there are, in whatever order range visits them and
\* whatever calls of updataSocketIds overlap, no id is given to two sockets.
THEOREM IdsStayUnique == Spec => []IdsUnique
<1>1. Inv => IdsUnique
  BY DEF Inv, IdsOK, UniqueIds, Unique, IdsUnique
<1> QED
  BY InvInit, InvNext, <1>1, PTL DEF Spec

\* A socket keeps its id through a call of updataSocketIds that no other
\* call overlaps.
THEOREM IdsAreStable == Spec => IdStable
<1> DEFINE Stable == \A u \in Updaters, k \in Sockets :
          update[u].pc = "store2" /\ ~update[u].overlaps /\ update'[u].pc = "idle"
              /\ k \in update[u].all /\ SocketKeyToId[k] # NoId
          => SocketKeyToId'[k] = SocketKeyToId[k]
<1>1. ASSUME Inv, [Next]_vars PROVE Stable
  <2> SUFFICES ASSUME NEW u \in Updaters, NEW k \in Sockets,
                      update[u].pc = "store2", ~update[u].overlaps, update'[u].pc = "idle",
                      k \in update[u].all, SocketKeyToId[k] # NoId
               PROVE  SocketKeyToId'[k] = SocketKeyToId[k]
    OBVIOUS
  <2>1. update \in [Updaters -> UpdateStates]
    BY <1>1 DEF Inv, IdsOK, IdTypes
  <2>2. CASE UNCHANGED <<ids, update>> \/ \E v \in Updaters : Begin(v) /\ UNCHANGED ids
    BY <2>2 DEF ids
  <2>3. ASSUME NEW v \in Updaters, addAllSocketsToMap(v) \/ Assign(v) \/ StoreKeys(v) \/ StoreIds(v)
        PROVE  SocketKeyToId'[k] = SocketKeyToId[k]
    <3>1. CASE addAllSocketsToMap(v) \/ StoreKeys(v)
      BY <3>1 DEF addAllSocketsToMap, StoreKeys, ids
    <3>2. CASE Assign(v)
      <4>1. PICK new : update' = [update EXCEPT ![v].pc = "store", ![v].new = new]
        BY <3>2 DEF Assign
      <4>2. update'[u].pc # "idle"
        BY <2>1, <4>1 DEF UpdateStates
      <4> QED
        BY <4>2
    <3>3. CASE StoreIds(v)
      <4>1. v = u
        BY <2>1, <3>3 DEF StoreIds
      <4>2. update[u].new[k] = SocketKeyToId[k]
        BY <1>1 DEF Inv, IdsOK, Keeping
      <4> QED
        BY <3>3, <4>1, <4>2 DEF StoreIds
    <3> QED
      BY <2>3, <3>1, <3>2, <3>3
  <2> QED
    BY <1>1, <2>2, <2>3, UpdateSteps
<1>2. Inv /\ [Next]_vars => [Stable]_vars
  BY <1>1
<1> QED
  BY InvInit, InvNext, <1>2, PTL DEF Spec, IdStable
=============================================================================
