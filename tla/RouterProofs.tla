---------------------------- MODULE RouterProofs ----------------------------
(***************************************************************************)
(* Proofs about Router, for every set of neighbours, channels, senders and *)
(* prefixes and every capacity of the channels.                            *)
(***************************************************************************)
EXTENDS Router, TLAPS

-----------------------------------------------------------------------------
(* The inductive invariant.                                                 *)

Hops == [Addr : Addresses \cup {none}, Cost : {0, 1}]

Types ==
    /\ starting \subseteq Configured
    /\ unasked \subseteq Configured
    /\ RipNeighbors \subseteq Sources
    /\ ripChannels \in [Sources -> Channels \cup {none}]
    /\ closed \subseteq Channels
    /\ watch \in [Channels -> [pc : {"none", "select", "expired"}, ip : Sources \cup {none}]]
    /\ Table \in [Prefixes -> Hops]
    /\ lookup \in [pc : {"idle", "range", "lost", "found"},
                   visited : SUBSET Prefixes, stayed : SUBSET Prefixes,
                   best : Prefixes \cup {none}]

\* A channel has a watcher exactly if the watcher has an address, and the
\* neighbours that have no channel yet, or never get one, stay neighbours.
Watchers ==
    /\ \A c \in Channels : watch[c].pc = "none" <=> watch[c].ip = none
    /\ starting \cup unasked \subseteq RipNeighbors
    /\ starting \cap unasked = {}

\* What the lookup knows after the entries it has visited.
Progress ==
    /\ lookup.best \in Matching \cup {none}
    /\ \A p \in lookup.visited \cap Matching :
          lookup.best \in Matching /\ Bits[p] <= Bits[lookup.best]
    /\ lookup.pc \in {"lost", "found"} => lookup.stayed \subseteq lookup.visited

Inv == Types /\ Watchers /\ TimedNeighbours /\ Progress /\ RoutedByLongest

LEMMA Distinct ==
    /\ none \notin Sources /\ none \notin Addresses
    /\ none \notin Channels /\ none \notin Prefixes
    /\ Configured \subseteq Sources /\ Sources \subseteq Addresses
  BY NoneAssumption DEF Sources, Addresses

LEMMA HopFacts ==
    ASSUME NEW a \in Addresses
    PROVE  /\ Static(a) \in Hops /\ Static(a).Addr = a /\ Static(a).Cost = 0
           /\ Learned(a) \in Hops /\ Learned(a).Addr = a /\ Learned(a).Cost = 1
           /\ NoHop \in Hops /\ NoHop.Cost = 0
  BY DEF Static, Learned, NoHop, Hops

LEMMA InvInit == Init => Inv
<1> SUFFICES ASSUME Init PROVE Inv
  OBVIOUS
<1> USE Distinct DEF Init
<1>1. Types
  <2>1. Table \in [Prefixes -> Hops]
    BY HopFacts, HopAssumption, RouterAssumption DEF NoHop, Hops
  <2> QED
    BY <2>1 DEF Types, NotWatching, NoLookup
<1>2. Watchers
  BY DEF Watchers, NotWatching
<1>3. TimedNeighbours
  <2>1. \A p \in Prefixes : Table[p].Cost = 0
    BY DEF Static, NoHop
  <2> QED
    BY <2>1 DEF TimedNeighbours, NotWatching
<1>5. Progress
  BY DEF Progress, NoLookup
<1>6. RoutedByLongest
  BY DEF RoutedByLongest, NoLookup
<1> QED
  BY <1>1, <1>2, <1>3, <1>5, <1>6 DEF Inv

-----------------------------------------------------------------------------
(* Channels and neighbours.                                                 *)

\* A new channel is one nobody has, with a watcher of its own.
LEMMA WatchFacts ==
    ASSUME Types, NEW a \in Sources, Watch(a)
    PROVE  \E c \in Channels :
              /\ watch[c].pc = "none"
              /\ \A b \in Sources : ripChannels[b] # c
              /\ ripChannels' = [ripChannels EXCEPT ![a] = c]
              /\ closed' = closed \ {c}
              /\ watch' = [watch EXCEPT ![c] = [pc |-> "select", ip |-> a]]
<1> DEFINE c == CHOOSE d \in Channels : Unreferenced(d)
<1>1. c \in Channels /\ Unreferenced(c)
  BY DEF Watch
<1>2. /\ ripChannels' = [ripChannels EXCEPT ![a] = c]
      /\ closed' = closed \ {c}
      /\ watch' = [watch EXCEPT ![c] = [pc |-> "select", ip |-> a]]
  BY DEF Watch
<1> HIDE DEF c
<1> QED
  BY <1>1, <1>2 DEF Unreferenced

\* A source without a channel gets one.
LEMMA WatchTimes ==
    ASSUME Types, Watchers, TimedNeighbours, NEW a \in Sources, Watch(a),
           a \notin RipNeighbors \ (starting \cup unasked),
           RipNeighbors' = RipNeighbors \cup {a}, starting' = starting \ {a},
           unasked' = unasked, a \notin unasked
    PROVE  /\ ripChannels' \in [Sources -> Channels \cup {none}]
           /\ closed' \subseteq Channels
           /\ watch' \in [Channels -> [pc : {"none", "select", "expired"}, ip : Sources \cup {none}]]
           /\ Watchers'
           /\ \A b \in Sources :
                 IF b \in RipNeighbors' \ (starting' \cup unasked')
                 THEN /\ ripChannels'[b] \in Channels \ closed'
                      /\ {d \in Channels : watch'[d].ip = b} = {ripChannels'[b]}
                 ELSE /\ ripChannels'[b] = none
                      /\ \A d \in Channels : watch'[d].ip # b
<1> USE Distinct
<1>1. PICK c \in Channels :
              /\ watch[c].pc = "none"
              /\ \A b \in Sources : ripChannels[b] # c
              /\ ripChannels' = [ripChannels EXCEPT ![a] = c]
              /\ closed' = closed \ {c}
              /\ watch' = [watch EXCEPT ![c] = [pc |-> "select", ip |-> a]]
  BY WatchFacts
<1>2. /\ ripChannels' \in [Sources -> Channels \cup {none}]
      /\ closed' \subseteq Channels
      /\ watch' \in [Channels -> [pc : {"none", "select", "expired"}, ip : Sources \cup {none}]]
  BY <1>1 DEF Types
<1>3. /\ watch'[c] = [pc |-> "select", ip |-> a] /\ watch[c].ip = none
      /\ \A d \in Channels \ {c} : watch'[d] = watch[d]
      /\ ripChannels'[a] = c
      /\ \A b \in Sources \ {a} : ripChannels'[b] = ripChannels[b]
  BY <1>1 DEF Types, Watchers
<1>4. Watchers'
  BY <1>3 DEF Watchers, Types
<1>5. ASSUME NEW b \in Sources
      PROVE  IF b \in RipNeighbors' \ (starting' \cup unasked')
             THEN /\ ripChannels'[b] \in Channels \ closed'
                  /\ {d \in Channels : watch'[d].ip = b} = {ripChannels'[b]}
             ELSE /\ ripChannels'[b] = none
                  /\ \A d \in Channels : watch'[d].ip # b
  <2>1. CASE b = a
    BY <1>1, <1>3, <2>1 DEF TimedNeighbours
  <2>2. CASE b # a
    <3>1. b \in RipNeighbors' \ (starting' \cup unasked')
             <=> b \in RipNeighbors \ (starting \cup unasked)
      BY <2>2
    <3>2. \A d \in Channels : watch'[d].ip = b <=> watch[d].ip = b
      BY <1>3, <2>2
    <3> QED
      BY <1>1, <1>3, <2>2, <3>1, <3>2 DEF TimedNeighbours
  <2> QED
    BY <2>1, <2>2
<1> QED
  BY <1>2, <1>4, <1>5

\* What holds of the channels alone (the first part of TimedNeighbours).
Timed ==
    \A a \in Sources :
       IF a \in RipNeighbors \ (starting \cup unasked)
       THEN /\ ripChannels[a] \in Channels \ closed
            /\ {c \in Channels : watch[c].ip = a} = {ripChannels[a]}
       ELSE /\ ripChannels[a] = none
            /\ \A c \in Channels : watch[c].ip # a

Through == \A p \in Prefixes : Table[p].Cost > 0 => Table[p].Addr \in RipNeighbors

LEMMA TimedParts == TimedNeighbours <=> Timed /\ Through
  BY DEF TimedNeighbours, Timed, Through

ChannelTypes ==
    /\ starting \subseteq Configured
    /\ unasked \subseteq Configured
    /\ RipNeighbors \subseteq Sources
    /\ ripChannels \in [Sources -> Channels \cup {none}]
    /\ closed \subseteq Channels
    /\ watch \in [Channels -> [pc : {"none", "select", "expired"}, ip : Sources \cup {none}]]

TableTypes ==
    /\ Table \in [Prefixes -> Hops]
    /\ lookup \in [pc : {"idle", "range", "lost", "found"},
                   visited : SUBSET Prefixes, stayed : SUBSET Prefixes,
                   best : Prefixes \cup {none}]

LEMMA InvParts ==
    Inv <=> /\ ChannelTypes /\ Watchers /\ Timed /\ Through
            /\ TableTypes /\ Progress /\ RoutedByLongest
  BY TimedParts DEF Inv, Types, ChannelTypes, TableTypes

LEMMA InvNextParts ==
    Inv' <=> /\ ChannelTypes' /\ Watchers' /\ Timed' /\ Through'
             /\ TableTypes' /\ Progress' /\ RoutedByLongest'
  BY DEF Inv, Types, ChannelTypes, TableTypes, TimedNeighbours, Timed, Through

-----------------------------------------------------------------------------
(* The table and the lookup.                                                *)

\* A change of routes keeps what the lookup knows.
LEMMA TableChanges ==
    ASSUME TableTypes, Progress, RoutedByLongest,
           NEW table \in [Prefixes -> Hops],
           SetTable(table)
    PROVE  TableTypes' /\ Progress' /\ RoutedByLongest'
<1>1. /\ Table' = table
      /\ lookup'.stayed = lookup.stayed \cap InTable(table)
      /\ lookup'.pc = lookup.pc /\ lookup'.visited = lookup.visited
      /\ lookup'.best = lookup.best
      /\ lookup' \in [pc : {"idle", "range", "lost", "found"},
                   visited : SUBSET Prefixes, stayed : SUBSET Prefixes,
                   best : Prefixes \cup {none}]
  BY DEF SetTable, TableTypes
<1>2. TableTypes'
  BY <1>1 DEF TableTypes
<1>3. lookup'.stayed \subseteq lookup.stayed
  BY <1>1
<1>4. Progress'
  BY <1>1, <1>3 DEF Progress
<1>5. RoutedByLongest'
  BY <1>1, <1>3 DEF RoutedByLongest
<1> QED
  BY <1>2, <1>4, <1>5

\* The neighbours of learned routes, when routes and neighbours change.
LEMMA UpdateFacts ==
    ASSUME TableTypes, Through, NEW a \in Sources, NEW table \in Updates(a)
    PROVE  /\ table \in [Prefixes -> Hops]
           /\ \A p \in Prefixes : table[p].Cost > 0 => table[p].Addr \in RipNeighbors \cup {a}
<1>1. /\ Learned(a) \in Hops /\ Learned(a).Addr = a
      /\ NoHop \in Hops /\ NoHop.Cost = 0
  BY Distinct, HopFacts
<1>2. CASE table = Table
  BY <1>2 DEF TableTypes, Through
<1>3. ASSUME NEW q \in Prefixes, table = [Table EXCEPT ![q] = Learned(a)]
      PROVE  /\ table \in [Prefixes -> Hops]
             /\ \A p \in Prefixes : table[p].Cost > 0 => table[p].Addr \in RipNeighbors \cup {a}
  BY <1>1, <1>3 DEF TableTypes, Through
<1>4. ASSUME NEW q \in Prefixes, table = [Table EXCEPT ![q] = NoHop]
      PROVE  /\ table \in [Prefixes -> Hops]
             /\ \A p \in Prefixes : table[p].Cost > 0 => table[p].Addr \in RipNeighbors \cup {a}
  BY <1>1, <1>4 DEF TableTypes, Through
<1> QED
  BY <1>2, <1>3, <1>4 DEF Updates, Offers

LEMMA WithoutFacts ==
    ASSUME TableTypes, Through, NEW a \in Sources
    PROVE  /\ Without(a) \in [Prefixes -> Hops]
           /\ \A p \in Prefixes : Without(a)[p].Cost > 0 => Without(a)[p].Addr \in RipNeighbors \ {a}
<1>1. NoHop \in Hops /\ NoHop.Cost = 0
  BY DEF NoHop, Hops
<1> QED
  BY <1>1 DEF Without, TableTypes, Through

-----------------------------------------------------------------------------
(* One lemma per action that changes neighbours, channels or routes.        *)

LEMMA AskKeeps ==
    ASSUME Inv, NEW a \in Configured, AskNeighbour(a)
    PROVE  Inv'
<1> USE Distinct
<1>1. /\ a \in Sources /\ a \in starting /\ starting' = starting \ {a}
      /\ UNCHANGED <<RipNeighbors, Table, lookup>>
  BY DEF AskNeighbour
<1>2. TableTypes' /\ Progress' /\ RoutedByLongest' /\ Through'
  BY <1>1, InvParts DEF TableTypes, Progress, RoutedByLongest, Through
<1>3. CASE Watch(a) /\ UNCHANGED unasked
  <2>1. /\ a \notin RipNeighbors \ (starting \cup unasked)
        /\ RipNeighbors' = RipNeighbors \cup {a}
        /\ a \notin unasked
    BY <1>1 DEF Inv, Watchers
  <2>2. ChannelTypes' /\ Watchers' /\ Timed'
    BY <1>1, <1>3, <2>1, WatchTimes DEF Inv, Types, ChannelTypes, Timed
  <2> QED
    BY <1>2, <2>2, InvNextParts
<1>4. CASE unasked' = unasked \cup {a} /\ UNCHANGED channels
  <2>1. ChannelTypes' /\ Watchers' /\ Timed'
    BY <1>1, <1>4, InvParts DEF ChannelTypes, Watchers, Timed, channels
  <2> QED
    BY <1>2, <2>1, InvNextParts
<1> QED
  BY <1>3, <1>4 DEF AskNeighbour

LEMMA RipHandlerKeeps ==
    ASSUME Inv, NEW a \in Sources, RipHandler(a)
    PROVE  Inv'
<1> USE Distinct
<1>1. PICK table \in Updates(a) : SetTable(table)
  BY DEF RipHandler
<1>2. UNCHANGED <<starting, unasked>>
  BY DEF RipHandler
<1>3. TableTypes' /\ Progress' /\ RoutedByLongest'
  BY <1>1, UpdateFacts, TableChanges, InvParts
<1>4. Through' /\ ChannelTypes' /\ Watchers' /\ Timed'
  <2>1. RipNeighbors' = RipNeighbors \cup {a}
    BY DEF RipHandler, IsStale
  <2>2. Through'
    BY <1>1, <2>1, UpdateFacts, InvParts DEF SetTable, Through
  <2>3. CASE IsStale(a)
    <3>1. a \notin RipNeighbors /\ a \notin starting /\ a \notin unasked /\ Watch(a)
      BY <2>3 DEF Inv, Watchers, RipHandler, IsStale
    <3>2. starting' = starting \ {a}
      BY <1>2, <3>1
    <3> QED
      BY <1>2, <2>1, <2>2, <3>1, <3>2, WatchTimes DEF Inv, Types, ChannelTypes, Timed
  <2>4. CASE ~IsStale(a)
    <3>1. UNCHANGED <<RipNeighbors, ripChannels, closed, watch>>
      BY <2>4 DEF RipHandler, channels
    <3> QED
      BY <1>2, <2>2, <3>1, InvParts DEF ChannelTypes, Watchers, Timed
  <2> QED
    BY <2>3, <2>4
<1> QED
  BY <1>3, <1>4, InvNextParts

LEMMA ExpireKeeps ==
    ASSUME Inv, NEW c \in Channels, Expire(c)
    PROVE  Inv'
<1> USE Distinct
<1> DEFINE a == watch[c].ip
<1>1. a \in Sources
  BY DEF Expire, Inv, Types, Watchers
<1>2. /\ a \in RipNeighbors /\ a \notin starting /\ a \notin unasked
      /\ ripChannels[a] \in Channels \ closed
      /\ {d \in Channels : watch[d].ip = a} = {ripChannels[a]}
  BY <1>1, InvParts DEF Timed
<1>3. c = ripChannels[a]
  BY <1>2
<1>4. /\ watch' = [watch EXCEPT ![c] = NotWatching]
      /\ RipNeighbors' = RipNeighbors \ {a}
      /\ closed' = closed \cup {ripChannels[a]}
      /\ ripChannels' = [ripChannels EXCEPT ![a] = none]
      /\ SetTable(Without(a))
      /\ UNCHANGED <<starting, unasked>>
  BY <1>2 DEF Expire, ToClose
<1> HIDE DEF a
<1>5. TableTypes' /\ Progress' /\ RoutedByLongest'
  BY <1>1, <1>4, WithoutFacts, TableChanges, InvParts
<1>6. Through'
  BY <1>1, <1>4, WithoutFacts, InvParts DEF SetTable, Through
<1>7. ChannelTypes'
  <2>1. ripChannels' \in [Sources -> Channels \cup {none}]
    BY <1>1, <1>4, InvParts DEF ChannelTypes
  <2>2. NotWatching \in [pc : {"none", "select", "expired"}, ip : Sources \cup {none}]
    BY DEF NotWatching
  <2>3. watch' \in [Channels -> [pc : {"none", "select", "expired"}, ip : Sources \cup {none}]]
    BY <1>4, <2>2, InvParts DEF ChannelTypes
  <2>4. closed' \subseteq Channels
    BY <1>2, <1>4, InvParts DEF ChannelTypes
  <2> QED
    BY <1>4, <2>1, <2>3, <2>4, InvParts DEF ChannelTypes
<1>8. /\ watch'[c] = NotWatching
      /\ \A d \in Channels \ {c} : watch'[d] = watch[d] /\ watch[d].ip # a
      /\ ripChannels'[a] = none
      /\ \A b \in Sources \ {a} : ripChannels'[b] = ripChannels[b]
  BY <1>1, <1>2, <1>3, <1>4, InvParts DEF ChannelTypes
<1>9. Watchers'
  BY <1>1, <1>2, <1>4, <1>8, InvParts DEF Watchers, NotWatching
<1>10. Timed'
  <2> SUFFICES ASSUME NEW b \in Sources
               PROVE  IF b \in RipNeighbors' \ (starting' \cup unasked')
                      THEN /\ ripChannels'[b] \in Channels \ closed'
                           /\ {d \in Channels : watch'[d].ip = b} = {ripChannels'[b]}
                      ELSE /\ ripChannels'[b] = none
                           /\ \A d \in Channels : watch'[d].ip # b
    BY DEF Timed
  <2>1. CASE b = a
    BY <1>1, <1>4, <1>8, <2>1 DEF NotWatching
  <2>2. CASE b # a
    <3>1. \A d \in Channels : watch'[d].ip = b <=> watch[d].ip = b
      BY <1>1, <1>8, <2>2 DEF NotWatching, a
    <3>2. ripChannels[b] = c => watch[c].ip = b \/ ripChannels[b] = none
      BY InvParts DEF Timed
    <3>3. ripChannels[b] # c
      BY <2>2, <3>2 DEF a
    <3>4. b \in RipNeighbors' \ (starting' \cup unasked')
             <=> b \in RipNeighbors \ (starting \cup unasked)
      BY <1>4, <2>2
    <3> QED
      BY <1>3, <1>4, <1>8, <2>2, <3>1, <3>3, <3>4, InvParts DEF Timed
  <2> QED
    BY <2>1, <2>2
<1> QED
  BY <1>5, <1>6, <1>7, <1>9, <1>10, InvNextParts

LEMMA TimerFiresKeeps ==
    ASSUME Inv, NEW c \in Channels, TimerFires(c)
    PROVE  Inv'
<1>1. /\ watch[c].pc = "select" /\ watch' = [watch EXCEPT ![c].pc = "expired"]
      /\ UNCHANGED <<starting, unasked, RipNeighbors, ripChannels, closed, Table, lookup>>
  BY DEF TimerFires
<1>2. /\ watch' \in [Channels -> [pc : {"none", "select", "expired"}, ip : Sources \cup {none}]]
      /\ \A d \in Channels : watch'[d].ip = watch[d].ip
      /\ \A d \in Channels : watch'[d].pc = "none" <=> watch[d].pc = "none"
  BY <1>1, InvParts DEF ChannelTypes
<1>3. ChannelTypes' /\ Watchers' /\ Timed' /\ Through'
  BY <1>1, <1>2, InvParts DEF ChannelTypes, Watchers, Timed, Through
<1>4. TableTypes' /\ Progress' /\ RoutedByLongest'
  BY <1>1, InvParts DEF TableTypes, Progress, RoutedByLongest
<1> QED
  BY <1>3, <1>4, InvNextParts

-----------------------------------------------------------------------------
(* The lookup's own steps.                                                  *)

LEMMA LookupKeeps ==
    ASSUME Inv,
           UNCHANGED <<starting, unasked, RipNeighbors, ripChannels, closed, watch, Table>>,
           TableTypes', Progress', RoutedByLongest'
    PROVE  Inv'
<1>1. ChannelTypes' /\ Watchers' /\ Timed' /\ Through'
  BY InvParts DEF ChannelTypes, Watchers, Timed, Through
<1> QED
  BY <1>1, InvNextParts

LEMMA VisitKeeps ==
    ASSUME Inv, NEW p \in Prefixes, Visit(p)
    PROVE  Inv'
<1> USE Distinct
<1>1. /\ lookup.pc = "range"
      /\ UNCHANGED <<starting, unasked, RipNeighbors, ripChannels, closed, watch, Table>>
  BY DEF Visit, channels
<1>2. /\ lookup'.visited = lookup.visited \cup {p}
      /\ lookup'.best = IF Takes(p) THEN p ELSE lookup.best
      /\ lookup'.pc = "range" /\ lookup'.stayed = lookup.stayed
      /\ TableTypes'
  BY <1>1, InvParts DEF Visit, TableTypes
<1>3. /\ \A q \in Prefixes : Bits[q] \in 0..32
      /\ Matching \subseteq Prefixes
  BY RouterAssumption
<1>4. ASSUME NEW q \in lookup'.visited \cap Matching
      PROVE  lookup'.best \in Matching /\ Bits[q] <= Bits[lookup'.best]
  <2>1. CASE q \in lookup.visited
    BY <1>2, <1>3, <2>1, InvParts DEF Progress, Takes, PrefixSize
  <2>2. CASE q = p /\ q \notin lookup.visited
    BY <1>2, <1>3, <2>2, InvParts DEF Progress, Takes, PrefixSize
  <2> QED
    BY <1>2, <2>1, <2>2
<1>5. Progress'
  BY <1>1, <1>2, <1>4, InvParts DEF Progress, Takes
<1>6. RoutedByLongest'
  BY <1>2 DEF RoutedByLongest
<1> QED
  BY <1>1, <1>2, <1>5, <1>6, LookupKeeps

LEMMA RangeEndsKeeps ==
    ASSUME Inv, RangeEnds
    PROVE  Inv'
<1>1. /\ lookup.pc = "range" /\ lookup.stayed \subseteq lookup.visited
      /\ UNCHANGED <<starting, unasked, RipNeighbors, ripChannels, closed, watch, Table>>
  BY DEF RangeEnds, channels
<1>2. /\ lookup'.pc = IF lookup.best = none THEN "lost" ELSE "found"
      /\ lookup'.visited = lookup.visited /\ lookup'.best = lookup.best
      /\ lookup'.stayed = lookup.stayed
      /\ TableTypes'
  BY <1>1, InvParts DEF RangeEnds, TableTypes
<1>3. Progress' /\ RoutedByLongest'
  BY <1>1, <1>2, InvParts DEF Progress, RoutedByLongest
<1> QED
  BY <1>1, <1>2, <1>3, LookupKeeps

LEMMA ForwardKeeps ==
    ASSUME Inv, Forward \/ sendPacket
    PROVE  Inv'
<1>1. UNCHANGED <<starting, unasked, RipNeighbors, ripChannels, closed, watch, Table>>
  BY DEF Forward, sendPacket, channels
<1>2. /\ lookup'.pc \in {"idle", "range"} /\ lookup'.visited = {} /\ lookup'.best = none
      /\ TableTypes'
  <2>1. CASE Forward
    BY <1>1, <2>1, InvParts DEF Forward, NoLookup, TableTypes, InTable
  <2>2. CASE sendPacket
    BY <1>1, <2>2, InvParts DEF sendPacket, NoLookup, TableTypes
  <2> QED
    BY <2>1, <2>2
<1>3. Progress' /\ RoutedByLongest'
  BY <1>1, <1>2 DEF Progress, RoutedByLongest
<1> QED
  BY <1>1, <1>2, <1>3, LookupKeeps

\* Steps of the senders and of the program that touch none of this.
LEMMA OtherKeeps ==
    ASSUME Inv, UNCHANGED <<starting, unasked, RipNeighbors, ripChannels, closed, watch, Table, lookup>>
    PROVE  Inv'
<1>1. TableTypes' /\ Progress' /\ RoutedByLongest'
  BY InvParts DEF TableTypes, Progress, RoutedByLongest
<1> QED
  BY <1>1, LookupKeeps

LEMMA InvNext == Inv /\ [Next]_vars => Inv'
<1> SUFFICES ASSUME Inv, [Next]_vars PROVE Inv'
  OBVIOUS
<1>1. CASE MakeChannels
  BY <1>1, OtherKeeps DEF MakeChannels, channels
<1>2. CASE \E a \in Configured : AskNeighbour(a)
  BY <1>2, AskKeeps
<1>3. ASSUME NEW s \in Senders, Send(s) \/ SendPanics(s) \/ \E a \in Sources : timeoutHandler(s, a)
      PROVE  Inv'
  BY <1>3, OtherKeeps DEF Send, SendPanics, timeoutHandler, channels
<1>4. ASSUME NEW c \in Channels, Receive(c) \/ TimerFires(c) \/ Expire(c)
      PROVE  Inv'
  <2>1. CASE Receive(c)
    BY <2>1, OtherKeeps DEF Receive
  <2> QED
    BY <1>4, <2>1, TimerFiresKeeps, ExpireKeeps
<1>5. ASSUME NEW a \in Sources, RipHandler(a) \/ RipHandlerPanics(a)
      PROVE  Inv'
  <2>1. CASE RipHandlerPanics(a)
    BY <2>1, OtherKeeps DEF RipHandlerPanics, channels
  <2> QED
    BY <1>5, <2>1, RipHandlerKeeps
<1>6. CASE Forward \/ RangeEnds \/ sendPacket
  BY <1>6, ForwardKeeps, RangeEndsKeeps
<1>7. CASE \E p \in Prefixes : Visit(p)
  BY <1>7, VisitKeeps
<1>8. CASE UNCHANGED vars
  BY <1>8, OtherKeeps DEF vars, channels
<1> QED
  BY <1>1, <1>2, <1>3, <1>4, <1>5, <1>6, <1>7, <1>8 DEF Next

-----------------------------------------------------------------------------
\* Whatever timers, packets and Initialize do, every neighbour that could
\* be asked or was added since has one open channel in ripChannels and one
\* goroutine of timeout, nobody else has, and learned routes go through
\* neighbours: addNeighboursIfStale and timeout agree.
THEOREM NeighboursAreTimed == Spec => []TimedNeighbours
<1>1. Inv => TimedNeighbours
  BY DEF Inv
<1> QED
  BY InvInit, InvNext, <1>1, PTL DEF Spec

\* getDstPrefix, without the mutex, returns a route at least as specific as
\* each matching one that stayed in the table: for every table, every order
\* of its entries and every change of it meanwhile.
THEOREM LookupFindsLongest == Spec => []RoutedByLongest
<1>1. Inv => RoutedByLongest
  BY DEF Inv
<1> QED
  BY InvInit, InvNext, <1>1, PTL DEF Spec
=============================================================================
