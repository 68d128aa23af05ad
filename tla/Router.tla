------------------------------- MODULE Router -------------------------------
(***************************************************************************)
(* Inside one router: the goroutines that watch its RIP neighbours, and    *)
(* the lookup of a route for a packet, which takes no lock.                *)
(*                                                                         *)
(* Every packet sends on a channel of its source (timeoutHandler), from    *)
(* which a goroutine per neighbour receives (timeout); after 12 s without  *)
(* it forgets the neighbour, closes the channel and purges the routes.     *)
(* timeoutHandler looks the channel up with Device.Mutex and sends without *)
(* it: to send on a closed channel ends the program, and so does storing   *)
(* into ripChannels before Initialize has made it, which it does after it  *)
(* has started to listen.                                                  *)
(*                                                                         *)
(* Rip has the same neighbours and routes, for a network of routers and    *)
(* with the content of the packets.                                        *)
(***************************************************************************)
EXTENDS Integers, FiniteSets

CONSTANTS Configured,   \* RIP neighbours of the configuration
          Strangers,    \* other routers that send RIP packets to this one
          Channels,     \* channel objects; one nobody refers to is used again
          Senders,      \* goroutines that run timeoutHandler at a time
          Capacity,     \* of a channel (5 in the code)
          Prefixes,
          Bits,         \* length of each prefix
          Fixed,        \* local and static prefixes, which have cost 0
          FixedHop,     \* the address of their hop
          Matching      \* the prefixes that contain the destination looked up

Sources == Configured \cup Strangers

ASSUME RouterAssumption ==
    /\ Configured \cap Strangers = {}
    /\ IsFiniteSet(Channels) /\ IsFiniteSet(Prefixes)
    /\ Capacity \in Nat \ {0}
    /\ Bits \in [Prefixes -> 0..32]
    /\ Matching \subseteq Prefixes /\ Fixed \subseteq Prefixes

none == "none"
elsewhere == "elsewhere"    \* an address that sends no RIP packet
ASSUME NoneAssumption ==
    /\ none \notin Sources \cup Channels \cup Prefixes
    /\ elsewhere \notin Sources \cup {none}

Addresses == Sources \cup {elsewhere}

\* A static route may go through a neighbour.
ASSUME HopAssumption == FixedHop \in [Fixed -> Addresses]

VARIABLES
    starting,       \* neighbours Initialize has yet to make a channel for
    made,           \* Initialize has made the map ripChannels
    unasked,        \* neighbours Initialize could not send to: no channel
    RipNeighbors, ripChannels,
    buffered, closed,   \* of each channel object
    watch,          \* the timeout goroutine of each channel object
    sender,         \* the channel each timeoutHandler is about to send on
    Table,          \* the hop of each prefix, NoHop for one that is not in it
    lookup,         \* getDstPrefix and sendPacket
    crashed         \* a panic ended the program

channels == <<ripChannels, buffered, closed, watch>>
vars == <<starting, made, unasked, RipNeighbors, channels, sender, Table, lookup, crashed>>

\* Hop; all costs above 0 are one.
NoHop == [Addr |-> none, Cost |-> 0]
Static(a) == [Addr |-> a, Cost |-> 0]
Learned(a) == [Addr |-> a, Cost |-> 1]
InTable(table) == {p \in Prefixes : table[p] # NoHop}

NotWatching == [pc |-> "none", ip |-> none]
NoLookup == [pc |-> "idle", visited |-> {}, stayed |-> {}, best |-> none]

Init ==
    /\ starting = Configured
    /\ made = FALSE
    /\ unasked = {}
    /\ RipNeighbors = Configured
    /\ ripChannels = [a \in Sources |-> none]
    /\ buffered = [c \in Channels |-> 0]
    /\ closed = {}
    /\ watch = [c \in Channels |-> NotWatching]
    /\ sender = [s \in Senders |-> none]
    /\ Table = [p \in Prefixes |-> IF p \in Fixed THEN Static(FixedHop[p]) ELSE NoHop]
    /\ lookup = NoLookup
    /\ crashed = FALSE

-----------------------------------------------------------------------------
(* Channels and the goroutines that watch them                              *)

Unreferenced(c) ==
    /\ \A a \in Sources : ripChannels[a] # c
    /\ watch[c].pc = "none"
    /\ \A s \in Senders : sender[s] # c

\* ripChannels[a] = make(chan bool, 5), and go timeout
Watch(a) ==
    LET c == CHOOSE d \in Channels : Unreferenced(d)
    IN  /\ \E d \in Channels : Unreferenced(d)
        /\ ripChannels' = [ripChannels EXCEPT ![a] = c]
        /\ buffered' = [buffered EXCEPT ![c] = 0]
        /\ closed' = closed \ {c}
        /\ watch' = [watch EXCEPT ![c] = [pc |-> "select", ip |-> a]]

\* Initialize makes the map ...
MakeChannels ==
    /\ ~crashed
    /\ ~made
    /\ made' = TRUE
    /\ UNCHANGED <<starting, unasked, RipNeighbors, channels, sender, Table, lookup, crashed>>

\* ... and asks every neighbour of the configuration; one it cannot send to
\* gets no channel and stays a neighbour.
AskNeighbour(a) ==
    /\ ~crashed
    /\ made
    /\ a \in starting
    /\ starting' = starting \ {a}
    /\ \/ Watch(a) /\ UNCHANGED unasked
       \/ unasked' = unasked \cup {a} /\ UNCHANGED channels
    /\ UNCHANGED <<made, RipNeighbors, sender, Table, lookup, crashed>>

\* A packet from a: timeoutHandler looks up the channel with the mutex held.
\* Goroutines that do not run are interchangeable.
timeoutHandler(s, a) ==
    /\ ~crashed
    /\ sender[s] = none
    /\ s = CHOOSE r \in Senders : sender[r] = none
    /\ ripChannels[a] # none
    /\ sender' = [sender EXCEPT ![s] = ripChannels[a]]
    /\ UNCHANGED <<starting, made, unasked, RipNeighbors, channels, Table, lookup, crashed>>

\* channel <- true, without the mutex: it waits for room in the buffer
Send(s) ==
    LET c == sender[s]
    IN  /\ ~crashed
        /\ c # none
        /\ c \notin closed
        /\ buffered[c] < Capacity
        /\ buffered' = [buffered EXCEPT ![c] = @ + 1]
        /\ sender' = [sender EXCEPT ![s] = none]
        /\ UNCHANGED <<starting, made, unasked, RipNeighbors, ripChannels, closed, watch, Table, lookup, crashed>>

\* The same on a channel that timeout has closed since, or closes while the
\* goroutine waits.
SendPanics(s) ==
    /\ ~crashed
    /\ sender[s] \in closed
    /\ crashed' = TRUE
    /\ UNCHANGED <<starting, made, unasked, RipNeighbors, channels, sender, Table, lookup>>

\* timeout receives, and its timer starts again.
Receive(c) ==
    /\ ~crashed
    /\ watch[c].pc = "select"
    /\ buffered[c] > 0
    /\ buffered' = [buffered EXCEPT ![c] = @ - 1]
    /\ UNCHANGED <<starting, made, unasked, RipNeighbors, ripChannels, closed, watch, sender, Table, lookup, crashed>>

\* timeout takes the branch of its timer; what is sent from now on is not
\* received.
TimerFires(c) ==
    /\ ~crashed
    /\ watch[c].pc = "select"
    /\ watch' = [watch EXCEPT ![c].pc = "expired"]
    /\ UNCHANGED <<starting, made, unasked, RipNeighbors, ripChannels, buffered, closed, sender, Table, lookup, crashed>>

\* Routes change: lookup.stayed are the prefixes that were in the table
\* ever since the lookup began.
SetTable(table) ==
    /\ Table' = table
    /\ lookup' = [lookup EXCEPT !.stayed = @ \cap InTable(table)]

\* The table without the routes through a, static ones included.
Without(a) == [p \in Prefixes |-> IF Table[p].Addr = a THEN NoHop ELSE Table[p]]

\* mutant: the channel is taken out of the map and not closed
ToCloseNone(a) == {}
ToClose(a) == {ripChannels[a]}

\* The rest of that branch, with the mutex held.
Expire(c) ==
    LET a == watch[c].ip
    IN  /\ ~crashed
        /\ watch[c].pc = "expired"
        /\ watch' = [watch EXCEPT ![c] = NotWatching]
        /\ \/ /\ a \in RipNeighbors
              /\ RipNeighbors' = RipNeighbors \ {a}
              /\ closed' = closed \cup ToClose(a)
              /\ ripChannels' = [ripChannels EXCEPT ![a] = none]
              /\ SetTable(Without(a))
           \/ /\ a \notin RipNeighbors
              /\ UNCHANGED <<RipNeighbors, closed, ripChannels, Table, lookup>>
        /\ UNCHANGED <<starting, made, unasked, buffered, sender, crashed>>

\* mutant: a source is added whether or not it is a neighbour
IsStaleAlways(a) == TRUE
\* addNeighboursIfStale: a is not among the neighbours.
IsStale(a) == a \notin RipNeighbors

\* The prefixes for which a route from a may be taken: the new ones, those
\* with a cost it may be below, and those it has the hop of, static ones too.
Offers(a) == {p \in Prefixes : Table[p] = NoHop \/ Table[p].Cost > 0 \/ Table[p].Addr = a}

\* What a packet from a may do to the table, costs aside: nothing, a new,
\* better or worse route, or the loss of one.
Updates(a) ==
    {Table} \cup {[Table EXCEPT ![p] = Learned(a)] : p \in Offers(a)}
            \cup {[Table EXCEPT ![p] = NoHop] : p \in {q \in Prefixes : Table[q] = Learned(a)}}

\* RipHandler, with the mutex held
RipHandler(a) ==
    /\ ~crashed
    /\ IsStale(a) => made
    /\ IF IsStale(a) THEN RipNeighbors' = RipNeighbors \cup {a} /\ Watch(a)
       ELSE UNCHANGED <<RipNeighbors, channels>>
    /\ \E table \in Updates(a) : SetTable(table)
    /\ UNCHANGED <<starting, made, unasked, sender, crashed>>

\* The same before ripChannels is made: the entry is stored in a nil map.
RipHandlerPanics(a) ==
    /\ ~crashed
    /\ IsStale(a) /\ ~made
    /\ crashed' = TRUE
    /\ UNCHANGED <<starting, made, unasked, RipNeighbors, channels, sender, Table, lookup>>

-----------------------------------------------------------------------------
(* The lookup, without the mutex                                            *)

\* Handler has a packet that is not for this router.
Forward ==
    /\ ~crashed
    /\ lookup.pc = "idle"
    /\ lookup' = [NoLookup EXCEPT !.pc = "range", !.stayed = InTable(Table)]
    /\ UNCHANGED <<starting, made, unasked, RipNeighbors, channels, sender, Table, crashed>>

PrefixSize == IF lookup.best = none THEN 0 ELSE Bits[lookup.best]

\* mutant: an equal size does not count
TakesStrict(p) == p \in Matching /\ PrefixSize < Bits[p]
Takes(p) == p \in Matching /\ PrefixSize <= Bits[p]

\* One round of getDstPrefix's range, which visits the entries in any order.
Visit(p) ==
    /\ ~crashed
    /\ lookup.pc = "range"
    /\ p \in InTable(Table) \ lookup.visited
    /\ lookup' = [lookup EXCEPT !.visited = @ \cup {p}, !.best = IF Takes(p) THEN p ELSE @]
    /\ UNCHANGED <<starting, made, unasked, RipNeighbors, channels, sender, Table, crashed>>

\* range ends when it has visited every entry that was there all the time;
\* one that came meanwhile it may miss.
RangeEnds ==
    /\ ~crashed
    /\ lookup.pc = "range"
    /\ lookup.stayed \subseteq lookup.visited
    /\ lookup' = [lookup EXCEPT !.pc = IF lookup.best = none THEN "lost" ELSE "found"]
    /\ UNCHANGED <<starting, made, unasked, RipNeighbors, channels, sender, Table, crashed>>

\* findIp and sendPacket: the hop of the route found, the zero one if the
\* route is gone by now, or the destination itself says which neighbour the
\* packet goes to, if any.  Neither changes anything here.
sendPacket ==
    /\ ~crashed
    /\ lookup.pc \in {"found", "lost"}
    /\ lookup' = NoLookup
    /\ UNCHANGED <<starting, made, unasked, RipNeighbors, channels, sender, Table, crashed>>

-----------------------------------------------------------------------------
Next ==
    \/ MakeChannels
    \/ \E a \in Configured : AskNeighbour(a)
    \/ \E s \in Senders : Send(s) \/ SendPanics(s) \/ \E a \in Sources : timeoutHandler(s, a)
    \/ \E c \in Channels : Receive(c) \/ TimerFires(c) \/ Expire(c)
    \/ \E a \in Sources : RipHandler(a) \/ RipHandlerPanics(a)
    \/ Forward \/ RangeEnds \/ sendPacket
    \/ \E p \in Prefixes : Visit(p)

Spec == Init /\ [][Next]_vars

\* The goroutines of timeoutHandler and timeout run when they can, and a
\* channel serves those that wait to send on it in turn.  Timers need not
\* fire while packets come.
Fairness ==
    /\ \A s \in Senders : SF_vars(Send(s)) /\ WF_vars(SendPanics(s))
    /\ \A c \in Channels : WF_vars(Receive(c) \/ Expire(c))

FairSpec == Spec /\ Fairness

-----------------------------------------------------------------------------
(* Properties                                                               *)

\* Every neighbour that Initialize could send to, and every one added
\* since, has an open channel in the map and exactly one goroutine that
\* will time it out; nobody else has; and every learned route goes through
\* a neighbour.
TimedNeighbours ==
    /\ \A a \in Sources :
          IF a \in RipNeighbors \ (starting \cup unasked)
          THEN /\ ripChannels[a] \in Channels \ closed
               /\ {c \in Channels : watch[c].ip = a} = {ripChannels[a]}
          ELSE /\ ripChannels[a] = none
               /\ \A c \in Channels : watch[c].ip # a
    /\ \A p \in Prefixes : Table[p].Cost > 0 => Table[p].Addr \in RipNeighbors

\* A call of timeoutHandler, in Listen's or in Handler's goroutine, is not
\* stuck on a channel nobody receives from: it returns, or ends the program
\* because the channel was closed.
TouchReturns ==
    \A s \in Senders : sender[s] # none ~> (sender[s] = none \/ crashed)

\* Whatever the order of the table's entries, and whatever RIP and timeouts
\* do to it meanwhile, the route found is at least as specific as every
\* matching one that was there all the time, the default route included.
RoutedByLongest ==
    lookup.pc \in {"lost", "found"} =>
        \A p \in lookup.stayed \cap Matching :
            lookup.best \in Matching /\ Bits[p] <= Bits[lookup.best]
=============================================================================
