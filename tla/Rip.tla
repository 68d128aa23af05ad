-------------------------------- MODULE Rip --------------------------------
(***************************************************************************)
(* Distance-vector routing between routers: the routing table, the RIP     *)
(* handler with its triggered updates, the periodic update, the neighbour  *)
(* timeout, and the up, down and exit commands.                            *)
(*                                                                         *)
(* A neighbour is known by the address it has on the link to it; with one  *)
(* link per pair of routers that address is the neighbour, and an          *)
(* interface is one end of a link.  Device.Mutex makes every handler and   *)
(* the purge of a timeout one step.  Packets are UDP datagrams: they may   *)
(* be lost, and as each is handled by a goroutine of its own they may be   *)
(* handled out of order.                                                   *)
(***************************************************************************)
EXTENDS Integers, Sequences, SequencesExt, FiniteSets

CONSTANTS Routers,     \* the routers
          Subnets,     \* the address prefixes of all interfaces
          Links,       \* <<r, n>>: r has an interface to its neighbour n
          Local,       \* Local[r]: prefixes of r's own interfaces
          Dist,        \* Dist[r][p]: links between r and the nearest owner of p
          INFINITY,    \* cost of an unreachable prefix: 16 in the code
          MaxEntries,  \* maxEntrySize: routes that fit a packet, 64 in the code
          MaxStarts,   \* bound: how often a router is started
          MaxDowns,    \* bound: how often an interface is taken down, in all
          MaxBacklog,  \* bound: see Rip and Silent
          Exits,       \* routers whose process may end
          Reorder,     \* may handlers run out of order?
          Lossy        \* may the network lose a packet?

ASSUME RipAssumption ==
    /\ Links \subseteq Routers \X Routers
    /\ \A l \in Links : l[1] # l[2] /\ <<l[2], l[1]>> \in Links
    /\ Local \in [Routers -> SUBSET Subnets]
    /\ Dist \in [Routers -> [Subnets -> Nat]]
    /\ \A r \in Routers, p \in Subnets : Dist[r][p] = 0 <=> p \in Local[r]
    /\ \A l \in Links, p \in Subnets : Dist[l[1]][p] <= Dist[l[2]][p] + 1
    /\ INFINITY \in Nat \ {0}
    /\ {MaxEntries, MaxStarts, MaxDowns, MaxBacklog} \subseteq Nat
    /\ Exits \subseteq Routers
    /\ {Reorder, Lossy} \subseteq BOOLEAN

VARIABLES
    alive,         \* alive[r]: is r's process running?
    table,         \* table[r]: Device.Table, prefix -> [addr, cost]
    RipNeighbors,  \* RipNeighbors[r]: neighbours with a running timeout
    iface,         \* iface[l]: the interface of l[1] to l[2]
    net,           \* net[l]: packets from l[1] in the socket of l[2], oldest first
    starts,        \* starts[r]: how often r was started
    downs          \* how often an interface was taken down

vars == <<alive, table, RipNeighbors, iface, net, starts, downs>>

Neighbours(r) == {n \in Routers : <<r, n>> \in Links}

\* IsUp is TRUE in "up" only.  Listen tests it before it blocks in Read: an
\* interface that goes down stays "draining" until Read returns once more.
IfaceStates == {"up", "draining", "down"}

LocalTable(r) == [p \in Local[r] |-> [addr |-> r, cost |-> 0]]
NoTable == [p \in {} |-> [addr |-> CHOOSE r \in Routers : TRUE, cost |-> 0]]

Init ==
    /\ alive = [r \in Routers |-> FALSE]
    /\ table = [r \in Routers |-> NoTable]
    /\ RipNeighbors = [r \in Routers |-> {}]
    /\ iface = [l \in Links |-> "up"]
    /\ net = [l \in Links |-> << >>]
    /\ starts = [r \in Routers |-> 0]
    /\ downs = 0

-----------------------------------------------------------------------------
(* Packets.                                                                 *)

\* A request carries no route.
Request == [command |-> "request", hosts |-> [p \in {} |-> 0]]

\* mutant: no split horizon
AdvertisedCostNoSplit(hop, dst) == hop.cost
\* Split horizon with poisoned reverse.
AdvertisedCost(hop, dst) == IF hop.addr = dst THEN INFINITY ELSE hop.cost

\* CreateRipPacket, for a response.
Response(dst, routes) ==
    [command |-> "response",
     hosts |-> [p \in DOMAIN routes |-> AdvertisedCost(routes[p], dst)]]

\* mutant: a full packet is refused
MarshalsShort(routes) == Cardinality(DOMAIN routes) \in 1..(MaxEntries - 1)
\* SendRip sends nothing of an empty table, and a table with more routes than
\* fit a packet is an error nobody looks at.
Marshals(routes) == Cardinality(DOMAIN routes) \in 1..MaxEntries

\* SendIP and sendPacket: from an interface that is up, into the socket of a
\* process that runs.
Reaches(src, dst) == <<src, dst>> \in Links /\ iface[<<src, dst>>] = "up" /\ alive[dst]

\* queues with a response of r, about routes, added for each router of dsts.
SendRip(queues, r, dsts, routes) ==
    [l \in Links |->
        IF l[1] = r /\ l[2] \in dsts /\ Reaches(r, l[2]) /\ Marshals(routes)
        THEN Append(queues[l], Response(l[2], routes))
        ELSE queues[l]]

-----------------------------------------------------------------------------
(* The RIP handler.                                                         *)

\* mutant: the hop to the neighbour is not counted
RouteCostSame(cost) == IF cost > INFINITY THEN INFINITY ELSE cost
RouteCost(cost) ==
    IF cost > INFINITY THEN INFINITY
    ELSE IF cost < INFINITY THEN cost + 1 ELSE cost

\* Is the route to p by src at this cost put in the table ...
Installs(routes, src, p, cost) ==
    /\ cost < INFINITY
    /\ p \in DOMAIN routes =>
        \/ cost < routes[p].cost
        \/ cost > routes[p].cost /\ routes[p].addr = src

\* mutant: an unreachable route is kept
PurgesNone(routes, src, p, cost) == FALSE
\* ... or is the route the table has, learned from src, deleted?
Purges(routes, src, p, cost) ==
    /\ cost >= INFINITY
    /\ p \in DOMAIN routes
    /\ routes[p].cost > 0
    /\ routes[p].addr = src

\* The routes that change, with the cost they are announced at (triggered),
\* and the table afterwards.
Triggered(routes, src, hosts) ==
    LET cost(p) == RouteCost(hosts[p])
        changed == {p \in DOMAIN hosts :
                        \/ Installs(routes, src, p, cost(p))
                        \/ Purges(routes, src, p, cost(p))}
    IN  [p \in changed |-> [addr |-> src, cost |-> cost(p)]]

\* mutant: unreachable routes stay in the table
UpdatedKeep(routes, src, hosts) ==
    LET news == Triggered(routes, src, hosts)
    IN  [p \in DOMAIN routes \cup DOMAIN news |->
            IF p \in DOMAIN news THEN news[p] ELSE routes[p]]
Updated(routes, src, hosts) ==
    LET news == Triggered(routes, src, hosts)
        gone == {p \in DOMAIN news : news[p].cost >= INFINITY}
    IN  [p \in (DOMAIN routes \cup DOMAIN news) \ gone |->
            IF p \in DOMAIN news THEN news[p] ELSE routes[p]]

addNeighboursIfStale(nbrs, src) == nbrs \cup {src}

\* Listen on the interface to src, then RipHandler: the sender is a neighbour
\* again if it had timed out; a response changes the table and the changes are
\* sent to all neighbours, a request is answered.
RipHandler(r, src) ==
    /\ alive[r]
    /\ iface[<<r, src>>] # "down"
    /\ iface' = [iface EXCEPT ![<<r, src>>] = IF @ = "up" THEN "up" ELSE "down"]
    /\ \E i \in 1..Len(net[<<src, r>>]) :
        LET packet == net[<<src, r>>][i]
            rest == [net EXCEPT ![<<src, r>>] = RemoveAt(@, i)]
            nbrs == addNeighboursIfStale(RipNeighbors[r], src)
        IN  /\ Reorder \/ i = 1
            /\ RipNeighbors' = [RipNeighbors EXCEPT ![r] = nbrs]
            /\ \/ /\ packet.command = "response"
                  /\ table' = [table EXCEPT ![r] = Updated(@, src, packet.hosts)]
                  /\ net' = SendRip(rest, r, nbrs,
                                    Triggered(table[r], src, packet.hosts))
               \/ /\ packet.command = "request"
                  /\ net' = SendRip(rest, r, {src}, table[r])
                  /\ table' = table
    /\ UNCHANGED <<alive, starts, downs>>

-----------------------------------------------------------------------------
(* Timers.                                                                  *)

\* Rip: the periodic update.  It is left out for a neighbour that has
\* MaxBacklog packets waiting already; the next period brings another.
Rip(r) ==
    /\ alive[r]
    /\ net' = SendRip(net, r,
                      {n \in RipNeighbors[r] : Len(net[<<r, n>>]) < MaxBacklog}, table[r])
    /\ UNCHANGED <<alive, table, RipNeighbors, iface, starts, downs>>

\* Nothing of n reaches r any more: r does not listen, or n has sent nothing
\* and cannot, or has given r up and cannot hear of it.  Updates are sent every
\* 5 seconds and the timeout is 12: a neighbour that can be heard is heard,
\* unless the network loses all it sends meanwhile (with MaxBacklog a bound on
\* what is under way then).
Silent(r, n) ==
    \/ iface[<<r, n>>] = "down"
    \/ /\ net[<<n, r>>] = << >>
       /\ \/ Lossy /\ \A l \in Links : Len(net[l]) < MaxBacklog
          \/ ~alive[n]
          \/ iface[<<n, r>>] # "up"
          \/ r \notin RipNeighbors[n] /\ iface[<<r, n>>] # "up"

\* mutant: the routes stay
PurgedNone(routes, n) == routes
\* timeout deletes what it learned from n ...
Purged(routes, n) == [p \in {q \in DOMAIN routes : routes[q].addr # n} |-> routes[p]]

\* mutant: what was deleted is left out instead of withdrawn
PoisonedOmits(routes, n) == Purged(routes, n)
\* ... and tells the others the whole table, with those routes unreachable.
Poisoned(routes, n) ==
    [p \in DOMAIN routes |->
        IF routes[p].addr = n THEN [addr |-> n, cost |-> INFINITY] ELSE routes[p]]

timeout(r, n) ==
    /\ alive[r]
    /\ n \in RipNeighbors[r]
    /\ Silent(r, n)
    /\ RipNeighbors' = [RipNeighbors EXCEPT ![r] = @ \ {n}]
    /\ table' = [table EXCEPT ![r] = Purged(@, n)]
    /\ net' = SendRip(net, r, RipNeighbors[r] \ {n}, Poisoned(table[r], n))
    /\ UNCHANGED <<alive, iface, starts, downs>>

-----------------------------------------------------------------------------
(* Commands and the network.                                                *)

\* Initialize: local routes, all interfaces up, a request to each neighbour.
Initialize(r) ==
    /\ ~alive[r]
    /\ starts[r] < MaxStarts
    /\ alive' = [alive EXCEPT ![r] = TRUE]
    /\ starts' = [starts EXCEPT ![r] = @ + 1]
    /\ table' = [table EXCEPT ![r] = LocalTable(r)]
    /\ RipNeighbors' = [RipNeighbors EXCEPT ![r] = Neighbours(r)]
    /\ iface' = [l \in Links |-> IF l[1] = r THEN "up" ELSE iface[l]]
    /\ net' = [l \in Links |->
                 IF l[1] = r /\ alive[l[2]] /\ Local[r] # {}
                 THEN Append(net[l], Request) ELSE net[l]]
    /\ downs' = downs

\* Exit: the process ends, and its sockets with what they hold.
Exit(r) ==
    /\ r \in Exits
    /\ alive[r]
    /\ alive' = [alive EXCEPT ![r] = FALSE]
    /\ table' = [table EXCEPT ![r] = NoTable]
    /\ RipNeighbors' = [RipNeighbors EXCEPT ![r] = {}]
    /\ net' = [l \in Links |-> IF l[2] = r THEN << >> ELSE net[l]]
    /\ UNCHANGED <<iface, starts, downs>>

DownInterface(r, n) ==
    /\ alive[r]
    /\ iface[<<r, n>>] = "up"
    /\ downs < MaxDowns
    /\ iface' = [iface EXCEPT ![<<r, n>>] = "draining"]
    /\ downs' = downs + 1
    /\ UNCHANGED <<alive, table, RipNeighbors, net, starts>>

UpInterface(r, n) ==
    /\ alive[r]
    /\ iface[<<r, n>>] # "up"
    /\ iface' = [iface EXCEPT ![<<r, n>>] = "up"]
    /\ UNCHANGED <<alive, table, RipNeighbors, net, starts, downs>>

Lose(l) ==
    /\ Lossy
    /\ \E i \in 1..Len(net[l]) : net' = [net EXCEPT ![l] = RemoveAt(@, i)]
    /\ UNCHANGED <<alive, table, RipNeighbors, iface, starts, downs>>

-----------------------------------------------------------------------------
Next ==
    \/ \E r \in Routers : Initialize(r) \/ Exit(r) \/ Rip(r)
    \/ \E l \in Links :
        \/ RipHandler(l[1], l[2])
        \/ timeout(l[1], l[2])
        \/ DownInterface(l[1], l[2])
        \/ UpInterface(l[1], l[2])
        \/ Lose(l)

Spec == Init /\ [][Next]_vars

\* Handlers and timers run.  Every router is started once; nobody need exit,
\* start again, or take an interface up or down.
FairSpec ==
    /\ Spec
    /\ \A r \in Routers :
        /\ WF_vars(starts[r] = 0 /\ Initialize(r))
        /\ WF_vars(Rip(r))
    /\ \A l \in Links : WF_vars(RipHandler(l[1], l[2])) /\ WF_vars(timeout(l[1], l[2]))
-----------------------------------------------------------------------------
(* Properties.                                                              *)

Hops == [addr : Routers, cost : 0..(INFINITY - 1)]
Tables == UNION {[S -> Hops] : S \in SUBSET Subnets}
Packets == [command : {"request", "response"},
            hosts : UNION {[S -> 0..INFINITY] : S \in SUBSET Subnets}]

TypeOK ==
    /\ alive \in [Routers -> BOOLEAN]
    /\ table \in [Routers -> Tables]
    /\ RipNeighbors \in [Routers -> SUBSET Routers]
    /\ iface \in [Links -> IfaceStates]
    /\ net \in [Links -> Seq(Packets)]
    /\ starts \in [Routers -> Nat]
    /\ downs \in Nat

\* No packet and no timeout takes a route to an interface of one's own away
\* or changes it, though a neighbour on the same link announces the prefix too
\* and a purge deletes by next hop.
LocalRoutesKept ==
    \A r \in Routers : alive[r] => \A p \in Local[r] :
        p \in DOMAIN table[r] /\ table[r][p] = [addr |-> r, cost |-> 0]

\* A learned route has a next hop whose timeout is running: routes have no
\* timer of their own, so without it the route could never be purged.
RoutesAreTimed ==
    \A r \in Routers : \A p \in DOMAIN table[r] :
        p \notin Local[r] => table[r][p].addr \in RipNeighbors[r]

\* No route claims to be shorter than the way there is, whatever is lost,
\* late, repeated or forgotten by a restart.
NeverTooGood ==
    \A r \in Routers : \A p \in DOMAIN table[r] : table[r][p].cost >= Dist[r][p]

\* Once every router runs, with its interfaces up, and nobody interferes any
\* more, every router comes to know, for good, a shortest way to every prefix.
Settled == (\A r \in Routers : alive[r]) /\ (\A l \in Links : iface[l] = "up")

Converges ==
    <>[]Settled => <>[](\A r \in Routers, p \in Subnets :
                            p \in DOMAIN table[r] /\ table[r][p].cost = Dist[r][p])

\* All routers with an interface in p have exited and will not come back.
Gone(p) == \A r \in Routers : p \in Local[r] => ~alive[r] /\ starts[r] = MaxStarts

\* A prefix that is gone disappears from every table: the neighbours' timeouts
\* purge it and the withdrawal is passed on.
GoneRoutesPurged ==
    \A p \in Subnets : Gone(p) ~> [](\A r \in Routers : p \notin DOMAIN table[r])
=============================================================================
