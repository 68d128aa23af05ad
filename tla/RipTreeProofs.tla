--------------------------- MODULE RipTreeProofs ---------------------------
(***************************************************************************)
(* Proof that in every network without cycles a learned route points to    *)
(* the destination.  The property is not inductive: a router believes what *)
(* its neighbour sent, so the packets under way must be known to announce  *)
(* a prefix (at a finite cost) only away from the way to it.               *)
(***************************************************************************)
EXTENDS RipTree, RipProofs

\* r announces, at a finite cost, only routes it has from the right side.
Homeward(r, f) ==
    \A p \in DOMAIN f :
        f[p].cost < INFINITY /\ p \notin Local[r] => f[p].addr = Toward[r][p]

\* Packets from l[1] to l[2] that announce nothing reached through l[2].
OutwardPackets(l) ==
    {m \in Packets : \A p \in DOMAIN m.hosts :
        m.hosts[p] < INFINITY => p \in Local[l[1]] \/ Toward[l[1]][p] # l[2]}

OutwardNet(queues) == \A l \in Links : queues[l] \in Seq(OutwardPackets(l))

TreeInv == RoutesPointHome /\ OutwardNet(net)

LEMMA ResponseOutward ==
    ASSUME NEW l \in Links, NEW f, IsAnnouncement(f), Honest(l[1], f), Homeward(l[1], f)
    PROVE  Response(l[2], f) \in OutwardPackets(l)
<1>1. Response(l[2], f) \in Packets
  BY ResponseHonest, LinkEnds DEF HonestPackets
<1> DEFINE h == [p \in DOMAIN f |-> AdvertisedCost(f[p], l[2])]
<1>2. \A p \in DOMAIN h : h[p] < INFINITY => p \in Local[l[1]] \/ Toward[l[1]][p] # l[2]
  BY RipAssumption DEF AdvertisedCost, Homeward
<1> QED
  BY <1>1, <1>2 DEF OutwardPackets, Response

LEMMA SendRipOutward ==
    ASSUME NEW queues, OutwardNet(queues), NEW r \in Routers, NEW dsts,
           NEW f, IsAnnouncement(f), Honest(r, f), Homeward(r, f)
    PROVE  OutwardNet(SendRip(queues, r, dsts, f))
<1> SUFFICES ASSUME NEW l \in Links
             PROVE  SendRip(queues, r, dsts, f)[l] \in Seq(OutwardPackets(l))
  BY DEF OutwardNet
<1>1. queues[l] \in Seq(OutwardPackets(l))
  BY DEF OutwardNet
<1>2. l[1] = r => Response(l[2], f) \in OutwardPackets(l)
  BY ResponseOutward
<1>3. l[1] = r => Append(queues[l], Response(l[2], f)) \in Seq(OutwardPackets(l))
  BY <1>1, <1>2
<1> QED
  BY <1>1, <1>3 DEF SendRip

LEMMA TableHomeward ==
    ASSUME TreeInv, NEW r \in Routers
    PROVE  Homeward(r, table[r])
  BY DEF TreeInv, RoutesPointHome, Homeward

\* What a neighbour announces at a finite cost is reached through it.
LEMMA TriggeredHomeward ==
    ASSUME NEW r \in Routers, NEW src \in Routers, <<r, src>> \in Links, <<src, r>> \in Links,
           NEW t, NEW m \in OutwardPackets(<<src, r>>)
    PROVE  Homeward(r, Triggered(t, src, m.hosts))
<1> DEFINE news == Triggered(t, src, m.hosts)
<1> SUFFICES ASSUME NEW p \in DOMAIN news, news[p].cost < INFINITY, p \notin Local[r]
             PROVE  news[p].addr = Toward[r][p]
  BY DEF Homeward
<1>1. p \in DOMAIN m.hosts /\ news[p] = [addr |-> src, cost |-> RouteCost(m.hosts[p])]
  BY DEF Triggered
<1>2. p \in Subnets /\ m.hosts[p] \in 0..INFINITY
  BY <1>1, HostMapType DEF OutwardPackets, Packets, HostMaps
<1>3. m.hosts[p] < INFINITY
  BY <1>1, <1>2, RouteCostFacts
<1>4. p \in Local[src] \/ Toward[src][p] # r
  BY <1>1, <1>3 DEF OutwardPackets
<1>5. Toward[r][p] = src
  BY <1>2, <1>4, TreeAssumption
<1> QED
  BY <1>1, <1>5

LEMMA HandlerTree ==
    ASSUME Inv, TreeInv, NEW r \in Routers, NEW src \in Routers, <<r, src>> \in Links,
           RipHandler(r, src)
    PROVE  TreeInv'
<1>1. <<src, r>> \in Links
  BY RipAssumption
<1> PICK i \in 1..Len(net[<<src, r>>]) :
        LET packet == net[<<src, r>>][i]
            rest == [net EXCEPT ![<<src, r>>] = RemoveAt(@, i)]
            nbrs == RipNeighbors[r] \cup {src}
        IN  \/ /\ table' = [table EXCEPT ![r] = Updated(@, src, packet.hosts)]
               /\ net' = SendRip(rest, r, nbrs, Triggered(table[r], src, packet.hosts))
            \/ /\ net' = SendRip(rest, r, {src}, table[r])
               /\ table' = table
  BY DEF RipHandler, addNeighboursIfStale
<1> DEFINE packet == net[<<src, r>>][i]
           rest == [net EXCEPT ![<<src, r>>] = RemoveAt(@, i)]
           nbrs == RipNeighbors[r] \cup {src}
           news == Triggered(table[r], src, packet.hosts)
           new == Updated(table[r], src, packet.hosts)
<1>2. /\ net \in [Links -> Seq(Packets)] /\ table \in [Routers -> Tables]
      /\ HonestNet(net) /\ OutwardNet(net)
  BY DEF Inv, TypeOK, TreeInv
<1>3. /\ net[<<src, r>>] \in Seq(HonestPackets(src))
      /\ net[<<src, r>>] \in Seq(OutwardPackets(<<src, r>>))
  BY <1>1, <1>2 DEF HonestNet, OutwardNet
<1>4. packet \in HonestPackets(src) /\ packet \in OutwardPackets(<<src, r>>)
  BY <1>3
<1>5. RemoveAt(net[<<src, r>>], i) \in Seq(OutwardPackets(<<src, r>>))
  BY <1>3, RemoveAtType
<1>6. OutwardNet(rest)
  BY <1>1, <1>2, <1>5 DEF OutwardNet
<1>7. IsAnnouncement(news) /\ Honest(r, news)
  BY <1>4, TriggeredFacts
<1>8. Homeward(r, news)
  BY <1>1, <1>4, TriggeredHomeward
<1>9. /\ OutwardNet(SendRip(rest, r, nbrs, news))
      /\ OutwardNet(SendRip(rest, r, {src}, table[r]))
  <2>1. IsAnnouncement(table[r]) /\ Honest(r, table[r]) /\ Homeward(r, table[r])
    BY TableFacts, TableHomeward
  <2> HIDE DEF news, rest, packet, nbrs
  <2> QED
    BY <1>6, <1>7, <1>8, <2>1, SendRipOutward
<1>10. OutwardNet(net')
  BY <1>9
<1>11. \A p \in DOMAIN new :
         \/ p \in DOMAIN news /\ new[p] = news[p] /\ ~(news[p].cost >= INFINITY)
         \/ p \in DOMAIN table[r] /\ new[p] = table[r][p]
  BY DEF Updated
<1>12. \A p \in DOMAIN news : news[p].cost \in 0..INFINITY
  BY <1>7 DEF IsAnnouncement
<1>13. table' = table \/ table' = [table EXCEPT ![r] = new]
  OBVIOUS
<1> HIDE DEF packet, rest, news, new
<1>14. \A p \in DOMAIN table[r] : p \notin Local[r] => table[r][p].addr = Toward[r][p]
  BY DEF TreeInv, RoutesPointHome
<1>15. ASSUME NEW p \in DOMAIN new, p \notin Local[r] PROVE new[p].addr = Toward[r][p]
  <2>1. CASE p \in DOMAIN news /\ new[p] = news[p] /\ ~(news[p].cost >= INFINITY)
    <3>1. news[p].cost < INFINITY
      BY <1>12, <2>1, RipAssumption
    <3> QED
      BY <1>8, <1>15, <2>1, <3>1 DEF Homeward
  <2>2. CASE p \in DOMAIN table[r] /\ new[p] = table[r][p]
    BY <1>14, <1>15, <2>2
  <2> QED
    BY <1>11, <2>1, <2>2
<1>16. RoutesPointHome'
  <2>1. CASE table' = table
    BY <2>1 DEF TreeInv, RoutesPointHome
  <2>2. CASE table' = [table EXCEPT ![r] = new]
    <3>1. table'[r] = new /\ \A s \in Routers \ {r} : table'[s] = table[s]
      BY <1>2, <2>2
    <3> QED
      BY <1>15, <3>1 DEF TreeInv, RoutesPointHome
  <2> QED
    BY <1>13, <2>1, <2>2
<1> QED
  BY <1>10, <1>16 DEF TreeInv, OutwardNet

LEMMA TimeoutTree ==
    ASSUME Inv, TreeInv, NEW r \in Routers, NEW n \in Routers, <<r, n>> \in Links,
           timeout(r, n)
    PROVE  TreeInv'
<1> DEFINE poison == Poisoned(table[r], n)
           kept == Purged(table[r], n)
<1>1. IsAnnouncement(table[r]) /\ Honest(r, table[r]) /\ Homeward(r, table[r])
  BY TableFacts, TableHomeward
<1>2. IsAnnouncement(poison) /\ Honest(r, poison) /\ Homeward(r, poison)
  BY <1>1, RipAssumption DEF Poisoned, IsAnnouncement, Honest, Homeward
<1>3. OutwardNet(net) /\ net' = SendRip(net, r, RipNeighbors[r] \ {n}, poison)
  BY DEF TreeInv, timeout
<1>4. \A p \in DOMAIN kept : p \in DOMAIN table[r] /\ kept[p] = table[r][p]
  BY DEF Purged
<1>5. table \in [Routers -> Tables] /\ table' = [table EXCEPT ![r] = kept]
  BY DEF Inv, TypeOK, timeout
<1> HIDE DEF poison, kept
<1>6. OutwardNet(net')
  BY <1>2, <1>3, SendRipOutward
<1>7. RoutesPointHome'
  BY <1>4, <1>5 DEF TreeInv, RoutesPointHome
<1> QED
  BY <1>6, <1>7 DEF TreeInv, OutwardNet

LEMMA PeriodicTree ==
    ASSUME Inv, TreeInv, NEW r \in Routers, Rip(r)
    PROVE  TreeInv'
<1> DEFINE dsts == {n \in RipNeighbors[r] : Len(net[<<r, n>>]) < MaxBacklog}
<1>1. IsAnnouncement(table[r]) /\ Honest(r, table[r]) /\ Homeward(r, table[r])
  BY TableFacts, TableHomeward
<1>2. OutwardNet(net) /\ net' = SendRip(net, r, dsts, table[r]) /\ table' = table
  BY DEF TreeInv, Rip
<1> HIDE DEF dsts
<1>3. OutwardNet(net')
  BY <1>1, <1>2, SendRipOutward
<1> QED
  BY <1>2, <1>3 DEF TreeInv, OutwardNet, RoutesPointHome

LEMMA ProcessTree ==
    ASSUME Inv, TreeInv, NEW r \in Routers, Initialize(r) \/ Exit(r)
    PROVE  TreeInv'
<1>1. table \in [Routers -> Tables]
  BY DEF Inv, TypeOK
<1>2. /\ DOMAIN table'[r] \subseteq Local[r]
      /\ \A s \in Routers \ {r} : table'[s] = table[s]
  <2>1. CASE Initialize(r)
    BY <1>1, <2>1 DEF Initialize, LocalTable
  <2>2. CASE Exit(r)
    BY <1>1, <2>2 DEF Exit, NoTable
  <2> QED
    BY <2>1, <2>2
<1>3. RoutesPointHome'
  BY <1>2 DEF TreeInv, RoutesPointHome
<1>4. ASSUME NEW l \in Links PROVE net'[l] \in Seq(OutwardPackets(l))
  <2>1. net[l] \in Seq(OutwardPackets(l)) /\ << >> \in Seq(OutwardPackets(l))
    BY DEF TreeInv, OutwardNet
  <2>2. Request.hosts \in HostMaps
    BY HostMapType DEF Request
  <2>3. Request \in OutwardPackets(l)
    BY <2>2 DEF Request, OutwardPackets, Packets, HostMaps
  <2>4. Append(net[l], Request) \in Seq(OutwardPackets(l))
    BY <2>1, <2>3
  <2>5. net'[l] = net[l] \/ net'[l] = << >> \/ net'[l] = Append(net[l], Request)
    BY DEF Initialize, Exit
  <2> QED
    BY <2>1, <2>4, <2>5
<1> QED
  BY <1>3, <1>4 DEF TreeInv, OutwardNet

LEMMA LoseTree ==
    ASSUME Inv, TreeInv, NEW l \in Links, Lose(l)
    PROVE  TreeInv'
<1>1. OutwardNet(net) /\ net \in [Links -> Seq(Packets)] /\ table' = table
  BY DEF Inv, TypeOK, TreeInv, Lose
<1>2. PICK i \in 1..Len(net[l]) : net' = [net EXCEPT ![l] = RemoveAt(@, i)]
  BY DEF Lose
<1>3. RemoveAt(net[l], i) \in Seq(OutwardPackets(l))
  BY <1>1, RemoveAtType DEF OutwardNet
<1>4. OutwardNet(net')
  BY <1>1, <1>2, <1>3 DEF OutwardNet
<1> QED
  BY <1>1, <1>4 DEF TreeInv, OutwardNet, RoutesPointHome

LEMMA TreeInit == Init => TreeInv
<1> SUFFICES ASSUME Init PROVE TreeInv
  OBVIOUS
<1>1. OutwardNet(net)
  BY DEF Init, OutwardNet
<1> QED
  BY <1>1 DEF Init, TreeInv, RoutesPointHome, NoTable

LEMMA TreeNext == Inv /\ TreeInv /\ [Next]_vars => TreeInv'
<1> SUFFICES ASSUME Inv, TreeInv, [Next]_vars PROVE TreeInv'
  OBVIOUS
<1>1. ASSUME NEW r \in Routers, Initialize(r) \/ Exit(r) \/ Rip(r) PROVE TreeInv'
  BY <1>1, ProcessTree, PeriodicTree
<1>2. ASSUME NEW l \in Links, RipHandler(l[1], l[2]) \/ timeout(l[1], l[2]) \/ Lose(l)
      PROVE  TreeInv'
  <2>1. l[1] \in Routers /\ l[2] \in Routers /\ <<l[1], l[2]>> \in Links
    BY LinkEnds
  <2> QED
    BY <1>2, <2>1, HandlerTree, TimeoutTree, LoseTree
<1>3. CASE UNCHANGED <<table, net>>
  BY <1>3 DEF TreeInv, RoutesPointHome, OutwardNet
<1>4. ASSUME NEW l \in Links, DownInterface(l[1], l[2]) \/ UpInterface(l[1], l[2])
      PROVE  UNCHANGED <<table, net>>
  BY <1>4 DEF DownInterface, UpInterface
<1> QED
  BY <1>1, <1>2, <1>3, <1>4 DEF Next, vars

\* In every network without cycles, split horizon with poisoned reverse keeps
\* every route pointing at its destination, whatever is lost, reordered, taken
\* down or restarted.
THEOREM NoRoutePointsBack == Spec => []RoutesPointHome
<1>1. TreeInv => RoutesPointHome
  BY DEF TreeInv
<1> QED
  BY <1>1, InvHolds, TreeInit, TreeNext, PTL DEF Spec
=============================================================================
