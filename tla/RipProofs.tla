----------------------------- MODULE RipProofs -----------------------------
(***************************************************************************)
(* Proofs about Rip, for every topology, every INFINITY and every loss,    *)
(* reordering, restart and interface change.                               *)
(***************************************************************************)
EXTENDS Rip, TLAPS

-----------------------------------------------------------------------------
(* Tables and packets.                                                      *)

IsTable(f) ==
    /\ f = [p \in DOMAIN f |-> f[p]]
    /\ DOMAIN f \subseteq Subnets
    /\ \A p \in DOMAIN f : f[p] \in Hops

LEMMA TableType == \A f : f \in Tables <=> IsTable(f)
  BY DEF Tables, IsTable

HostMaps == UNION {[S -> 0..INFINITY] : S \in SUBSET Subnets}

LEMMA HostMapType ==
    \A h : h \in HostMaps <=> /\ h = [p \in DOMAIN h |-> h[p]]
                              /\ DOMAIN h \subseteq Subnets
                              /\ \A p \in DOMAIN h : h[p] \in 0..INFINITY
  BY DEF HostMaps

\* A map of routes as SendRip gets it: a table, or changes with withdrawals.
IsAnnouncement(f) ==
    /\ DOMAIN f \subseteq Subnets
    /\ \A p \in DOMAIN f : f[p].addr \in Routers /\ f[p].cost \in 0..INFINITY

\* r announces no cost below the distance, and a table of r holds none.
Honest(r, f) == \A p \in DOMAIN f : f[p].cost < INFINITY => f[p].cost >= Dist[r][p]

HonestPackets(r) ==
    {m \in Packets : \A p \in DOMAIN m.hosts :
        m.hosts[p] < INFINITY => m.hosts[p] >= Dist[r][p]}

HonestNet(queues) == \A l \in Links : queues[l] \in Seq(HonestPackets(l[1]))

\* The inductive invariant: what the properties say of the tables, and the same
\* of the packets under way.
Inv ==
    /\ TypeOK
    /\ LocalRoutesKept
    /\ RoutesAreTimed
    /\ NeverTooGood
    /\ HonestNet(net)

LEMMA LinkEnds ==
    \A l \in Links : /\ l[1] \in Routers /\ l[2] \in Routers /\ l[1] # l[2]
                     /\ l = <<l[1], l[2]>> /\ <<l[2], l[1]>> \in Links
<1> TAKE l \in Links
<1>1. l \in Routers \X Routers
  BY RipAssumption
<1>2. l[1] # l[2] /\ <<l[2], l[1]>> \in Links
  BY RipAssumption
<1> QED
  BY <1>1, <1>2

\* Taking one packet out of a queue leaves a queue of the same kind.
LEMMA RemoveAtType ==
    ASSUME NEW S, NEW s \in Seq(S), NEW i \in 1..Len(s)
    PROVE  RemoveAt(s, i) \in Seq(S)
  BY DEF RemoveAt

LEMMA ResponseHonest ==
    ASSUME NEW r \in Routers, NEW n \in Routers, NEW f, IsAnnouncement(f), Honest(r, f)
    PROVE  Response(n, f) \in HonestPackets(r)
<1>1. INFINITY \in Nat
  BY RipAssumption
<1>2. \A p \in DOMAIN f : AdvertisedCost(f[p], n) \in 0..INFINITY
  BY <1>1 DEF IsAnnouncement, AdvertisedCost
<1> DEFINE h == [p \in DOMAIN f |-> AdvertisedCost(f[p], n)]
<1>3. h \in HostMaps
  BY <1>2, HostMapType DEF IsAnnouncement
<1>4. Response(n, f) \in Packets
  BY <1>3 DEF Response, Packets, HostMaps
<1>5. \A p \in DOMAIN h : h[p] < INFINITY => h[p] >= Dist[r][p]
  BY <1>1 DEF Honest, AdvertisedCost
<1> QED
  BY <1>4, <1>5 DEF HonestPackets, Response

\* Sending honest routes keeps the queues honest.
LEMMA SendRipHonest ==
    ASSUME NEW queues, HonestNet(queues), NEW r \in Routers, NEW dsts,
           NEW f, IsAnnouncement(f), Honest(r, f)
    PROVE  HonestNet(SendRip(queues, r, dsts, f))
<1> SUFFICES ASSUME NEW l \in Links
             PROVE  SendRip(queues, r, dsts, f)[l] \in Seq(HonestPackets(l[1]))
  BY DEF HonestNet
<1>1. queues[l] \in Seq(HonestPackets(l[1]))
  BY DEF HonestNet
<1>2. l[1] = r => Response(l[2], f) \in HonestPackets(l[1])
  BY ResponseHonest, LinkEnds
<1>3. l[1] = r => Append(queues[l], Response(l[2], f)) \in Seq(HonestPackets(l[1]))
  BY <1>1, <1>2
<1> QED
  BY <1>1, <1>3 DEF SendRip

\* The queues have the type of net.
LEMMA NetType ==
    ASSUME NEW queues, queues = [l \in Links |-> queues[l]], HonestNet(queues)
    PROVE  queues \in [Links -> Seq(Packets)]
<1> SUFFICES ASSUME NEW l \in Links PROVE queues[l] \in Seq(Packets)
  OBVIOUS
<1>1. queues[l] \in Seq(HonestPackets(l[1]))
  BY DEF HonestNet
<1>2. HonestPackets(l[1]) \subseteq Packets
  BY DEF HonestPackets
<1>3. \A i \in 1..Len(queues[l]) : queues[l][i] \in Packets
  BY <1>1, <1>2
<1> QED
  BY <1>1, <1>3

-----------------------------------------------------------------------------
(* What one response does to a table.                                       *)

LEMMA RouteCostFacts ==
    ASSUME NEW k \in 0..INFINITY
    PROVE  /\ RouteCost(k) \in 1..INFINITY
           /\ RouteCost(k) < INFINITY => k < INFINITY /\ RouteCost(k) = k + 1
  BY RipAssumption DEF RouteCost

LEMMA TriggeredFacts ==
    ASSUME NEW r \in Routers, NEW src \in Routers, <<r, src>> \in Links,
           NEW t, NEW m \in HonestPackets(src)
    PROVE  LET news == Triggered(t, src, m.hosts)
           IN  /\ IsAnnouncement(news)
               /\ Honest(r, news)
               /\ \A p \in DOMAIN news : news[p].addr = src /\ news[p].cost > 0
<1> DEFINE news == Triggered(t, src, m.hosts)
<1>1. /\ DOMAIN m.hosts \subseteq Subnets
      /\ \A p \in DOMAIN m.hosts : m.hosts[p] \in 0..INFINITY
  BY HostMapType DEF HonestPackets, Packets, HostMaps
<1>2. \A p \in DOMAIN news :
        p \in DOMAIN m.hosts /\ news[p] = [addr |-> src, cost |-> RouteCost(m.hosts[p])]
  BY DEF Triggered
<1> HIDE DEF news
<1>3. \A p \in DOMAIN news : /\ news[p].addr = src
                             /\ news[p].cost \in 1..INFINITY
                             /\ news[p].cost < INFINITY =>
                                  /\ m.hosts[p] < INFINITY
                                  /\ news[p].cost = m.hosts[p] + 1
  BY <1>1, <1>2, RouteCostFacts
<1>4. IsAnnouncement(news)
  BY <1>1, <1>2, <1>3, RipAssumption DEF IsAnnouncement
<1>5. Honest(r, news)
  <2> SUFFICES ASSUME NEW p \in DOMAIN news, news[p].cost < INFINITY
               PROVE  news[p].cost >= Dist[r][p]
    BY DEF Honest
  <2>1. p \in Subnets /\ p \in DOMAIN m.hosts
    BY <1>1, <1>2
  <2>2. m.hosts[p] >= Dist[src][p] /\ news[p].cost = m.hosts[p] + 1
    BY <1>3, <2>1 DEF HonestPackets
  <2>3. Dist[r][p] <= Dist[src][p] + 1
    BY <2>1, RipAssumption
  <2>4. Dist[r][p] \in Nat /\ Dist[src][p] \in Nat /\ m.hosts[p] \in Nat
    BY <1>1, <2>1, RipAssumption
  <2> QED
    BY <2>2, <2>3, <2>4
<1>6. \A p \in DOMAIN news : news[p].addr = src /\ news[p].cost > 0
  BY <1>3, RipAssumption
<1> QED
  BY <1>4, <1>5, <1>6 DEF news

LEMMA UpdatedFacts ==
    ASSUME NEW r \in Routers, NEW src \in Routers, <<r, src>> \in Links,
           NEW t \in Tables, NEW m \in HonestPackets(src),
           \A p \in DOMAIN t : t[p].cost >= Dist[r][p]
    PROVE  LET new == Updated(t, src, m.hosts)
           IN  /\ new \in Tables
               /\ \A p \in DOMAIN new : new[p].cost >= Dist[r][p]
               /\ \A p \in DOMAIN new : new[p].addr = src \/ (p \in DOMAIN t /\ new[p] = t[p])
               /\ \A p \in DOMAIN t :
                    t[p] = [addr |-> r, cost |-> 0] => p \in DOMAIN new /\ new[p] = t[p]
<1> DEFINE news == Triggered(t, src, m.hosts)
           new == Updated(t, src, m.hosts)
<1>1. IsTable(t)
  BY TableType
<1>2. /\ IsAnnouncement(news)
      /\ Honest(r, news)
      /\ \A p \in DOMAIN news : news[p].addr = src /\ news[p].cost > 0
  BY TriggeredFacts
<1>3. \A p \in DOMAIN news : news[p] = [addr |-> news[p].addr, cost |-> news[p].cost]
  BY DEF Triggered
<1>4. /\ new = [p \in DOMAIN new |-> new[p]]
      /\ DOMAIN new \subseteq DOMAIN t \cup DOMAIN news
      /\ \A p \in DOMAIN new :
            \/ p \in DOMAIN news /\ new[p] = news[p] /\ ~(news[p].cost >= INFINITY)
            \/ p \in DOMAIN t /\ p \notin DOMAIN news /\ new[p] = t[p]
  BY DEF Updated
<1>5. new \in Tables
  <2> HIDE DEF new, news
  <2>1. \A p \in DOMAIN new : new[p] \in Hops
    BY <1>1, <1>2, <1>3, <1>4, RipAssumption DEF IsTable, IsAnnouncement, Hops
  <2>2. DOMAIN new \subseteq Subnets
    BY <1>1, <1>2, <1>4 DEF IsTable, IsAnnouncement
  <2> QED
    BY <1>4, <2>1, <2>2, TableType DEF IsTable
<1>6. \A p \in DOMAIN new : new[p].cost >= Dist[r][p]
  BY <1>2, <1>4, RipAssumption DEF Honest, IsAnnouncement
<1>7. ASSUME NEW p \in DOMAIN t, t[p] = [addr |-> r, cost |-> 0]
      PROVE  p \notin DOMAIN news
  <2>1. r # src
    BY RipAssumption
  <2>2. p \in DOMAIN m.hosts => RouteCost(m.hosts[p]) \in 1..INFINITY
    BY RouteCostFacts, HostMapType DEF HonestPackets, Packets, HostMaps
  <2> QED
    BY <1>7, <2>1, <2>2, RipAssumption DEF Triggered, Installs, Purges
<1>8. \A p \in DOMAIN t :
         t[p] = [addr |-> r, cost |-> 0] => p \in DOMAIN new /\ new[p] = t[p]
  BY <1>7 DEF Updated
<1> QED
  BY <1>2, <1>4, <1>5, <1>6, <1>8

\* A router's table, as Inv knows it.
LEMMA TableFacts ==
    ASSUME Inv, NEW r \in Routers
    PROVE  /\ table[r] \in Tables
           /\ IsAnnouncement(table[r])
           /\ Honest(r, table[r])
           /\ \A p \in DOMAIN table[r] : table[r][p].cost >= Dist[r][p]
<1>1. table[r] \in Tables
  BY DEF Inv, TypeOK
<1>2. IsTable(table[r])
  BY <1>1, TableType
<1>3. IsAnnouncement(table[r])
  BY <1>2, RipAssumption DEF IsTable, IsAnnouncement, Hops
<1> QED
  BY <1>1, <1>3 DEF Inv, NeverTooGood, Honest

-----------------------------------------------------------------------------
(* The invariant: one lemma per action that changes a table or the queues.  *)

LEMMA InitInv == Init => Inv
<1> SUFFICES ASSUME Init PROVE Inv
  OBVIOUS
<1>1. NoTable \in Tables
  BY TableType DEF NoTable, IsTable
<1>2. HonestNet(net)
  BY DEF Init, HonestNet
<1>3. TypeOK
  BY <1>1, RipAssumption DEF Init, TypeOK, IfaceStates
<1> QED
  BY <1>2, <1>3 DEF Init, Inv, LocalRoutesKept, RoutesAreTimed, NeverTooGood, NoTable

LEMMA HandlerInv ==
    ASSUME Inv, NEW r \in Routers, NEW src \in Routers, <<r, src>> \in Links,
           RipHandler(r, src)
    PROVE  Inv'
<1>1. <<src, r>> \in Links
  BY RipAssumption
<1> PICK i \in 1..Len(net[<<src, r>>]) :
        LET packet == net[<<src, r>>][i]
            rest == [net EXCEPT ![<<src, r>>] = RemoveAt(@, i)]
            nbrs == RipNeighbors[r] \cup {src}
        IN  /\ RipNeighbors' = [RipNeighbors EXCEPT ![r] = nbrs]
            /\ \/ /\ packet.command = "response"
                  /\ table' = [table EXCEPT ![r] = Updated(@, src, packet.hosts)]
                  /\ net' = SendRip(rest, r, nbrs,
                                    Triggered(table[r], src, packet.hosts))
               \/ /\ packet.command = "request"
                  /\ net' = SendRip(rest, r, {src}, table[r])
                  /\ table' = table
  BY DEF RipHandler, addNeighboursIfStale
<1> DEFINE packet == net[<<src, r>>][i]
           rest == [net EXCEPT ![<<src, r>>] = RemoveAt(@, i)]
           nbrs == RipNeighbors[r] \cup {src}
           news == Triggered(table[r], src, packet.hosts)
           new == Updated(table[r], src, packet.hosts)
<1>2. /\ net \in [Links -> Seq(Packets)] /\ table \in [Routers -> Tables]
      /\ RipNeighbors \in [Routers -> SUBSET Routers]
      /\ HonestNet(net)
  BY DEF Inv, TypeOK
<1>3. net[<<src, r>>] \in Seq(HonestPackets(src))
  BY <1>1, <1>2 DEF HonestNet
<1>4. packet \in HonestPackets(src)
  BY <1>3
<1>5. RemoveAt(net[<<src, r>>], i) \in Seq(HonestPackets(src))
  BY <1>3, RemoveAtType
<1>6. HonestNet(rest)
  BY <1>1, <1>2, <1>5 DEF HonestNet
<1>7. /\ IsAnnouncement(news) /\ Honest(r, news)
  BY <1>4, TriggeredFacts
<1>8. /\ new \in Tables
      /\ \A p \in DOMAIN new : new[p].cost >= Dist[r][p]
      /\ \A p \in DOMAIN new : new[p].addr = src
                               \/ (p \in DOMAIN table[r] /\ new[p] = table[r][p])
      /\ \A p \in DOMAIN table[r] :
           table[r][p] = [addr |-> r, cost |-> 0] => p \in DOMAIN new /\ new[p] = table[r][p]
  <2>1. table[r] \in Tables /\ \A p \in DOMAIN table[r] : table[r][p].cost >= Dist[r][p]
    BY TableFacts
  <2> HIDE DEF packet
  <2> QED
    BY <1>4, <2>1, UpdatedFacts
<1>9. HonestNet(SendRip(rest, r, nbrs, news)) /\ HonestNet(SendRip(rest, r, {src}, table[r]))
  BY <1>6, <1>7, TableFacts, SendRipHonest
<1>10. HonestNet(net)' /\ net' = [l \in Links |-> net'[l]]
  <2>1. HonestNet(net')
    BY <1>9
  <2> QED
    BY <2>1 DEF HonestNet, SendRip
<1>11. net' \in [Links -> Seq(Packets)]
  BY <1>10, NetType DEF HonestNet
<1>12. table' = table \/ table' = [table EXCEPT ![r] = new]
  OBVIOUS
<1>13. RipNeighbors' = [RipNeighbors EXCEPT ![r] = nbrs]
  OBVIOUS
<1>14. UNCHANGED <<alive, starts, downs>>
  BY DEF RipHandler, addNeighboursIfStale
<1> HIDE DEF packet, rest, news, new
<1>15. TypeOK'
  <2>1. iface' \in [Links -> IfaceStates]
    BY DEF RipHandler, Inv, TypeOK, IfaceStates
  <2>2. table' \in [Routers -> Tables]
    BY <1>2, <1>8, <1>12
  <2>3. RipNeighbors' \in [Routers -> SUBSET Routers]
    BY <1>2, <1>13
  <2> QED
    BY <1>11, <1>14, <2>1, <2>2, <2>3 DEF Inv, TypeOK
<1>16. LocalRoutesKept'
  BY <1>2, <1>8, <1>12, <1>14 DEF Inv, LocalRoutesKept
<1>17. RoutesAreTimed'
  BY <1>2, <1>8, <1>12, <1>13 DEF Inv, RoutesAreTimed
<1>18. NeverTooGood'
  BY <1>2, <1>8, <1>12 DEF Inv, NeverTooGood
<1> QED
  BY <1>10, <1>15, <1>16, <1>17, <1>18 DEF Inv

LEMMA PeriodicInv ==
    ASSUME Inv, NEW r \in Routers, Rip(r)
    PROVE  Inv'
<1> DEFINE dsts == {n \in RipNeighbors[r] : Len(net[<<r, n>>]) < MaxBacklog}
<1>1. HonestNet(net)
  BY DEF Inv
<1>2. HonestNet(SendRip(net, r, dsts, table[r]))
  BY <1>1, TableFacts, SendRipHonest
<1>3. net' = SendRip(net, r, dsts, table[r])
  BY DEF Rip
<1>4. net' = [l \in Links |-> net'[l]]
  BY <1>3 DEF SendRip
<1>5. HonestNet(net')
  BY <1>2, <1>3
<1>6. net' \in [Links -> Seq(Packets)]
  BY <1>4, <1>5, NetType
<1> QED
  BY <1>5, <1>6 DEF Rip, Inv, TypeOK, LocalRoutesKept, RoutesAreTimed, NeverTooGood,
                    HonestNet

LEMMA TimeoutInv ==
    ASSUME Inv, NEW r \in Routers, NEW n \in Routers, <<r, n>> \in Links, timeout(r, n)
    PROVE  Inv'
<1> DEFINE poison == Poisoned(table[r], n)
           kept == Purged(table[r], n)
<1>1. r # n
  BY RipAssumption
<1>2. IsAnnouncement(poison) /\ Honest(r, poison)
  <2>1. IsAnnouncement(table[r]) /\ Honest(r, table[r])
    BY TableFacts
  <2> QED
    BY <2>1, RipAssumption DEF Poisoned, IsAnnouncement, Honest
<1>3. HonestNet(net)
  BY DEF Inv
<1>4. net' = SendRip(net, r, RipNeighbors[r] \ {n}, poison)
  BY DEF timeout
<1>5. HonestNet(net')
  BY <1>2, <1>3, <1>4, SendRipHonest
<1>6. net' = [l \in Links |-> net'[l]]
  BY <1>4 DEF SendRip
<1>7. net' \in [Links -> Seq(Packets)]
  BY <1>5, <1>6, NetType
<1>8. /\ kept = [p \in DOMAIN kept |-> kept[p]]
      /\ DOMAIN kept \subseteq DOMAIN table[r]
      /\ \A p \in DOMAIN kept : kept[p] = table[r][p] /\ kept[p].addr # n
      /\ \A p \in DOMAIN table[r] : table[r][p].addr # n => p \in DOMAIN kept
  BY DEF Purged
<1>9. table' = [table EXCEPT ![r] = kept]
  BY DEF timeout
<1> HIDE DEF kept, poison
<1>10. kept \in Tables
  <2>1. IsTable(table[r])
    BY TableFacts, TableType
  <2> QED
    BY <1>8, <2>1, TableType DEF IsTable
<1>11. /\ table \in [Routers -> Tables]
       /\ RipNeighbors \in [Routers -> SUBSET Routers]
       /\ RipNeighbors' = [RipNeighbors EXCEPT ![r] = @ \ {n}]
       /\ UNCHANGED <<alive, iface, starts, downs>>
  BY DEF Inv, TypeOK, timeout
<1>12. TypeOK'
  BY <1>7, <1>9, <1>10, <1>11 DEF Inv, TypeOK
<1>13. LocalRoutesKept'
  BY <1>1, <1>8, <1>9, <1>11 DEF Inv, LocalRoutesKept
<1>14. RoutesAreTimed'
  BY <1>8, <1>9, <1>11 DEF Inv, RoutesAreTimed
<1>15. NeverTooGood'
  BY <1>8, <1>9, <1>11 DEF Inv, NeverTooGood
<1> QED
  BY <1>5, <1>12, <1>13, <1>14, <1>15 DEF Inv, HonestNet

LEMMA InitializeInv ==
    ASSUME Inv, NEW r \in Routers, Initialize(r)
    PROVE  Inv'
<1>1. /\ table \in [Routers -> Tables]
      /\ RipNeighbors \in [Routers -> SUBSET Routers]
      /\ alive \in [Routers -> BOOLEAN]
      /\ starts \in [Routers -> Nat]
      /\ HonestNet(net)
  BY DEF Inv, TypeOK
<1>2. Local[r] \subseteq Subnets /\ INFINITY > 0
  BY RipAssumption
<1>3. LocalTable(r) \in Tables
  BY <1>2, TableType, RipAssumption DEF LocalTable, IsTable, Hops
<1>4. \A p \in DOMAIN LocalTable(r) :
        p \in Local[r] /\ LocalTable(r)[p].cost >= Dist[r][p]
  BY <1>2, RipAssumption DEF LocalTable
<1>5. Request \in HonestPackets(r)
  <2>1. Request.hosts \in HostMaps
    BY HostMapType DEF Request
  <2> QED
    BY <2>1 DEF Request, HonestPackets, Packets, HostMaps
<1>6. HonestNet(net')
  <2> SUFFICES ASSUME NEW l \in Links PROVE net'[l] \in Seq(HonestPackets(l[1]))
    BY DEF HonestNet
  <2>1. net[l] \in Seq(HonestPackets(l[1]))
    BY <1>1 DEF HonestNet
  <2>2. l[1] = r => Append(net[l], Request) \in Seq(HonestPackets(l[1]))
    BY <1>5, <2>1
  <2>3. net'[l] = net[l] \/ (l[1] = r /\ net'[l] = Append(net[l], Request))
    BY DEF Initialize
  <2> QED
    BY <2>1, <2>2, <2>3
<1>7. net' = [l \in Links |-> net'[l]]
  BY DEF Initialize
<1>8. net' \in [Links -> Seq(Packets)]
  BY <1>6, <1>7, NetType
<1>9. table' = [table EXCEPT ![r] = LocalTable(r)]
  BY DEF Initialize
<1>10. TypeOK'
  BY <1>1, <1>3, <1>8, <1>9 DEF Inv, TypeOK, Initialize, Neighbours, IfaceStates
<1>11. LocalRoutesKept'
  <2> SUFFICES ASSUME NEW q \in Routers, alive'[q], NEW p \in Local[q]
               PROVE  p \in DOMAIN table'[q] /\ table'[q][p] = [addr |-> q, cost |-> 0]
    BY DEF LocalRoutesKept
  <2>1. CASE q = r
    BY <1>1, <1>9, <2>1 DEF LocalTable
  <2>2. CASE q # r
    BY <1>1, <1>9, <2>2 DEF Inv, LocalRoutesKept, Initialize
  <2> QED
    BY <2>1, <2>2
<1>12. RoutesAreTimed'
  BY <1>1, <1>4, <1>9 DEF Inv, RoutesAreTimed, Initialize
<1>13. NeverTooGood'
  BY <1>1, <1>4, <1>9 DEF Inv, NeverTooGood
<1> QED
  BY <1>6, <1>10, <1>11, <1>12, <1>13 DEF Inv, HonestNet

LEMMA ExitInv ==
    ASSUME Inv, NEW r \in Routers, Exit(r)
    PROVE  Inv'
<1>1. NoTable \in Tables /\ DOMAIN NoTable = {}
  BY TableType DEF NoTable, IsTable
<1>2. HonestNet(net')
  <2> SUFFICES ASSUME NEW l \in Links PROVE net'[l] \in Seq(HonestPackets(l[1]))
    BY DEF HonestNet
  <2>1. net[l] \in Seq(HonestPackets(l[1])) /\ << >> \in Seq(HonestPackets(l[1]))
    BY DEF Inv, HonestNet
  <2>2. net'[l] = net[l] \/ net'[l] = << >>
    BY DEF Exit
  <2> QED
    BY <2>1, <2>2
<1>3. net' = [l \in Links |-> net'[l]]
  BY DEF Exit
<1>4. net' \in [Links -> Seq(Packets)]
  BY <1>2, <1>3, NetType
<1>5. TypeOK'
  BY <1>1, <1>4 DEF Inv, TypeOK, Exit
<1> QED
  BY <1>1, <1>2, <1>5 DEF Inv, TypeOK, Exit, HonestNet, LocalRoutesKept, RoutesAreTimed,
                          NeverTooGood

LEMMA LoseInv ==
    ASSUME Inv, NEW l \in Links, Lose(l)
    PROVE  Inv'
<1>1. HonestNet(net) /\ net \in [Links -> Seq(Packets)]
  BY DEF Inv, TypeOK
<1>2. PICK i \in 1..Len(net[l]) : net' = [net EXCEPT ![l] = RemoveAt(@, i)]
  BY DEF Lose
<1>3. RemoveAt(net[l], i) \in Seq(HonestPackets(l[1]))
  BY <1>1, RemoveAtType DEF HonestNet
<1>4. HonestNet(net')
  BY <1>1, <1>2, <1>3 DEF HonestNet
<1>5. net' = [k \in Links |-> net'[k]]
  BY <1>1, <1>2
<1>6. net' \in [Links -> Seq(Packets)]
  BY <1>4, <1>5, NetType
<1> QED
  BY <1>4, <1>6 DEF Lose, Inv, TypeOK, HonestNet, LocalRoutesKept, RoutesAreTimed,
                    NeverTooGood

LEMMA InterfaceInv ==
    ASSUME Inv, NEW r, NEW n, <<r, n>> \in Links, DownInterface(r, n) \/ UpInterface(r, n)
    PROVE  Inv'
<1>1. iface' \in [Links -> IfaceStates]
  BY DEF DownInterface, UpInterface, Inv, TypeOK, IfaceStates
<1>2. downs' \in Nat
  BY DEF DownInterface, UpInterface, Inv, TypeOK
<1>3. UNCHANGED <<alive, table, RipNeighbors, net, starts>>
  BY DEF DownInterface, UpInterface
<1> QED
  BY <1>1, <1>2, <1>3 DEF Inv, TypeOK, HonestNet, LocalRoutesKept, RoutesAreTimed, NeverTooGood

LEMMA NextInv == Inv /\ [Next]_vars => Inv'
<1> SUFFICES ASSUME Inv, [Next]_vars PROVE Inv'
  OBVIOUS
<1>1. ASSUME NEW r \in Routers, Initialize(r) \/ Exit(r) \/ Rip(r) PROVE Inv'
  BY <1>1, InitializeInv, ExitInv, PeriodicInv
<1>2. ASSUME NEW l \in Links,
             \/ RipHandler(l[1], l[2]) \/ timeout(l[1], l[2])
             \/ DownInterface(l[1], l[2]) \/ UpInterface(l[1], l[2])
             \/ Lose(l)
      PROVE  Inv'
  <2>1. l[1] \in Routers /\ l[2] \in Routers /\ <<l[1], l[2]>> \in Links
    BY LinkEnds
  <2> QED
    BY <1>2, <2>1, HandlerInv, TimeoutInv, InterfaceInv, LoseInv
<1>3. CASE UNCHANGED vars
  BY <1>3 DEF vars, Inv, TypeOK, HonestNet, LocalRoutesKept, RoutesAreTimed, NeverTooGood
<1> QED
  BY <1>1, <1>2, <1>3 DEF Next

-----------------------------------------------------------------------------
(* Theorems.                                                                *)

LEMMA InvHolds == Spec => []Inv
  BY InitInv, NextInv, PTL DEF Spec

\* Tables, packets and queues keep their types: no route in a table costs
\* INFINITY, no packet carries more.
THEOREM TypesHold == Spec => []TypeOK
<1>1. Inv => TypeOK
  BY DEF Inv
<1> QED
  BY <1>1, InvHolds, PTL

\* Neither RipHandler nor timeout ever takes away or alters a local route.
THEOREM LocalRoutesStay == Spec => []LocalRoutesKept
<1>1. Inv => LocalRoutesKept
  BY DEF Inv
<1> QED
  BY <1>1, InvHolds, PTL

\* Every learned route can still be purged by the timeout of its next hop.
THEOREM RoutesStayTimed == Spec => []RoutesAreTimed
<1>1. Inv => RoutesAreTimed
  BY DEF Inv
<1> QED
  BY <1>1, InvHolds, PTL

\* In every topology, no table ever holds a cost below the true distance.
THEOREM CostsNeverTooGood == Spec => []NeverTooGood
<1>1. Inv => NeverTooGood
  BY DEF Inv
<1> QED
  BY <1>1, InvHolds, PTL
=============================================================================
