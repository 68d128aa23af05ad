------------------------------ MODULE RipTree ------------------------------
(***************************************************************************)
(* Rip in a network without cycles.  There is one way to every prefix, and *)
(* poisoned reverse is enough to keep routes from ever pointing back:      *)
(* counting to infinity cannot start.                                      *)
(***************************************************************************)
EXTENDS Rip

CONSTANT Toward   \* Toward[r][p]: r's neighbour on the way to p

\* Each side of a link reaches what is behind the other side through it: a
\* neighbour that is not on r's way to p has r on its own.
ASSUME TreeAssumption ==
    /\ Toward \in [Routers -> [Subnets -> Routers]]
    /\ \A l \in Links, p \in Subnets :
        p \notin Local[l[1]] /\ Toward[l[1]][p] # l[2] =>
            p \notin Local[l[2]] /\ Toward[l[2]][p] = l[1]

\* Every route a router has learned leaves by the link that leads to the
\* prefix, whatever is lost, reordered, taken down or restarted: no router
\* ever believes a route that goes through itself.
RoutesPointHome ==
    \A r \in Routers : \A p \in DOMAIN table[r] :
        p \notin Local[r] => table[r][p].addr = Toward[r][p]

\* p is reached from l[1] through l.
Behind(l, p) == p \notin Local[l[1]] /\ Toward[l[1]][p] = l[2]

\* When an interface is taken down for good, the prefixes behind it disappear
\* from its own router, by timeout, and from the routers that went through it,
\* by the withdrawal the timeout sends.
CutRoutesPurged ==
    \A l \in Links :
        <>[](iface[l] # "up") =>
            <>[](\A r \in Routers, p \in Subnets :
                    (Behind(l, p) /\ p \notin Local[r] /\ (r = l[1] \/ Toward[r][p] = l[1]))
                        => p \notin DOMAIN table[r])
=============================================================================
