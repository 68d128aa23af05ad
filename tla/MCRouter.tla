------------------------------ MODULE MCRouter ------------------------------
\* Router for TLC: the destination is in a static default route through the
\* neighbour n and in a prefix to learn.
EXTENDS Router

CONSTANT n

MCPrefixes == {"default", "p8"}
MCBits == [p \in MCPrefixes |-> IF p = "default" THEN 0 ELSE 8]
MCMatching == MCPrefixes
MCFixed == {"default"}
MCFixedHop == [p \in MCFixed |-> n]
=============================================================================
