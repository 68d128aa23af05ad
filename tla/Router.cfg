CONSTANTS
    Configured = {n}
    Strangers = {m}
    Channels = {c1, c2, c3, c4}
    Senders = {s1, s2}
    Capacity = 1
    Prefixes <- MCPrefixes
    Bits <- MCBits
    Matching <- MCMatching
    Fixed <- MCFixed
    FixedHop <- MCFixedHop
    n = n
SPECIFICATION FairSpec
CHECK_DEADLOCK FALSE
INVARIANTS TimedNeighbours RoutedByLongest
PROPERTIES TouchReturns
