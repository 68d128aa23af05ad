CONSTANTS
    Clients = {a, b}
    MaxSyns = 2
    MaxCommands = 2
    Rounds = 4
SPECIFICATION FairSpec
CHECK_DEADLOCK FALSE
INVARIANTS TypeOK EstablishedReachable IdsUnique
PROPERTIES IdStable MutexReleased
