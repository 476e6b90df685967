SPECIFICATION FairSpec
CONSTANTS
    p = p
    f = f
    g = g
    p1 = p1
    p2 = p2
    f1 = f1
    g1 = g1
    shared = shared
    None = none
    Models = {p, f, g}
    Deployments = {p1, p2, f1, g1}
    PoolOf <- LongPools
    CapacityOf <- Capacities
    Primary = p
    ChainsOf <- ChainsByKind
    MaxAttempts = 3
    Serving <- StreamsOnShort
    Faults = {"transient", "throttle", "configuration", "context_window"}
CHECK_DEADLOCK FALSE
INVARIANTS
    SettledOnce
    ChosenInTurn
PROPERTIES
    SpentNotRepeated Terminates
