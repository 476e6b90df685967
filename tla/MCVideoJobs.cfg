SPECIFICATION VideoFairSpec
CONSTANTS
    Pollers = {p1}
    Viewers = {v1}
    MaxVideoFaults = 2
INVARIANTS ServableIsStored 
PROPERTIES JobEnds AssetsCollected
CHECK_DEADLOCK FALSE
