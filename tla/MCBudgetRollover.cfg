SPECIFICATION Spec
CONSTANTS
    r1 = r1
    r2 = r2
    r3 = r3
    Requests = {r1, r2}
    Settings <- Windows
    LeaseTtl = 2
    MaxDuration = 1
    MaxTime = 6
    CrashPhases = {}
INVARIANTS
    RollsOver
