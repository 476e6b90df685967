SPECIFICATION Spec
CONSTANTS
    r1 = r1
    r2 = r2
    r3 = r3
    Requests = {r1, r2, r3}
    Settings <- Both
    LeaseTtl = 2
    MaxDuration = 1
    MaxTime = 4
    CrashPhases = {"live"}
CONSTRAINT SpendBound
INVARIANTS
    ReservedCoversLeases
    LedgersAgree
    HardCap
PROPERTIES
    SpendWipedOnlyWhenDue
CHECK_DEADLOCK FALSE
