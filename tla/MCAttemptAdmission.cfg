SPECIFICATION Spec
CONSTANTS
    Attempts = {a1, a2, a3}
    RpmLimit = 2
    TpmLimit = 3
    MaxReservation = 2
    Overrun = 0
    MayResend = TRUE
SYMMETRY Symmetry
INVARIANTS
    WithinLimits
    ReservedCoversLeases
    UsageCountedOnce
    LeastBusyCovers
