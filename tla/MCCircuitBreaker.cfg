SPECIFICATION FairSpec
CONSTANTS
    d1 = d1
    d2 = d2
    shared = shared
    None = None
    Tokens = {t1, t2}
    Deployments <- TwoDeployments
    CapacityOf <- SharedCapacity
    AllowedFails = 1
    MaxOpen = 2
    MayDisable = TRUE
    MayLapse = FALSE
INVARIANTS
    OpenHasHistory
    ProbeAccounted
PROPERTIES
    NoExtension
    ImplementsBreaker
    NeverBlockedForever
