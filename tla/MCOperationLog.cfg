SPECIFICATION FairSpec
CONSTANTS
    Operations = {o1}
    None = None
    Tries = 2
    QueueLimit = 1
    BatchSize = 1
    Statuses = {"success"}
    Terminals = {None, "completed"}
    MaxFaults = 2
INVARIANTS FlushedIsDurable
PROPERTIES FirstReportStays AbandonsOnlyUnleased EverySettles
CHECK_DEADLOCK FALSE
