SPECIFICATION FairSpec
CONSTANTS
    Capacity = 2
    BucketCount = 2
    TickNs = 2
    Origin = 1
    MaxNs = 8
    MaxGeneration = 2
    MaxTicks = 1
    MaxNodes = 1
    ShutdownSlots = 1
INVARIANTS
    NothingOverlooked
PROPERTIES
    PromiseKept
    EveryTimerEnds
CHECK_DEADLOCK FALSE
