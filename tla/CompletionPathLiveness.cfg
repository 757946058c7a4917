SPECIFICATION FairSpec
CONSTANTS
    Domains <- OnlyMkdir
    DomainOf <- DomainByNumber
    Workers = {w1, w2}
    Free = Free
    Requests = {1, 2}
    NoRequest = NoRequest
    TaskCapacity = 1
    Capacity = 1
    Budget = 1
    NotifierMax = 1
    CleanupAttempts = 1
    Faults = {"notify", "once"}
CHECK_DEADLOCK FALSE
PROPERTIES
    ProcessEnds
    EveryRequestSettles
