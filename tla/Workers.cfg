SPECIFICATION MCSpec
CONSTANTS
    Domains <- OnlyAuth
    DomainOf <- DomainByNumber
    Workers = {w1, w2}
    Free = Free
    Requests = {1, 2}
    NoRequest = NoRequest
    TaskCapacity = 2
    Capacity = 1
    Budget = 1
    NotifierMax = 1
    CleanupAttempts = 2
    Faults = {"work", "residual", "wait", "notify", "once", "signal", "broadcast"}
SYMMETRY Symmetry
INVARIANTS NoSilentLoss AnswerTruthful
PROPERTIES LoginsCurrent
CHECK_DEADLOCK FALSE
