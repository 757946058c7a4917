SPECIFICATION Spec
CONSTANTS
    Slots = {s1, s2}
    Sequences = {q1, q2, q3}
    Domains = {"auth", "stat"}
    StoreCapacity = 4
    ClientLimit = 2
    CleanupSlots = 2
    MkdirEnabled = TRUE
    MaxInstances = 3
    MaxGeneration = 2
SYMMETRY Symmetry
INVARIANTS RequestsSound
CHECK_DEADLOCK FALSE
