SPECIFICATION MCSpec
CONSTANTS
  Workers = {w1, w2}
  Inputs <- MCInputs
  Tree <- MCTree
  AncestorCapacity = 3
  PageSize = 1
  MaxCalls = 2
  MaxFaults = 1
INVARIANTS TreeStaysSound RetriedOnce LeasesSafe StorageSound CodecExact
PROPERTIES RevokedWritesNothing AnswersCurrent
SYMMETRY WorkerSymmetry
CHECK_DEADLOCK FALSE
