SPECIFICATION MCSpec
CONSTANTS
  WorkerCount = 2
  Capacity = 2
  Tasks = {k1, k2, k3}
  NoTask = NoTask
  Faults = {"init", "create", "broadcast", "park", "wait", "take", "join", "execute", "destroy"}
CHECK_DEADLOCK FALSE
INVARIANTS OnceEach
PROPERTIES PoolEnds RequestsEnd StopEndsRun QueueMoves Served
