CONSTANTS
  Slots = {1}
  Generations = {1}
  Unauthenticated = 2
  FrameTimeout = 2
  IdleTimeout = 2
  LoopTimeout = 3
  FrameUnits = 2
  ReadCapacity = 3
  ReadLow = 1
  ReadHigh = 3
  OutCapacity = 1
  WriteLow = 0
  WriteHigh = 1
  MaxRequests = 1
  MaxExpired = 1
  CleanupRounds = 2
  MaxInbox = 2
  MaxLag = 1
SPECIFICATION Spec
INVARIANTS LoopAwake
CHECK_DEADLOCK FALSE
PROPERTIES BlockedEnds
