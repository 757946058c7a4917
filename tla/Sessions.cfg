SPECIFICATION MCSpec
CONSTANTS
  Slots = {s1, s2}
  MaxSessions = 1
  MaxHandles = 2
  MaxInstances = 3
  MaxGeneration = 2
INVARIANTS SessionsSound RateBound TasksEnd
PROPERTIES LogoutTakesEffect
CHECK_DEADLOCK FALSE
