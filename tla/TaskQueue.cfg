SPECIFICATION MCSpec
CONSTANTS
  Capacity = 2
  CounterMax = 1
  Tasks = {k1, k2}
  NoTask = NoTask
  Callers = {c1}
  Workers = {w1, w2}
  Owner = c1
  Free = Free
  Stuck = Stuck
  Faults = {}
INVARIANTS QueueSound
PROPERTIES ChannelSpec FaultyQueueSound TasksTaken
CHECK_DEADLOCK FALSE
