CONSTANTS
  Tasks = {a, b}
  MaxTasks = 3
  MaxDelay = 3
  TaskDelays = {1, 3}
  WorkDelays = {2, 3}
  ZeroReload = 5
  Latency = TRUE
  LateCap = 0
SPECIFICATION FairSpec
INVARIANTS TypeOK ChainSound NoLostWakeup
PROPERTIES ServedEventually
