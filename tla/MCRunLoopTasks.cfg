CONSTANTS
  Tasks = {a, b}
  MaxTasks = 3
  MaxDelay = 5
  TaskDelays = {2, 3, 5}
  WorkDelays = {}
  ZeroReload = 6
  Latency = FALSE
  LateCap = 6
SPECIFICATION Spec
PROPERTIES NeverEarly
