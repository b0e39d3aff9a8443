CONSTANTS
  Tasks = {"servicer", "p02", "p22", "p23"}
  MaxTasks = 3
  MaxDelay = 2
  TaskDelays <- MCDelays
  WorkDelays <- MCDelays
  Period <- MCPeriod
  ZeroReload = 3
  Latency = TRUE
  LateCap = 0
SPECIFICATION FairNavSpec
INVARIANTS NavTypeOK
PROPERTIES ImplementsRunLoop ServicerLostOnlyByRestart NotDoubledWhileActive EveryTaskServed ChainsEnd
