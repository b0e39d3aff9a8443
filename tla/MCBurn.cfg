CONSTANTS
  MaxTime = 1
  BurnCycles = 2
  MaxChains = 2
  Saturates = TRUE
SPECIFICATION FairSpec
INVARIANTS BurnTypeOK StandbyIsSafe AutopilotAlive
PROPERTIES WatchLostOnlyBy SteeringLostOnlyBy CutoffFollows IgnitionFollows
