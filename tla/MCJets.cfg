CONSTANTS
  DapPeriod = 8
  MinPulse = 2
  MaxPulse = 8
  CountsPerUnit = 16
  MaxDemand = 9
SPECIFICATION Spec
INVARIANTS JetsTypeOK CutOnlyByStaleFlag
PROPERTIES TimingLostOnlyByReset StagedOffOnlyByRestart
