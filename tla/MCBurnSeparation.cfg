CONSTANTS
  MaxTime = 1
  BurnCycles = 1
  MaxChains = 1
  Saturates = FALSE
SPECIFICATION Spec
PROPERTIES SeparationQuenchesBurn
