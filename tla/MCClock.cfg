CONSTANTS
  Wrap = 16
  T4Period = 2
  Cycle = 5
  Chains = {c1, c2}
SYMMETRY MCSymmetry
SPECIFICATION Spec
INVARIANTS ClockTypeOK
PROPERTIES IntervalSound CycleCorrectsByATick
