CONSTANTS
  MaxAddress = 5
  VectorWords = 3
  Tigs = {t1, t2, t3}
SPECIFICATION Spec
SYMMETRY TigSymmetry
INVARIANTS KeyboardTypeOK LockIsLit TigSharedOnlyByCoelliptic
PROPERTIES RefusedOnlyBySelector TornOnlyByWord BlockInstalls
