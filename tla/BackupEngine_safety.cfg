SPECIFICATION Spec
CONSTANTS
  Procs = {p1, p2}
  Files = {f1, f2}
  MaxTime = 2
  Keeps = {1}
SYMMETRY Symmetry
INVARIANTS
  SuccessIsComplete
  SoundNeverRejected
  RestoredIsWhole
PROPERTIES
  NewestSurvives
