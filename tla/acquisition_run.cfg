\* Three commands of any kind over two sets of study views and two attempts.
SPECIFICATION Spec
CONSTANTS
  Procs = {p1, p2, p3}
  Data = {d1, d2}
  Attempts = {1, 2}
  Newest = 2
  Epochs = 2
  None = None
SYMMETRY Alike
INVARIANTS
  TypeOK
  VerifiedMeansTrained
  PreflightBeforeTraining
PROPERTIES
  RestIsFinal
CHECK_DEADLOCK FALSE
