\* The training run with its frozen settings: five cases, eight epochs.
SPECIFICATION Spec
CONSTANTS
  N = 5
  Epochs = 8
  Preflights = 3
  None = None
  Torn = Torn
INVARIANTS
  TypeOK
  AcceptedMeansTrained
  LogKeepsUp
  GatesBeforeTraining
  KernelOfPhase
  VerdictFitsFiles
CHECK_DEADLOCK FALSE
