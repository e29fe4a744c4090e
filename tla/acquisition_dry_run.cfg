\* A dry run, then the execution it tells its user to repeat it with.
SPECIFICATION Spec
CONSTANTS
  Procs = {p1, p2, p3}
  Data = {d1}
  Attempts = {1}
  Newest = 1
  Epochs = 1
  None = None
SYMMETRY Alike
INVARIANT
  DryRunCanBeRepeated
CHECK_DEADLOCK FALSE
