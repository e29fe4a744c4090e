--------------------------- MODULE MCAcquisitionRun ---------------------------
\* AcquisitionRun for TLC: the commands are interchangeable, and so are the
\* study views.
EXTENDS AcquisitionRun, TLC

Alike == Permutations(Procs) \cup Permutations(Data)
===============================================================================
