\* The evaluation of three cases with its watchdog, any step failing.
SPECIFICATION FairSpec
CONSTANTS
  N = 3
  None = None
INVARIANTS
  TypeOK
  RowsFollowCases
  RowsBacked
  CompletedMeansAll
  NotAttemptedExplained
  OneLateAttempt
  LimitRestored
PROPERTY RunEnds
CHECK_DEADLOCK FALSE
