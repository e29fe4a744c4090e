\* All four studies, one per behaviour, over two cases.
SPECIFICATION Spec
CONSTANTS
  None = None
  N = 2
  Targeted = {1}
  Refer = {1}
  MinPercent = 50
  MaxRepairs = 1
  Studies = {"pilot", "qualification", "remedy", "fact_state"}
  Roots = {r1}
  Versions = {1, 2}
  Faults = {"truncated", "foreign_record"}
  Readings <- MCReadings
  FullScore <- MCFullScore
  Labels = {"fine", "lost", "minor", "unsafe"}
  Meaning <- MCMeaning
  Fine = "fine"
  MaxCommands <- MCMaxCommands
  MaxRunning <- MCMaxRunning
  MaxFaults <- MCMaxFaults
  MaxFlaws <- MCMaxFlaws
  MaxAdvisories <- One
INVARIANTS
  TypeOK
  OneWriter
  ScoredAsReviewed
  PassesAreEarned
  SelectionIsEarned
  RegressionIsAuthorized
  RepairsAreEarned
CHECK_DEADLOCK FALSE
