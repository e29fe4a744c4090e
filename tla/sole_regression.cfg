\* One case of the fact-state study, files never replaced, of the labels the
\* two that authorize a regression; the reviewer writes twice.
SPECIFICATION Spec
CONSTANTS
  None = None
  N = 1
  Targeted = {1}
  Refer = {1}
  MinPercent = 50
  MaxRepairs = 1
  Studies = {"fact_state"}
  Roots = {r1}
  Versions = {1}
  Faults = {"truncated", "foreign_record"}
  Readings <- MCReadings
  FullScore <- MCFullScore
  Labels = {"fine", "lost"}
  Meaning <- MCMeaning
  Fine = "fine"
  MaxCommands <- Six
  MaxRunning <- One
  MaxFaults <- No
  MaxFlaws <- One
  MaxAdvisories <- Two
INVARIANTS
  SoleRegression
CHECK_DEADLOCK FALSE
