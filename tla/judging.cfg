\* Two processes, two calls of any kind.
SPECIFICATION Spec
CONSTANTS
  None = None
  p1 = p1
  p2 = p2
  b1 = b1
  wrong = wrong
  wrong_too = wrong_too
  half = half
  right = right
  audited = audited
  Cases = {wrong, wrong_too, half, right, audited}
  FamilyOf <- MCFamilyOf
  Audit = {audited}
  Eligible = {wrong, wrong_too, half, right}
  Disputed = {half}
  Categories <- MCCategories
  MinAgreement = 60
  MinKappa = 50
  MaxIncorrect = 0
  MaxInvalid = 40
  MaxCritical = 50
  MinClassCount = 1
  Procs = {p1, p2}
  Gemma = Gemma
  Other = Other
  Makes <- MCMakes
  Home <- MCHome
  Benchmarks = {b1}
  Rows = {1, 2, 3, 4, 5, 6, 7, 8, 9}
  Words <- MCWords
  NormalForm <- MCNormalForm
  Records = {"POL-1", "POL-2"}
  QuestionFamilies = {"f1", "f2", "f3", "f4"}
  OldValue <- MCOldValue
  Arms = {"bm25", "base"}
  UnitsNeeded <- MCUnitsNeeded
  Artifact <- MCArtifact
  Opinions <- MCOpinions
  Datasets <- MCDatasets
  MaxCalls = 2
  MaxFlaws = 1
INVARIANTS
  TypeOK
  OneJudge
  NothingLeft
  ResultsAreEarned
CHECK_DEADLOCK FALSE
