SPECIFICATION Spec
CONSTANTS
  r1 = r1
  r2 = r2
  Reader = {r1, r2}
  None = None
  Failed = Failed
  Minute <- SharedMinute
  Requests <- FirstPagesAndFull
  DefaultCount = 2
  StickyCoverage = FALSE
  MaxCalls = 3
INVARIANTS
  FullAnswersAreWhole
  PageAnswersMatch
  NoTickTwice
  CoveredMeansStored
