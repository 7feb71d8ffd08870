SPECIFICATION Spec
CONSTANTS
  r1 = r1
  r2 = r2
  Reader = {r1, r2}
  None = None
  Failed = Failed
  Minute <- OwnMinutes
  Requests <- FirstPageAndFull
  DefaultCount = 2
  StickyCoverage = FALSE
  MaxCalls = 2
INVARIANTS
  FullAnswersAreWhole
