SPECIFICATION Spec
CONSTANTS
  r1 = r1
  r2 = r2
  Reader = {r1}
  None = None
  Failed = Failed
  Minute <- OwnMinutes
  Requests <- SecondPageAndFull
  DefaultCount = 2
  StickyCoverage = TRUE
  MaxCalls = 4
INVARIANTS
  NoTickTwice
