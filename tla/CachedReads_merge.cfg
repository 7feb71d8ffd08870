SPECIFICATION Spec
CONSTANTS
  Symbol = {a, b}
  MarketOf <- OneMarket
  None = None
  Failed = Failed
  TTL = 1
  Reader = {r1, r2}
  MaxTime = 1
  MaxCalls = 3
SYMMETRY ReadSymmetry
INVARIANTS
  AnswersComplete
PROPERTIES
  NoSlidingExpiry
CHECK_DEADLOCK FALSE
