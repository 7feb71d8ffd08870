SPECIFICATION Spec
CONSTANTS
  r1 = r1
  r2 = r2
  Caller = {r1, r2}
  Key <- KeysOf
  Value <- Loads
  None = None
  MaxCalls = 2
  Failed = Failed
  Trading <- Days
  AtClose = TRUE
  Requests <- SpanAndPages
  MaxGap = 2
  MaxPage = 2
  DefaultCount = 3
INVARIANTS
  GapsAreFilled
CHECK_DEADLOCK FALSE
