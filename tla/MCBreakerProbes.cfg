SPECIFICATION Spec
CONSTANTS
  c1 = c1
  c2 = c2
  c3 = c3
  Callers <- TwoCallers
  WindowSize = 2
  MinRequests = 3
  RateNum = 3
  RateDen = 5
  ResetTimeout = 2
  MaxWindow = 4
INVARIANTS
  SingleProbe
