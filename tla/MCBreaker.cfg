SPECIFICATION FairSpec
CONSTANTS
  c1 = c1
  c2 = c2
  c3 = c3
  Callers <- ThreeCallers
  WindowSize = 2
  MinRequests = 2
  RateNum = 3
  RateDen = 5
  ResetTimeout = 2
  MaxWindow = 5
INVARIANTS
  TypeOK
  WindowBelowThreshold
PROPERTIES
  WindowExact
  ImplementsGate
  OpenEventuallyProbes
  RecoversForGood
