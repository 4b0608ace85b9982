SPECIFICATION FairSpec
CONSTANTS
  t1 = t1
  t2 = t2
  t3 = t3
  t4 = t4
  w1 = w1
  w2 = w2
  Tasks <- FourTasks
  Workers <- TwoWorkers
  Capacity = 2
  NoTask = NoTask
  CanShutDown = TRUE
INVARIANTS
  TypeOK
  OnePlace
  QuietAfterShutdown
PROPERTIES
  ImplementsBag
  AcceptedRuns
  ShutdownReturns
CHECK_DEADLOCK FALSE
