SPECIFICATION Spec
CONSTANTS
  r1 = r1
  r2 = r2
  r3 = r3
  Origin = Origin
  None = None
  Garbage = Garbage
  Requests <- RequestSet
  MaxHistory = 2
  MaxTime = 1
  MaxCrashes = 1
  MaxFaults = 2
SYMMETRY Permuted
INVARIANTS
  TypeOK
  WritersExclude
  HistoryBounded
  OnlyAnsweredTurns
  TurnsWhole
  Remembers
PROPERTIES
  ImplementsLog
CHECK_DEADLOCK FALSE
