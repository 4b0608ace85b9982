SPECIFICATION Spec
CONSTANTS
  r1 = r1
  r2 = r2
  q1 = q1
  c1 = c1
  c2 = c2
  None = None
  Requests <- RequestSet
  Questions <- QuestionSet
  TopKs = {0, 1}
  DefaultK = 2
  LargestK = 2
  Chunks <- ChunkSet
  Deletable <- DeletableSet
  QATTL = 1
  VectorTTL = 1
  MaxLag = 1
  MaxFaults = 1
SYMMETRY Interchangeable
INVARIANTS
  TypeOK
  DeletedContentAgesOut
  FeedbackHasRecord
  RecordTellsOutcome
  HitsFitTopK
CHECK_DEADLOCK FALSE
