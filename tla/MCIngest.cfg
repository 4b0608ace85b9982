SPECIFICATION Spec
CONSTANTS
  u1 = u1
  u2 = u2
  u3 = u3
  x1 = x1
  a = a
  b = b
  Uploads <- ThreeUploads
  Deletes <- OneDelete
  Bodies <- OneBody
  Body <- SameBody
  ChunksIn <- Twice
  Replies <- Reply
  RemoveCanFail = TRUE
  Crashes = TRUE
SYMMETRY Permuted
INVARIANTS
  TypeOK
  ChunksAllOrNothing
  NoFileLeak
  DeleteSticks
  CompletedIsIndexed
PROPERTIES
  ImplementsCatalogue
CHECK_DEADLOCK FALSE
