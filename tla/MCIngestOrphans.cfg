SPECIFICATION Spec
CONSTANTS
  u1 = u1
  u2 = u2
  u3 = u3
  x1 = x1
  a = a
  b = b
  Uploads <- TwoUploads
  Deletes <- OneDelete
  Bodies <- OneBody
  Body <- SameBody
  ChunksIn <- SplitOne
  Replies <- Faultless
  RemoveCanFail = FALSE
  Crashes = FALSE
INVARIANTS
  DeleteLeavesNoVectors
CHECK_DEADLOCK FALSE
