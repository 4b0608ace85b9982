SPECIFICATION Spec
CONSTANTS
  u1 = u1
  u2 = u2
  u3 = u3
  x1 = x1
  a = a
  b = b
  Uploads <- TwoUploads
  Deletes <- NoDelete
  Bodies <- OneBody
  Body <- SameBody
  ChunksIn <- SplitOne
  Replies <- Faultless
  RemoveCanFail = FALSE
  Crashes = FALSE
INVARIANTS
  RetryFindsItsFile
CHECK_DEADLOCK FALSE
