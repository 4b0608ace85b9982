SPECIFICATION FairSpec
CONSTANTS
  u1 = u1
  u2 = u2
  u3 = u3
  x1 = x1
  a = a
  b = b
  Uploads <- ThreeUploads
  Deletes <- OneDelete
  Bodies <- TwoBodies
  Body <- OtherBody
  ChunksIn <- Split
  Replies <- Faultless
  RemoveCanFail = TRUE
  Crashes = FALSE
INVARIANTS
  IndexMatchesContent
PROPERTIES
  StatusSettles
CHECK_DEADLOCK FALSE
