SPECIFICATION FairSpec
CONSTANTS
  MaxLength = 6
  MaxParagraphs = 3
  Texts <- SmallTexts
  Settings <- SomeSettings
  BatchSize = 2
INVARIANTS
  TypeOK
  ChunksBounded
  NothingLost
  EveryChunkIsNew
  ChunksReadAsText
  PiecesOverlap
  VectorsAligned
PROPERTIES
  Terminates
CHECK_DEADLOCK FALSE
