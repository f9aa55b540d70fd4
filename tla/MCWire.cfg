SPECIFICATION FairSpec
CONSTANTS
  Frames <- MCFrames
  Item = 2
  MaxLen = 6
  Chunk = 7
  MaxSent = 3
  MaxQueue = 2
CHECK_DEADLOCK FALSE
INVARIANTS
  InStep
  NothingWaits
  BoundedBuffer
  BatchWhole
PROPERTIES
  InputHandled
