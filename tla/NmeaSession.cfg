SPECIFICATION FairSpec
CONSTANTS
  ReadBuffer = 4
  FrameBuffer = 2
  MaxRead = 2
  MaxChunk = 2
  MaxStream = 7
INVARIANTS
  WaitersHaveCause
  FramesIntact
PROPERTY
  StopAnswered
