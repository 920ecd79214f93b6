SPECIFICATION FairSpec
CONSTANTS
  Symbols = {0, 1}
  Frames <- MCFrames
  Modes <- MCModes
  SeqNums = 2
  Blocks = 6
  Mrus <- MCMrus
INVARIANTS
  InStep
  DeliveredIntact
PROPERTY FramesGetThrough
CHECK_DEADLOCK FALSE
