SPECIFICATION FairSpec
CONSTANTS
  Lag = 4
  MAX_LAG_BUFFERS = 25
  DEFAULT_GF_INTERVAL = 3
  KeyFreq = 5
  AutoArf = TRUE
  FRAME_BUFFERS = 4
  MaxImages = 7
  ForcesKeyFrames = TRUE
  ForcedUpdates = {{"last", "golden"}, {"last", "alt"}}
  CxDataSize = 4
  FrameSizes = {1, 2, 3}
INVARIANTS DecoderAgrees HiddenHasImage ArfBeforeKeyFrame
PROPERTIES FlushEmpties FlushIsComplete ImplementsQueue
CHECK_DEADLOCK FALSE
