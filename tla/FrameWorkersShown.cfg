SPECIFICATION FramesSpec
CONSTANTS
  NumWorkers = 2
  REF_FRAMES = 1
  FRAME_BUFFERS = 4
  Memory = {}
  NoMemory = NoMemory
  SbRows = 1
  SbSize = 16
  PredRows = {16}
  Filters = {TRUE}
  Shows = {TRUE, FALSE}
  Failures = {}
INVARIANTS FramesTypeOK RefCountsExact FrameBufferAvailable
