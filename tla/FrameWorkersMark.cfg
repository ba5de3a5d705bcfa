SPECIFICATION FramesSpec
CONSTANTS
  NumWorkers = 2
  REF_FRAMES = 1
  FRAME_BUFFERS = 4
  Memory = {}
  NoMemory = NoMemory
  SbRows = 3
  SbSize = 16
  PredRows = {9, 10}
  Filters = {TRUE}
  Shows = {FALSE}
  Failures = {"header", "rows"}
PROPERTY CorruptedByOwner
CHECK_DEADLOCK FALSE
