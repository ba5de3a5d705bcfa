SPECIFICATION FramesSpec
CONSTANTS
  NumWorkers = 2
  REF_FRAMES = 1
  FRAME_BUFFERS = 3
  Memory = {}
  NoMemory = NoMemory
  SbRows = 2
  SbSize = 16
  PredRows = {10}
  Filters = {TRUE}
  Shows = {TRUE, FALSE}
  Failures = {"header", "rows"}
INVARIANTS PredictedFromFinal SleepersAreServed
CHECK_DEADLOCK FALSE
