SPECIFICATION FairFramesSpec
CONSTANTS
  NumWorkers = 2
  REF_FRAMES = 1
  FRAME_BUFFERS = 3
  Memory = {}
  NoMemory = NoMemory
  SbRows = 4
  SbSize = 16
  PredRows = {9, 26}
  Filters = {TRUE, FALSE}
  Shows = {FALSE}
  Failures = {}
INVARIANT PredictedFromFinal
PROPERTY FramesFinish
