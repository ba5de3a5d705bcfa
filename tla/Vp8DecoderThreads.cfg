\* Frames of every shape; one of a new shape finds the threads back.
CONSTANTS
  Helpers = 3
  MaxRows = 5
  Cols = 3
  NSync = 1
  Frames <- Shapes
  Hurried = FALSE
  MaxStarts = 2
CHECK_DEADLOCK FALSE
SPECIFICATION FairSpec
INVARIANT NothingLeftOver
PROPERTIES FramesFinish ImplementsWavefront
