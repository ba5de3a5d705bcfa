\* A key frame of another size while a thread has not left the last frame.
CONSTANTS
  Helpers = 1
  MaxRows = 3
  Cols = 1
  NSync = 1
  Frames <- TwoSizes
  Hurried = TRUE
  MaxStarts = 2
CHECK_DEADLOCK FALSE
SPECIFICATION FairSpec
PROPERTY EndIsTrue
