\* Fewer token partitions while a thread has not left the last frame.
CONSTANTS
  Helpers = 2
  MaxRows = 4
  Cols = 1
  NSync = 1
  Frames <- TwoPartitionings
  Hurried = TRUE
  MaxStarts = 2
CHECK_DEADLOCK FALSE
SPECIFICATION FairSpec
PROPERTY FramesFinish
