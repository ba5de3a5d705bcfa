SPECIFICATION FairSpec
CONSTANTS
  NumWorkers = 2
  FRAME_CACHE_SIZE = 1
  MaxSuperframe = 2
  MaxFrames = 3
  MaxDrift = 1
  Failures = {"header","body","trailing","scratch","index"}
PROPERTIES ThreadsNotLost CallsReturn
