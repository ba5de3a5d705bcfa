SPECIFICATION FairSpec
CONSTANTS
  NumWorkers = 3
  FRAME_CACHE_SIZE = 2
  MaxSuperframe = 3
  MaxFrames = 5
  MaxDrift = 1
  Failures = {}
INVARIANT OutputAccounted
PROPERTIES OutputInOrder FlushDrains
