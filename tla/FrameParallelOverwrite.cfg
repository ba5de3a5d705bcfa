SPECIFICATION Spec
CONSTANTS
  NumWorkers = 2
  FRAME_CACHE_SIZE = 1
  MaxSuperframe = 1
  MaxFrames = 4
  MaxDrift = 1
  Failures = {"header"}
PROPERTY FramesNotOverwritten
