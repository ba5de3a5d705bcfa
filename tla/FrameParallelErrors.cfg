\* The calls after a frame that failed in its body.
SPECIFICATION Spec
CONSTANTS
  NumWorkers = 2
  FRAME_CACHE_SIZE = 1
  MaxSuperframe = 2
  MaxFrames = 4
  MaxDrift = 1
  Failures = {"body"}
INVARIANT ReleasedOnce
PROPERTY ResyncAfterError
