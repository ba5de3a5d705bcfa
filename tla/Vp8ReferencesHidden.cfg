SPECIFICATION Spec
CONSTANTS
  NumBuffers = 4
  MaxPictures = 3
  Resilient = FALSE
  Faults = {"cut"}
INVARIANT HiddenNotShown
CHECK_DEADLOCK FALSE
