SPECIFICATION SetReferencesSpec
CONSTANTS
  NumBuffers = 4
  MaxPictures = 3
  Resilient = FALSE
  Faults = {}
INVARIANTS ImageIntact Agreement
CHECK_DEADLOCK FALSE
