SPECIFICATION Spec
CONSTANTS
  NumBuffers = 4
  MaxPictures = 3
  Resilient = FALSE
  Faults = {"lost", "cut", "damaged"}
INVARIANTS BuffersAccounted Agreement ImageIntact
PROPERTY ImplementsValues
CHECK_DEADLOCK FALSE
