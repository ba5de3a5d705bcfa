\* Three threads and the caller's; a frame may be encoded twice.
CONSTANTS
  Helpers = 3
  Rows = 6
  Cols = 4
  NSync = 1
  Recodes = 1
CHECK_DEADLOCK FALSE
SPECIFICATION FairSpec
INVARIANT PostsMeanWhatTheySay
PROPERTIES CallsReturn ImplementsWavefront
