\* The application copies a reference between two frames.
CONSTANTS
  Helpers = 1
  Rows = 2
  Cols = 2
  NSync = 1
  Recodes = 0
CHECK_DEADLOCK FALSE
SPECIFICATION Spec
INVARIANT CopyIsFiltered
