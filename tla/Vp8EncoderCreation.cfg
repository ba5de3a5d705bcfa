\* The creation of a row thread fails.
CONSTANTS
  Helpers = 2
  Rows = 2
  Cols = 3
  NSync = 1
  Recodes = 0
CHECK_DEADLOCK FALSE
SPECIFICATION CreationFailsSpec
PROPERTY CallsReturn
