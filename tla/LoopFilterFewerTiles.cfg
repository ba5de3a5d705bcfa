\* A frame with fewer tile columns than an earlier one: rows without a thread, and a hang.
CONSTANTS
  SbRows = 5
  SbCols = 5
  SyncRange = 2
  NWorkers = 4
  TileCols = {2, 4}
SPECIFICATION FairSpec
CHECK_DEADLOCK FALSE
PROPERTIES RowsFinish
