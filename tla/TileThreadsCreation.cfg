\* A thread of the tile workers cannot be created.
CONSTANTS
  SbRows = 1
  SbCols = 1
  SyncRange = 1
  NWorkers = 3
  TileCols = {4}
  UnfilteredCols = {4}
  MaxTiles = 4
  TileRows = {1}
  Filterings = 0
SPECIFICATION CreationFailsSpec
PROPERTY ImplementsTiledFrame
CHECK_DEADLOCK FALSE
