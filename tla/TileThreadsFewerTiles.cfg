\* The encoder's frames change their number of tile columns.
CONSTANTS
  SbRows = 1
  SbCols = 1
  SyncRange = 1
  NWorkers = 4
  TileCols = {2, 4}
  UnfilteredCols = {4}
  MaxTiles = 8
  TileRows = {2}
  Filterings = 0
SPECIFICATION CodecSpec
PROPERTY ImplementsTiledFrame
CHECK_DEADLOCK FALSE
