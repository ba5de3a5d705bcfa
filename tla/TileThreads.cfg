\* Three threads, of which the decoder uses two, and four tile columns: the
\* decoder has two rounds of tiles, the encoder more tiles than threads.
CONSTANTS
  SbRows = 5
  SbCols = 7
  SyncRange = 4
  NWorkers = 3
  TileCols = {4}
  UnfilteredCols = {2}
  MaxTiles = 8
  TileRows = {1, 2}
  Filterings = 2
SPECIFICATION FairCodecSpec
INVARIANTS NoSignalLost CountsComplete EndIsOfLastTile
PROPERTIES ImplementsTiledFrame ImplementsWavefront FramesEnd
