SPECIFICATION RebuildSpec
CONSTANTS
  Engine = "sqlite"
  Imports = {1, 2}
  Kind <- Fixed
  File <- Others
  Own <- Apart
  Tracks <- MCTracks
  Points <- MCPoints
  Invalid = {}
  Zooms <- MCZooms
  CellOf <- MCCellOf
  Threshold = 3
  ChunkSize = 2
  MaxFaults = 0
  Legacy <- MCLegacy
  Bare <- MCBare
CHECK_DEADLOCK FALSE
INVARIANTS
  DoneShowsPeaks
