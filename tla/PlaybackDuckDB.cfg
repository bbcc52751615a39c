SPECIFICATION Spec
CONSTANTS
  r1 = r1
  Requests = {r1}
  Mixes <- MCMixes
  Engines = {"duckdb"}
  CellOf <- MCCellOf
  TrackOf <- MCTrackOf
  Rank <- MCRank
  MaxFaults = 0
  Nobody = Nobody
CHECK_DEADLOCK FALSE
INVARIANTS
  NobodyStuck
