SPECIFICATION Spec
CONSTANTS
  ped = ped
  car = car
  None = None
  Layers = {ped}
  Places = {2, 4}
  Zooms = {1}
  Start <- MCStart
  Reach = 1
  Failing = {}
  MaxFails = 0
  Old = {}
  Whole = {}
  Bare = {}
  Runs = {}
  Tracks = 0
  Points = 1
  MaxActs = 2
CHECK_DEADLOCK FALSE
INVARIANTS
  SettledShowsView
