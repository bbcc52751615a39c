SPECIFICATION PageSpec
CONSTANTS
  ped = ped
  car = car
  None = None
  Layers = {ped, car}
  Places = {2, 3, 5}
  Zooms = {1, 2}
  Start <- MCStart
  Reach = 1
  Failing = {car}
  MaxFails = 1
  Old = {2}
  Whole = {3}
  Bare = {1, 5, 6}
  Runs = {1, 2}
  Tracks = 1
  Points = 2
  MaxActs = 2
  Centers = {0, 1}
  BaseZooms = {0, 1}
  Panes = {0, 1}
  Sizes = {0, 1}
  MaxFrames = 1
  Builds <- MCBuilds
CHECK_DEADLOCK FALSE
INVARIANTS
  CalmViewExact
  PointsOnlyWhilePlaying
  BaseMapExact
PROPERTIES
  EventuallySettled
