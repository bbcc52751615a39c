SPECIFICATION Spec
CONSTANTS
  Tracks = {1, 2, 3, 4}
  Legacy = {2, 4}
  Dated = {1, 3, 4}
  PageSize = 2
  MaxFaults = 1
CHECK_DEADLOCK FALSE
INVARIANTS
  YearResolves
