SPECIFICATION FairSpec
CONSTANTS
  c0 = c0
  c1 = c1
  c2 = c2
  NoCall = NoCall
  Calls = {c0, c1, c2}
  KindOf <- MCKind
  Mortal = {c0, c1}
  NLanes = 2
  Order <- MCOrder
  Capacity <- MCCapacity
  General = 0
INVARIANTS
  TypeOK
  NoLostCall
  TruthfulOutcome
  BoundedOvertaking
PROPERTIES
  ImplementsExecutor
  EveryWaiterReturns
