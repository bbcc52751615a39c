SPECIFICATION FairSpec
CONSTANTS
  c1 = c1
  c2 = c2
  Clicks = {c1, c2}
  StatusRoom = 1
  Entries <- MCEntries
  EntryRoom = 1
  QueueSize = 1
CHECK_DEADLOCK FALSE
INVARIANTS
  LastLineExact
PROPERTIES
  ImplementsSlot
  EveryRequestLogged
