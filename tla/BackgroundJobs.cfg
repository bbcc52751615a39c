SPECIFICATION Spec
CONSTANTS
  c1 = c1
  a1 = a1
  a2 = a2
  a3 = a3
  ipA = ipA
  NoCaller = NoCaller
  NoRequest = NoRequest
  Callers = {c1}
  MaxCrashes = 1
  MaxSources = 5
  PageSize = 2
  SeenLimit = 2
  MaxFaults = 2
  Broken = {2}
  PublishWhile = {"boot", "initial", "refresh", "idle"}
  Requests = {a1, a2, a3}
  IPs = {ipA}
  IpOf <- MCIpOf
  Heavy = {a1, a2, a3}
  Burst = 2
  Cooldown = 1
CHECK_DEADLOCK FALSE
INVARIANTS
  ReadyMeansThere
  HistoryHonest
  BurstRespected
PROPERTIES
  EventuallyFresh
  ImportedOnce
  NewestImported
  EveryAcquireReturns
