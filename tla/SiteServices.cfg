SPECIFICATION SiteSpec
CONSTANTS
  c1 = c1
  c2 = c2
  overview = overview
  u1 = u1
  u2 = u2
  t1 = t1
  t2 = t2
  b1 = b1
  f1 = f1
  r1 = r1
  r2 = r2
  NoClient = NoClient
  NoCode = NoCode
  Callers = {c1, c2}
  Keys = {overview}
  TTL <- MCTTL
  MaxTime = 3
  Clients = {c1}
  Ids = {1, 2}
  Users = {u1, u2}
  Codes = {1, 2, 3}
  Targets = {t1, t2}
  MaxAttempts = 2
  Browsers = {b1}
  FingerprintOf <- MCFingerprint
  Requests = {r1, r2}
  BrowserOf <- MCBrowser
  Capacity = 1
  Fallback = 7
  MaxVisits = 2
  Impatient = {r1}
  MaxCrashes = 1
CHECK_DEADLOCK FALSE
INVARIANTS
  BoundedStaleness
  OneLoadPerLifetime
  RefreshNeverStops
  LinksAgree
  SessionsAgree
PROPERTIES
  SnapshotOnlyImproves
  EveryRequestPasses
