SPECIFICATION Spec
CONSTANTS
  a1 = a1
  a2 = a2
  a3 = a3
  ipA = ipA
  NoRequest = NoRequest
  Requests = {a1, a2, a3}
  IPs = {ipA}
  IpOf <- MCIpOf
  Heavy = {a1, a2, a3}
  Burst = 2
  Cooldown = 1
INVARIANTS
  ThrottlingSurvives
CHECK_DEADLOCK FALSE
