SPECIFICATION LimiterSpec
CONSTANTS
  Workers = {w1, w2, w3}
  Ips = {i1, i2}
  Limit = 1
  MaxU32 = 2
  Ttl = 1
  SweepInterval = 2
  MaxWindow = 2
  MaxRequests = 6
SYMMETRY Symmetric
INVARIANTS
  LimitUpToLate
CHECK_DEADLOCK FALSE
