SPECIFICATION RouteSpec
CONSTANTS
  A = A
  B = B
  p = p
  r = r
  i1 = i1
  i2 = i2
  NoInst = NoInst
  Scps <- MCScps
  Backends <- MCBackends
  Allowed <- MCAllowed
  Headers <- MCHeaders
  MaxHops = 3
INVARIANTS
  HopBudget
  Admissible
  RootFollowsBackend
