CONSTANTS
  None = None
  Requests = {q1, q2}
  Routes = {r1}
  Uris = {1, 5}
  KeySize <- MCKeySize
  CountSize = 1
  ResponseSizes = {2}
  MaxSize = 6
  Ttl = 1
  StaleIfError = 1
  MinUses = 2
  SweepInterval = 1
  MaxGeneration = 2
  MaxTime = 1
  MaxCaches = 2
SPECIFICATION Spec
SYMMETRY Symmetry
INVARIANTS
  ReloadIsolates
  BudgetRespected
  AdmittedAfterMinUses
