CONSTANTS
  None = None
  p1 = p1
  Order <- OnePlain
  Scp = {s1}
  Endpoints = {e1}
  Validities = {2}
  StaleIfError = 2
  Timeout = 1
  PreflightTime = 1
  Percents = {90}
  MaxExponent = 1
  MaxBackoff = 2
  RefreshInterval = 1
  Permits = 1
SPECIFICATION Spec
INVARIANTS
  WindowEnforced
PROPERTIES
  RequestsSpaced
  NoGapWithoutFailure
  RecoversAfterOutage
