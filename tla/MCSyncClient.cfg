SPECIFICATION ClientSpec
CONSTANTS
  boot = boot
  v1 = v1
  v2 = v2
  bad = bad
  Versions <- MCVersions
  Bootstrap = boot
  Verdict <- MCVerdict
  RetryMin = 1
  RetryMax = 3
  MaxSets = 3
  MaxRuns = 2
  MaxFaults = 2
INVARIANTS
  SyncedMeansObserved
PROPERTIES
  Converges
CHECK_DEADLOCK FALSE
