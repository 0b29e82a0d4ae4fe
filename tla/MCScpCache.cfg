CONSTANTS
  Requests = {q1, q2}
  Keys = {k1, k2}
  Ids = {1, 2}
  MaxEntries = 1
  IdleTtl = 2
  MaxNotify = 1
SPECIFICATION Spec
INVARIANTS
  OneGroupPerKey
  WaiterHasTask
PROPERTIES
  UnusedExpire
