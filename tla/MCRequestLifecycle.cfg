SPECIFICATION Spec
CONSTANTS
  Plugins = 2
  MaxU64 = 3
  MaxChunk = 2
  MaxBody = 4
  MaxAttempts = 3
INVARIANTS
  AnsweredOnce
  PolicyFirst
  NoReplay
  BodyWithinLimit
  StoredComplete
  ReusedOnlyWhenClean
  Decorated
