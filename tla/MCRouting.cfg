SPECIFICATION RoutingSpec
CONSTANTS
  Scenarios <- MCScenarios
  NoHost = NoHost
INVARIANTS
  BestMatch
  SegmentsKept
  TlsBound
