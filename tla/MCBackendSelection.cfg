SPECIFICATION Spec
CONSTANTS
  Position <- MCPosition
  Service <- MCService
  Results <- MCResults
  Filters <- MCFilters
  Requests = {r}
  ConsecutiveSuccess = 2
  ConsecutiveFailure = 1
  MaxChanges = 2
  MaxRefreshes = 2
  MinIterations = 3
  MaxU16 = 9
  MaxServices = 3
  None = None
INVARIANTS
  SelectionJustified
  HealthFollowsChecks
  SharesExact
PROPERTIES
  EvictedReturn
