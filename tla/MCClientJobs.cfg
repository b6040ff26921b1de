CONSTANTS
  ParentThreads = {"main", "other"}
  ChildThreads = {"child"}
  MaxSessions = 4
  MaxDeaths = 2
  MaxFaults = 1
SPECIFICATION MCSpec
INVARIANT GPUsComeBack
CHECK_DEADLOCK FALSE
