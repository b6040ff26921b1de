CONSTANTS
  ParentThreads = {"main", "other"}
  ChildThreads = {"child"}
  MaxSessions = 4
  MaxDeaths = 2
  MaxFaults = 1
SPECIFICATION MCSpec
INVARIANTS AuthSafe CountsAreExact CommandsTellTheTruth
PROPERTIES NothingIsLeftBehind ConversionIsWhole CallsAndCountsArrive
CHECK_DEADLOCK FALSE
