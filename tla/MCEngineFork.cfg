SPECIFICATION Spec
CONSTANTS
  Models <- ForkOnly
  Limit = 6
  MaxCalls = 0
  MaxAdmin = 1
  MaxCrashes = 0
INVARIANT ForkRunsAll
CHECK_DEADLOCK FALSE
