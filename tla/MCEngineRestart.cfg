SPECIFICATION Spec
CONSTANTS
  Models <- WaitingOnly
  Limit = 6
  MaxCalls = 1
  MaxAdmin = 3
  MaxCrashes = 0
INVARIANT RecoveryRestores
CHECK_DEADLOCK FALSE
