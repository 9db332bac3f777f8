SPECIFICATION FairSpec
CONSTANTS
  Models <- AllModels
  Limit = 4
  MaxCalls = 2
  MaxAdmin = 3
  MaxCrashes = 1
INVARIANT CompletedIsQuiet
INVARIANT RunsOnce
 
INVARIANT SubscriptionHasToken
INVARIANT ServicesFollow
PROPERTY FinalIsFinal
PROPERTY ExecutionEnds
CHECK_DEADLOCK FALSE
