SPECIFICATION FairSpec
CONSTANTS
  Jobs = {j1, j2}
  Recurring = {j2}
  MaxRetries = 2
  MaxTasks = 1
  SavesFail = FALSE
  MaxReloads = 0
INVARIANT OneExecution
INVARIANT SlotsMatch
INVARIANT RunsOnce
INVARIANT DroppedNeverRuns
INVARIANT RetriedUntilLimit
PROPERTY DueJobIsStarted
