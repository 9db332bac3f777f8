SPECIFICATION FairSpec
CONSTANTS
  t1 = t1
  t2 = t2
  w1 = w1
  w2 = w2
  a = a
  b = b
  Tasks = {t1, t2}
  Workers = {w1, w2}
  Topic <- TopicOf
  Serves <- ServesOf
  Retries = 2
  MaxTasks <- MaxTasksOf
  NoWorker = NoWorker
INVARIANT ExclusiveProcessing
INVARIANT LockHasHandler
INVARIANT GivesUpAfterRetries
PROPERTY CancelledIsFinal
PROPERTY PendingIsPolled
