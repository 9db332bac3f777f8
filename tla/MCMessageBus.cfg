SPECIFICATION FairSpec
CONSTANTS
  Senders = {a, b}
  MaxMsgs = 2
  MaxSize = 1
  MaxTasks = 3
INVARIANT Accounted
PROPERTY MailboxSpec
PROPERTY Delivered
CHECK_DEADLOCK FALSE
