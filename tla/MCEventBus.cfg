SPECIFICATION FairSpec
CONSTANTS
  e1 = e1
  e2 = e2
  s1 = s1
  s2 = s2
  a = a
  b = b
  Events = {e1, e2}
  Types = {a, b}
  TypeOf <- TypeOfEvent
  Subs = {s1, s2}
  Priority <- PriorityOf
  Accepts <- AcceptsOf
  MaxHistory = 1
  NoSub = NoSub
INVARIANT AtMostOnce
INVARIANT NobodySkipped
INVARIANT HistoryIsRecent
PROPERTY EventuallyDelivered
