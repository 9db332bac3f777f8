SPECIFICATION FairSpec
CONSTANTS
  Callers = {c1, c2, c3, c4}
  Threshold = 3
  MaxProbes = 2
PROPERTY HalfOpenEnds
CHECK_DEADLOCK FALSE
