SPECIFICATION FairSpec
CONSTANTS
  Callers = {c1, c2, c3, c4}
  Threshold = 3
  MaxProbes = 2
INVARIANT TripsAtThreshold
INVARIANT ProbesLimited
PROPERTY OpenRecovers
CHECK_DEADLOCK FALSE
