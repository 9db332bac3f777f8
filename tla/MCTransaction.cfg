SPECIFICATION FairSpec
CONSTANTS
  p1 = p1
  p2 = p2
  k1 = k1
  k2 = k2
  Participants = {p1, p2}
  Compensations = {k1, k2}
  Order <- OrderOf
  Callers = {c1}
  JoinWhile = {"active", "preparing"}
INVARIANT CommitNeedsAllPrepared
INVARIANT AllOrNothing
INVARIANT CompensatedOnce
PROPERTY OutcomeIsFinal
PROPERTY CallsReturn
