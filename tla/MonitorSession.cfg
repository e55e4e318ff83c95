CONSTANTS
  Ranks = {r0, r1}
  Root = r0
  Capacity = 1
  MaxClaims = 2
  MaxFaults = 1
SPECIFICATION FairSpec
INVARIANTS TypeOK NothingLost
PROPERTIES CallsReturn FinalizeReturns
CHECK_DEADLOCK FALSE
