CONSTANTS
  N = 3
  MaxClaims = 4
  EarlyReturns = TRUE
SPECIFICATION FairSpec
INVARIANTS TypeOK InOrderUnlessLapped NewestIsWaitedFor
PROPERTY EveryEntryTaken
CHECK_DEADLOCK FALSE
