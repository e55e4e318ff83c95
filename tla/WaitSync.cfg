SPECIFICATION FairSpec
CONSTANTS
  w1 = w1
  w2 = w2
  w3 = w3
  h1 = h1
  r1 = r1
  r2 = r2
  r3 = r3
  Waiters <- MCWaiters
  Helpers <- MCHelpers
  Requests <- MCRequests
  MayFail <- MCMayFail
  Plans <- MCPlans
  MaxInProgress = 1
INVARIANTS TypeOK NoUseAfterRelease NoDanglingSync ReturnsComplete
PROPERTY EveryWaitReturns
