CONSTANTS
  N = 2
  MaxClaims = 4
  EarlyReturns = FALSE
SPECIFICATION Spec
INVARIANTS EveryEntryRead
