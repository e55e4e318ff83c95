CONSTANTS
  Callers = {c1}
  Progress = w
  Producers = {c1, w}
  Recvs = {1, 2}
  None = None
  Size = 1
  MaxClaims = 4
  StallExpires = TRUE
SPECIFICATION UcxFairSpec
INVARIANTS FillsOwnEntry DroppedHasNoRow
PROPERTY EveryTicketConsumed
