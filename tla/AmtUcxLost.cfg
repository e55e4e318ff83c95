CONSTANTS
  Callers = {c1}
  Progress = w
  Producers = {c1, w}
  Recvs = {1}
  None = None
  Size = 2
  MaxClaims = 2
  StallExpires = FALSE
SPECIFICATION UcxSpec
INVARIANTS NothingLostNothingTwice
