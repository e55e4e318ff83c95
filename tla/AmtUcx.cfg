CONSTANTS
  Callers = {c1, c2}
  Progress = w
  Producers = {c1, c2, w}
  Recvs = {1, 2}
  None = None
  Size = 4
  MaxClaims = 4
  StallExpires = TRUE
SPECIFICATION UcxSpec
INVARIANTS HandOver UndisturbedOnce
