SPECIFICATION Spec
CONSTANTS
  t1 = t1
  t2 = t2
  NumProcs = 1
  Threads <- RolloverThreads
  SeqLimit = 8
  Bases <- RolloverBases
  Posts = {}
  Traffic <- RolloverTraffic
  MaxRecvs = 0
INVARIANT RolloverSafe
CHECK_DEADLOCK FALSE
