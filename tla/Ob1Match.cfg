SPECIFICATION Spec
CONSTANTS
  t1 = t1
  t2 = t2
  NumProcs = 2
  Threads <- MCThreads
  SeqLimit = 8
  Bases <- MCBases
  Posts <- MCPosts
  Traffic <- MCTraffic
  MaxRecvs = 2
SYMMETRY Symm
INVARIANTS TypeOK  NoMissedMatch NonOvertaking NoStranded
CHECK_DEADLOCK FALSE
