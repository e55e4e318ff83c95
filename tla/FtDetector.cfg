CONSTANTS
  NumProcs = 4
  MaxCrashes = 2
  Drained = {0, 2}
SPECIFICATION FairSpec
INVARIANTS TypeOK Accurate RingKept 
PROPERTIES EveryCrashKnown FinalizeEnds
CHECK_DEADLOCK FALSE
