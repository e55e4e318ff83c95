SPECIFICATION FairSpec
CONSTANTS
  p1 = p1
  p2 = p2
  p3 = p3
  Procs <- MCProcs
  Creations <- MCCreations
  Members <- MCMembers
  Group <- MCGroup
  Tables <- MCTables
  MaxCid = 7
INVARIANTS TypeOK Agreement OwnId NoLeak
PROPERTY EveryCreationEnds
CHECK_DEADLOCK FALSE
