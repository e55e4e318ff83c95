CONSTANTS
  Producers = {p1, p2}
  Size = 2
  MaxClaims = 3
SPECIFICATION Spec
SYMMETRY Symmetry
INVARIANTS TypeOK SlotExclusive RowsInClaimOrder AllAccounted
PROPERTIES DropOnlyWhenFull ImplementsBuffer
