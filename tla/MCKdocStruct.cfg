CONSTANTS
  WReturn = FALSE
  MaxPieces = 4
  Names <- MCNames
  Seconds <- MCSeconds
  MaxBlocks = 2
  Kinds <- MCKinds
  Documented <- MCDocumented
SPECIFICATION Spec
INVARIANTS
  MacrosFound
  MembersAsDeclared
  WarningsExact
CHECK_DEADLOCK FALSE
