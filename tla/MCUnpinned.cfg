SPECIFICATION Spec
CONSTANTS
  P = 11
  FieldBits = 4
  MaxRangeBits = 4
  SmallBits = 2
  DeriveRounds = 2
  Circuits <- MCCircuits
INVARIANTS
  FactsHold
  RefinedUnique
  NeverPinnedIsFree
CHECK_DEADLOCK FALSE
