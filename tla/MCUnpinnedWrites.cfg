SPECIFICATION Spec
CONSTANTS
  P = 11
  FieldBits = 4
  MaxRangeBits = 4
  SmallBits = 2
  DeriveRounds = 2
  Circuits <- Writes
INVARIANT
  DeterminedIsUnique
CHECK_DEADLOCK FALSE
