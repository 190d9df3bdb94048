SPECIFICATION Spec
CONSTANTS
  P = 5
  FieldBits = 3
  MaxRangeBits = 2
  Circuits <- Programs
INVARIANT RefutedIsArtefact
