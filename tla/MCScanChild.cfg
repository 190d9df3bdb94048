SPECIFICATION FairSpec
CONSTANTS
  P = 3
  FieldBits = 2
  MaxRangeBits = 0
  Values <- Field
  Models <- MCModels
  Holds <- AcirHolds
  Programs <- CallPrograms
  Budget = 1
INVARIANT
  UnsafeUnderAbstraction
