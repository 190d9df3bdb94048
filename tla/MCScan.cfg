SPECIFICATION FairSpec
CONSTANTS
  P = 3
  FieldBits = 2
  MaxRangeBits = 0
  Values <- Field
  Models <- MCModels
  Holds <- AcirHolds
  Programs <- MCPrograms
  Budget = 1
INVARIANTS
  ModelIsSound
  ReportsJustified
  NothingLost
  VerifiedCalleesAreUsed
PROPERTY
  Terminates
