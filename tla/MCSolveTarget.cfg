SPECIFICATION FairSpec
CONSTANTS
  P = 3
  FieldBits = 2
  MaxRangeBits = 0
  Values <- Field
  Models <- MCModels
  Holds <- AcirHolds
INVARIANTS
  TypeOK
  VerifiedUnique
  UnsafeReal
  ExactIsCone
  AnswersAsListed
PROPERTIES
  ImplementsVerdict
  Terminates
