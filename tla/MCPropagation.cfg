SPECIFICATION Spec
CONSTANTS
  P = 7
  FieldBits = 3
  MaxRangeBits = 2
  Values <- Field
  Models <- MCModels
  Holds <- AcirHolds
  LemmaSets <- MCLemmaSets
INVARIANTS
  FactsHold
  ResultIsSound
  StopsAtFixpoint
PROPERTY
  Terminates
CHECK_DEADLOCK FALSE
