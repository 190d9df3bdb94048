SPECIFICATION FairSpec
CONSTANTS
  P = 3
  FieldBits = 2
  MaxRangeBits = 0
  Values <- Field
  Models <- MCModels
  Holds <- AcirHolds
  MaxRadius = 1
  MaxWindow = 3
  StartupMax = 1
  Budget = 2
  Grace = 1
  WindowBudget = 2
  MaxTime = 6
INVARIANTS
  TypeOK
  KnownSound
  KeepsProved
  SweepsToFixpoint
PROPERTY
  Terminates
