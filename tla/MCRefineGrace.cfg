SPECIFICATION FairSpec
CONSTANTS
  P = 3
  FieldBits = 2
  MaxRangeBits = 0
  Values <- Field
  Models <- MCModels
  Holds <- AcirHolds
  MaxRadius = 2
  MaxWindow = 2
  StartupMax = 1
  Budget = 2
  Grace = 3
  WindowBudget = 1
  MaxTime = 7
INVARIANTS
  NeverKilled
  WindowDeadline
