SPECIFICATION Spec
CONSTANTS
  P = 5
  FieldBits = 3
  MaxRangeBits = 3
  Attempts = 3
  MaxMentions = 3
  LastSlot = 3
  Programs <- MCPrograms
  Originals <- MCOriginals
  Dictionary = {1, 2}
  Rounds = 2
  MaxRepairs = 2
  Window = 2
  HintsFirst = 2
INVARIANTS FuzzFindingsAreReal SeenIsReported OverrunIsBounded PinnedInputsRun LabelIsJustified MutantStillRuns
