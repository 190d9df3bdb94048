SPECIFICATION Spec
CONSTANTS
  P = 5
  FieldBits = 3
  MaxRangeBits = 3
  Attempts = 2
  MaxMentions = 3
  LastSlot = 3
  MaxPreferences = 4
  MaxRounds = 2
  MaxWalks = 2
  Circuits <- Programs
  Options <- Searches
INVARIANTS FindingsAreReal FunnelAddsUp ChoicesCovered CastForgeryFound
PROPERTY AlwaysForward
