CONSTANTS
  MaxDials = 3
  MaxPins = 2
  Ceiling = 2
SPECIFICATION FairSpec
INVARIANTS TypeOK OneLink HeldIsNeverStranded DormantHoldsNothing
PROPERTIES GiveUpIsEarned HeldMovesOn
