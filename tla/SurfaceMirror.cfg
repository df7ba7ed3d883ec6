CONSTANTS
  Keys = {a, b}
  MaxWrites = 4
  MaxFaults = 2
SPECIFICATION FairSpec
INVARIANTS TypeOK QuietMeansEqual
PROPERTIES NoFlash CatchesUp
CHECK_DEADLOCK FALSE
