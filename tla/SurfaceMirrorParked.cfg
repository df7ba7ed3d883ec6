CONSTANTS
  Keys = {a}
  MaxWrites = 2
  MaxFaults = 1
SPECIFICATION FairSpec
PROPERTIES NeverParked
CHECK_DEADLOCK FALSE
