CONSTANTS
  Lifetimes = {"forever", "idleTimeout", "boundToPid"}
  MissesToExit = 2
  IdlePolls = 2
  MayWedge = TRUE
  MaxSignals = 2
SPECIFICATION FairSpec
INVARIANTS TypeOK EndsInOrder AbsenceIsProven
PROPERTIES NoneOutlivesItsPurpose
CHECK_DEADLOCK FALSE
