CONSTANTS
  s = s
  t = t
  Sup = {s, t}
  Baked <- RivalBuilds
  OnSkew <- Drainers
  OnMismatch <- Replace
  OnGiveUp <- Ride
  MaxAttempts = 2
  Builds = {"A", "B", "C"}
  Survivors <- Mixed
  MaxDaemons = 6
  MayFail = FALSE
  MayIgnore = TRUE
  MayCrash = FALSE
SPECIFICATION FairSpec
PROPERTIES FightsEnd
CHECK_DEADLOCK FALSE
