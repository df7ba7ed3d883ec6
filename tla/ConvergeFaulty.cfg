CONSTANTS
  s = s
  t = t
  Sup = {s, t}
  Baked <- RivalBuilds
  OnSkew <- MixedSkew
  OnMismatch <- MixedMismatch
  OnGiveUp <- Ride
  MaxAttempts = 1
  Builds = {"A", "B", "C"}
  Survivors <- Anything
  MaxDaemons = 4
  MayFail = TRUE
  MayIgnore = TRUE
  MayCrash = TRUE
SPECIFICATION Spec
VIEW Live
INVARIANTS TypeOK OutcomeIsAboutHeld KillsFollowTheUnheard
CHECK_DEADLOCK FALSE
