CONSTANTS
  a = a
  b = b
  c = c
  d = d
  l = l
  x = x
  Proc = {a, b, c, d, l, x}
  Legacy = {l}
  PidOf <- MCPidOf
  StartOf <- MCStartOf
  Tolerance = 2
  Skew = 2
  MaxAttempts = 3
  DirPrivate = TRUE
  FaultyReads = FALSE
  Mortal = {}
  Stoppable = {}
  Starts <- CrashOrReboot
SPECIFICATION FairSpec
CHECK_DEADLOCK FALSE
PROPERTIES LaunchesEndServed

