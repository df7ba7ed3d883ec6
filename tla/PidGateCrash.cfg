CONSTANTS
  a = a
  b = b
  c = c
  d = d
  l = l
  x = x
  Proc = {a, b, c, d, l}
  Legacy = {l}
  PidOf <- MCPidOf
  StartOf <- MCStartOf
  Tolerance = 2
  Skew = 2
  MaxAttempts = 2
  DirPrivate = TRUE
  FaultyReads = TRUE
  Mortal = {a, b, l}
  Stoppable = {a, c}
  Starts <- AnyWreck
SPECIFICATION Spec
CHECK_DEADLOCK FALSE
INVARIANTS TypeOK OneUnevictedHolder StaleVerdictIsFinal LegacyBootKept
PROPERTIES SocketLostOnlyToEvicted ImplementsLock
