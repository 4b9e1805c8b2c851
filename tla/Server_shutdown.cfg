SPECIFICATION Spec
CONSTANTS
  Sessions = {s1, s2}
  Invitations = {i1, i2}
  PoolSize = 1
  Grace = 2
  Serve = Serve
  Nobody = Nobody
INVARIANTS ServerInv NothingCutEarly
PROPERTIES CallsGetThreads ShutdownEnds
CHECK_DEADLOCK FALSE
