SPECIFICATION FairSpec
CONSTANTS
  u1 = u1
  u2 = u2
  u3 = u3
  Clients <- Two
  MinConns = 1
  MaxConns = 1
  NewMaxima = {1, 2}
  HealthCheckOn = TRUE
  Closing = TRUE
  MaxCreated = 3
INVARIANTS
  ExclusiveUse
  OpenIsReachable
PROPERTIES
  CountHolds
  AcquireReturns
CHECK_DEADLOCK FALSE
