SPECIFICATION MCSpec
CONSTANTS
  g1 = g1
  g2 = g2
  g3 = g3
  g4 = g4
  w1 = w1
  w2 = w2
  w3 = w3
  Greenlet <- MCGreenlet
  Waiter <- MCWaiter
  Nobody = Nobody
  MaxDepth = 2
  MaxStray = 1
  BufSizes = {0, 2}
  MaxSent = 4
INVARIANTS PermitsConserved WaitersReachable InOrder NothingLost
PROPERTIES ImplementsPermits SetReleasesAll ImplementsMonitor FirstIsDelivered
CHECK_DEADLOCK FALSE
