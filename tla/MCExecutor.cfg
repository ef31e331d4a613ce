SPECIFICATION FairSpec
CONSTANTS
  c1 = c1
  c2 = c2
  Client <- MCClient
  Worker <- MCWorker
  Future <- MCFuture
  Loop = Loop
  Callback = {k}
  Limits = {0, 1}
  Touched = {1}
  MaxSignals = 1
INVARIANTS ItemsCovered CallbacksOnce
PROPERTIES ResultIsThere ResultArrives
CHECK_DEADLOCK FALSE
