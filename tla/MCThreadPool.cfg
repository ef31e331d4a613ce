SPECIFICATION FairSpec
CONSTANTS
  Worker <- MCWorker
  Greenlet = {g}
  Future <- MCFuture
  Modes = {"ALL", "FIRST", "EXCEPTION", "AS"}
INVARIANTS KeptAlive WaiterExact RunsInState
PROPERTY JoinEnds
CHECK_DEADLOCK FALSE
