SPECIFICATION Spec
CONSTANTS
  Worker <- MCWorker
  Greenlet = {g}
  Future <- MCFuture
  Modes = {"ALL"}
INVARIANT ExitsWhenEmpty
CHECK_DEADLOCK FALSE
