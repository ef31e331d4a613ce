SPECIFICATION MCSpec
CONSTANTS
  h1 = h1
  t1 = t1
  f1 = f1
  a = a
  b = b
  Handle <- MCHandle
  Timer <- MCTimer
  Interval <- MCInterval
  Fd <- MCFd
  Thread <- MCThread
  Signum <- MCSignum
  Nothing = Nothing
  MaxNow = 2
  MaxPendings = 2
  Room = 2
  MaxQueued = 2
  MaxForks = 1
INVARIANTS IoCountExact WokenForWork
PROPERTIES NormalReturnIsDrained SigintStopsLoop QueuedIsServed DueTimerIsServed SignalIsServed
