SPECIFICATION Spec
CONSTANTS
  h1 = h1
  t1 = t1
  t2 = t2
  Handle <- MCHandle
  Timer <- MCTimer
  Interval <- MCInterval
  Fd <- NoFd
  Nothing = Nothing
  MaxNow = 2
  MaxPendings = 2
SYMMETRY Symmetry
INVARIANT ActiveCountExact
PROPERTY ImplementsTimerService
