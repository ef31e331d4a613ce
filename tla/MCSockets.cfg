SPECIFICATION FairSpec
CONSTANTS
  main = main
  reader = reader
  writer = writer
  Greenlet <- MCGreenlet
  Main = main
  Loop = Loop
  Nobody = Nobody
  Fd <- MCFd
  Calls <- MCCalls
  Selects <- MCSelects
  Shuts <- MCShuts
  MaxCalls = 2
  Fragile = {1}
  Room = 1
  MaxClock = 2
INVARIANTS IoCountIsRegistered WaitersRegistered
PROPERTIES ReadyIsServed
CHECK_DEADLOCK FALSE
