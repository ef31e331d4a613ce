SPECIFICATION FairSpec
CONSTANTS
  main = main
  other = other
  Greenlet <- MCGreenlet
  Main = main
  Loop = Loop
  NServers = 2
  NDomains = 1
  Tries = 2
  Delay <- MCDelay
  Wanted <- MCWanted
  Id = {1}
  Key = {1, 2, 3}
  Answer = {"records", "nodata", "cname", "servfail", "truncated"}
  Fragile = {1}
  Lag = 3
INVARIANTS QueriesHeld ResultIsAnswer
PROPERTIES LookupsEnd
