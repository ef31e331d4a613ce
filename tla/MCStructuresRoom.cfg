SPECIFICATION MCSpec
CONSTANTS
  a = a
  b = b
  Item <- MCItem
  Nothing = Nothing
  Garbage = Garbage
  NULL = NULL
  Unwritten = Unwritten
  Timer <- MCTimer
  seconds <- MCSeconds
  InitialMax = 2
  Byte <- MCByte
  MaxMessage = 6
  MaxLabel = 3
  MaxCdName = 6
  Name <- MCName
  Asked <- X
  Address <- MCAddress
  SortLists <- MCSortLists
  MaxRecords = 4
  Unset = Unset
  IPv4 <- MCIPv4
  Server <- MCServer
  Pattern <- MCPattern
  Surroundings <- MCSurroundings
  Line <- MCLine
  MaxLines = 2
  INADDR_NONE = 255
  HostName <- MCName
  Number <- MCNumber
  PortNumber <- MCPortNumber
  HostsLine <- MCHostsLine
  Worlds <- MCWorlds
  MaxHosts = 3
  Ok = Ok
  Full = Full
  InitMax = 3
  MaxMax = 6
INVARIANT CountsNames
