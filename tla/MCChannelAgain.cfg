SPECIFICATION ChannelSpec
CONSTANTS
  g1 = g1
  g2 = g2
  g3 = g3
  Greenlet <- MCGreenlet
  Nobody = Nobody
  BufSizes = {0}
  MaxSent = 2
PROPERTY SendReschedules
CHECK_DEADLOCK FALSE
