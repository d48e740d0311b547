SPECIFICATION FairSpec
CONSTANTS
  ByteSize <- OddAndEven
  Unparsable = {2}
  HEADER = 2
  FrameMod = 8
  TcpWind = 4
  SocketBuffer = 3
  SpyHWM = 2
  Fortified = TRUE
  MaxFaults = 3
INVARIANTS
  TypeOK
  WholeFrames
PROPERTIES
  Delivery
  Drains
CHECK_DEADLOCK FALSE
