SPECIFICATION FairSpec
CONSTANTS
  c1 = c1
  c2 = c2
  c3 = c3
  None = None
  Conns = {c1, c2}
  Names <- OneName
  MaxRequestLine = 4
  MaxUploadBytes = 3
  Fds = {7}
  InitialRoot <- FileA
  Plans <- Short
  Cuts = {4}
  Events = {"read", "shut", "time", "signal"}
  RcvBuf = 6
  SndBuf = 2
  MaxClients = 2
  BufferSize = 4
  IdleTimeout = 0
  Faults = {}
  HupOnShut = FALSE
  MaxStarts = 1
CHECK_DEADLOCK FALSE
PROPERTIES
  ConnectionsEnd
  QueuedAnswered
  StopEnds
