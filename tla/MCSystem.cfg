SPECIFICATION SystemSpec
CONSTANTS
  c1 = c1
  c2 = c2
  None = None
  Conns = {c1, c2}
  Names <- OneName
  MaxRequestLine = 4
  MaxUploadBytes = 3
  Fds = {7, 8}
  InitialRoot <- FileA
  Plans <- Transfers
  Cuts = {4}
  Events = {"read", "shut", "reset", "time", "kill", "signal"}
  RcvBuf = 4
  SndBuf = 2
  MaxClients = 2
  BufferSize = 4
  IdleTimeout = 0
  Faults = {}
  HupOnShut = FALSE
  MaxStarts = 2
  Destination <- OwnCopies
  InitialLocals <- NoLocal
  ClientBuffer = 4
  MaxResponseLine = 2
  LocalFaults = {"kill", "remove"}
CHECK_DEADLOCK FALSE
INVARIANTS
  UploadsStored
  DownloadsAreVersions
  SentIsDownloaded
