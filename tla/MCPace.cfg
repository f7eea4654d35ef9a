SPECIFICATION PaceSpec
CONSTANTS
  c1 = c1
  c2 = c2
  None = None
  Conns = {c1, c2}
  Names <- OneName
  MaxRequestLine = 4
  MaxUploadBytes = 3
  Fds = {7, 8}
  InitialRoot <- ShortA
  Plans <- Paced
  Cuts = {4, 5, 6}
  Events = {"read", "shut", "time", "kill"}
  RcvBuf = 4
  SndBuf = 8
  MaxClients = 2
  BufferSize = 4
  IdleTimeout = 2
  Faults = {}
  HupOnShut = FALSE
  MaxStarts = 1
  Destination <- OwnCopies
  InitialLocals <- NoLocal
  ClientBuffer = 4
  MaxResponseLine = 2
  Delay = 1
  LocalFaults = {}
CHECK_DEADLOCK FALSE
INVARIANTS
  PacedUploadsSucceed
PROPERTIES
  RunsEnd
