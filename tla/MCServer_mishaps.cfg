SPECIFICATION Spec
CONSTANTS
  c1 = c1
  c2 = c2
  c3 = c3
  None = None
  Conns = {c1, c2}
  Names <- OneName
  MaxRequestLine = 4
  MaxUploadBytes = 3
  Fds = {7, 8}
  InitialRoot <- FileA
  Plans <- Mishaps
  Cuts = {4}
  Events = {"time", "kill", "signal"}
  RcvBuf = 4
  SndBuf = 8
  MaxClients = 2
  BufferSize = 1
  IdleTimeout = 0
  Faults = {"poll", "accept", "fcntl", "stat", "open", "read", "write", "close", "rename"}
  HupOnShut = FALSE
  MaxStarts = 2
CHECK_DEADLOCK FALSE
INVARIANTS
  IInv
  TInv
PROPERTIES
  OrphansOnlyByKill
  NamesReplacedByUploads
  ImplementsFileStore
