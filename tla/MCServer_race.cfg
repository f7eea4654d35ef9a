SPECIFICATION Spec
CONSTANTS
  c1 = c1
  c2 = c2
  c3 = c3
  None = None
  Conns = {c1, c2, c3}
  Names <- OneName
  MaxRequestLine = 4
  MaxUploadBytes = 3
  Fds = {7, 8, 9}
  InitialRoot <- ShortA
  Plans <- Race
  Cuts = {4, 5}
  Events = {}
  RcvBuf = 4
  SndBuf = 8
  MaxClients = 3
  BufferSize = 4
  IdleTimeout = 0
  Faults = {}
  HupOnShut = FALSE
  MaxStarts = 1
PROPERTIES
  StoredBytesFrozen
  AcknowledgedIsStored
  ImplementsFileStore
