SPECIFICATION Spec
CONSTANTS
  c1 = c1
  c2 = c2
  None = None
  Conns = {c1, c2}
  Names <- OverlappingNames
  MaxRequestLine = 4
  MaxUploadBytes = 3
  Fds = {7, 8}
  InitialRoot <- NoFiles
  Plans <- DistinctNames
  Cuts = {4}
  Events = {}
  RcvBuf = 6
  SndBuf = 8
  MaxClients = 2
  BufferSize = 4
  IdleTimeout = 0
  Faults = {}
  HupOnShut = FALSE
  MaxStarts = 1
PROPERTIES
  DistinctNamesSuffice
