SPECIFICATION Spec
CONSTANTS
  c1 = c1
  c2 = c2
  c3 = c3
  None = None
  Conns = {c1, c2}
  Names <- ThreeNames
  MaxRequestLine = 4
  MaxUploadBytes = 3
  Fds = {7, 8}
  InitialRoot <- Odd
  Plans <- Requests
  Cuts <- Anywhere
  Events = {"read", "shut", "time"}
  RcvBuf = 8
  SndBuf = 2
  MaxClients = 1
  BufferSize = 2
  IdleTimeout = 0
  Faults = {"remove"}
  HupOnShut = TRUE
  MaxStarts = 1
INVARIANTS
  IInv
  TInv
PROPERTIES
  CompleteReplyBeforeClose
