SPECIFICATION Spec
CONSTANTS
  c1 = c1
  c2 = c2
  c3 = c3
  None = None
  Conns = {c1, c2}
  Names <- OneName
  MaxRequestLine = 4
  MaxUploadBytes = 3
  Fds = {7, 8}
  InitialRoot <- FileA
  Plans <- Transfers
  Cuts = {5}
  Events = {"read", "shut", "reset", "time"}
  RcvBuf = 6
  SndBuf = 2
  MaxClients = 2
  BufferSize = 4
  IdleTimeout = 0
  Faults = {}
  HupOnShut = FALSE
  MaxStarts = 1
SYMMETRY Interchangeable
INVARIANTS
  StoredFilesComplete
  UploadsApart
  TemporaryFilesOwned
  RepliesWellFormed
  ConnectionsAccounted
  PollAligned
PROPERTIES
  CompleteReplyBeforeClose
