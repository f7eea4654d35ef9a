SPECIFICATION ClientAlone
CONSTANTS
  c1 = c1
  Conns = {c1}
  Names <- OneName
  MaxRequestLine = 4
  MaxUploadBytes = 3
  Plans <- Requests
  Cuts <- Anywhere
  Events = {"read", "shut", "reset"}
  RcvBuf = 3
  SndBuf = 8
  Destination <- Copy1
  InitialLocals <- MayExist
  ClientBuffer = 3
  MaxResponseLine = 2
  LocalFaults = {"connect", "open", "write", "rename", "kill"}
  Scripts <- Replies
CHECK_DEADLOCK FALSE
INVARIANTS
  ClientTypeOK
  RunsInv
  UploadsConfirmed
PROPERTIES
  DownloadsWhole
  PartsRemoved
  LocalFilesKept
