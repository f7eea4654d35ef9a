SPECIFICATION Spec
CONSTANTS
  c1 = c1
  c2 = c2
  c3 = c3
  a = a
  b = b
  None = None
  Conns = {c1, c2, c3}
  Phases = {1, 2, 3, 4}
  Max_Clients = 2
  BufferSize = 2
  SndBuf = 1
  InitialFiles <- Files
  ServedFile = a
  Requests <- Asked
  Faults = {"accept", "open"}
  Mortal = {c1}
CHECK_DEADLOCK FALSE
INVARIANTS
  SlotsHoldConnections
PROPERTIES
  
  ConnectionsServed
