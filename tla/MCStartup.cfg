SPECIFICATION Spec
CONSTANTS
  s1 = s1
  s2 = s2
  k1 = k1
  ip4 = ip4
  ip6 = ip6
  Servers = {s1, s2}
  Clients = {k1}
  Addresses <- TwoAddresses
  CommandLines <- Lines
  WordMax = 255
  PortMax = 99
  DelayMax = 60
  MaxFaults = 1
  MaxStarts = 2
SYMMETRY Twins
CHECK_DEADLOCK FALSE
INVARIANTS
  NumbersExact
  LinesUnderstood
  SocketsAccounted
  RefusedByListeners
  ServersReached
