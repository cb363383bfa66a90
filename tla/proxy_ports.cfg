SPECIFICATION FairSpec
CONSTANTS
  web = web
  raw = raw
  Services = {web, raw}
  p1 = p1
  p2 = p2
  Ports = {p1, p2}
  PortsOf <- MCPortsOf
  Protocol <- MCProtocol
  Conns = {c1, c2}
  None = none
INVARIANTS TablesAgree ProtocolKept
PROPERTIES RequestsHoldTheService PortsAreFreed PortSpec
CHECK_DEADLOCK FALSE
