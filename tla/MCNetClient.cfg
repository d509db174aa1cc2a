SPECIFICATION NetSpec
CONSTANTS
  s1 = s1
  s2 = s2
  Sock = {s1}
  Type <- MCClient
  Pcb = {p1, p2}
  Addr = {a1}
  NoAddr = NoAddr
  None = None
  Prio <- MCPrio
  Msg <- MCMsg
  Capacity = 2
  Medium = 1
  High = 2
  Used = {"sent", "disconnection"}
  MaxCalls = 3
  MaxArrivals = 0
  MaxRefusals = 1
INVARIANTS
  NetTypeOK
  WaitsAccounted
  ResolvingStaysPinned
  ConnectedIsPinned
PROPERTIES
  NewsOnlyForPinned
  PinReleased
CHECK_DEADLOCK FALSE
