SPECIFICATION NetSpec
CONSTANTS
  s1 = s1
  s2 = s2
  Sock = {s1, s2}
  Type <- MCServers
  Pcb = {p1, p2}
  Addr = {a1}
  NoAddr = NoAddr
  None = None
  Prio <- MCPrio
  Msg <- MCMsg
  Capacity = 2
  Medium = 1
  High = 2
  Used = {"receive", "dns"}
  MaxCalls = 3
  MaxArrivals = 2
  MaxRefusals = 1
INVARIANTS
  ConnectedIsPinned
CHECK_DEADLOCK FALSE
