SPECIFICATION EspSpec
CONSTANTS
  Prio <- MCPrio
  Msg <- MCMsg
  Capacity = 2
  None = None
  Sender = {s1, s2}
  SysEvent = {connected, gotIp}
  EspLen = 2
  EspPrio = 1
  MaxSends = 4
  MaxOthers = 4
INVARIANTS
  NoStrandedEvent
PROPERTIES
  QueueDrains
CHECK_DEADLOCK FALSE
