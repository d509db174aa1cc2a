SPECIFICATION Spec
CONSTANTS
  LuaTask = {lua}
  MqttTask = mqttTask
  MaxMsg = 4
  MsgLen <- MCMsgLen
  Subscribes = {1}
  Unsubscribes = {4}
  BufSize = 2
  RingSize = 2
  QueueLen = 1
  Keepalive = 1
  MaxFaults = 1
CONSTRAINT WhileFramed
INVARIANTS
  TypeOK
  RingAccounted
  PacketsWhole
  PacketsInOrder
  SocketsAccounted
PROPERTIES
  RingDrains
  ClosedIsRedialled
CHECK_DEADLOCK FALSE
