SPECIFICATION Spec
CONSTANTS
  LuaTask = {lua}
  MqttTask = mqttTask
  MaxMsg = 1
  MsgLen <- MCMsgLen
  Subscribes = {}
  Unsubscribes = {}
  BufSize = 2
  RingSize = 2
  QueueLen = 1
  Keepalive = 1
  MaxFaults = 2
INVARIANT ConnectSucceeded
CHECK_DEADLOCK FALSE
