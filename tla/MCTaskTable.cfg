SPECIFICATION Spec
CONSTANTS
  p1 = p1
  p2 = p2
  Producers = {}
  Main = main
  Garbage = garbage
  QueueLen = 1
  Callback = {cbEsp, cbNet}
  Param = {1}
  MaxTasks = 5
INVARIANTS
  CallsRegistered
CHECK_DEADLOCK FALSE
