SPECIFICATION Spec
CONSTANTS
  p1 = p1
  p2 = p2
  Producers = {p1, p2}
  Main = main
  Garbage = garbage
  QueueLen = 2
  Callback = {cbNet}
  Param = {1, 2}
  MaxTasks = 1
INVARIANTS
  NoLostWakeup
  OvertakenAtMostOnce
PROPERTIES
  HighServed
  ImplementsMailbox
CHECK_DEADLOCK FALSE
