SPECIFICATION FairSpec
CONSTANTS
  MaxNode = 2
  MaxCon = 1
  MaxLinks = 1
  Length <- MCLength
  Heap <- MCHeap
  TotLens = 4
  MaxCalls <- MCCalls
  SndBuf = 3
  SndQueue = 3
  Bufs <- MCBufs
  Timeout = 2
  QueueLen = 2
\* A fault stops everything.
CHECK_DEADLOCK FALSE
INVARIANTS TypeOK ListedWhileNamed AcksAccounted FlagAwaits
PROPERTY Forgotten
