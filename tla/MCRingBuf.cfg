SPECIFICATION FairSpec
CONSTANTS
  size = 3
  MaxLen = 2
  QueueLen = 2
  MaxPut = 9
\* The writer has nothing left to write, or a task spins after a torn count.
CHECK_DEADLOCK FALSE
INVARIANTS ReadsWhatWasPut RingHolds
PROPERTY NeitherSpins
