SPECIFICATION FairSpec
CONSTANTS
  f = f
  g = g
  Data = Data
  Absent = Absent
  Name <- MCName
  OnCard <- MCOnCard
  MaxClient = 2
  MaxBlocks = 2
  MaxLines = 3
  MaxData = 2
\* A fault stops the server.
CHECK_DEADLOCK FALSE
INVARIANTS TransferWithinSession SuccessIsWhole RenamesTheNamed
PROPERTY GoneIsForgotten
