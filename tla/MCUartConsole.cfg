SPECIFICATION Spec
CONSTANTS
  x = x
  y = y
  CR = CR
  LF = LF
  BS = BS
  Nul = Nul
  RX_BUFF_SIZE = 2
  LUA_MAXINPUT = 3
  Letter <- MCLetter
  Fed <- MCFed
  MaxTyped = 5
\* The task stops after a fault, and when nobody types.
CHECK_DEADLOCK FALSE
SYMMETRY Symmetry
INVARIANTS RingKeepsAll LineIsWhatWasTyped StaysInside
PROPERTY PairsAnsweredOnce
