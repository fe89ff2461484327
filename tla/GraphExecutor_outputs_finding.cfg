SPECIFICATION Spec
CONSTANTS
  Last = 1
  Ins = 1
  Outs = 2
  Cap = 3
  Multiple <- MCNone
  MinRead = 0
  MaxRead = 2
  MinFill = 0
  MaxFill = 0
  Part = 3
  MayFinish = FALSE
  MaxItems = 6
CHECK_DEADLOCK FALSE
INVARIANT WritesOnlyFree
