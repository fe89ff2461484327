SPECIFICATION Spec
CONSTANTS
  Last = 3
  Ins = 2
  Outs = 1
  Cap = 4
  Multiple <- MCMiddle
  MinRead = 2
  MaxRead = 0
  MinFill = 2
  MaxFill = 3
  Part = 0
  MayFinish = TRUE
  MaxItems = 6
CHECK_DEADLOCK FALSE
INVARIANTS
  TypeOK
  ReadsOnlyFound
  WritesOnlyFree
  
