SPECIFICATION FairSpec
CONSTANTS
  Last = 1
  Ins = 1
  Outs = 1
  Cap = 4
  Multiple <- MCPairs
  MinRead = 0
  MaxRead = 3
  MinFill = 0
  MaxFill = 0
  Part = 2
  MayFinish = TRUE
  MaxItems = 8
CHECK_DEADLOCK FALSE
INVARIANT NoStall
PROPERTIES
  IsSyncStream
  IterationEnds
  Delivered
