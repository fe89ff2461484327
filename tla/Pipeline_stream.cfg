SPECIFICATION PipelineSpec
CONSTANTS
  v0 = v0
  NoValue = NoValue
  InitValue = v0
  FlushCounts <- MCFlushCounts
  Clients <- MCClients
  Values <- MCValues
  Calls <- MCCalls
  MaxSent = 4
  Last = 1
  Ins = 1
  Outs = 1
  Cap = 1
  Multiple <- MCMultiple
  MinRead = 0
  MaxRead = 0
  MinFill = 0
  MaxFill = 0
  Part = 1
  MayFinish = TRUE
  MaxItems = 2
CHECK_DEADLOCK FALSE
INVARIANT WaitingMeansDone
PROPERTIES
  RunsTheExecutor
  DeliveredUnlessStopped
  DoneLeadsToExit
