SPECIFICATION Spec
CONSTANTS
  c1 = c1
  v0 = v0
  v1 = v1
  NoValue = NoValue
  InitValue = v0
  FlushCounts <- MCFlushCounts
  Clients <- MCNoClients
  Values <- MCOneValue
  Calls <- MCAllCalls
  MaxSent = 1
CHECK_DEADLOCK FALSE
INVARIANT FlushedMeansBlocked
