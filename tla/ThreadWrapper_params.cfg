SPECIFICATION FairSpec
CONSTANTS
  c1 = c1
  v0 = v0
  v1 = v1
  NoValue = NoValue
  InitValue = v0
  FlushCounts <- MCOneFlush
  Clients <- MCClients
  Values <- MCValues
  Calls <- MCStartOnly
  MaxSent = 2
CHECK_DEADLOCK FALSE
INVARIANTS
  TypeOK
  QuerySeesNewest
PROPERTIES
  QueryAnswered
