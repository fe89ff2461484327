SPECIFICATION FairSpec
CONSTANTS
  Sizes <- MCSizes
  Asks <- MCAsks
  MinFills <- MCMinFills
  MaxFills <- MCMaxFills
  WriteMultiple = 2
  ReadMultiple = 3
  MaxItems = 24
CHECK_DEADLOCK FALSE
INVARIANTS
  TypeOK
  
  
  NamedWindowsHold
PROPERTIES
  RingIsFifo
  MultiplesFlow
