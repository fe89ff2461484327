SPECIFICATION FairSpec
CONSTANTS
  Last = 2
  MaxIterations = 2
CHECK_DEADLOCK FALSE
INVARIANTS
  PostedIsSettled
  CallbackHasFrame
  DesertedOnlyIfUnsent
  OverlapsOnlyAsync
PROPERTIES
  AcceptedIsPosted
  IsSynchronousCall
