SPECIFICATION Spec
CONSTANTS
  Models <- MCModels
  NumIn = 2
  NumOut = 1
  ItemSize = 4
  Cap = 4
  MaxItems = 6
CHECK_DEADLOCK FALSE
INVARIANTS
  TypeOK
  WindowsHold
  InputCoversShape
  PostedIsInferred
