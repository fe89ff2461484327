SPECIFICATION Spec
CONSTANTS
  Last = 1
  MaxIterations = 2
CHECK_DEADLOCK FALSE
INVARIANT WaitCoversCallback
