SPECIFICATION Spec
CONSTANTS
  b1 = b1
  b2 = b2
  b3 = b3
  Buffers <- MCBuffers
  MaxRestarts = 1
SYMMETRY MCSymmetry
CHECK_DEADLOCK FALSE
INVARIANTS
  RegisteredIsSized
  DestroyedLeavesNothing
  LiveIsServed
