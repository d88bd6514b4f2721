SPECIFICATION XorSpec
CONSTANTS
  Bytes = {0, 1}
  XorB <- MCXorB
  Wide = 4
  Narrow = 2
  Size = 7
INVARIANTS
  CombinedOnce
CHECK_DEADLOCK FALSE
