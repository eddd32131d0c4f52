SPECIFICATION Spec
CONSTANTS
  Clients = {c1, c2}
  Capacity = 2
  SeenMax = 3
  SeenKeep = 2
  Behaviours = {"read", "overflow", "throw", "late", "quit"}
  MaxSeq = 3
  MaxDrops = 1
  MaxRestarts = 1
SYMMETRY Symmetry
CHECK_DEADLOCK FALSE
INVARIANT NoFalseAck
INVARIANT NothingLost
INVARIANT InOrder
