SPECIFICATION FairSpec
CONSTANTS
  Clients = {c1}
  Capacity = 2
  SeenMax = 3
  SeenKeep = 2
  Behaviours = {"throw", "quit"}
  MaxSeq = 6
  MaxDrops = 3
  MaxRestarts = 1
CHECK_DEADLOCK FALSE
INVARIANTS AtMostOnce NoLostAck
PROPERTY EventuallyConfirmed
