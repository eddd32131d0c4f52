SPECIFICATION FairSpec
CONSTANTS
  Reqs = {"r1", "r2", "r3"}
  Ids = {"a", "b"}
  IdOf <- CollidingIds
  Devices = {"d1"}
  Sessions = {"s1"}
  NoReq = "noreq"
  NoSession = "nosession"
  Faults = {}
  MaxRestarts = 1
  MaxAgeOuts = 0
CHECK_DEADLOCK FALSE
INVARIANTS PendingExact DecisionsRecorded
PROPERTY EventuallyResolved
