SPECIFICATION Spec
CONSTANTS
  Reqs = {"r1", "r2"}
  Ids = {"a"}
  IdOf <- SameId
  Devices = {"d1", "d2"}
  Sessions = {"s1"}
  NoReq = "noreq"
  NoSession = "nosession"
  Faults = {"row", "tokens", "decision", "kill"}
  MaxRestarts = 2
  MaxAgeOuts = 1
CHECK_DEADLOCK FALSE
INVARIANTS TypeOK GateNeedsAllow OneAnswer WaiterExact OnlyOwnHookAbandons
PROPERTIES GateSpec DecisionStands
