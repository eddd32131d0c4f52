SPECIFICATION Spec
CONSTANTS
  Seconds = {3}
  Unusable = unusable
  DefaultMs = 2
  Unit = 2
  SelfDenyMs = 3
  MIN_MARGIN_MS = 2
  MaxBootMs = 1
  Faults = {"unusable"}
  MaxEdits = 0
CHECK_DEADLOCK FALSE
INVARIANT NeverUnguarded
