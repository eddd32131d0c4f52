SPECIFICATION CcSpec
CONSTANTS
  Procs = {"p1", "p2"}
  Commands = {{}, {"p2"}}
  Behaviours = {"leftover", "stall", "throw"}
  MaxEvents = 2
  Limits = {0, 1}
  MaxUpsets = 4
CHECK_DEADLOCK FALSE
INVARIANTS NumbersUnique ExitIsTrue
PROPERTY EveryCommandEnds
