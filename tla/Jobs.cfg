SPECIFICATION FairSpec
CONSTANTS
  Jobs = {j1, j2, j3, j4}
  MaxConcurrent = 2
  Faults = {"insert", "slot", "session", "failed", "exit"}
  MaxThrows = 1
  MaxRestarts = 1
CHECK_DEADLOCK FALSE
INVARIANTS SlotsExact NoStrandedJob FifoStart OpenRowHasLiveJob TablesExact
PROPERTY EveryJobIsDequeued
