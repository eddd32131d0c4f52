SPECIFICATION FairSpec
CONSTANTS
  Behaviours = {"interrupt", "late", "epipe"}
  MaxRequests = 2
  MaxSpoken = 2
  MaxResyncs = 1
CHECK_DEADLOCK FALSE
INVARIANTS EndsOnce ScreenIsTrue
PROPERTY EventuallySettles
