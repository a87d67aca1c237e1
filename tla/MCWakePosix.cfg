CONSTANTS
  c1 = c1
  c2 = c2
  Callers = {c1, c2}
  Backends = {"posix"}
  MaxCalls = 3
SPECIFICATION FairSpec
CHECK_DEADLOCK FALSE
PROPERTIES
  StopReturns
