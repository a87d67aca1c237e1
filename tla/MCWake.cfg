CONSTANTS
  c1 = c1
  c2 = c2
  Callers = {c1, c2}
  Backends = {"posix", "iocp"}
  MaxCalls = 3
SPECIFICATION FairSpec
CHECK_DEADLOCK FALSE
INVARIANTS
  NoWakeUpLost
PROPERTIES
  RequestsAreNoticed
