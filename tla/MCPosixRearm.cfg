CONSTANTS
  f1 = f1
  f2 = f2
  Fds = {f1, f2}
  NoFd = NoFd
  Backend = "epoll"
  WaitRequests <- PlainWaits
  SleepRequests <- NoSleeps
  MaxOps = 5
  MaxTime = 0
  MaxPosted = 0
  MaxReopens = 0
  MaxArmFailures = 1
SPECIFICATION Spec
SYMMETRY FdSymmetry
CHECK_DEADLOCK FALSE
INVARIANTS
  NoneStranded
