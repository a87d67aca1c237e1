CONSTANTS
  f1 = f1
  Fds = {f1}
  NoFd = NoFd
  Backend = "epoll"
  WaitRequests <- DatagramWaits
  SleepRequests <- NoSleeps
  MaxOps = 3
  MaxTime = 1
  MaxPosted = 1
  MaxReopens = 1
  MaxArmFailures = 1
SPECIFICATION Spec
CHECK_DEADLOCK FALSE
INVARIANTS
  TableSound
  NoneStranded
  DatagramsNeverStray
PROPERTIES
  CompletionWins
  KeepsContract
