CONSTANTS
  f1 = f1
  Fds = {f1}
  NoFd = NoFd
  Backend = "kqueue"
  WaitRequests <- StreamWaits
  SleepRequests <- Sleepers
  MaxOps = 2
  MaxTime = 2
  MaxPosted = 1
  MaxReopens = 1
  MaxArmFailures = 1
SPECIFICATION FairSpec
CHECK_DEADLOCK FALSE
INVARIANTS
  NoneStranded
  SleepVerdict
PROPERTIES
  AnsweredInTheEnd
