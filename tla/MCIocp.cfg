CONSTANTS
  h1 = h1
  a1 = a1
  a2 = a2
  t1 = t1
  Handles = {h1}
  NoHandle = NoHandle
  Addrs = {a1, a2}
  IoRequests <- Accepts
  SleepRequests <- OneSleep
  Stoppers = {t1}
  MaxOps = 2
  MaxTime = 1
  MaxPosted = 1
  MaxReopens = 1
  MaxRefusals = 1
  EventBatch = 1
SPECIFICATION Spec
SYMMETRY NameSymmetry
CHECK_DEADLOCK FALSE
INVARIANTS
  TableIsExact
  KernelIsAsked
  CancelsOnlyItsOwn
  CompletionBeatsDeadline
PROPERTIES
  KeepsContract
