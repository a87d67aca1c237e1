CONSTANTS
  MaxBuffered = 2
  MaxStreams = 1
  Slack = 0
  MaxEvents = 3
  Handshaking = 1
  Ids = {0, 1, 4}
  Message <- HeadAndBody
  MaxRequests = 1
  MaxHeaderBytes = 1
  MaxBody = 2
  MaxHttpEvents = 8
  Streams <- OfLayer
  Kinds <- ThreeKinds
  Length <- Lengths
  Calls <- SomeCalls
  Writes <- SomeWrites
  MaxWritten = 2
  Bodies = {2}
  FlushLimit = 4
  MaxTime = 1
  MaxFrames = 2
  MaxUpsets = 1
SPECIFICATION Spec
CHECK_DEADLOCK FALSE
INVARIANTS BudgetsExact KeptUntilAcked CreditReturnedOnce NothingLost ReaderWaitsForNews DeadlineEndsIt
