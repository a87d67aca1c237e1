CONSTANTS
  Requests <- TwoRequests
  Answers <- AnswerSizes
  MaxRequests = 2
  MaxEvents = 2
  MaxInFlight = 1
  Goers = {"client", "server"}
  Releasers = {"server"}
  MaxStreams <- StreamLimits
  MaxHeaderBytes <- HeaderLimits
  MaxBody <- BodyLimits
  MaxQueuedBody <- QueuedLimits
  MaxFrames <- FrameLimits
  StreamWindow = 1
  ConnWindow = 2
SPECIFICATION Spec
CHECK_DEADLOCK FALSE
INVARIANTS
  BytesAccounted
  RefusedMeansUntouched
  EndedMeansWhole
  NobodyWaits
