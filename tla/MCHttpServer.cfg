\* One or two requests of every kind, reads of up to four bytes, lines shorter or longer
\* than their limit of two, bodies of up to three bytes.
SPECIFICATION FairSpec
CONSTANTS
  MaxLine = 2
  MaxFields = 2
  MaxTotal = 4
  MaxBody = 3
  MaxChunk = 3
  MaxExt = 1
  SizeRoom = 3
  Word = 8
  Scripts <- MixedScripts
  MaxRequests = 2
  ReadChunk = 4
  ForceClose = FALSE
  Windows = {"idle", "request"}
  MaxCalls = 3
INVARIANTS
  StreamStaysInStep
  OnlyTheFaultyAreRefused
  RequestHasItsBudget
PROPERTIES
  OneFraming
  ServeReturns
