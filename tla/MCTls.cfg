\* Two tasks on the client's stream and one on the server's, two data records each way, buffers
\* that hold a record and a half.
\* Streams end, or wait for a peer that writes nothing more.
CHECK_DEADLOCK FALSE
SPECIFICATION FairSpec
CONSTANTS
  c1 = c1
  c2 = c2
  s1 = s1
  Tasks = {c1, c2, s1}
  EndOf <- TwoOnClient
  MaxWrites = 2
  BioSize = 3
  PipeSize = 2
INVARIANTS
  NoSpuriousErrors
  EofMeansComplete
  NothingHeldBack
PROPERTIES
  HandshakeCompletes
