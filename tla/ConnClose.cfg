SPECIFICATION FairSpec
CONSTANTS
  SeqMod = 256
  TcbSize = 8
  ClientIss = 10
  ServerIss <- MCServerIss
  ClientBytes = 1
  ServerBytes = 1
  MaxSegment = 1
  ClientCloses = 1
  ServerCloses = 1
  MaxRetransmits = 0
  Reorder = FALSE
  Lossy = FALSE
  Timeouts = FALSE
  ConcurrentApp = FALSE
PROPERTIES HandshakeCompletes CloseCompletes
CHECK_DEADLOCK FALSE
