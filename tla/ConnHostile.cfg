SPECIFICATION Spec
CONSTANTS
  SeqMod = 256
  TcbSize = 8
  ClientIss = 10
  ServerIss <- MCServerIss
  ClientBytes = 1
  ServerBytes = 1
  MaxSegment = 1
  ClientCloses = 1
  ServerCloses = 0
  MaxRetransmits = 2
  Reorder = TRUE
  Lossy = TRUE
  Timeouts = TRUE
  ConcurrentApp = TRUE
INVARIANTS HandshakeAgreement UnaWithinSent
CHECK_DEADLOCK FALSE
