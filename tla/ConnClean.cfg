SPECIFICATION Spec
CONSTANTS
  SeqMod = 256
  TcbSize = 8
  ClientIss = 10
  ServerIss <- MCServerIss
  ClientBytes = 3
  ServerBytes = 1
  MaxSegment = 2
  ClientCloses = 1
  ServerCloses = 1
  MaxRetransmits = 1
  Reorder = FALSE
  Lossy = FALSE
  Timeouts = FALSE
  ConcurrentApp = FALSE
INVARIANTS TypeOK StreamIntegrity AckedIsReceived FinMeansAll QueueCoversUnacked
PROPERTIES StatusFollowsRfc
CHECK_DEADLOCK FALSE
