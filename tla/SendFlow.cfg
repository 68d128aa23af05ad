SPECIFICATION FairSpec
CONSTANTS
  SeqMod = 64
  TcbSize = 3
  sf = sf
  s = s
  Writers = {sf, s}
  WriteLen <- MCWriteLen
  Mss = 2
  MaxInFlight = 2
INVARIANTS TypeOK SentAtOwnNumber WrittenOnce
PROPERTIES WriteReturns ImplementsByteStream
CHECK_DEADLOCK FALSE
