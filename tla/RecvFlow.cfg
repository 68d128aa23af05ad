SPECIFICATION FairSpec
CONSTANTS
  SeqMod = 64
  TcbSize = 4
  MaxBytes = 12
  MaxSegment = 3
  MaxRead = 5
  Overrun = TRUE
  ReadEmpty = TRUE
  WithFin = TRUE
  EagerFin = FALSE
INVARIANTS TypeOK WindowAccounting StreamInOrder
PROPERTIES RightEdgeNeverShrinks CallsReturn ImplementsByteStream
CHECK_DEADLOCK FALSE
