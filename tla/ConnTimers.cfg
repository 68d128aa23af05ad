SPECIFICATION Spec
CONSTANTS
  Timers = {t1, t2, t3, t4, t5}
  Goroutines = {g1, g2}
  MaxQueue = 2
INVARIANTS TypeOK OneRetransmitter
PROPERTIES EntriesAreRetried GoroutinesEnd
CHECK_DEADLOCK FALSE
