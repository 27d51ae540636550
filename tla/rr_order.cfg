SPECIFICATION OrderSpec
CONSTANTS
  Threads = {t1, t2, t3, t4}
  NoThread = NoThread
  Spurious = FALSE
INVARIANTS TypeOK RingOK RoundExclusive
PROPERTIES NoOvertaking StallOnlyInGapOrByLeaving
CHECK_DEADLOCK FALSE
