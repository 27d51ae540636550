SPECIFICATION FairSpec
CONSTANTS
  Threads = {t1, t2}
  Queues = {q1}
  Msgs = {m1, m2}
  MaxLength = 2
  Null = Null
  Cuts = FALSE
INVARIANT DeliveredOnce
PROPERTIES UseFifoQueues GoneConnectionEnds
CHECK_DEADLOCK FALSE
