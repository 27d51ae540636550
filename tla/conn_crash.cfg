SPECIFICATION Spec
CONSTANTS
  Threads = {t1, t2}
  Queues = {q1}
  Msgs = {m1}
  MaxLength = 1
  Null = Null
  Cuts = FALSE
PROPERTY FailsAlone
CHECK_DEADLOCK FALSE
