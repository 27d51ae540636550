SPECIFICATION Spec
CONSTANTS
  Threads = {t1, t2}
  Queues = {q1, q2}
  Msgs = {m1}
  MaxLength = 1
  Null = Null
  Cuts = TRUE
SYMMETRY ConnSymmetry
INVARIANTS TypeOK SubscribedConsumes QueueOfLastName
CHECK_DEADLOCK FALSE
