SPECIFICATION QueueSpec
CONSTANTS
  Threads = {t1, t2}
  NoThread = NoThread
  Spurious = TRUE
  Publishers = {p1, p2}
  Addr = {a1, a2, a3}
  Null = Null
  Msgs = {m1}
  NoMsg = NoMsg
SYMMETRY QueueSymmetry
INVARIANTS QTypeOK QueueOK
PROPERTY MsgStallOnlyInGap
CHECK_DEADLOCK FALSE
