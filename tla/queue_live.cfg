SPECIFICATION FairQueueSpec
CONSTANTS
  Threads = {t1, t2}
  NoThread = NoThread
  Spurious = FALSE
  Publishers = {p1, p2}
  Addr = {a1, a2}
  Null = Null
  Msgs = {m1, m2}
  NoMsg = NoMsg
INVARIANT NoEmptyPop
PROPERTIES IsFifo MessageTaken
CHECK_DEADLOCK FALSE
