SPECIFICATION Spec
CONSTANTS
  MaxConnections = 3
  Fds = {f1, f2}
  NoFd = NoFd
INVARIANTS TypeOK SlotExclusive SocketExclusive SlotNotLost SameDescriptor NoLockCycle
SYMMETRY FdSymmetry
