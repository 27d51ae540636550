SPECIFICATION FairSpec
CONSTANTS
  MaxConnections = 2
  Fds = {f1, f2, f3}
  NoFd = NoFd
PROPERTY EndedFreesSlot
