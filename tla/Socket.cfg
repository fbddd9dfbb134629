SPECIFICATION FairSpec
CONSTANTS
  r = r
  c = c
  d = d
  Task = {r, c, d}
  Opener = r
  Reader = {r, c}
  Closer = {c, d}
  Abandoner = {d}
  Locker = {r, c}
  NoTask = NoTask
  MaxOps = 2
  MaxSize = 1
INVARIANTS SocketInv
PROPERTIES SocketEnds
CHECK_DEADLOCK FALSE
