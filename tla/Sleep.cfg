SPECIFICATION FairSpec
CONSTANTS
  t1 = t1
  t2 = t2
  k1 = k1
  k2 = k2
  NoTask = NoTask
  Func = Func
  Task = {t1, t2}
  Token = {k1, k2}
  TokenOf <- OwnToken
  MaxSession = 4
INVARIANTS SleepInv
PROPERTY SleepEnds
CHECK_DEADLOCK FALSE
