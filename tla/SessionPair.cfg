SPECIFICATION FairSpec
CONSTANTS
  s1 = s1
  s2 = s2
  s3 = s3
  NoAddr = NoAddr
  Service = {s1, s3}
  Named = {s3}
  CanCall <- Pair
  MayExit = {s1, s3}
  FirstSession <- Apart2
  MaxCalls = 1
  MaxSession = 3
  MaxBatch = 2
INVARIANT NoCallOrphaned
PROPERTY GoneCalleeSettles
CHECK_DEADLOCK FALSE
