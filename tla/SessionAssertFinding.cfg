SPECIFICATION Spec
CONSTANTS
  s1 = s1
  s2 = s2
  s3 = s3
  NoAddr = NoAddr
  Service = {s1, s2, s3}
  Named = {}
  CanCall <- Callers
  MayExit = {}
  FirstSession <- Same3
  MaxCalls = 1
  MaxSession = 1
  MaxBatch = 1
INVARIANT ResponseHasSession
CHECK_DEADLOCK FALSE
