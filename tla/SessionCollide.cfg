SPECIFICATION Spec
CONSTANTS
  s1 = s1
  s2 = s2
  s3 = s3
  NoAddr = NoAddr
  Service = {s1, s2, s3}
  Named = {}
  CanCall <- Chain
  MayExit = {s1, s2}
  FirstSession <- Same3
  MaxCalls = 1
  MaxSession = 1
  MaxBatch = 2
INVARIANTS TypeOK CallBookkeeping ReplyFromCallee SessionIsKept
PROPERTY ImplementsRpc
CHECK_DEADLOCK FALSE
