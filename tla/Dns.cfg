SPECIFICATION FairSpec
CONSTANTS
  MaxResolver = 2
  MaxServer = 2
  MAX_TID = 6
  MaxBatch = 2
  Retiree = {1}
  Truncator = {2}
INVARIANTS DnsInv
PROPERTIES ResolveEnds
CHECK_DEADLOCK FALSE
