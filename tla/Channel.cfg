SPECIFICATION FairSpec
CONSTANTS
  MaxReq = 4
  Connector = {3}
  MaxConn = 2
  MaxClose = 1
INVARIANTS ChannelInv AnswerIsOwn
PROPERTIES RequestEnds
CHECK_DEADLOCK FALSE
