SPECIFICATION FairSpec
CONSTANTS
  Size = {0, 2, 5}
  HeadSize = 1
  FlushSize = 6
  NewBit = 16
  MaxRound = 3
  MaxSent = 4
  MaxInbox = 3
INVARIANTS TypeOK DeliveredInOrder StaleViewFlagged HeldBehindAsync
PROPERTIES ImplementsFifoMailbox EveryMessageHandled
CHECK_DEADLOCK FALSE
