SPECIFICATION Spec
CONSTANTS
  MaxReq = 2
  Connector = {}
  MaxConn = 2
  MaxClose = 1
INVARIANTS WakeupIsAwaited
CHECK_DEADLOCK FALSE
