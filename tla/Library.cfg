SPECIFICATION FairSpec
CONSTANTS
  Small = 2
  MaxFrameSize = 3
  MaxSends = 2
  MaxFrames = 3
  MaxBody = 2
  Total = 4
  Header = 2
  Block = 3
  MaxCalls = 2
  MaxDocs = 3
  MaxLoss = 2
  MaxAnswers = 5
  Base = 4
  MAX_COOKIE = 4
  MAX_DEPTH = 2
  Chunk = 2
  MaxUnits = 5
  MaxNumber = 300
  Tool = {1, 2}
  MaxPauses = 1
  MaxEvents = 2
  MaxFn = 3
  MaxAddr = 2
  MaxBackup = 2
  MaxTask = 2
  MaxFaults = 2
  MaxMoves = 1
  MaxAsks = 1
  MaxTtl = 1
  MaxRecords = 3
  MaxQueries = 2
  MaxNow = 2
  Window = 3
  MaxFrame = 2
  Room = 2
  MaxBytes = 4
  MaxPayload = 4
  Limit = 3
  Long = {"long"}
  MaxResponses = 1
INVARIANTS WebSocketSafe NoSocketLost BodyIsWhole ReadsAreWhole MysqlSafe CursorSafe ValuesComeBack ResolvedAsTold InspectorSafe StartSafe ConnectSafe FlowSafe FramesComeBack GrpcSafe
PROPERTY WaitsEnd
CHECK_DEADLOCK FALSE
