SPECIFICATION Spec
CONSTANTS
  SourceSizes <- MCSourceSizes
  Requests <- MCRequests
  Scales <- MCScales
  Garbage <- MCGarbage
  Flags <- MCFlags
  BLOCK_SIZE = 40
INVARIANT AlphaChannelExists
CHECK_DEADLOCK FALSE
