SPECIFICATION Spec
CONSTANTS
  SourceSizes <- MCSourceSizes
  Requests <- MCRequests
  Scales <- MCScales
  Garbage <- MCGarbage
  Flags <- MCFlags
  BLOCK_SIZE = 40
INVARIANTS BufferHoldsImage OrdinaryIsDefined FloatsAreDefined
           FloatsArriveAsFloats PrintedIsWritten
CHECK_DEADLOCK FALSE
