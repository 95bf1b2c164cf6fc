SPECIFICATION Spec
CONSTANTS
  MaxVersion = 3
  MaxRuns = 2
  MaxStops = 1
  MaxCalls = 2
  Parts = 2
  Chunks <- MCChunks
INVARIANTS CallSeesOneFile NeverOlderThanIndex
PROPERTIES LoadedIsOfOneFile RunsEnd
CHECK_DEADLOCK FALSE
