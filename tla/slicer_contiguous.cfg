SPECIFICATION Spec
CONSTANTS
  NDims = 3
  MaxExtent = 2
  MaxChunk = 2
  MaxPlane = 2
  MaxFlat = 0
  Scope = "contiguous"
  Requests <- MCRequests
INVARIANT JoinIsSlice
CHECK_DEADLOCK FALSE
