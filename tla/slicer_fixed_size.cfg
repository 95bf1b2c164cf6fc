SPECIFICATION Spec
CONSTANTS
  NDims = 2
  MaxExtent = 3
  MaxChunk = 2
  MaxPlane = 3
  MaxFlat = 0
  Scope = "fixed size"
  Requests <- MCRequests
INVARIANT JoinIsSlice
CHECK_DEADLOCK FALSE
