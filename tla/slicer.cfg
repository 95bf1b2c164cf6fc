SPECIFICATION FairSpec
CONSTANTS
  NDims = 3
  MaxExtent = 3
  MaxChunk = 2
  MaxPlane = 4
  MaxFlat = 6
  Scope = "all ranks"
  Requests <- MCRequests
INVARIANTS JoinsIfSupported RightExactlyIfSupported PositionsAgreeIfSupported
PROPERTY Terminates
CHECK_DEADLOCK FALSE
