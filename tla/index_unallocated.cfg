SPECIFICATION Spec
CONSTANTS
  MaxExtent = 4
  MaxChunk = 3
  MaxChunks = 4
  MaxFilters = 3
  Depth = 2
  GroupNames = {"a", "b"}
  Trees <- MCTrees
  Paths <- MCPaths
INVARIANT UnallocatedAreSkipped
CHECK_DEADLOCK FALSE
