SPECIFICATION Spec
CONSTANTS
  Dsz = 2
  CacheSz = 16
  Addrs <- MCAddrs
  ChunkLen <- MCChunkLen
  Requests <- MCRequests
  Runs <- MCRuns
  Counts <- MCCounts
  Slice <- MCSlice
  IllRanked <- MCIllRanked
  DstLens <- MCDstLens
INVARIANT OkMeansBytesRead
