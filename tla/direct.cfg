SPECIFICATION FairSpecDirect
CONSTANTS
  Dsz = 2
  w1 = w1
  w2 = w2
  Workers <- MCWorkers
  Addrs <- MCAddrs
  ChunkLen <- MCChunkLen
  Requests <- MCRequests
  Runs <- MCRuns
  Counts <- MCCounts
  Slice <- MCSlice
  IllRanked <- MCIllRanked
  DstLens <- MCDstLens
INVARIANTS TypeOK CopiesDisjoint CopiesInBuffer OkMeansSlice ReadsForward
PROPERTIES WritesOnce Returns KeepsPromise
