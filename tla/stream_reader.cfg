SPECIFICATION FairSpec
CONSTANTS
  CacheSz = 16
  Addrs <- MCAddrs
  ChunkLen <- MCChunkLen
  Requests <- MCRequests
  Runs <- MCRuns
  Slice <- MCSlice
  IllRanked <- MCIllRanked
  Datasets <- MCDatasets
  Types <- MCTypes
  Machines <- MCMachines
INVARIANTS DeliversPrefix EndMeansAll CacheCoherent
PROPERTY Answers
