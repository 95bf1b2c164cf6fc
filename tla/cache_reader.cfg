SPECIFICATION SpecTyped
CONSTANTS
  Dsz = 4
  CacheSz = 32
  Addrs <- MCAddrs
  ChunkLen <- MCChunkLen
  Requests <- MCRequests
  Runs <- MCRuns
  Counts <- MCCounts
  Slice <- MCSlice
  IllRanked <- MCIllRanked
  DstLens <- MCDstLens
  Types <- MCTypes
  Orders <- MCOrders
  Machines <- MCMachines
INVARIANTS TypeOK CacheCoherent WrittenIsPrefix OkMeansSlice KeepsMostRecent ValuesAreNative RestIsTheCallers
PROPERTIES Returns KeepsPromise
