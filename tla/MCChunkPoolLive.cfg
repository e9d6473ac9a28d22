SPECIFICATION FairSpec
CONSTANTS
  RegionThreads = 3
  HashBytes = 2
  DefaultChunkBlocks = 2
  GraphMaxM = 2
  SinkErr = 5
  Calls <- MCAllCalls
PROPERTIES
  CallReturns
  ShutdownCompletes
