SPECIFICATION FairSpec
CONSTANTS
  RegionThreads = 4
  HashBytes = 2
  DefaultChunkBlocks = 2
  GraphMaxM = 2
  Calls <- MCCalls
INVARIANTS
  NoStrayThread
  PartialRoundIsClean
PROPERTIES
  ImplementsRegionLabel
  CallReturns
