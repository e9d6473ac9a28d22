SPECIFICATION Spec
CONSTANTS
  RegionThreads = 3
  HashBytes = 2
  DefaultChunkBlocks = 2
  GraphMaxM = 2
  SinkErr = 5
  Calls <- MCAllCalls
INVARIANTS
  PoolInv
  RoundBarrier
  WorkDisjoint
  NoLostWakeup
  LabelsExact
  SuccessIsComplete
  FreedPoolUnused
PROPERTIES
  ImplementsRegionLabel
