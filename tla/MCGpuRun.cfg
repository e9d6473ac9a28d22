SPECIFICATION FairSpec
CONSTANTS
  Calls <- MCCalls
  MaxFit = 4
  Cap = 3
INVARIANTS TypeOK BufferExact ScratchReleased
PROPERTIES CallReturns ImplementsRegionLabel
