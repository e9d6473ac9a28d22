SPECIFICATION Spec
CONSTANTS
  Sizes = {1, 2, 3, 4, 6, 8}
  Lanes = 3
  Edges <- MCEdges
INVARIANTS TypeOK LiveLabelsIntact PersistExact PoolIsPeak
