SPECIFICATION EmitSpec
CONSTANTS
  BlockCounts <- MCSizes
  Challenges = {2, 16}
  GraphMaxM = 32
  DefaultChunkBlocks = 16
  ArenaFactor = 16
  LabelBatch = 3
INVARIANTS GraphExact PredsCanonical OutputSetExact ArenaHighWater HalvesLineUp
           EdgeListDelivered
