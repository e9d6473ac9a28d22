--------------------------- MODULE MCSpawnRegion ---------------------------
(* The calls TLC tries on SpawnRegion.                                       *)
EXTENDS SpawnRegion

MCCalls ==
  { RegionCall("region", TRUE, 2 * 15, 2, 4),    \* two rounds, short last chunk
    RegionCall("region", TRUE, 2 * 7, 3, 3),     \* chunks of 3 refused, chunk of 1 accepted
    RegionCall("region", TRUE, 2 * 2, 0, 0),     \* default chunk size, caller only
    RegionCall("region", TRUE, 3, 2, 0),         \* length not a whole number of blocks
    RegionCall("region", FALSE, 4, 2, 0) }       \* NULL region
============================================================================
