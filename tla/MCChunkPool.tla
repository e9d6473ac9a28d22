---------------------------- MODULE MCChunkPool ----------------------------
(* The calls TLC tries on ChunkPool: three threads, chunks of two blocks of  *)
(* two bytes, at most two blocks per chunk.                                  *)
EXTENDS ChunkPool

MCCalls ==
  { RegionCall("region", TRUE, 2 * 11, 2, 4),    \* two rounds, short last chunk
    RegionCall("region", TRUE, 2 * 4, 3, 3),     \* chunk of 3 refused, chunk of 1 accepted
    RegionCall("region", TRUE, 2 * 10, 3, 0),    \* a refused round, then a round it must not start
    RegionCall("region", TRUE, 2 * 2, 0, 0),     \* default chunk size, caller only
    RegionCall("region", TRUE, 3, 2, 0),         \* length not a whole number of blocks
    RegionCall("inplace", TRUE, 2 * 9, 2, 2),    \* two rounds, the last of one or two chunks, one block left over
    RegionCall("inplace", TRUE, 2, 2, 0),        \* smaller than a super-chunk
    RegionCall("inplace", FALSE, 4, 2, 0) }      \* NULL region

MCWaves ==
  { WaveCall(TRUE, 3, 2, 2, 4, 100, 4),          \* a full wave
    WaveCall(TRUE, 2, 5, 2, 0, 0, 4),            \* a short one
    WaveCall(TRUE, 4, 0, 2, 0, 0, 4),            \* more chunks than threads
    WaveCall(FALSE, 1, 0, 2, 0, 0, 4) }          \* no sink

MCAllCalls == MCCalls \cup MCWaves
============================================================================
