----------------------------- MODULE ChunkPlan -----------------------------
(***************************************************************************)
(* How a labelling call is cut into chunks: which blocks each chunk covers, *)
(* which chunk seed it uses, which buffers it works in and, for a disk      *)
(* wave, where its output goes on the device.  These are the pure parts of  *)
(* pose_graph_label_region, pose_graph_label_region_ex,                     *)
(* pose_graph_label_region_pooled, pose_graph_label_region_pooled_inplace   *)
(* and pose_graph_label_disk_wave, shared by the modules that run them.     *)
(*                                                                          *)
(* A label is abstracted to what determines it: the index of its chunk's    *)
(* seed, the chunk's size m (the graph depends on it) and its rank i.       *)
(***************************************************************************)
EXTENDS Integers, FiniteSets, FiniteSetsExt

CONSTANTS
  RegionThreads,       \* POSE_REGION_THREADS: pool workers plus the caller
  HashBytes,           \* POSE_HASH_BYTES
  DefaultChunkBlocks,  \* POSE_CHUNK_BLOCKS
  GraphMaxM,           \* POSE_GRAPH_MAX_M
  Calls                \* the labelling calls a client may make

Threads == 0 .. RegionThreads - 1    \* indices of args[], scratch[] and slots[]

----------------------------------------------------------------------------
(***************************************************************************)
(* A call is a record.  op is "region" (label_region_pooled, _region, _ex), *)
(* "inplace" (label_region_pooled_inplace) or "wave" (label_disk_wave).     *)
(* Every call has chunk_blocks (cb) and region_block_offset (rbo); the two  *)
(* region operations have a region pointer (ptr: FALSE is NULL) and its     *)
(* length in bytes; a wave has n_this, super_index_base, byte_start,        *)
(* write_len and a sink (ptr: FALSE is NULL).                               *)
(***************************************************************************)
RegionCall(op, ptr, len, cb, rbo) ==
  [op |-> op, ptr |-> ptr, len |-> len, cb |-> cb, rbo |-> rbo]

WaveCall(ptr, n, base, cb, rbo, start, wlen) ==
  [op |-> "wave", ptr |-> ptr, n |-> n, base |-> base, cb |-> cb,
   rbo |-> rbo, start |-> start, wlen |-> wlen]

NoCall == [op |-> "none"]

CallType ==
  [op : {"region", "inplace"}, ptr : BOOLEAN, len : Nat, cb : Nat, rbo : Nat]
  \cup
  [op : {"wave"}, ptr : BOOLEAN, n : Int, base : Nat, cb : Nat, rbo : Nat,
   start : Nat, wlen : Nat]

ASSUME PlanAssumption ==
  /\ RegionThreads \in Nat \ {0, 1}
  /\ HashBytes \in Nat \ {0}
  /\ DefaultChunkBlocks \in Nat \ {0}
  /\ GraphMaxM \in Nat \ {0}
  /\ Calls \subseteq CallType

\* resolve_chunk_blocks
ChunkBlocks(c) == IF c.cb = 0 THEN DefaultChunkBlocks ELSE c.cb

\* Block count of a region.
TotalBlocks(c) == c.len \div HashBytes

\* The argument checks that return -1 before any work.
BadArgs(c) ==
  IF c.op = "wave"
  THEN c.n < 1 \/ c.n > RegionThreads \/ ~c.ptr
  ELSE ~c.ptr \/ c.len = 0 \/ c.len % HashBytes # 0

\* The loop condition: is there a chunk that starts at this block?  A wave is
\* a single round, so it has work only before that round (block 0).
HasChunk(c, block) ==
  CASE c.op = "region"  -> block < TotalBlocks(c)
    [] c.op = "inplace" -> block + ChunkBlocks(c) <= TotalBlocks(c)
    [] c.op = "wave"    -> block = 0

\* m: blocks of the chunk that starts at block.
ThisBlocks(c, block) ==
  IF c.op = "region" THEN Min({ChunkBlocks(c), TotalBlocks(c) - block})
                     ELSE ChunkBlocks(c)

\* Chunks of the round that starts at block: at most one per thread.  Every
\* chunk of a round but the last is full, so the i-th starts i * cb further.
RoundSize(c, block) ==
  IF c.op = "wave" THEN c.n
  ELSE Cardinality({i \in Threads : HasChunk(c, block + i * ChunkBlocks(c))})

\* Mutation of NextBlock: block is not advanced.
MutNextBlock(c, block) == block

\* The value of block after that round has been filled in.
NextBlock(c, block) ==
  CASE c.op = "region"  -> Min({TotalBlocks(c),
                                block + RoundSize(c, block) * ChunkBlocks(c)})
    [] c.op = "inplace" -> block + RoundSize(c, block) * ChunkBlocks(c)
    [] c.op = "wave"    -> c.n

\* Mutation of RegionChunkIndex: the region's own offset is forgotten.
MutRegionChunkIndex(c, block) == block \div ChunkBlocks(c)

\* chunk_index, the argument of pose_chunk_seed, for the chunk at block.
RegionChunkIndex(c, block) == (c.rbo + block) \div ChunkBlocks(c)

\* The same for the two operations that step by super-chunk number j.
SuperChunkIndex(c, j) == (c.rbo + j * ChunkBlocks(c)) \div ChunkBlocks(c)

\* Mutation of ChunkArg: every chunk of a round uses the first scratch buffer.
MutChunkArg(c, block, i) ==
  [chunk |-> RegionChunkIndex(c, block + i * ChunkBlocks(c)),
   m     |-> ThisBlocks(c, block + i * ChunkBlocks(c)),
   first |-> IF c.op = "wave" THEN 0 ELSE block + i * ChunkBlocks(c),
   buf   |-> 0, off |-> 0, rc |-> 0]

\* args[i] of the round that starts at block, as the fill loop leaves it.
\* buf is the index of its scratch buffer (and, in a wave, of its slot).
ChunkArg(c, block, i) ==
  LET start == block + i * ChunkBlocks(c)
      j     == IF c.op = "wave" THEN c.base + i ELSE start \div ChunkBlocks(c)
  IN  [chunk |-> IF c.op = "region" THEN RegionChunkIndex(c, start)
                                    ELSE SuperChunkIndex(c, j),
       m     |-> ThisBlocks(c, start),
       first |-> IF c.op = "wave" THEN 0 ELSE start,
       buf   |-> i,
       off   |-> IF c.op = "wave" THEN c.start + j * c.wlen ELSE 0,
       rc    |-> 0]

\* do_label and do_label_inplace refuse a chunk with no blocks or too many.
CanLabel(m) == m # 0 /\ m <= GraphMaxM

\* The label of rank i of a chunk.
Label(a, i) == [chunk |-> a.chunk, m |-> a.m, i |-> i]

\* The blocks of the largest region any call hands over.
RegionBlocks ==
  UNION {0 .. TotalBlocks(c) - 1 : c \in {d \in Calls : d.op # "wave"}}

\* The blocks of the region a chunk writes, and the region once it has.
OutBlocks(a) == a.first .. a.first + a.m - 1

WriteChunk(region, a) ==
  [b \in RegionBlocks |->
     IF b \in OutBlocks(a) THEN Label(a, b - a.first) ELSE region[b]]

\* One entry of args[], and a label.
ArgType ==
  [chunk : Int, m : Int, first : Int, buf : Threads, off : Int, rc : Int]

LabelType == [chunk : Int, m : Int, i : Int]

\* An args[] entry no call has filled in yet.
Unused == [chunk |-> -1, m |-> 0, first |-> 0, buf |-> 0, off |-> 0, rc |-> 0]

----------------------------------------------------------------------------
(***************************************************************************)
(* Reference definitions: what a caller, and the verifier that recomputes   *)
(* the labels, expects of a call, stated without the loops.                 *)
(***************************************************************************)
Old == [chunk |-> -1, m |-> 0, i |-> 0]    \* whatever was there before

\* The blocks a region call must label: all of them, or for the in-place
\* operation the whole super-chunks only.
CoveredBlocks(c) ==
  CASE c.op = "region"  -> 0 .. TotalBlocks(c) - 1
    [] c.op = "inplace" -> 0 .. (TotalBlocks(c) \div ChunkBlocks(c))
                                * ChunkBlocks(c) - 1
    [] c.op = "wave"    -> {}

\* The label block b must end up with.
Expected(c, b) ==
  LET cb == ChunkBlocks(c)
  IN  [chunk |-> c.rbo \div cb + b \div cb,
       m     |-> Min({cb, TotalBlocks(c) - (b - (b % cb))}),
       i     |-> b % cb]

\* The extents a wave must commit: super-chunk j in full at its own offset.
ExpectedExtents(c) ==
  IF c.op # "wave" THEN {}
  ELSE {[off |-> c.start + j * c.wlen, len |-> c.wlen,
         chunk |-> c.rbo \div ChunkBlocks(c) + j, m |-> ChunkBlocks(c)]
          : j \in c.base .. c.base + c.n - 1}
============================================================================
