------------------------------- MODULE GpuRun -------------------------------
(***************************************************************************)
(* label_gpu_run, the host side of every GPU strategy, as called through    *)
(* pose_graph_hbm_topo_label: it sizes and allocates a scratch buffer for   *)
(* as many super-chunks at a time as fit, labels the buffer in batches of   *)
(* that many, one kernel launch per batch, and zeroes the scratch before it *)
(* frees it.  Any CUDA call may fail; then it frees what it has and reports *)
(* -1.  What one kernel does to one super-chunk is GpuKernel's subject:     *)
(* here a super-chunk's labels are the chunk seed they were made from.      *)
(***************************************************************************)
EXTENDS Integers, FiniteSets, FiniteSetsExt

CONSTANTS
  Calls,      \* the label calls: buffer length len and offset rbo, in blocks
  MaxFit,     \* scratch regions that fit in free HBM: 0 .. MaxFit
  Cap         \* POSE_GPU_WAVE_CAP, or the device's resident capacity

ASSUME RunAssumption ==
  /\ Calls \subseteq [cb : Nat \ {0}, len : Nat, rbo : Nat]
  /\ MaxFit \in Nat /\ Cap \in Nat \ {0}

VARIABLES
  pc, call, rc,
  pool,                \* wave, pool_blocks, pool_threads or pool_warps
  base,                \* first super-chunk of the batch
  seeds,               \* d_seeds: the chunk index each batch entry is seeded with
  running,             \* batch entries the launched kernel still works on
  scratch,             \* "none", "fresh", "labels" (it may hold some) or "zero"
  freed,               \* what the scratch held when it was freed
  persist              \* the buffer, by super-chunk; the last entry is the tail

vars == <<pc, call, rc, pool, base, seeds, running, scratch, freed, persist>>

None     == -1
NoCall   == [cb |-> 1, len |-> 0, rbo |-> 0]
NumSuper == call.len \div call.cb

Init ==
  /\ pc = "idle" /\ call = NoCall /\ rc = 0 /\ pool = 0 /\ base = 0
  /\ seeds = <<>> /\ running = {} /\ scratch = "none" /\ freed = "none"
  /\ persist = [j \in {0} |-> None]

----------------------------------------------------------------------------
\* Mutation of PoolSize: a budget of less than one region gives an empty pool.
MutEmptyPool(fit, num) == Min({fit, Cap, num})

\* Mutation of PoolSize: the resident capacity is not a limit.
MutUncapped(fit, num) == Max({1, Min({fit, num})})

\* budget / region_bytes, then the caps; at least one is tried.
PoolSize(fit, num) == Max({1, Min({fit, Cap, num})})

\* A buffer smaller than one super-chunk is left alone and reported as done.
Begin(c, fit) ==
  /\ pc = "idle"
  /\ call' = c
  /\ persist' = [j \in 0 .. c.len \div c.cb |-> None]
  /\ base' = 0 /\ freed' = "none"
  /\ IF c.len \div c.cb = 0
     THEN rc' = 0 /\ pool' = 0 /\ pc' = "return"
     ELSE rc' = -1 /\ pool' = PoolSize(fit, c.len \div c.cb) /\ pc' = "alloc"
  /\ UNCHANGED <<seeds, running, scratch>>

AllocScratch ==
  /\ pc = "alloc"
  /\ scratch' = "fresh" /\ pc' = "seeds"
  /\ UNCHANGED <<call, rc, pool, base, seeds, running, freed, persist>>

\* Out of memory: try half as many, and give up after one.
AllocFails ==
  /\ pc = "alloc"
  /\ IF pool = 1 THEN pc' = "cleanup" /\ pool' = pool
                 ELSE pc' = pc /\ pool' = pool \div 2
  /\ UNCHANGED <<call, rc, base, seeds, running, scratch, freed, persist>>

AllocSeeds(ok) ==
  /\ pc = "seeds"
  /\ pc' = IF ok THEN "batch" ELSE "cleanup"
  /\ UNCHANGED <<call, rc, pool, base, seeds, running, scratch, freed, persist>>

\* w_count / bc
BatchCount == Min({pool, NumSuper - base})

\* Mutation of ChunkIndex: a batch is seeded as if it were the first.
MutChunkIndex(j) == (call.rbo + (j - base) * call.cb) \div call.cb

ChunkIndex(j) == (call.rbo + j * call.cb) \div call.cb

\* h_seeds for this batch, and its upload.
UploadSeeds(ok) ==
  /\ pc = "batch"
  /\ seeds' = IF ok THEN [w \in 0 .. BatchCount - 1 |-> ChunkIndex(base + w)] ELSE seeds
  /\ pc' = IF ok THEN "launch" ELSE "cleanup"
  /\ UNCHANGED <<call, rc, pool, base, running, scratch, freed, persist>>

\* The launch returns at once; the device works on, and from here on the
\* scratch may hold labels.
Launch(ok) ==
  /\ pc = "launch"
  /\ running' = IF ok THEN DOMAIN seeds ELSE {}
  /\ scratch' = IF ok THEN "labels" ELSE scratch
  /\ pc' = IF ok THEN "sync" ELSE "cleanup"
  /\ UNCHANGED <<call, rc, pool, base, seeds, freed, persist>>

\* LEVEL copies the outputs to the buffer with a kernel of its own: when that
\* one cannot be launched the batch's labels are in the scratch and nowhere
\* else (the free waits for the kernels that put them there).
PersistLaunchFails ==
  /\ pc = "launch"
  /\ scratch' = "labels"
  /\ pc' = "cleanup"
  /\ UNCHANGED <<call, rc, pool, base, seeds, running, freed, persist>>

\* One block, warp, thread or wave entry finishes its super-chunk.
KernelChunk(w) ==
  /\ w \in running
  /\ persist' = [persist EXCEPT ![base + w] = seeds[w]]
  /\ running' = running \ {w}
  /\ UNCHANGED <<pc, call, rc, pool, base, seeds, scratch, freed>>

\* Mutation of Synchronize: the next batch does not wait for this one.
MutSynchronize ==
  /\ pc = "sync"
  /\ base' = base + pool
  /\ pc' = IF base' < NumSuper THEN "batch" ELSE "zero"
  /\ UNCHANGED <<call, rc, pool, seeds, running, scratch, freed, persist>>

\* cudaDeviceSynchronize; base += pool
Synchronize ==
  /\ pc = "sync" /\ running = {}
  /\ base' = base + pool
  /\ pc' = IF base' < NumSuper THEN "batch" ELSE "zero"
  /\ UNCHANGED <<call, rc, pool, seeds, running, scratch, freed, persist>>

\* The kernel died: some of its super-chunks may never have been written.
SynchronizeFails ==
  /\ pc = "sync"
  /\ running' = {}
  /\ pc' = "cleanup"
  /\ UNCHANGED <<call, rc, pool, base, seeds, scratch, freed, persist>>

\* Mutation of ZeroScratch: the scratch is freed as it is.
MutZeroScratch(ok) ==
  /\ pc = "zero"
  /\ rc' = 0
  /\ pc' = "cleanup"
  /\ UNCHANGED <<call, pool, base, seeds, running, scratch, freed, persist>>

ZeroScratch(ok) ==
  /\ pc = "zero"
  /\ IF ok THEN scratch' = "zero" /\ rc' = 0 ELSE UNCHANGED <<scratch, rc>>
  /\ pc' = "cleanup"
  /\ UNCHANGED <<call, pool, base, seeds, running, freed, persist>>

Cleanup ==
  /\ pc = "cleanup"
  /\ freed' = scratch /\ scratch' = "none"
  /\ pc' = "return"
  /\ UNCHANGED <<call, rc, pool, base, seeds, running, persist>>

\* The locals go; the buffer, which is the caller's, stays.
Return ==
  /\ pc = "return"
  /\ pc' = "idle" /\ rc' = 0 /\ pool' = 0 /\ base' = 0
  /\ seeds' = <<>> /\ freed' = "none"
  /\ UNCHANGED <<call, running, scratch, persist>>

HostStep ==
  \/ AllocScratch \/ AllocFails
  \/ \E ok \in BOOLEAN : AllocSeeds(ok) \/ UploadSeeds(ok) \/ Launch(ok) \/ ZeroScratch(ok)
  \/ PersistLaunchFails \/ Synchronize \/ SynchronizeFails \/ Cleanup \/ Return

Next ==
  \/ \E c \in Calls, fit \in 0 .. MaxFit : Begin(c, fit)
  \/ HostStep
  \/ \E w \in 0 .. MaxFit : KernelChunk(w)

Spec == Init /\ [][Next]_vars

\* The host thread and the device keep running; no CUDA call is promised to
\* succeed or to fail.
FairSpec ==
  Spec /\ WF_vars(HostStep) /\ \A w \in 0 .. MaxFit : WF_vars(KernelChunk(w))

----------------------------------------------------------------------------
(* Properties.                                                              *)

\* The variables have their types, and a launch stays inside the scratch and the
\* device's resident capacity.
TypeOK ==
  /\ pc \in {"idle", "alloc", "seeds", "batch", "launch", "sync", "zero",
             "cleanup", "return"}
  /\ rc \in {0, -1} /\ pool \in 0 .. Cap /\ base \in Nat
  /\ running \subseteq 0 .. pool - 1
  /\ scratch \in {"none", "fresh", "labels", "zero"}
  /\ DOMAIN persist = 0 .. NumSuper

\* A super-chunk of the buffer is untouched or carries the labels of its own
\* chunk index, the tail shorter than a super-chunk is never written, and a
\* call that returns 0 has written every super-chunk.
BufferExact ==
  \A j \in DOMAIN persist :
    \/ persist[j] = None /\ (j = NumSuper \/ ~(pc = "return" /\ rc = 0))
    \/ persist[j] = call.rbo \div call.cb + j /\ j < NumSuper

\* A call that succeeds has zeroed its scratch before freeing it, and none is
\* left allocated whatever happens.
ScratchReleased ==
  pc = "return" =>
    /\ scratch = "none"
    /\ rc = 0 => freed # "labels"

\* Every call returns: the halving of the pool ends and every batch advances.
CallReturns == (pc = "alloc") ~> (pc = "return")

\* The call as a call of the CPU's in-place operation, the length in blocks.
AsInplace(c) ==
  [op |-> "inplace", ptr |-> TRUE, len |-> c.len, cb |-> c.cb, rbo |-> c.rbo]

AsCall == IF pc = "idle" THEN [op |-> "none"] ELSE AsInplace(call)

\* The buffer block by block.
AsRegion ==
  [b \in UNION {0 .. c.len - 1 : c \in Calls} |->
     LET j == b \div call.cb
     IN  IF j < NumSuper /\ persist[j] # None
         THEN [chunk |-> persist[j], m |-> call.cb, i |-> b % call.cb]
         ELSE [chunk |-> -1, m |-> 0, i |-> 0]]

AsFailed == pc \in {"cleanup", "return"} /\ rc # 0
AsResult == IF pc # "return" THEN "none" ELSE IF rc = 0 THEN "ok" ELSE "error"

Promise == INSTANCE RegionLabel WITH
  RegionThreads <- 2, HashBytes <- 1, DefaultChunkBlocks <- 1, GraphMaxM <- 1,
  Calls <- {AsInplace(c) : c \in Calls},
  call <- AsCall, region <- AsRegion, disk <- {}, failed <- AsFailed, result <- AsResult

\* The GPU keeps the promise of the CPU's in-place operation, which the tool's
\* verification relabels with: super-chunks appear whole, right and only while
\* the call runs, and also across batches whose seeds share d_seeds; 0 is
\* returned only when all are there, -1 only when something failed.
ImplementsRegionLabel == Promise!Spec

\* gpu_label.h, on the work buffer: "which is zeroed and freed before this call
\* returns", whatever the result.
ScratchZeroedBeforeReturn == pc = "return" => freed # "labels"
============================================================================
