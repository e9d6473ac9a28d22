# TLA+ models of PoSE memory wiping

This directory holds a formal model of the labelling library (`common/`) and of
`tools/disk-wipe-bench`, the TLC runs that check it on small instances, and
TLAPS proofs for every number of threads, GPUs, lanes, disks, calls and every
chunk size: that the three labellers (pool, thread per chunk, GPU) put every label
in its place or say that they failed, that the emitters stay inside their arena
and number and order the nodes of a graph consistently, that the kernels never overwrite a live label in a recycled
slot, that every variant of a hash makes the same label, and that
`disk-wipe-bench` wipes whole disks under kills, errors and power failures.
`PROJECT.json` maps each definition to the source lines it models.

## 1. The system

A *label* is the hash of a node of a depth-robust graph, made from a seed and
the labels of the node's predecessors. A memory region or a disk is filled with
labels chunk by chunk; every chunk of `chunk_blocks` blocks has its own graph
and its own seed, derived from `chunk_index`, so chunks are independent. A
verifier that knows the seed can recompute any block. All of the program's
correctness comes down to one sentence: *every block ends up with exactly the
label the verifier will expect there, or the caller is told.*

| part | state it keeps | operations | model |
|---|---|---|---|
| chunk planning (`graph.c`) | none; locals of a call | argument checks, rounds, chunk indices, buffers, offsets | `ChunkPlan` |
| thread pool (`graph.c`) | `jobs[]`, `n_done`, `n_expected`, `shutdown`, mutex, two condition variables, threads | `pool_create`, `pool_destroy`, `label_region_pooled`, `label_region_pooled_inplace`, `label_disk_wave` | `ChunkPool` |
| thread-per-chunk labelling (`graph.c`) | locals, threads of the round | `label_region`, `label_region_ex` | `SpawnRegion` |
| emitters (`graph.c`) | node counter, bump arena, base arrays, call stack | `do_label`, `do_label_inplace`, `pose_graph_edges`, `pose_graph_challenge`, `pose_graph_challenge_node_ids` | `LabelEmit` |
| slot map (`graph.c`) | free-slot stack | `pose_graph_slot_map` | `SlotMap` |
| GPU kernels (`cuda/`) | topology, slots, persisted region | four strategies: LEVEL, BLOCK, WARP, THREAD | `GpuKernel` |
| GPU host runner (`cuda/`) | pool size, batch, device seeds, scratch | `label_gpu_run` | `GpuRun` |
| disk-wipe-bench | open targets, schedule, workers, renderer, disks and their write caches, samples | check, open, plan, wipe, flush, report, verify, exit | `DiskWipe` |
| hashing (`hash.c`) | the two derived keys and `g_keys_ready`, shared; stores not yet visible | `ensure_keys`, `pose_label_node`, `pose_label_node_many`, `pose_label_node_keys`, chunk seed, descriptor | `NodeHash` |
| hash primitives (`aes_prf.c`, `sha256.c`, `blake3_node.cuh`) | a round-key cache per thread | CBC-MAC one and four at a time, SHA-256, keyed BLAKE3 on CPU and device | `NodeCipher`, `NodeHash` |

How they interact. A client calls a region operation; `ChunkPlan`'s arithmetic
cuts it into rounds; workers (of the pool, or spawned) run an emitter on each
chunk, in a scratch buffer of its own, hashing its nodes one by one or in batches,
and a disk wave then hands the chunk to the client's sink. On a GPU the edge recorder and the slot map produce a
topology once; the host runner launches a kernel per batch of super-chunks on
it. `disk-wipe-bench` runs one thread per GPU over ranges of its disks, and
verifies by relabelling samples with the in-place CPU operation.

What is hard to test here:

* the pool's hand-over, barrier, shutdown and half-failed creation, under
  spurious wakeups;
* arguments on the caller's stack, and scratch, slots and device seeds that are
  reused from round to round;
* three separate emitters that must agree on every node id and predecessor
  order while they recycle an arena without bounds checks;
* recycled GPU slots with all the lanes of a level running at once;
* partial failure everywhere: one chunk, one sink, one thread creation, one
  CUDA call, one `pwrite`;
* a wipe that is killed or loses power and is run again, and devices that others
  mount meanwhile;
* keys derived without a lock by whichever threads come first, and a round-key
  cache that outlives the chunk it was filled for;
* each hash written several times (two instruction sets, one and four chains,
  CPU and device), of which a build or a test on one machine runs only some;
* boundaries: short last chunks, tails, sizes that are not powers of two, more
  GPUs than super-chunks, windows smaller than a super-chunk.

`PROJECT.json` lists these as hazards, each with its line and the properties
that would catch it.

## 2. Modules

**`ChunkPlan`** is the arithmetic of a call: `BadArgs` (the `-1` returns),
`HasChunk` (the loop conditions), `RoundSize`, `NextBlock`, `ChunkArg` (what the
fill loop puts in `args[i]`). A label is abstracted to `[chunk, m, i]`: chunk
seed index, chunk size and rank, which determine its bytes. `Expected` and
`ExpectedExtents` say, without loops, what the verifier will expect.

**`RegionLabel`** is the abstract promise of a call: chunks appear one at a time,
whole and right, and only while the call runs; it ends well only if all are
there and badly only if something failed. `ChunkPool`, `SpawnRegion` and `GpuRun`
are all shown to implement it, so that a super-chunk the GPU labelled is the one
the in-place CPU operation makes when the tool verifies.

**`ChunkPool`**: one client thread creates the pool, makes calls, destroys it.
Each `pthread_mutex_lock` is a step; so is each stretch of a critical section
that ends in a wait, an unlock or a store others see. `pthread_cond_wait`
releases the mutex and sleeps in one step and may wake unsignalled. Program
counters `pc[w]` and `cpc` name places in `pool_worker_fn` and in the three
operations, which share their submit/await code. Failures: a worker that cannot
be created, a chunk refused for its size, a sink that returns an error.

**`SpawnRegion`**: the same operations with a thread per chunk per round, and
`pthread_create` failing at any point. The caller then skips its own chunk and
joins what it launched: `Ran(i)` says which chunks of the round were labelled.

**`LabelEmit`** runs any of the three emitters with the C call stack in `todo`:
one step per C function entered, per batch of nodes hashed, or per function
left (with its `memcpy`s and its `arena_off = saved`). `mem` is the scratch
memory; a label is the id of its node, and `node[id]` keeps what the hash was
given, in order. `AnswerChallenge` is `pose_graph_challenge`, a caller of
`do_label` that copies one label out; `resolve_chunk_blocks` puts
`DefaultChunkBlocks` in the place of a 0 where the code calls it.
**`LabelGraph`** is the
reference: the same graph as a
recursive construction without memory, addresses or a node counter.
**`EdgeList`** says what a completed call hands on (`IsEdgeList`): predecessors
before readers, and as many different outputs as the chunk has blocks.

**`SlotMap`** translates levels, last uses and the free-slot stack; each C loop
is a `Loop` over its body.
**`GpuKernel`** runs a kernel on the resulting topology: lanes read, store and
copy in any order within a level, and the barrier separates levels. A label is
the node's id, or `Wrong` if a predecessor's label had been overwritten or was
not yet there. `Launch` starts from a scratch full of `Wrong`, as the scratch of
the previous batch is reused uncleared. The graph is a constant, `Edges`:
`EdgesAssumption` says that it is an `EdgeList`, as the recorder delivers one
(`RecorderDelivers`), `WidthAssumption` that no level has more than `8 * half_w` live nodes,
which is the graph's share of the assertion at `graph.c:1203`.

**`GpuRun`** is the host side: pool size from free memory, allocation with
halving, seeds uploaded per batch, asynchronous launch (`running` is what the
device still works on), synchronisation, zeroing, cleanup. Any CUDA call may
fail. `scratch` tells whether the work buffer may hold labels, which is from the
launch on; `PersistLaunchFails` is LEVEL's second launch, of the kernel that copies
the outputs: by then the first kernels fill the scratch, and nothing is persisted. A super-chunk's contents are the chunk index in `d_seeds` *when the device
reads it*. The buffer outlives the call, as the caller owns it; `AsInplace` reads a
call as one of the CPU's in-place operation for the refinement.

**`DiskWipe`** is `disk-wipe-bench`: `mpc` walks through `main`; `w[g]` is the
worker of GPU `g`; `disk` is what the devices hold. A unit labelled from a seed
for absolute position `u` is `<<seed, u>>`. Others may mount or claim a device
(`holder`) at any moment; the kernel's exclusive-claim rule (`CanClaim`) is
external and modelled from how `O_EXCL` is used. `Crash` kills the process
anywhere; `BeginRun` starts it again, on disks as they were left. A device in
`Volatile` has a write cache: `disk` is what a read returns, `medium` what is
safe. `CommandLines` is what the parser of `main` lets through. `WorkItems` is what
the scheduling loop gives a GPU: for each pass the range `RangeOff` / `RangeLen` of
one disk, largest first (equal disks in any order; `Ascending` keeps a team's
disks in that order). `Flush` is the worker's `fsync` at the end of an item, whose result the
code ignores; `PowerLoss` may strike at any time and loses any of the units that
only the cache holds. The renderer thread is joined after the workers, before
the report.

**`NodeCipher`** is what the hashes are fed. Memory is cut into 16-byte pieces;
a label is a term that records which pieces were absorbed, in which order, under
which key and by which rounds. The node index is the exception: its eight bytes
are computed by shifts, big-endian as in the code, and on the device from two
byte-swapped words. The sequences of round instructions of
both AES back ends, for each the single chain's and the four-wide one's
(`AesRounds`, `AesRounds4`), of both SHA-256 compressors (as the words each round
consumes) and of the device's BLAKE3 are written out as the code issues them and
compared with the standards' order.

**`NodeHash`** runs the label functions in the threads of a process.
`ensure_keys` takes no lock: `EnsureKeys` is the acquire load and, if the flag is
unset, the stores of both keys, which go to the thread's store buffer. `Drain`
makes any one of them visible, in any order, and `PublishKeys`, the release
store, waits for all of them. A read that races with a store may return the old
or the new word (`WordReads`), so two threads deriving at the same time is a
race the model lets happen. `HashAes` takes groups of four with the interleaved
routine and the rest one by one, through the thread's round-key cache, and
stores no label before all are computed. `CallAssumption` says what a call hands
over: 64-bit node indices, and one 32-byte predecessor label, or `NULL`, for each.

The `MC*` modules choose command lines, calls and sizes. The operators named
`Mut...` are deliberately wrong variants of a definition, each placed before
the definition it alters; no specification uses them. Each shows that one
property can fail.

## 3. Runs

| run | module / cfg | what it shows |
|---|---|---|
| `pool` | `MCChunkPool` | `RoundBarrier`, `WorkDisjoint`, `NoLostWakeup`, `FreedPoolUnused`, `LabelsExact`, `SuccessIsComplete`, the inductive invariant `PoolInv`, and that the pool implements `RegionLabel` |
| `pool-live` | `MCChunkPool` / `MCChunkPoolLive.cfg` | every call returns, every shutdown completes |
| `spawn` | `MCSpawnRegion` | no thread outlives its round, also when a creation fails; after a partial round each chunk is wholly labelled, if it ran, or wholly untouched; implements `RegionLabel`; calls return |
| `emit` | `MCLabelEmit` | all three emitters produce `LabelGraph`'s graph, canonical predecessor order, the right output set and challenge answers; the arena's high-water mark; both copies line up; what is delivered is an `EdgeList` |
| `kernel` | `MCGpuKernel` | no live label is overwritten; all strategies persist the CPU's labels; `pool_size` is the peak number of live nodes |
| `gpu-run` | `MCGpuRun` | untouched or right super-chunks, complete on success, scratch released (and zeroed on success), the call returns; implements `RegionLabel` |
| `wipe` | `MCDiskWipe` | ranges tile every disk, exclusive use, nothing written before all is validated and confirmed, the run ends |
| `wipe-restart` | `MCDiskWipe` / `MCDiskWipeRestart.cfg` | after kills, power failures, errors and re-runs: labels only in their own place, exit 0 means wiped and (unless an `fsync` failed unnoticed) on the medium, a complete verification tells |
| `hash` | `MCNodeHash` | a thread past `ensure_keys` never reads half a key; every label is made from the right message under the right key, on every build, in batches of every kind, on the device, after any earlier call |
| `emit-doc`, `gpu-run-doc`, `wipe-doc` | `*Doc.cfg` | three statements of the documentation that the code does not keep (section 6) |

`pool` checks the type invariant as a conjunct of `PoolInv`; that of the emitters,
`EmitTypeOK`, is proved (section 4) and checked by no run.

Deadlock is checked everywhere but in `wipe-restart` and `hash`, where the bound
on the number of runs or calls ends the behaviour (and in `hash` an AES label on
a build without AES instructions aborts the process). (In `wipe` others can always mount or
unmount, so that the bound on runs is no deadlock there.)

### Bounds and why they are enough

* `pool`: three threads (two workers and the caller), the least number in which
  two workers compete for the mutex while the caller posts or waits. Chunks of
  two blocks, `GraphMaxM = 2`. Twelve calls: several rounds with a short last
  chunk, a last round smaller than the first, refused chunks in the only and in the first of two rounds, a caller-only
  round, tails, full and short waves, every argument error. Any number of calls
  and pool lifetimes: no bound on the length of a behaviour.
* `spawn`: four threads, so that a creation can fail after none, one or two.
* `emit`: sizes 0 to 9, 13, 16, 17, `GraphMaxM = 32` and one above, i.e. all
  residues near powers of two and graphs up to level 5. `ArenaFactor = 16` as in
  the code; batches of 3 so that they do not divide the widths. Challenges 2
  and 16: in either half of the output set or beyond it, depending on the size.
* `kernel`: sizes 1, 2, 3, 4, 6, 8; three lanes, so that a level is wider than
  the lanes and does not divide evenly.
* `gpu-run`: up to five super-chunks, a cap of three, 0 to 4 regions of free
  memory: single, several and short last batches, and every halving.
* `wipe`: super-chunks of two units; disks of seven and five units (both with a
  tail), a partition, a device with an unfit sector size, one that is too small
  and a file; up to three GPUs; one run.
* `wipe-restart`: three runs, on disks of five and three units, the first with a
  write cache: two GPUs share it, and all mixtures of old, new and lost units
  occur.
* `hash`: two threads, two words per key, two calls each: enough for a thread to
  hash while the other still stores, and for a second call to find a cache of
  another seed. `Radix = 2` puts the 32-bit boundary of the node index at 16, and
  the calls straddle it. Batches of one, two, four and six nodes: below, at and
  above the group of four. All three builds.

### Fairness

* `ChunkPool`: weak fairness of each thread's own steps (threads are scheduled
  and the sink returns), strong fairness of mutex acquisition: the mutex is free
  again and again, not continuously, since spurious wakeups let others take it.
  No fairness on the client's decisions, spurious wakeups or failures.
* `SpawnRegion`, `GpuRun`, `DiskWipe`: weak fairness of the calling thread, the
  threads or device lanes, and main (with the renderer). Nothing is promised to
  succeed. Crashes, power failures, mounts and new runs are never forced.
* `NodeHash` states no liveness: its threads never wait for one another.

## 4. Proofs

Every theorem holds for all values of the constants that the named assumptions
allow; TLC evaluates the assumptions on the runs. Each specification has one
inductive invariant, one lemma per action (or per action and conjunct), and
theorems that read the checked properties off it.

### Plan of a call: `DivisionFacts`, `ChunkPlan_proofs`

The provers do not divide by a parameter, so `DivisionFacts` states once what
`\div` and `%` by a positive number give (uniqueness, monotony, multiples,
minima), and what a loop of `n` rounds leaves (`LoopRun`, `LoopStates`: the one
induction over its rounds that all proofs about loops share). `ChunkPlan_proofs` uses it to show, for every chunk size, length, offset
and number of threads, that entry `i` of the round at chunk `k` is chunk `k + i` of
the call, cut at the end of the region, with the labels the verifier expects
(`ArgIsRight`), that chunks of a round do not meet (`BlocksApart`), that a round
leaves no gap (`RoundCovers`) and that the last one ends the region. The proofs of
the pool and of the spawning labellers share these.

### Pool: `ChunkPool_proofs`

For every `RegionThreads >= 2` (one worker and the caller at least), every
`HashBytes`, `DefaultChunkBlocks`, `GraphMaxM >= 1`, every set of calls of the type
`CallType` and every nonzero `SinkErr` (`PlanAssumption`, `SinkAssumption`):

| theorem | states |
|---|---|
| `PoolInvariant` | `Spec => []PoolInv` |
| `Typing` | `Spec => []TypeOK` |
| `Barrier` | `Spec => []RoundBarrier` |
| `WakeupsArrive` | `Spec => []NoLostWakeup` |
| `FreeIsSafe` | `Spec => []FreedPoolUnused` |
| `DisjointWork` | `Spec => []WorkDisjoint` |
| `LabelsAreExact` | `Spec => []LabelsExact` |
| `SuccessMeansComplete` | `Spec => []SuccessIsComplete` |
| `PoolKeepsPromise` | `Spec => ImplementsRegionLabel` |

Who may work when is

    PoolInv == TypeOK /\ MutexInv /\ LifecycleInv /\ JobsInv /\ CountInv
               /\ ArgsInv /\ NoLostWakeup

`RoundBarrier` is not inductive: that the caller leaves the barrier says
something about the workers only through `CountInv`, which ties `n_done` to the
number of outstanding workers (`n_done + Cardinality(Outstanding) = n - 1`).
That equation survives a `WorkerCount` only if the worker was outstanding and a
`SubmitJobs` only if none was, hence `JobsInv` (a job is posted only to its own
worker, never to a busy one). That a test of `jobs[w]` and the sleep that
follows are not separated by a submission is `MutexInv`. `LifecycleInv` excludes
a shutdown during a call. `WorkDisjoint` then follows from `ArgsInv` (private
buffers, consecutive blocks) by `BlocksApart`.

What has been written is `DataInv == RoundInv /\ LabelsExact /\ SuccessIsComplete`.
`RoundInv` knows the first chunk `k` of the round, that all blocks before it are
labelled, and which chunks of the round are `Done`: those whose job was taken and
finished, and the caller's once it has moved on. A job that is done with `rc = 0`
has its output in place; at the barrier `PoolInv` makes every job done, the scan
of `args[]` makes every `rc` 0, and `RoundCovers` moves the frontier to the next
round. A slot between labelling and sink still holds the chunk of its own entry.

The refinement maps a pool step that writes a chunk to `RegionLabel`'s step that
makes a chunk appear, the return to its end, everything else to a stutter.

### Thread per chunk: `SpawnRegion_proofs`

| theorem | states |
|---|---|
| `SpawnInvariant` | `Spec => []SpawnInv` |
| `NoStrayThreadEver` | `Spec => []NoStrayThread` |
| `PartialRoundsAreClean` | `Spec => []PartialRoundIsClean` |
| `SpawnKeepsPromise` | `Spec => ImplementsRegionLabel` |

`SpawnInv` says which threads exist (exactly those below `launched`, and all but
the last if no creation failed), since only then does joining `launched` threads
leave none, and, as for the pool, what each finished entry has left in the region.
`PartialRoundIsClean` follows from it, chunk by chunk (`RoundIsClean`): by
`RoundExtent` of `ChunkPlan_proofs` a block below the frontier is in the entry its
number says, which is done if it was launched, and the last is done only if all
were; what a refused, skipped or later chunk covers is as it was before the call.

### GPU runner: `GpuRun_proofs`

For every cap on the pool, every amount of free memory and all buffers
(`RunAssumption`):

| theorem | states |
|---|---|
| `GpuInvariant` | `Spec => []GpuInv` |
| `Typing` | `Spec => []TypeOK` |
| `BufferIsExact` | `Spec => []BufferExact` |
| `ScratchIsReleased` | `Spec => []ScratchReleased` |
| `GpuKeepsPromise` | `Spec => ImplementsRegionLabel`, if no buffer is empty |

That a super-chunk is right rests on the seeds on the device being those of the
batch it works on, which rests on the host not uploading the next batch's while
an entry still runs (`running # {} => pc = "sync"`). `GpuKeepsPromise` has a hypothesis: the CPU
refuses an empty buffer and the GPU returns 0 for it. The tool never passes one,
as it labels a window only if `win > 0`.

### disk-wipe-bench: `DiskWipe_proofs`

For all devices of natural sizes, any super-chunk size, any GPUs, and all command
lines the parser of `main` lets through (`DiskAssumption`, `ConfigAssumption`: sizes
are unsigned, GPU ordinals distinct and not negative, the team size any integer):

| theorem | states |
|---|---|
| `DiskInvariant` | `Spec => []DiskInv` |
| `Typing` | `Spec => []TypeOK` |
| `TargetsAreExclusive` | `Spec => []Exclusive` |
| `RangesArePartition` | `Spec => []RangesPartition` |
| `WritesAreValidated` | `Spec => ValidatedBeforeWrite` (an action property) |
| `LabelsAreInPlace` | `Spec => []LabelsInPlace` |
| `ExitZeroWiped` | `Spec => []ExitZeroMeansWiped` |
| `ExitZeroDurable` | `Spec => []ExitZeroMeansDurable` |
| `VerifyOkWiped` | `Spec => []VerifyOkMeansWiped` |

The first part is about the schedule alone: the ranges of a disk are whole
super-chunks, each begins where the one before ends and the last ends the disk;
teams divide the disks and members of a team divide each disk. So every
super-chunk is in some GPU's items (`ItemsCover`) and in no two (`ItemsDisjoint`),
for every order the sort may give to equal disks.

The inductive invariant is

    MainParts == MainInv /\ Exclusive /\ ItemsInv
    DataParts == WorkersInv /\ StorageInv /\ WrittenInv /\ ResultInv
    DiskInv   == MainParts /\ DataParts /\ VerifyInv

`ExitZeroMeansWiped` speaks of the exit only. To get there, `WrittenInv` follows
each worker that has met no error: the items before the current one are wiped, the current one
up to its `Frontier`, which `pwrite_all` moves in the middle of a slice. That the
written bytes are right is `WorkersInv`: window and slice hold the labels of the
positions the worker has reached. That nobody undoes it is `Keeps`: since all
positions are absolute, what another worker writes at a place is the same label,
and a flush only copies labels from the cache to the medium. (A power failure may
undo writes, but it also ends the run, which then claims nothing.)
`ItemsInv` keeps the schedule's coverage until the join, so that all workers done
without error means all targets are wiped (`ResultInv`). For the medium the same holds for the items that
are flushed, if no `fsync` failed. `StorageInv` is `LabelsInPlace` for both
stores: a power failure may bring any unit back to what the medium has, so the
invariant of the disk needs that of the medium. `VerifyInv` is about a
verification with as many samples as super-chunks: sample `k` is then super-chunk
`k`, so no mismatch after `vk` samples means a wiped prefix.
`Exclusive` holds because the claims are held from open to exit.

### Emitters: `EdgeList_proofs`, part 1

For every set of block counts, every `GraphMaxM >= 1`, every batch size and every
`ArenaFactor >= 6.5` (`EmitAssumption`; the code has 16):

| theorem | states |
|---|---|
| `EmitInvariant` | `EmitSpec => []EmitInv` |
| `EmitTyping` | `EmitSpec => []EmitTypeOK` |
| `ArenaSuffices` | `EmitSpec => []ArenaHighWater` |
| `CopiesLineUp` | `EmitSpec => []HalvesLineUp` |
| `CanonicalOrder` | `EmitSpec => []PredsCanonical` |
| `RecorderDelivers` | `EmitSpec => []EdgeListDelivered` |

None of these properties says anything of what is still to come, and `todo` is a
stack of any depth. The invariant therefore gives every pending piece of work a
meaning that does not depend on how it will be carried out: `Leads(K, t, x, y)` says that
the C call or loop `t`, started at the point `x` (next id, top of the arena, set of
possible memories), ends at the point `y`. For a C function that is its contract
(`Call`): it emits as many nodes as the node-count formula says, takes at most
its `peak` of the arena and gives it back, leaves its outputs in ascending order of
id at their place, and changes nothing else below the top of the arena. For a
loop it also says how far it has come. `Runs` chains these along a sequence, and

    EmitInv == NoCall \/ Refused \/ (Accepted /\ (InLeft \/ InRight \/ Finished))

says that the work on `todo` up to the end of the copy leads from the present
state to the end of that copy (`InProgress`), with its labels in its base array.
The invariant is inductive because the body of each function, as the action that
enters it pushes it, keeps the function's own contract, given those of the
functions it calls: one lemma per body (`ConnectorRuns`, `MergedRuns`, `StandaloneRuns`, `ConnectedRuns`).
So the recursion of the code needs no induction here: each action only trades one
promise for the promises of the parts. What makes the parts fit is the
arithmetic of the node counts and of the peaks (for a graph of `w` inputs 13/4 `w` words,
14/4 if it is connected, 8/4 for a connector, 16/4 for a merged center; a copy has
`w = 2 * half_w`, hence 6.5 `half_w`), and `Paired`: the two partners `i` and `i ^ bit` of a butterfly are different columns, of
which the one without the bit comes first. That, with base arrays in
ascending order, is why the in-place labeller may order pairs by position.

Since the outputs are ranks of two ascending arrays with separate ids, they are different
nodes for every `m`, not only for powers of two. `RecorderDelivers` is what part
2 assumes of the graph (`IsEdgeList`), so that assumption is met by the code that
produces it.

### Slots and kernels: `EdgeList_proofs`, part 2

For any chunk sizes, any number of lanes, and every graph that is an edge list
(`KernelAssumption`, `EdgesAssumption`):

| theorem | states |
|---|---|
| `TopologySound` | levels order predecessors before readers, buckets list each level once, no two live nodes share a slot, `pool_size` is the peak of live nodes |
| `KernelInvariant` | `Spec => []KernelInv` |
| `Typing` | `Spec => []TypeOK` |
| `LiveLabels` | `Spec => []LiveLabelsIntact` |
| `PersistedLabels` | `Spec => []PersistExact` |
| `PoolPeak` | `Spec => []PoolIsPeak` (the bound `8 * half_w` also uses `WidthAssumption`) |

`TopologySound` is about `SlotMap` alone. Each of its loops is followed with
`LoopRun`: the level table, the buckets of the counting sorts, the nodes of a
level taking slots (`TakeLoop`), the levels of the graph (`LevelLoop`). The
invariant of the last, `LevelInv`, says that held slots are those of the live
nodes, that the stack holds the other slots below `next`, none twice, and that
`next` grows only when all slots are held: hence the peak.

The inductive invariant of the kernels is

    KernelInv == TopoInv /\ (Idle \/ RunInv)
    RunInv    == ... /\ LaneInv /\ ScratchInv /\ PersistInv

`LiveLabelsIntact` speaks of the levels before the current one. That a store of the
current level does not destroy such a label follows from `TopologySound` (the writer and
the live node share a level at which both are alive); that the label is there
after the barrier needs to know what the lanes of the level have already stored,
which is in `ScratchInv`, and that at the barrier they have stored all of it:
the positions `l, l + W, l + 2W, ...` of the lanes (`Owns`) cover the level, and a
lane has left a position only by storing it (`LaneInv`). `PersistInv` does the
same for the copies into the persisted region.

### Keys and labels: `NodeHash_proofs`

For any set of threads, keys of any number of words, any calls and any byte radix
of two or more (`HashAssumption`, `CallAssumption`, `RadixAssumption`):

| theorem | states |
|---|---|
| `KeysWholeForReaders` | `Spec => []KeysNeverTorn` |
| `CacheStaysSound` | `Spec => []CacheSound`: cached round keys belong to the seed they are filed under |
| `LabelsAreRight` | `Spec => []LabelsRight` |

`KeysNeverTorn` is not inductive. `KeyInv` adds that a thread about to publish has
each word in memory or still in its buffer, so that the release store finds
memory whole (`ready => KeysWhole`), and that nobody ever stores anything but
the derived words: a second thread that derives late overwrites each word with
the same value, which is why the race is harmless.

`LabelsRight` holds because of three things at once, and its inductive invariant
is `KeyInv /\ CacheInv /\ HashInv`. `KeyInv` makes the keys that BLAKE3 reads whole, `CacheInv`
makes the AES round keys those of the call's own seed, and `HashInv` says of each
thread that the labels computed so far are the first labels of its call, that
only an AES call stops between groups, and that nothing is stored before all are
there. Below it lie lemmas without state:

* the index: the eight shifted bytes read back, big-endian, as the index
  (`IndexReads`), and so do the device's two byte-swapped halves (`DeviceIndex`), for
  every 64-bit index;
* the rounds: AddRoundKey before SubBytes or after MixColumns, in nine rounds and a
  last one, in the single chain and in the four-wide one, each transcribed by itself
  (`AesRoundsStandard`), the ring of four message registers that replaces the
  64-word schedule (`ShaRoundsStandard`), and the permutation between rounds that
  replaces the table of schedules (`GpuScheduleStandard`);
* the messages: which piece of memory each block of a message holds, whatever the
  predecessors (`AesMessage`, `NodeMessage`, `CpuBlocks`, `DeviceBlocks`).

### Only model-checked

* Liveness (`CallReturns`, `ShutdownCompletes`, `RunEnds`): the prover has no rules
  for fairness and `ENABLED`.
* `GraphExact` and `OutputSetExact`: that the emitters produce exactly the graph of
  `LabelGraph`, and all three the same one. They compare the machine with a
  recursive construction, for every recursion depth: induction over data, with
  `RECURSIVE` operators the prover cannot use. The `emit` run checks both up to level 5.
* `WidthAssumption`, on the number of live nodes per level of that graph, for the
  same reason; the `kernel` run evaluates it, and `EdgesAssumption`, for its sizes on
  `LabelGraph`, and the `emit` run shows that the edge recorder produces `LabelGraph`.

## 5. Abstractions

* Labels are what determines them; the hash functions are injective by
  abstraction. In `NodeHash` they are terms: which message, key, rounds and
  flags, in which order. That the CPU's and the device's BLAKE3, the two AES and
  the two SHA-256 back ends agree is checked at that level; the arithmetic
  inside a round, and the vendored BLAKE3 library, are not modelled.
* `NodeHash` orders memory by C11's release and acquire only; the stores of the
  keys, being plain, may reach memory in any order. Mixtures of bytes within a
  word are covered because all stores of a word store the same value.
* A chunk is labelled in one step in `ChunkPool` and `SpawnRegion`. This is
  sound because chunks at work share nothing (`WorkDisjoint`), which is proved;
  the steps inside are `LabelEmit`'s.
* A kernel's work on one super-chunk is one step in `GpuRun`; the steps inside
  are `GpuKernel`'s. Super-chunks have disjoint scratch regions.
* In `GpuRun` a dead kernel is over when the error is reported.
* In `DiskWipe` a write the device accepts is in its cache or, without one, on
  the medium. `fsync`'s result is ignored by the code, so `ExitZeroMeansDurable`
  has as premise that no `fsync` failed: without it the statement would be
  false. Sizes are in units of half a super-chunk. `/proc/mounts` is read in one step.
* The client of a pool is one thread: the pool has one `jobs[]` and one pair of
  counters, and every caller in the repository uses it so.
* Widths: block, chunk and byte counts are 64-bit in the code and cannot wrap
  for regions that exist, so they are natural numbers here.

## 6. Where code and documentation differ

1. `docs/labeling-explained.md:190` says the right copy contributes the *first
   half* of its base outputs; `graph.c:638` takes the second half, in all paths
   alike (`emit-doc`). The code is consistent with itself and with
   `docs/common-library.md`.
2. `gpu_label.h:34` says the work buffer is zeroed and freed before the call
   returns; after a CUDA error it is freed with labels in it. In the run
   (`gpu-run-doc`) LEVEL's label kernels have run and the launch of the kernel that
   persists their outputs fails (`label_gpu_level.cu:289`); in the other three
   strategies a failed synchronisation or a failed later batch does the same.
3. `disk_wipe_bench.cu:294` and the tool's README say the first and the last
   super-chunk are always sampled; with `--verify 1` only the first is
   (`wipe-doc`).
4. The comment at `test_slot_map.c:14-17` says output nodes have a sentinel slot and
   are excluded from the pool; `graph.h:327-331`, the code and the checks of that
   very test give every node a slot. `Topology` follows the code. No run: nothing
   in the program depends on the comment.

## 7. Not modelled

The arithmetic inside a round of the hash primitives and the vendored BLAKE3:
functions without state, whose tests compare them with known answers.
`pose_gpu_label_node_single`, a test hook around the device's `label_node`.
`bench_region.c`, `disk_calc.py`, `run-matrix.sh`, the rows and figures of the
live dashboard and the command-line parser of `disk-wipe-bench`: timing,
estimates and text. Tests and build files.

## 8. Plan

Done: all the modules above and the proofs of section 4: the plan of a call, the
pool, the spawning labellers, the GPU runner, the emitters, the slot map and the
kernels, the label hashes, and the schedule and the whole of `DiskWipe`.

Left: that the emitters produce the graph of `LabelGraph` for every chunk size. The
contracts of `EmitInv` would have to name the predecessor lists a call emits, as
functions of its inputs, and `LabelGraph` would have to be restated with recursive
functions. The same reformulation would let the width of the graph be bounded.
