----------------------------- MODULE ChunkPool -----------------------------
(***************************************************************************)
(* The thread pool of common/src/graph.c and the three operations that run  *)
(* on it: pose_graph_pool_create, pose_graph_pool_destroy,                  *)
(* pose_graph_label_region_pooled, pose_graph_label_region_pooled_inplace   *)
(* and pose_graph_label_disk_wave.                                          *)
(*                                                                          *)
(* One client thread (the caller) creates the pool, makes any number of     *)
(* calls and destroys it.  A call runs rounds of up to RegionThreads        *)
(* chunks: chunks 0..n-2 go to workers 0..n-2 through jobs[], chunk n-1     *)
(* runs on the caller, which then waits until n_done reaches n_expected.    *)
(*                                                                          *)
(* Every pthread_mutex_lock is a step of its own, and so is each stretch    *)
(* of a critical section that ends in a wait, an unlock or a store that     *)
(* another thread may see; pthread_cond_wait releases the mutex and sleeps  *)
(* in one step and may wake without a signal.                               *)
(***************************************************************************)
EXTENDS ChunkPlan

CONSTANT SinkErr             \* a nonzero return code of the client's sink

ASSUME SinkAssumption == SinkErr \in Int \ {0}

Workers == 0 .. RegionThreads - 2
Caller  == RegionThreads - 1         \* the caller as an owner of the mutex
Free    == -1                        \* the mutex is not held
NULL    == -1                        \* an empty entry of jobs[]

VARIABLES
  \* struct pose_graph_pool, and how many of its threads have been created
  up, created, mutex, jobs, n_done, n_expected, shutdown,
  \* worker threads: program counter and the local variable job
  pc, job,
  \* the caller: program counter and the locals of the call in progress
  cpc, call, block, n, args, rc,
  \* memory the chunks write: the region, the wave's slots, and the extents
  \* the sink has written during this call
  region, slots, disk

poolVars   == <<up, created, mutex, jobs, n_done, n_expected, shutdown>>
workerVars == <<pc, job>>
callVars   == <<call, block, n, args, rc>>
memVars    == <<region, slots, disk>>
vars       == <<poolVars, workerVars, cpc, callVars, memVars>>

----------------------------------------------------------------------------
Init ==
  /\ up = FALSE /\ created = 0 /\ mutex = Free
  /\ jobs = [w \in Workers |-> NULL]
  /\ n_done = 0 /\ n_expected = 0 /\ shutdown = FALSE
  /\ pc = [w \in Workers |-> "none"]
  /\ job = [w \in Workers |-> NULL]
  /\ cpc = "idle"
  /\ call = NoCall /\ block = 0 /\ n = 0 /\ rc = 0
  /\ args = [i \in Threads |-> Unused]
  /\ region = [b \in RegionBlocks |-> Old]
  /\ slots = [i \in Threads |-> Unused]
  /\ disk = {}

----------------------------------------------------------------------------
(* pthread primitives.                                                      *)

Lock(t) == mutex = Free /\ mutex' = t
Unlock  == mutex' = Free

\* pthread_cond_broadcast(&pool->work_cond): wakes every sleeping worker.
Broadcast == [w \in Workers |-> IF pc[w] = "sleep" THEN "woken" ELSE pc[w]]

\* pthread_cond_signal(&pool->done_cond): the caller is its only waiter.
Signalled == IF cpc = "sleep" THEN "woken" ELSE cpc

WorkerGoto(w, l) == pc' = [pc EXCEPT ![w] = l]

----------------------------------------------------------------------------
(* chunk_thread_fn on args[i], in two steps: label into the output buffer   *)
(* (the region, or slot i of a wave), then hand the buffer to the sink.     *)

\* do_label / do_label_inplace succeeds.
LabelChunk(i) ==
  LET a == args[i]
  IN  /\ CanLabel(a.m)
      /\ IF call.op = "wave"
         THEN /\ slots' = [slots EXCEPT ![a.buf] = a]
              /\ UNCHANGED region
         ELSE /\ region' = WriteChunk(region, a)
              /\ UNCHANGED slots
      /\ UNCHANGED <<args, disk>>

\* It refuses the chunk; the sink is then not called.
RefuseChunk(i) ==
  /\ ~CanLabel(args[i].m)
  /\ args' = [args EXCEPT ![i].rc = -1]
  /\ UNCHANGED memVars

\* wt_sink(wt_ctx, out, wt_len, wt_off) writes what the slot holds now.
Extent(i) ==
  LET s == slots[args[i].buf]
  IN  [off |-> args[i].off, len |-> call.wlen, chunk |-> s.chunk, m |-> s.m]

SinkChunk(i) ==
  \/ /\ disk' = disk \cup {Extent(i)}
     /\ UNCHANGED <<args, region, slots>>
  \/ /\ args' = [args EXCEPT ![i].rc = SinkErr]
     /\ UNCHANGED memVars

HasSink == call.op = "wave"

----------------------------------------------------------------------------
(* pool_worker_fn                                                           *)

\* pthread_mutex_lock on entry, on waking from work_cond, or after a chunk.
WorkerLock(w) ==
  /\ pc[w] \in {"entry", "woken", "finish"}
  /\ Lock(w)
  /\ WorkerGoto(w, IF pc[w] = "finish" THEN "count" ELSE "test")
  /\ UNCHANGED <<up, created, jobs, n_done, n_expected, shutdown, job, cpc,
                 callVars, memVars>>

\* Mutation of WorkerFindsNothing: the mutex is released before the wait.
MutWorkerFindsNothing(w) ==
  /\ pc[w] = "test"
  /\ ~shutdown /\ jobs[w] = NULL
  /\ Unlock
  /\ WorkerGoto(w, "wait")
  /\ UNCHANGED <<up, created, jobs, n_done, n_expected, shutdown, job, cpc,
                 callVars, memVars>>

\* The while condition holds: the worker is about to wait, mutex still held.
WorkerFindsNothing(w) ==
  /\ pc[w] = "test"
  /\ ~shutdown /\ jobs[w] = NULL
  /\ WorkerGoto(w, "wait")
  /\ UNCHANGED <<poolVars, job, cpc, callVars, memVars>>

WorkerSleep(w) ==
  /\ pc[w] = "wait"
  /\ Unlock
  /\ WorkerGoto(w, "sleep")
  /\ UNCHANGED <<up, created, jobs, n_done, n_expected, shutdown, job, cpc,
                 callVars, memVars>>

\* A wakeup nobody signalled.
WorkerSpuriousWake(w) ==
  /\ pc[w] = "sleep"
  /\ WorkerGoto(w, "woken")
  /\ UNCHANGED <<poolVars, job, cpc, callVars, memVars>>

WorkerTake(w) ==
  /\ pc[w] = "test"
  /\ ~shutdown /\ jobs[w] # NULL
  /\ job' = [job EXCEPT ![w] = jobs[w]]
  /\ jobs' = [jobs EXCEPT ![w] = NULL]
  /\ Unlock
  /\ WorkerGoto(w, "label")
  /\ UNCHANGED <<up, created, n_done, n_expected, shutdown, cpc, callVars,
                 memVars>>

WorkerLabel(w) ==
  /\ pc[w] = "label"
  /\ \/ LabelChunk(job[w]) /\ WorkerGoto(w, IF HasSink THEN "sink" ELSE "finish")
     \/ RefuseChunk(job[w]) /\ WorkerGoto(w, "finish")
  /\ UNCHANGED <<poolVars, job, cpc, call, block, n, rc>>

WorkerSink(w) ==
  /\ pc[w] = "sink"
  /\ SinkChunk(job[w])
  /\ WorkerGoto(w, "finish")
  /\ UNCHANGED <<poolVars, job, cpc, call, block, n, rc>>

\* Mutation of WorkerCount: the signal is sent one completion too late.
MutWorkerCount(w) ==
  /\ pc[w] = "count"
  /\ n_done' = n_done + 1
  /\ cpc' = IF n_done + 1 > n_expected THEN Signalled ELSE cpc
  /\ job' = [job EXCEPT ![w] = NULL]
  /\ WorkerGoto(w, "test")
  /\ UNCHANGED <<up, created, mutex, jobs, n_expected, shutdown, callVars,
                 memVars>>

\* ++n_done, and the signal when that completes the round.
WorkerCount(w) ==
  /\ pc[w] = "count"
  /\ n_done' = n_done + 1
  /\ cpc' = IF n_done + 1 >= n_expected THEN Signalled ELSE cpc
  /\ job' = [job EXCEPT ![w] = NULL]
  /\ WorkerGoto(w, "test")
  /\ UNCHANGED <<up, created, mutex, jobs, n_expected, shutdown, callVars,
                 memVars>>

WorkerExit(w) ==
  /\ pc[w] = "test"
  /\ shutdown
  /\ Unlock
  /\ WorkerGoto(w, "exited")
  /\ UNCHANGED <<up, created, jobs, n_done, n_expected, shutdown, job, cpc,
                 callVars, memVars>>

----------------------------------------------------------------------------
(* pose_graph_pool_create and pose_graph_pool_destroy                       *)

\* calloc, mutex and condition variables: the pool's fields are zero.
CreatePool ==
  /\ cpc = "idle" /\ ~up
  /\ up' = TRUE /\ created' = 0 /\ shutdown' = FALSE
  /\ jobs' = [w \in Workers |-> NULL]
  /\ n_done' = 0 /\ n_expected' = 0
  /\ cpc' = "create"
  /\ UNCHANGED <<mutex, workerVars, callVars, memVars>>

\* One turn of the loop: the thread starts, or its creation fails and the
\* pool is torn down again.
CreateWorker ==
  /\ cpc = "create" /\ created \in Workers
  /\ created' = created + 1
  /\ WorkerGoto(created, "entry")
  /\ UNCHANGED <<up, mutex, jobs, n_done, n_expected, shutdown, job, cpc,
                 callVars, memVars>>

CreateWorkerFails ==
  /\ cpc = "create" /\ created \in Workers
  /\ cpc' = "shutdown_lock"
  /\ UNCHANGED <<poolVars, workerVars, callVars, memVars>>

CreateReturns ==
  /\ cpc = "create" /\ created \notin Workers
  /\ cpc' = "idle"
  /\ UNCHANGED <<poolVars, workerVars, callVars, memVars>>

DestroyPool ==
  /\ cpc = "idle" /\ up
  /\ cpc' = "shutdown_lock"
  /\ UNCHANGED <<poolVars, workerVars, callVars, memVars>>

ShutdownLock ==
  /\ cpc = "shutdown_lock"
  /\ Lock(Caller)
  /\ cpc' = "shutdown"
  /\ UNCHANGED <<up, created, jobs, n_done, n_expected, shutdown, workerVars,
                 callVars, memVars>>

ShutdownSet ==
  /\ cpc = "shutdown"
  /\ shutdown' = TRUE
  /\ cpc' = "shutdown_wake"
  /\ UNCHANGED <<up, created, mutex, jobs, n_done, n_expected, workerVars,
                 callVars, memVars>>

\* Mutation of ShutdownWake: the broadcast is missing.
MutShutdownWake ==
  /\ cpc = "shutdown_wake"
  /\ Unlock
  /\ cpc' = "join"
  /\ UNCHANGED <<up, created, jobs, n_done, n_expected, shutdown, workerVars,
                 callVars, memVars>>

ShutdownWake ==
  /\ cpc = "shutdown_wake"
  /\ pc' = Broadcast
  /\ Unlock
  /\ cpc' = "join"
  /\ UNCHANGED <<up, created, jobs, n_done, n_expected, shutdown, job,
                 callVars, memVars>>

\* Mutation of JoinAndFree: the last thread created is not joined.
MutJoinAndFree ==
  /\ cpc = "join"
  /\ \A w \in Workers : w < created - 1 => pc[w] = "exited"
  /\ pc' = [w \in Workers |-> IF pc[w] = "exited" THEN "none" ELSE pc[w]]
  /\ up' = FALSE
  /\ cpc' = "idle"
  /\ UNCHANGED <<created, mutex, jobs, n_done, n_expected, shutdown, job,
                 callVars, memVars>>

\* The pthread_join loop over the threads that were created, and the free.
JoinAndFree ==
  /\ cpc = "join"
  /\ \A w \in Workers : w < created => pc[w] = "exited"
  /\ pc' = [w \in Workers |-> IF pc[w] = "exited" THEN "none" ELSE pc[w]]
  /\ up' = FALSE
  /\ cpc' = "idle"
  /\ UNCHANGED <<created, mutex, jobs, n_done, n_expected, shutdown, job,
                 callVars, memVars>>

----------------------------------------------------------------------------
(* The labelling operations.  cpc = "return" is the moment of the return    *)
(* statement, with the return value in rc.                                  *)

\* The client passes a region whose contents are its own business (Old) and
\* a device on which nothing has been written for this call yet.
BeginCall(c) ==
  /\ cpc = "idle" /\ up
  /\ call' = c /\ block' = 0 /\ n' = 0
  /\ rc' = IF BadArgs(c) THEN -1 ELSE 0
  /\ cpc' = IF ~BadArgs(c) /\ HasChunk(c, 0) THEN "fill" ELSE "return"
  /\ region' = [b \in RegionBlocks |-> Old]
  /\ disk' = {}
  /\ UNCHANGED <<poolVars, workerVars, args, slots>>

\* The loop that fills args[0..n-1]; entries from n on keep what they had.
FillRound ==
  /\ cpc = "fill"
  /\ n' = RoundSize(call, block)
  /\ args' = [i \in Threads |->
                IF i < n' THEN ChunkArg(call, block, i) ELSE args[i]]
  /\ block' = NextBlock(call, block)
  /\ cpc' = IF n' > 1 THEN "submit_lock" ELSE "label"
  /\ UNCHANGED <<poolVars, workerVars, call, rc, memVars>>

SubmitLock ==
  /\ cpc = "submit_lock"
  /\ Lock(Caller)
  /\ cpc' = "submit"
  /\ UNCHANGED <<up, created, jobs, n_done, n_expected, shutdown, workerVars,
                 callVars, memVars>>

\* Mutation of SubmitJobs: n_done keeps the count of the previous round.
MutSubmitJobs ==
  /\ cpc = "submit"
  /\ n_expected' = n - 1
  /\ jobs' = [w \in Workers |-> IF w < n - 1 THEN w ELSE jobs[w]]
  /\ cpc' = "submit_wake"
  /\ UNCHANGED <<up, created, mutex, shutdown, n_done, workerVars, callVars,
                 memVars>>

SubmitJobs ==
  /\ cpc = "submit"
  /\ n_done' = 0
  /\ n_expected' = n - 1
  /\ jobs' = [w \in Workers |-> IF w < n - 1 THEN w ELSE jobs[w]]
  /\ cpc' = "submit_wake"
  /\ UNCHANGED <<up, created, mutex, shutdown, workerVars, callVars, memVars>>

SubmitWake ==
  /\ cpc = "submit_wake"
  /\ pc' = Broadcast
  /\ Unlock
  /\ cpc' = "label"
  /\ UNCHANGED <<up, created, jobs, n_done, n_expected, shutdown, job,
                 callVars, memVars>>

\* Where the caller goes after its own chunk: the barrier, if it shared work.
AfterOwnChunk == IF n > 1 THEN "await_lock" ELSE "collect"

CallerLabel ==
  /\ cpc = "label"
  /\ \/ LabelChunk(n - 1) /\ cpc' = IF HasSink THEN "sink" ELSE AfterOwnChunk
     \/ RefuseChunk(n - 1) /\ cpc' = AfterOwnChunk
  /\ UNCHANGED <<poolVars, workerVars, call, block, n, rc>>

CallerSink ==
  /\ cpc = "sink"
  /\ SinkChunk(n - 1)
  /\ cpc' = AfterOwnChunk
  /\ UNCHANGED <<poolVars, workerVars, call, block, n, rc>>

AwaitLock ==
  /\ cpc \in {"await_lock", "woken"}
  /\ Lock(Caller)
  /\ cpc' = "await"
  /\ UNCHANGED <<up, created, jobs, n_done, n_expected, shutdown, workerVars,
                 callVars, memVars>>

AwaitBlocks ==
  /\ cpc = "await" /\ n_done < n_expected
  /\ cpc' = "wait"
  /\ UNCHANGED <<poolVars, workerVars, callVars, memVars>>

CallerSleep ==
  /\ cpc = "wait"
  /\ Unlock
  /\ cpc' = "sleep"
  /\ UNCHANGED <<up, created, jobs, n_done, n_expected, shutdown, workerVars,
                 callVars, memVars>>

CallerSpuriousWake ==
  /\ cpc = "sleep"
  /\ cpc' = "woken"
  /\ UNCHANGED <<poolVars, workerVars, callVars, memVars>>

\* Mutation of AwaitDone: the barrier opens one worker early.
MutAwaitDone ==
  /\ cpc = "await" /\ n_done + 1 >= n_expected
  /\ Unlock
  /\ cpc' = "collect"
  /\ UNCHANGED <<up, created, jobs, n_done, n_expected, shutdown, workerVars,
                 callVars, memVars>>

AwaitDone ==
  /\ cpc = "await" /\ n_done >= n_expected
  /\ Unlock
  /\ cpc' = "collect"
  /\ UNCHANGED <<up, created, jobs, n_done, n_expected, shutdown, workerVars,
                 callVars, memVars>>

\* Mutation of FirstError: the caller's own chunk is not looked at.
MutFirstError ==
  LET bad == {i \in Threads : i < n - 1 /\ args[i].rc # 0}
  IN  IF bad = {} THEN 0 ELSE args[Min(bad)].rc

\* rc of the first chunk of the round that failed, 0 if none did.
FirstError ==
  LET bad == {i \in Threads : i < n /\ args[i].rc # 0}
  IN  IF bad = {} THEN 0 ELSE args[Min(bad)].rc

\* Mutation of CollectRound: the next round starts in spite of an error.
MutCollectRound ==
  /\ cpc = "collect"
  /\ rc' = FirstError
  /\ cpc' = IF HasChunk(call, block) THEN "fill" ELSE "return"
  /\ UNCHANGED <<poolVars, workerVars, call, block, n, args, memVars>>

CollectRound ==
  /\ cpc = "collect"
  /\ rc' = FirstError
  /\ cpc' = IF rc' = 0 /\ HasChunk(call, block) THEN "fill" ELSE "return"
  /\ UNCHANGED <<poolVars, workerVars, call, block, n, args, memVars>>

\* The stack frame, args[] with it, is gone.
Return ==
  /\ cpc = "return"
  /\ cpc' = "idle"
  /\ call' = NoCall /\ block' = 0 /\ n' = 0 /\ rc' = 0
  /\ args' = [i \in Threads |-> Unused]
  /\ UNCHANGED <<poolVars, workerVars, memVars>>

----------------------------------------------------------------------------
Worker(w) ==
  \/ WorkerLock(w) \/ WorkerFindsNothing(w) \/ WorkerSleep(w)
  \/ WorkerSpuriousWake(w) \/ WorkerTake(w) \/ WorkerLabel(w)
  \/ WorkerSink(w) \/ WorkerCount(w) \/ WorkerExit(w)

Lifecycle ==
  \/ CreatePool \/ CreateWorker \/ CreateWorkerFails \/ CreateReturns
  \/ DestroyPool \/ ShutdownLock \/ ShutdownSet \/ ShutdownWake \/ JoinAndFree

CallStep ==
  \/ FillRound \/ SubmitLock \/ SubmitJobs \/ SubmitWake
  \/ CallerLabel \/ CallerSink \/ AwaitLock \/ AwaitBlocks \/ CallerSleep
  \/ CallerSpuriousWake \/ AwaitDone \/ CollectRound \/ Return

Next ==
  \/ \E w \in Workers : Worker(w)
  \/ Lifecycle
  \/ \E c \in Calls : BeginCall(c)
  \/ CallStep

Spec == Init /\ [][Next]_vars

\* Every thread keeps running, the sink always returns, and a thread that
\* keeps finding the mutex free gets it.  Nothing makes the client start an
\* operation, and no spurious wakeup is promised.
WorkerProgress(w) ==
  \/ WorkerFindsNothing(w) \/ WorkerSleep(w) \/ WorkerTake(w)
  \/ WorkerLabel(w) \/ WorkerSink(w) \/ WorkerCount(w) \/ WorkerExit(w)

CallerProgress ==
  \/ CreateWorker \/ CreateReturns \/ ShutdownSet \/ ShutdownWake
  \/ JoinAndFree
  \/ FillRound \/ SubmitJobs \/ SubmitWake \/ CallerLabel \/ CallerSink
  \/ AwaitBlocks \/ CallerSleep \/ AwaitDone \/ CollectRound \/ Return

Fairness ==
  /\ \A w \in Workers : WF_vars(WorkerProgress(w)) /\ SF_vars(WorkerLock(w))
  /\ WF_vars(CallerProgress)
  /\ SF_vars(ShutdownLock) /\ SF_vars(SubmitLock) /\ SF_vars(AwaitLock)

FairSpec == Spec /\ Fairness

----------------------------------------------------------------------------
(* Properties.                                                              *)

WorkerPC == {"none", "entry", "test", "wait", "sleep", "woken", "label",
             "sink", "finish", "count", "exited"}

CallerPC == {"idle", "create", "shutdown_lock", "shutdown", "shutdown_wake",
             "join", "fill", "submit_lock", "submit", "submit_wake", "label",
             "sink", "await_lock", "await", "wait", "sleep", "woken",
             "collect", "return"}

\* Every variable has its type; counters and indices stay in range.
TypeOK ==
  /\ up \in BOOLEAN /\ shutdown \in BOOLEAN
  /\ created \in 0 .. RegionThreads - 1
  /\ mutex \in Threads \cup {Free}
  /\ jobs \in [Workers -> Workers \cup {NULL}]
  /\ n_done \in Nat /\ n_expected \in Nat
  /\ pc \in [Workers -> WorkerPC]
  /\ job \in [Workers -> Workers \cup {NULL}]
  /\ cpc \in CallerPC
  /\ call \in Calls \cup {NoCall}
  /\ block \in Nat /\ n \in 0 .. RegionThreads /\ rc \in Int
  /\ args \in [Threads -> ArgType]
  /\ region \in [RegionBlocks -> LabelType]
  /\ slots \in [Threads -> ArgType]
  /\ disk \subseteq [off : Int, len : Int, chunk : Int, m : Int]

\* A worker that has taken a chunk and not yet counted it as done.
Busy(w) == pc[w] \in {"label", "sink", "finish", "count"}

\* The workers the current round still waits for.
Outstanding == {w \in Workers : jobs[w] # NULL \/ Busy(w)}

\* Between the posting of the jobs and the release of the barrier.
InRound ==
  cpc \in {"submit_wake", "label", "sink", "await_lock", "await", "wait",
           "sleep", "woken"}

\* Outside a round no worker holds or is about to take a chunk: the caller's
\* args[] (on its stack), scratch and slots are never reused, and the call
\* never returns, while a worker can still touch them.
RoundBarrier == ~InRound => Outstanding = {}

\* The chunks being worked on right now, by thread.
Active ==
  {<<w, job[w]>> : w \in {v \in Workers : pc[v] \in {"label", "sink"}}}
    \cup (IF cpc \in {"label", "sink"} THEN {<<Caller, n - 1>>} ELSE {})

\* Two threads at work never share an args entry, a scratch buffer, a slot or
\* a block of the region.
WorkDisjoint ==
  \A x, y \in Active :
    x # y => /\ x[2] # y[2]
             /\ args[x[2]].buf # args[y[2]].buf
             /\ call.op # "wave" =>
                  OutBlocks(args[x[2]]) \cap OutBlocks(args[y[2]]) = {}

\* No wakeup is lost: a worker sleeps through a posted job or a shutdown only
\* until the broadcast that is already on its way, and the caller never sleeps
\* once the round is complete.
NoLostWakeup ==
  /\ \A w \in Workers :
       pc[w] = "sleep" /\ (jobs[w] # NULL \/ shutdown)
         => cpc \in {"submit_wake", "shutdown_wake"}
  /\ cpc = "sleep" => n_done < n_expected

\* Whatever happens (refused chunks, failing sinks, any interleaving), a block
\* holds either what it held before the call or exactly the label the verifier
\* expects there, a tail shorter than a super-chunk stays untouched by the
\* in-place operation, and every extent on the device is the right super-chunk
\* at the right offset.
LabelsExact ==
  call # NoCall =>
    /\ \A b \in RegionBlocks :
         region[b] # Old =>
           ~BadArgs(call) /\ b \in CoveredBlocks(call)
           /\ region[b] = Expected(call, b)
    /\ disk \subseteq ExpectedExtents(call)

\* A call that returns 0 has labelled every block, or committed every
\* super-chunk, it was asked for.
SuccessIsComplete ==
  cpc = "return" /\ rc = 0 =>
    /\ \A b \in CoveredBlocks(call) : region[b] = Expected(call, b)
    /\ disk = ExpectedExtents(call)

\* After pose_graph_pool_create has failed or pose_graph_pool_destroy has
\* returned no thread that could touch the freed pool is left, and the mutex
\* it destroyed was not held.
FreedPoolUnused ==
  ~up => (\A w \in Workers : pc[w] = "none") /\ mutex = Free

\* Every call returns: no chunk is forgotten and no one waits for ever.
CallReturns == (call # NoCall) ~> (call = NoCall)

\* Pool destruction, and the clean-up of a creation that failed half way,
\* finish: every worker sees the shutdown.
ShutdownCompletes == (cpc = "shutdown_lock") ~> ~up

----------------------------------------------------------------------------
(* The inductive invariant behind RoundBarrier, NoLostWakeup, WorkDisjoint  *)
(* and FreedPoolUnused.                                                     *)

\* Who holds the mutex can be told from the program counters.
MutexInv ==
  /\ \A w \in Workers : mutex = w <=> pc[w] \in {"test", "wait", "count"}
  /\ mutex = Caller <=> cpc \in {"submit", "submit_wake", "await", "wait",
                                 "shutdown", "shutdown_wake"}

\* Threads exist only in a pool that is up, leave only after a shutdown, and
\* a shutdown is the end of the pool.
LifecycleInv ==
  /\ ~up => cpc = "idle"
  /\ \A w \in Workers : pc[w] # "none" => up /\ w < created
  /\ \A w \in Workers : pc[w] = "exited" => shutdown
  /\ shutdown /\ up => cpc \in {"shutdown_wake", "join"}
  /\ cpc \in {"shutdown_wake", "join"} => shutdown
  /\ call = NoCall <=> cpc \in {"idle", "create", "shutdown_lock", "shutdown",
                                "shutdown_wake", "join"}

\* A job is posted only to the worker whose args entry it is, and never to a
\* worker that is still busy.
JobsInv ==
  \A w \in Workers :
    /\ jobs[w] \in {NULL, w}
    /\ pc[w] \in {"label", "sink"} => job[w] = w
    /\ Busy(w) => jobs[w] = NULL
    /\ pc[w] = "wait" => jobs[w] = NULL /\ ~shutdown
    /\ pc[w] = "sink" => call.op = "wave"

\* The barrier's arithmetic: what is done and what is outstanding add up to
\* what the round posted.
CountInv ==
  /\ Outstanding # {} => InRound /\ n > 1
  /\ cpc \in {"fill", "submit_lock", "submit", "submit_wake", "label", "sink",
              "await_lock", "await", "wait", "sleep", "woken", "collect"}
       => ~BadArgs(call)
  /\ cpc = "fill" => HasChunk(call, block)
  /\ InRound \/ cpc \in {"submit_lock", "submit", "collect"} => n >= 1
  /\ cpc \in {"submit_lock", "submit", "submit_wake", "await_lock", "await",
              "wait", "sleep", "woken"} => n > 1
  /\ cpc = "sink" => call.op = "wave"
  /\ InRound /\ n > 1 =>
       /\ Outstanding \subseteq 0 .. n - 2
       /\ n_expected = n - 1
       /\ n_done + Cardinality(Outstanding) = n - 1
  /\ cpc = "wait" => n_done < n_expected

\* The entries of args[] in use have their own buffers and their own blocks.
ArgsInv ==
  InRound \/ cpc \in {"submit_lock", "submit", "collect"} =>
    \A i \in 0 .. n - 1 :
      /\ args[i].buf = i
      /\ args[i].m <= ChunkBlocks(call)
      /\ call.op # "wave" =>
           args[i].first = args[0].first + i * ChunkBlocks(call)

\* All of it.
PoolInv ==
  TypeOK /\ MutexInv /\ LifecycleInv /\ JobsInv /\ CountInv /\ ArgsInv
  /\ NoLostWakeup

----------------------------------------------------------------------------
(* The pool and its calls implement RegionLabel.                            *)

ChunkFailed == \E i \in Threads : i < n /\ args[i].rc # 0

AsFailed == call # NoCall /\ (BadArgs(call) \/ ChunkFailed)
AsResult == IF cpc # "return" THEN "none" ELSE IF rc = 0 THEN "ok" ELSE "error"

Promise == INSTANCE RegionLabel WITH failed <- AsFailed, result <- AsResult

\* A pooled call keeps the promise of RegionLabel: chunks appear whole, right
\* and only while the call runs; 0 is returned only when all are there, an
\* error only when some part failed.
ImplementsRegionLabel == Promise!Spec
============================================================================
