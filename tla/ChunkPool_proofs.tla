-------------------------- MODULE ChunkPool_proofs --------------------------
(***************************************************************************)
(* Proofs about ChunkPool for every number of threads and every set of      *)
(* calls.                                                                   *)
(***************************************************************************)
EXTENDS ChunkPool, ChunkPlan_proofs, FiniteSetTheorems, TLAPS

----------------------------------------------------------------------------
(* The steps of chunk_thread_fn.                                            *)

\* Storing a return code leaves the rest of args[] alone.
LEMMA SetRcFacts ==
  ASSUME args \in [Threads -> ArgType], NEW i \in Threads, NEW v \in Int
  PROVE  LET new == [args EXCEPT ![i].rc = v]
         IN  /\ new \in [Threads -> ArgType]
             /\ \A k \in Threads : /\ new[k].buf = args[k].buf
                                   /\ new[k].m = args[k].m
                                   /\ new[k].first = args[k].first
BY DEF ArgType

\* What chunk_thread_fn may change: memory stays well formed, and of args[]
\* only the return code changes.
LEMMA ChunkStepFacts ==
  ASSUME TypeOK, NEW i \in Threads,
         \/ LabelChunk(i)
         \/ RefuseChunk(i)
         \/ SinkChunk(i) /\ call.op = "wave" /\ call \in Calls
  PROVE  /\ args' \in [Threads -> ArgType]
         /\ region' \in [RegionBlocks -> LabelType]
         /\ slots' \in [Threads -> ArgType]
         /\ disk' \subseteq [off : Int, len : Int, chunk : Int, m : Int]
         /\ \A k \in Threads : /\ args'[k].buf = args[k].buf
                               /\ args'[k].m = args[k].m
                               /\ args'[k].first = args[k].first
<1> USE DEF TypeOK
<1>1. CASE LabelChunk(i)
  <2>1. args[i] \in ArgType /\ args[i].buf \in Threads
    BY DEF ArgType
  <2>2. region' \in [RegionBlocks -> LabelType] /\ slots' \in [Threads -> ArgType]
    BY <1>1, <2>1, WriteChunkType DEF LabelChunk
  <2> QED BY <1>1, <2>2 DEF LabelChunk
<1>2. CASE RefuseChunk(i)
  <2>1. args' = [args EXCEPT ![i].rc = -1] /\ UNCHANGED memVars
    BY <1>2 DEF RefuseChunk
  <2>2. -1 \in Int
    OBVIOUS
  <2>3. \A v \in Int : LET new == [args EXCEPT ![i].rc = v]
                       IN  /\ new \in [Threads -> ArgType]
                           /\ \A k \in Threads : /\ new[k].buf = args[k].buf
                                                 /\ new[k].m = args[k].m
                                                 /\ new[k].first = args[k].first
    BY SetRcFacts
  <2> QED BY <2>1, <2>2, <2>3 DEF memVars
<1>3. CASE SinkChunk(i) /\ call.op = "wave" /\ call \in Calls
  <2>1. Extent(i) \in [off : Int, len : Int, chunk : Int, m : Int]
    <3>1. call.wlen \in Int
      BY <1>3, PlanAssumption DEF CallType
    <3>2. args[i] \in ArgType /\ args[i].buf \in Threads
      BY DEF ArgType
    <3>3. slots[args[i].buf] \in ArgType
      BY <3>2
    <3> QED BY <3>1, <3>2, <3>3 DEF Extent, ArgType
  <2>2. CASE disk' = disk \cup {Extent(i)} /\ UNCHANGED <<args, region, slots>>
    BY <2>1, <2>2
  <2>3. CASE args' = [args EXCEPT ![i].rc = SinkErr] /\ UNCHANGED memVars
    BY <2>3, SetRcFacts, SinkAssumption DEF memVars
  <2> QED BY <1>3, <2>2, <2>3 DEF SinkChunk
<1> QED BY <1>1, <1>2, <1>3

----------------------------------------------------------------------------
(* PoolInv is preserved by every step, one conjunct at a time.              *)

\* Every step preserves the types.
LEMMA TypeStep ==
  ASSUME PoolInv, [Next]_vars
  PROVE  TypeOK'
<1> USE DEF PoolInv, TypeOK, CallerPC, WorkerPC, CountInv, JobsInv, Workers, Caller, Threads, Free, NULL, Lock, Unlock, WorkerGoto, Broadcast, Signalled, AfterOwnChunk
<1>1. ASSUME NEW w \in Workers, WorkerLock(w) PROVE TypeOK'
  BY <1>1, PlanAssumption DEF WorkerLock, poolVars, workerVars, callVars, memVars
<1>2. ASSUME NEW w \in Workers, WorkerFindsNothing(w) PROVE TypeOK'
  BY <1>2, PlanAssumption DEF WorkerFindsNothing, poolVars, workerVars, callVars, memVars
<1>3. ASSUME NEW w \in Workers, WorkerSleep(w) PROVE TypeOK'
  BY <1>3, PlanAssumption DEF WorkerSleep, poolVars, workerVars, callVars, memVars
<1>4. ASSUME NEW w \in Workers, WorkerSpuriousWake(w) PROVE TypeOK'
  BY <1>4, PlanAssumption DEF WorkerSpuriousWake, poolVars, workerVars, callVars, memVars
<1>5. ASSUME NEW w \in Workers, WorkerTake(w) PROVE TypeOK'
  BY <1>5, PlanAssumption DEF WorkerTake, poolVars, workerVars, callVars, memVars
<1>6. ASSUME NEW w \in Workers, WorkerLabel(w) PROVE TypeOK'
  <2>1. job[w] \in Threads
    BY <1>6, PlanAssumption DEF WorkerLabel, InRound
  <2>2. LabelChunk(job[w]) \/ RefuseChunk(job[w])
    BY <1>6 DEF WorkerLabel
  <2>3. /\ args' \in [Threads -> ArgType]
        /\ region' \in [RegionBlocks -> LabelType]
        /\ slots' \in [Threads -> ArgType]
        /\ disk' \subseteq [off : Int, len : Int, chunk : Int, m : Int]
    BY <2>1, <2>2, ChunkStepFacts
  <2> HIDE DEF Threads
  <2> QED BY <1>6, <2>3 DEF WorkerLabel, poolVars, workerVars, callVars, memVars
<1>7. ASSUME NEW w \in Workers, WorkerSink(w) PROVE TypeOK'
  <2>1. job[w] \in Threads
    BY <1>7, PlanAssumption DEF WorkerSink, InRound
  <2>2. SinkChunk(job[w]) /\ call.op = "wave" /\ call \in Calls
    BY <1>7, CallNotNoCall DEF WorkerSink, NoCall
  <2>3. /\ args' \in [Threads -> ArgType]
        /\ region' \in [RegionBlocks -> LabelType]
        /\ slots' \in [Threads -> ArgType]
        /\ disk' \subseteq [off : Int, len : Int, chunk : Int, m : Int]
    BY <2>1, <2>2, ChunkStepFacts
  <2> HIDE DEF Threads
  <2> QED BY <1>7, <2>3 DEF WorkerSink, poolVars, workerVars, callVars, memVars
<1>8. ASSUME NEW w \in Workers, WorkerCount(w) PROVE TypeOK'
  BY <1>8, PlanAssumption DEF WorkerCount, poolVars, workerVars, callVars, memVars
<1>9. ASSUME NEW w \in Workers, WorkerExit(w) PROVE TypeOK'
  BY <1>9, PlanAssumption DEF WorkerExit, poolVars, workerVars, callVars, memVars
<1>10. ASSUME CreatePool PROVE TypeOK'
  <2>1. 0 \in 0 .. RegionThreads - 1
    BY PlanAssumption
  <2> HIDE DEF Threads, Workers
  <2> QED BY <1>10, <2>1 DEF CreatePool, poolVars, workerVars, callVars, memVars
<1>11. ASSUME CreateWorker PROVE TypeOK'
  BY <1>11, PlanAssumption DEF CreateWorker, poolVars, workerVars, callVars, memVars
<1>12. ASSUME CreateWorkerFails PROVE TypeOK'
  BY <1>12, PlanAssumption DEF CreateWorkerFails, poolVars, workerVars, callVars, memVars
<1>13. ASSUME CreateReturns PROVE TypeOK'
  BY <1>13, PlanAssumption DEF CreateReturns, poolVars, workerVars, callVars, memVars
<1>14. ASSUME DestroyPool PROVE TypeOK'
  BY <1>14, PlanAssumption DEF DestroyPool, poolVars, workerVars, callVars, memVars
<1>15. ASSUME ShutdownLock PROVE TypeOK'
  BY <1>15, PlanAssumption DEF ShutdownLock, poolVars, workerVars, callVars, memVars
<1>16. ASSUME ShutdownSet PROVE TypeOK'
  BY <1>16, PlanAssumption DEF ShutdownSet, poolVars, workerVars, callVars, memVars
<1>17. ASSUME ShutdownWake PROVE TypeOK'
  BY <1>17, PlanAssumption DEF ShutdownWake, poolVars, workerVars, callVars, memVars
<1>18. ASSUME JoinAndFree PROVE TypeOK'
  BY <1>18, PlanAssumption DEF JoinAndFree, poolVars, workerVars, callVars, memVars
<1>19. ASSUME FillRound PROVE TypeOK'
  <2>1. call \in Calls /\ ~BadArgs(call) /\ HasChunk(call, block)
    BY <1>19 DEF FillRound, LifecycleInv
  <2>2. n' \in 1 .. RegionThreads /\ block' \in Nat
    BY <1>19, <2>1, RoundSizeRange, NextBlockType DEF FillRound
  <2>3. args' \in [Threads -> ArgType]
    <3>1. \A i \in Threads : ChunkArg(call, block, i) \in ArgType
      BY <2>1, ChunkArgFacts
    <3> HIDE DEF Threads
    <3> QED BY <1>19, <3>1 DEF FillRound
  <2> HIDE DEF Threads
  <2> QED BY <1>19, <2>2, <2>3, PlanAssumption DEF FillRound, poolVars, workerVars, callVars, memVars
<1>20. ASSUME SubmitLock PROVE TypeOK'
  BY <1>20, PlanAssumption DEF SubmitLock, poolVars, workerVars, callVars, memVars
<1>21. ASSUME SubmitJobs PROVE TypeOK'
  BY <1>21, PlanAssumption DEF SubmitJobs, poolVars, workerVars, callVars, memVars
<1>22. ASSUME SubmitWake PROVE TypeOK'
  BY <1>22, PlanAssumption DEF SubmitWake, poolVars, workerVars, callVars, memVars
<1>23. ASSUME CallerLabel PROVE TypeOK'
  <2>1. n - 1 \in Threads
    BY <1>23, PlanAssumption DEF CallerLabel, InRound
  <2>2. LabelChunk(n - 1) \/ RefuseChunk(n - 1)
    BY <1>23 DEF CallerLabel
  <2>3. /\ args' \in [Threads -> ArgType]
        /\ region' \in [RegionBlocks -> LabelType]
        /\ slots' \in [Threads -> ArgType]
        /\ disk' \subseteq [off : Int, len : Int, chunk : Int, m : Int]
    BY <2>1, <2>2, ChunkStepFacts
  <2> HIDE DEF Threads
  <2> QED BY <1>23, <2>3 DEF CallerLabel, poolVars, workerVars, callVars, memVars
<1>24. ASSUME CallerSink PROVE TypeOK'
  <2>1. n - 1 \in Threads
    BY <1>24, PlanAssumption DEF CallerSink, InRound
  <2>2. SinkChunk(n - 1) /\ call.op = "wave" /\ call \in Calls
    BY <1>24, CallNotNoCall DEF CallerSink, NoCall
  <2>3. /\ args' \in [Threads -> ArgType]
        /\ region' \in [RegionBlocks -> LabelType]
        /\ slots' \in [Threads -> ArgType]
        /\ disk' \subseteq [off : Int, len : Int, chunk : Int, m : Int]
    BY <2>1, <2>2, ChunkStepFacts
  <2> HIDE DEF Threads
  <2> QED BY <1>24, <2>3 DEF CallerSink, poolVars, workerVars, callVars, memVars
<1>25. ASSUME AwaitLock PROVE TypeOK'
  BY <1>25, PlanAssumption DEF AwaitLock, poolVars, workerVars, callVars, memVars
<1>26. ASSUME AwaitBlocks PROVE TypeOK'
  BY <1>26, PlanAssumption DEF AwaitBlocks, poolVars, workerVars, callVars, memVars
<1>27. ASSUME CallerSleep PROVE TypeOK'
  BY <1>27, PlanAssumption DEF CallerSleep, poolVars, workerVars, callVars, memVars
<1>28. ASSUME CallerSpuriousWake PROVE TypeOK'
  BY <1>28, PlanAssumption DEF CallerSpuriousWake, poolVars, workerVars, callVars, memVars
<1>29. ASSUME AwaitDone PROVE TypeOK'
  BY <1>29, PlanAssumption DEF AwaitDone, poolVars, workerVars, callVars, memVars
<1>30. ASSUME CollectRound PROVE TypeOK'
  <2>1. FirstError \in Int
    <3> DEFINE bad == {i \in Threads : i < n /\ args[i].rc # 0}
    <3>1. CASE bad = {}
      BY <3>1 DEF FirstError
    <3>2. CASE bad # {}
      <4>1. bad \in SUBSET Nat
        BY PlanAssumption
      <4>2. Min(bad) \in bad
        BY <3>2, <4>1, LeastElement
      <4> QED BY <3>2, <4>2 DEF FirstError, ArgType
    <3> QED BY <3>1, <3>2
  <2> HIDE DEF Threads
  <2> QED BY <1>30, <2>1 DEF CollectRound, poolVars, workerVars, callVars, memVars
<1>31. ASSUME Return PROVE TypeOK'
  BY <1>31, OldType, PlanAssumption DEF Return, poolVars, workerVars, callVars, memVars
<1>32. ASSUME NEW c \in Calls, BeginCall(c) PROVE TypeOK'
  <2> HIDE DEF Threads
  <2> QED BY <1>32, OldType, PlanAssumption DEF BeginCall, poolVars, workerVars, callVars, memVars
<1>33. CASE UNCHANGED vars
  BY <1>33 DEF vars, poolVars, workerVars, callVars, memVars
<1> QED
  BY <1>1, <1>2, <1>3, <1>4, <1>5, <1>6, <1>7, <1>8, <1>9, <1>10, <1>11, <1>12, <1>13, <1>14, <1>15, <1>16, <1>17, <1>18, <1>19, <1>20, <1>21, <1>22, <1>23, <1>24, <1>25, <1>26, <1>27, <1>28, <1>29, <1>30, <1>31, <1>32, <1>33
     DEF Next, Worker, Lifecycle, CallStep

\* Every step preserves mutual exclusion.
LEMMA MutexStep ==
  ASSUME PoolInv, [Next]_vars
  PROVE  MutexInv'
<1> USE DEF PoolInv, TypeOK, MutexInv, Lock, Unlock, WorkerGoto, Broadcast, Signalled, Workers, Caller, Free, Threads, AfterOwnChunk
<1>1. ASSUME NEW w \in Workers, WorkerLock(w) PROVE MutexInv'
  BY <1>1, PlanAssumption DEF WorkerLock, poolVars, workerVars, callVars, memVars
<1>2. ASSUME NEW w \in Workers, WorkerFindsNothing(w) PROVE MutexInv'
  BY <1>2, PlanAssumption DEF WorkerFindsNothing, poolVars, workerVars, callVars, memVars
<1>3. ASSUME NEW w \in Workers, WorkerSleep(w) PROVE MutexInv'
  BY <1>3, PlanAssumption DEF WorkerSleep, poolVars, workerVars, callVars, memVars
<1>4. ASSUME NEW w \in Workers, WorkerSpuriousWake(w) PROVE MutexInv'
  BY <1>4, PlanAssumption DEF WorkerSpuriousWake, poolVars, workerVars, callVars, memVars
<1>5. ASSUME NEW w \in Workers, WorkerTake(w) PROVE MutexInv'
  BY <1>5, PlanAssumption DEF WorkerTake, poolVars, workerVars, callVars, memVars
<1>6. ASSUME NEW w \in Workers, WorkerLabel(w) PROVE MutexInv'
  BY <1>6, PlanAssumption DEF WorkerLabel, poolVars, workerVars, callVars, memVars
<1>7. ASSUME NEW w \in Workers, WorkerSink(w) PROVE MutexInv'
  BY <1>7, PlanAssumption DEF WorkerSink, poolVars, workerVars, callVars, memVars
<1>8. ASSUME NEW w \in Workers, WorkerCount(w) PROVE MutexInv'
  BY <1>8, PlanAssumption DEF WorkerCount, poolVars, workerVars, callVars, memVars
<1>9. ASSUME NEW w \in Workers, WorkerExit(w) PROVE MutexInv'
  BY <1>9, PlanAssumption DEF WorkerExit, poolVars, workerVars, callVars, memVars
<1>10. ASSUME CreatePool PROVE MutexInv'
  BY <1>10, PlanAssumption DEF CreatePool, poolVars, workerVars, callVars, memVars
<1>11. ASSUME CreateWorker PROVE MutexInv'
  BY <1>11, PlanAssumption DEF CreateWorker, LifecycleInv, poolVars, workerVars, callVars, memVars
<1>12. ASSUME CreateWorkerFails PROVE MutexInv'
  BY <1>12, PlanAssumption DEF CreateWorkerFails, poolVars, workerVars, callVars, memVars
<1>13. ASSUME CreateReturns PROVE MutexInv'
  BY <1>13, PlanAssumption DEF CreateReturns, poolVars, workerVars, callVars, memVars
<1>14. ASSUME DestroyPool PROVE MutexInv'
  BY <1>14, PlanAssumption DEF DestroyPool, poolVars, workerVars, callVars, memVars
<1>15. ASSUME ShutdownLock PROVE MutexInv'
  BY <1>15, PlanAssumption DEF ShutdownLock, poolVars, workerVars, callVars, memVars
<1>16. ASSUME ShutdownSet PROVE MutexInv'
  BY <1>16, PlanAssumption DEF ShutdownSet, poolVars, workerVars, callVars, memVars
<1>17. ASSUME ShutdownWake PROVE MutexInv'
  BY <1>17, PlanAssumption DEF ShutdownWake, poolVars, workerVars, callVars, memVars
<1>18. ASSUME JoinAndFree PROVE MutexInv'
  BY <1>18, PlanAssumption DEF JoinAndFree, poolVars, workerVars, callVars, memVars
<1>19. ASSUME FillRound PROVE MutexInv'
  BY <1>19, PlanAssumption DEF FillRound, poolVars, workerVars, callVars, memVars
<1>20. ASSUME SubmitLock PROVE MutexInv'
  BY <1>20, PlanAssumption DEF SubmitLock, poolVars, workerVars, callVars, memVars
<1>21. ASSUME SubmitJobs PROVE MutexInv'
  BY <1>21, PlanAssumption DEF SubmitJobs, poolVars, workerVars, callVars, memVars
<1>22. ASSUME SubmitWake PROVE MutexInv'
  BY <1>22, PlanAssumption DEF SubmitWake, poolVars, workerVars, callVars, memVars
<1>23. ASSUME CallerLabel PROVE MutexInv'
  BY <1>23, PlanAssumption DEF CallerLabel, poolVars, workerVars, callVars, memVars
<1>24. ASSUME CallerSink PROVE MutexInv'
  BY <1>24, PlanAssumption DEF CallerSink, poolVars, workerVars, callVars, memVars
<1>25. ASSUME AwaitLock PROVE MutexInv'
  BY <1>25, PlanAssumption DEF AwaitLock, poolVars, workerVars, callVars, memVars
<1>26. ASSUME AwaitBlocks PROVE MutexInv'
  BY <1>26, PlanAssumption DEF AwaitBlocks, poolVars, workerVars, callVars, memVars
<1>27. ASSUME CallerSleep PROVE MutexInv'
  BY <1>27, PlanAssumption DEF CallerSleep, poolVars, workerVars, callVars, memVars
<1>28. ASSUME CallerSpuriousWake PROVE MutexInv'
  BY <1>28, PlanAssumption DEF CallerSpuriousWake, poolVars, workerVars, callVars, memVars
<1>29. ASSUME AwaitDone PROVE MutexInv'
  BY <1>29, PlanAssumption DEF AwaitDone, poolVars, workerVars, callVars, memVars
<1>30. ASSUME CollectRound PROVE MutexInv'
  BY <1>30, PlanAssumption DEF CollectRound, poolVars, workerVars, callVars, memVars
<1>31. ASSUME Return PROVE MutexInv'
  BY <1>31, PlanAssumption DEF Return, poolVars, workerVars, callVars, memVars
<1>32. ASSUME NEW c \in Calls, BeginCall(c) PROVE MutexInv'
  BY <1>32, PlanAssumption DEF BeginCall, poolVars, workerVars, callVars, memVars
<1>33. CASE UNCHANGED vars
  BY <1>33 DEF vars, poolVars, workerVars, callVars, memVars
<1> QED
  BY <1>1, <1>2, <1>3, <1>4, <1>5, <1>6, <1>7, <1>8, <1>9, <1>10, <1>11, <1>12, <1>13, <1>14, <1>15, <1>16, <1>17, <1>18, <1>19, <1>20, <1>21, <1>22, <1>23, <1>24, <1>25, <1>26, <1>27, <1>28, <1>29, <1>30, <1>31, <1>32, <1>33
     DEF Next, Worker, Lifecycle, CallStep

\* Every step preserves the life cycle of the pool and its threads.
LEMMA LifecycleStep ==
  ASSUME PoolInv, [Next]_vars
  PROVE  LifecycleInv'
<1> USE DEF PoolInv, TypeOK, LifecycleInv, CallerPC, Lock, Unlock, WorkerGoto, Broadcast, Signalled, Workers, AfterOwnChunk
<1>1. ASSUME NEW w \in Workers, WorkerLock(w) PROVE LifecycleInv'
  BY <1>1, PlanAssumption DEF WorkerLock, poolVars, workerVars, callVars, memVars
<1>2. ASSUME NEW w \in Workers, WorkerFindsNothing(w) PROVE LifecycleInv'
  BY <1>2, PlanAssumption DEF WorkerFindsNothing, poolVars, workerVars, callVars, memVars
<1>3. ASSUME NEW w \in Workers, WorkerSleep(w) PROVE LifecycleInv'
  BY <1>3, PlanAssumption DEF WorkerSleep, poolVars, workerVars, callVars, memVars
<1>4. ASSUME NEW w \in Workers, WorkerSpuriousWake(w) PROVE LifecycleInv'
  BY <1>4, PlanAssumption DEF WorkerSpuriousWake, poolVars, workerVars, callVars, memVars
<1>5. ASSUME NEW w \in Workers, WorkerTake(w) PROVE LifecycleInv'
  BY <1>5, PlanAssumption DEF WorkerTake, poolVars, workerVars, callVars, memVars
<1>6. ASSUME NEW w \in Workers, WorkerLabel(w) PROVE LifecycleInv'
  BY <1>6, PlanAssumption DEF WorkerLabel, poolVars, workerVars, callVars, memVars
<1>7. ASSUME NEW w \in Workers, WorkerSink(w) PROVE LifecycleInv'
  BY <1>7, PlanAssumption DEF WorkerSink, poolVars, workerVars, callVars, memVars
<1>8. ASSUME NEW w \in Workers, WorkerCount(w) PROVE LifecycleInv'
  BY <1>8, PlanAssumption DEF WorkerCount, poolVars, workerVars, callVars, memVars
<1>9. ASSUME NEW w \in Workers, WorkerExit(w) PROVE LifecycleInv'
  BY <1>9, PlanAssumption DEF WorkerExit, poolVars, workerVars, callVars, memVars
<1>10. ASSUME CreatePool PROVE LifecycleInv'
  BY <1>10, PlanAssumption DEF CreatePool, poolVars, workerVars, callVars, memVars
<1>11. ASSUME CreateWorker PROVE LifecycleInv'
  BY <1>11, PlanAssumption DEF CreateWorker, poolVars, workerVars, callVars, memVars
<1>12. ASSUME CreateWorkerFails PROVE LifecycleInv'
  BY <1>12, PlanAssumption DEF CreateWorkerFails, poolVars, workerVars, callVars, memVars
<1>13. ASSUME CreateReturns PROVE LifecycleInv'
  BY <1>13, PlanAssumption DEF CreateReturns, poolVars, workerVars, callVars, memVars
<1>14. ASSUME DestroyPool PROVE LifecycleInv'
  BY <1>14, PlanAssumption DEF DestroyPool, poolVars, workerVars, callVars, memVars
<1>15. ASSUME ShutdownLock PROVE LifecycleInv'
  BY <1>15, PlanAssumption DEF ShutdownLock, poolVars, workerVars, callVars, memVars
<1>16. ASSUME ShutdownSet PROVE LifecycleInv'
  BY <1>16, PlanAssumption DEF ShutdownSet, poolVars, workerVars, callVars, memVars
<1>17. ASSUME ShutdownWake PROVE LifecycleInv'
  BY <1>17, PlanAssumption DEF ShutdownWake, poolVars, workerVars, callVars, memVars
<1>18. ASSUME JoinAndFree PROVE LifecycleInv'
  BY <1>18, PlanAssumption DEF JoinAndFree, poolVars, workerVars, callVars, memVars
<1>19. ASSUME FillRound PROVE LifecycleInv'
  BY <1>19, PlanAssumption DEF FillRound, poolVars, workerVars, callVars, memVars
<1>20. ASSUME SubmitLock PROVE LifecycleInv'
  BY <1>20, PlanAssumption DEF SubmitLock, poolVars, workerVars, callVars, memVars
<1>21. ASSUME SubmitJobs PROVE LifecycleInv'
  BY <1>21, PlanAssumption DEF SubmitJobs, poolVars, workerVars, callVars, memVars
<1>22. ASSUME SubmitWake PROVE LifecycleInv'
  BY <1>22, PlanAssumption DEF SubmitWake, poolVars, workerVars, callVars, memVars
<1>23. ASSUME CallerLabel PROVE LifecycleInv'
  BY <1>23, PlanAssumption DEF CallerLabel, poolVars, workerVars, callVars, memVars
<1>24. ASSUME CallerSink PROVE LifecycleInv'
  BY <1>24, PlanAssumption DEF CallerSink, poolVars, workerVars, callVars, memVars
<1>25. ASSUME AwaitLock PROVE LifecycleInv'
  BY <1>25, PlanAssumption DEF AwaitLock, poolVars, workerVars, callVars, memVars
<1>26. ASSUME AwaitBlocks PROVE LifecycleInv'
  BY <1>26, PlanAssumption DEF AwaitBlocks, poolVars, workerVars, callVars, memVars
<1>27. ASSUME CallerSleep PROVE LifecycleInv'
  BY <1>27, PlanAssumption DEF CallerSleep, poolVars, workerVars, callVars, memVars
<1>28. ASSUME CallerSpuriousWake PROVE LifecycleInv'
  BY <1>28, PlanAssumption DEF CallerSpuriousWake, poolVars, workerVars, callVars, memVars
<1>29. ASSUME AwaitDone PROVE LifecycleInv'
  BY <1>29, PlanAssumption DEF AwaitDone, poolVars, workerVars, callVars, memVars
<1>30. ASSUME CollectRound PROVE LifecycleInv'
  BY <1>30, PlanAssumption DEF CollectRound, poolVars, workerVars, callVars, memVars
<1>31. ASSUME Return PROVE LifecycleInv'
  BY <1>31, PlanAssumption DEF Return, poolVars, workerVars, callVars, memVars
<1>32. ASSUME NEW c \in Calls, BeginCall(c) PROVE LifecycleInv'
  BY <1>32, CallNotNoCall DEF BeginCall, poolVars, workerVars, callVars, memVars
<1>33. CASE UNCHANGED vars
  BY <1>33 DEF vars, poolVars, workerVars, callVars, memVars
<1> QED
  BY <1>1, <1>2, <1>3, <1>4, <1>5, <1>6, <1>7, <1>8, <1>9, <1>10, <1>11, <1>12, <1>13, <1>14, <1>15, <1>16, <1>17, <1>18, <1>19, <1>20, <1>21, <1>22, <1>23, <1>24, <1>25, <1>26, <1>27, <1>28, <1>29, <1>30, <1>31, <1>32, <1>33
     DEF Next, Worker, Lifecycle, CallStep

\* Every step preserves the ownership of jobs.
LEMMA JobsStep ==
  ASSUME PoolInv, [Next]_vars
  PROVE  JobsInv'
<1> USE DEF PoolInv, TypeOK, JobsInv, LifecycleInv, MutexInv, CountInv, InRound, Outstanding, Busy, HasSink, LabelChunk, RefuseChunk, SinkChunk, CallerPC, WorkerPC, Lock, Unlock, WorkerGoto, Broadcast, Signalled, Workers, NULL, AfterOwnChunk
<1>1. ASSUME NEW w \in Workers, WorkerLock(w) PROVE JobsInv'
  BY <1>1, PlanAssumption DEF WorkerLock, poolVars, workerVars, callVars, memVars
<1>2. ASSUME NEW w \in Workers, WorkerFindsNothing(w) PROVE JobsInv'
  BY <1>2, PlanAssumption DEF WorkerFindsNothing, poolVars, workerVars, callVars, memVars
<1>3. ASSUME NEW w \in Workers, WorkerSleep(w) PROVE JobsInv'
  BY <1>3, PlanAssumption DEF WorkerSleep, poolVars, workerVars, callVars, memVars
<1>4. ASSUME NEW w \in Workers, WorkerSpuriousWake(w) PROVE JobsInv'
  BY <1>4, PlanAssumption DEF WorkerSpuriousWake, poolVars, workerVars, callVars, memVars
<1>5. ASSUME NEW w \in Workers, WorkerTake(w) PROVE JobsInv'
  BY <1>5, PlanAssumption DEF WorkerTake, poolVars, workerVars, callVars, memVars
<1>6. ASSUME NEW w \in Workers, WorkerLabel(w) PROVE JobsInv'
  BY <1>6, PlanAssumption DEF WorkerLabel, poolVars, workerVars, callVars, memVars
<1>7. ASSUME NEW w \in Workers, WorkerSink(w) PROVE JobsInv'
  BY <1>7, PlanAssumption DEF WorkerSink, poolVars, workerVars, callVars, memVars
<1>8. ASSUME NEW w \in Workers, WorkerCount(w) PROVE JobsInv'
  BY <1>8, PlanAssumption DEF WorkerCount, poolVars, workerVars, callVars, memVars
<1>9. ASSUME NEW w \in Workers, WorkerExit(w) PROVE JobsInv'
  BY <1>9, PlanAssumption DEF WorkerExit, poolVars, workerVars, callVars, memVars
<1>10. ASSUME CreatePool PROVE JobsInv'
  BY <1>10, PlanAssumption DEF CreatePool, poolVars, workerVars, callVars, memVars
<1>11. ASSUME CreateWorker PROVE JobsInv'
  BY <1>11, PlanAssumption DEF CreateWorker, poolVars, workerVars, callVars, memVars
<1>12. ASSUME CreateWorkerFails PROVE JobsInv'
  BY <1>12, PlanAssumption DEF CreateWorkerFails, poolVars, workerVars, callVars, memVars
<1>13. ASSUME CreateReturns PROVE JobsInv'
  BY <1>13, PlanAssumption DEF CreateReturns, poolVars, workerVars, callVars, memVars
<1>14. ASSUME DestroyPool PROVE JobsInv'
  BY <1>14, PlanAssumption DEF DestroyPool, poolVars, workerVars, callVars, memVars
<1>15. ASSUME ShutdownLock PROVE JobsInv'
  BY <1>15, PlanAssumption DEF ShutdownLock, poolVars, workerVars, callVars, memVars
<1>16. ASSUME ShutdownSet PROVE JobsInv'
  BY <1>16, PlanAssumption DEF ShutdownSet, Caller, poolVars, workerVars, callVars, memVars
<1>17. ASSUME ShutdownWake PROVE JobsInv'
  BY <1>17, PlanAssumption DEF ShutdownWake, poolVars, workerVars, callVars, memVars
<1>18. ASSUME JoinAndFree PROVE JobsInv'
  BY <1>18, PlanAssumption DEF JoinAndFree, poolVars, workerVars, callVars, memVars
<1>19. ASSUME FillRound PROVE JobsInv'
  BY <1>19, PlanAssumption DEF FillRound, poolVars, workerVars, callVars, memVars
<1>20. ASSUME SubmitLock PROVE JobsInv'
  BY <1>20, PlanAssumption DEF SubmitLock, poolVars, workerVars, callVars, memVars
<1>21. ASSUME SubmitJobs PROVE JobsInv'
  <2>1. \A w \in Workers : ~Busy(w) /\ jobs[w] = NULL
    BY <1>21 DEF SubmitJobs
  <2>2. \A w \in Workers : pc[w] # "wait"
    BY <1>21, PlanAssumption DEF SubmitJobs, Caller
  <2> QED BY <1>21, <2>1, <2>2 DEF SubmitJobs, poolVars, workerVars, callVars, memVars
<1>22. ASSUME SubmitWake PROVE JobsInv'
  BY <1>22, PlanAssumption DEF SubmitWake, poolVars, workerVars, callVars, memVars
<1>23. ASSUME CallerLabel PROVE JobsInv'
  BY <1>23, PlanAssumption DEF CallerLabel, poolVars, workerVars, callVars, memVars
<1>24. ASSUME CallerSink PROVE JobsInv'
  BY <1>24, PlanAssumption DEF CallerSink, poolVars, workerVars, callVars, memVars
<1>25. ASSUME AwaitLock PROVE JobsInv'
  BY <1>25, PlanAssumption DEF AwaitLock, poolVars, workerVars, callVars, memVars
<1>26. ASSUME AwaitBlocks PROVE JobsInv'
  BY <1>26, PlanAssumption DEF AwaitBlocks, poolVars, workerVars, callVars, memVars
<1>27. ASSUME CallerSleep PROVE JobsInv'
  BY <1>27, PlanAssumption DEF CallerSleep, poolVars, workerVars, callVars, memVars
<1>28. ASSUME CallerSpuriousWake PROVE JobsInv'
  BY <1>28, PlanAssumption DEF CallerSpuriousWake, poolVars, workerVars, callVars, memVars
<1>29. ASSUME AwaitDone PROVE JobsInv'
  BY <1>29, PlanAssumption DEF AwaitDone, poolVars, workerVars, callVars, memVars
<1>30. ASSUME CollectRound PROVE JobsInv'
  BY <1>30, PlanAssumption DEF CollectRound, poolVars, workerVars, callVars, memVars
<1>31. ASSUME Return PROVE JobsInv'
  BY <1>31, PlanAssumption DEF Return, poolVars, workerVars, callVars, memVars
<1>32. ASSUME NEW c \in Calls, BeginCall(c) PROVE JobsInv'
  BY <1>32, PlanAssumption DEF BeginCall, poolVars, workerVars, callVars, memVars
<1>33. CASE UNCHANGED vars
  BY <1>33 DEF vars, poolVars, workerVars, callVars, memVars
<1> QED
  BY <1>1, <1>2, <1>3, <1>4, <1>5, <1>6, <1>7, <1>8, <1>9, <1>10, <1>11, <1>12, <1>13, <1>14, <1>15, <1>16, <1>17, <1>18, <1>19, <1>20, <1>21, <1>22, <1>23, <1>24, <1>25, <1>26, <1>27, <1>28, <1>29, <1>30, <1>31, <1>32, <1>33
     DEF Next, Worker, Lifecycle, CallStep

\* Every step preserves the absence of lost wakeups.
LEMMA WakeupStep ==
  ASSUME PoolInv, [Next]_vars
  PROVE  NoLostWakeup'
<1> USE DEF PoolInv, TypeOK, NoLostWakeup, JobsInv, MutexInv, LifecycleInv, CountInv, Lock, Unlock, WorkerGoto, Broadcast, Signalled, Workers, Caller, Free, NULL, AfterOwnChunk
<1>1. ASSUME NEW w \in Workers, WorkerLock(w) PROVE NoLostWakeup'
  BY <1>1, PlanAssumption DEF WorkerLock, poolVars, workerVars, callVars, memVars
<1>2. ASSUME NEW w \in Workers, WorkerFindsNothing(w) PROVE NoLostWakeup'
  BY <1>2, PlanAssumption DEF WorkerFindsNothing, poolVars, workerVars, callVars, memVars
<1>3. ASSUME NEW w \in Workers, WorkerSleep(w) PROVE NoLostWakeup'
  BY <1>3, PlanAssumption DEF WorkerSleep, poolVars, workerVars, callVars, memVars
<1>4. ASSUME NEW w \in Workers, WorkerSpuriousWake(w) PROVE NoLostWakeup'
  BY <1>4, PlanAssumption DEF WorkerSpuriousWake, poolVars, workerVars, callVars, memVars
<1>5. ASSUME NEW w \in Workers, WorkerTake(w) PROVE NoLostWakeup'
  BY <1>5, PlanAssumption DEF WorkerTake, poolVars, workerVars, callVars, memVars
<1>6. ASSUME NEW w \in Workers, WorkerLabel(w) PROVE NoLostWakeup'
  BY <1>6, PlanAssumption DEF WorkerLabel, poolVars, workerVars, callVars, memVars
<1>7. ASSUME NEW w \in Workers, WorkerSink(w) PROVE NoLostWakeup'
  BY <1>7, PlanAssumption DEF WorkerSink, poolVars, workerVars, callVars, memVars
<1>8. ASSUME NEW w \in Workers, WorkerCount(w) PROVE NoLostWakeup'
  BY <1>8, PlanAssumption DEF WorkerCount, poolVars, workerVars, callVars, memVars
<1>9. ASSUME NEW w \in Workers, WorkerExit(w) PROVE NoLostWakeup'
  BY <1>9, PlanAssumption DEF WorkerExit, poolVars, workerVars, callVars, memVars
<1>10. ASSUME CreatePool PROVE NoLostWakeup'
  BY <1>10, PlanAssumption DEF CreatePool, poolVars, workerVars, callVars, memVars
<1>11. ASSUME CreateWorker PROVE NoLostWakeup'
  BY <1>11, PlanAssumption DEF CreateWorker, poolVars, workerVars, callVars, memVars
<1>12. ASSUME CreateWorkerFails PROVE NoLostWakeup'
  BY <1>12, PlanAssumption DEF CreateWorkerFails, poolVars, workerVars, callVars, memVars
<1>13. ASSUME CreateReturns PROVE NoLostWakeup'
  BY <1>13, PlanAssumption DEF CreateReturns, poolVars, workerVars, callVars, memVars
<1>14. ASSUME DestroyPool PROVE NoLostWakeup'
  BY <1>14, PlanAssumption DEF DestroyPool, poolVars, workerVars, callVars, memVars
<1>15. ASSUME ShutdownLock PROVE NoLostWakeup'
  BY <1>15, PlanAssumption DEF ShutdownLock, poolVars, workerVars, callVars, memVars
<1>16. ASSUME ShutdownSet PROVE NoLostWakeup'
  BY <1>16, PlanAssumption DEF ShutdownSet, poolVars, workerVars, callVars, memVars
<1>17. ASSUME ShutdownWake PROVE NoLostWakeup'
  BY <1>17, PlanAssumption DEF ShutdownWake, poolVars, workerVars, callVars, memVars
<1>18. ASSUME JoinAndFree PROVE NoLostWakeup'
  BY <1>18, PlanAssumption DEF JoinAndFree, poolVars, workerVars, callVars, memVars
<1>19. ASSUME FillRound PROVE NoLostWakeup'
  BY <1>19, PlanAssumption DEF FillRound, poolVars, workerVars, callVars, memVars
<1>20. ASSUME SubmitLock PROVE NoLostWakeup'
  BY <1>20, PlanAssumption DEF SubmitLock, poolVars, workerVars, callVars, memVars
<1>21. ASSUME SubmitJobs PROVE NoLostWakeup'
  BY <1>21, PlanAssumption DEF SubmitJobs, poolVars, workerVars, callVars, memVars
<1>22. ASSUME SubmitWake PROVE NoLostWakeup'
  BY <1>22, PlanAssumption DEF SubmitWake, poolVars, workerVars, callVars, memVars
<1>23. ASSUME CallerLabel PROVE NoLostWakeup'
  BY <1>23, PlanAssumption DEF CallerLabel, poolVars, workerVars, callVars, memVars
<1>24. ASSUME CallerSink PROVE NoLostWakeup'
  BY <1>24, PlanAssumption DEF CallerSink, poolVars, workerVars, callVars, memVars
<1>25. ASSUME AwaitLock PROVE NoLostWakeup'
  BY <1>25, PlanAssumption DEF AwaitLock, poolVars, workerVars, callVars, memVars
<1>26. ASSUME AwaitBlocks PROVE NoLostWakeup'
  BY <1>26, PlanAssumption DEF AwaitBlocks, poolVars, workerVars, callVars, memVars
<1>27. ASSUME CallerSleep PROVE NoLostWakeup'
  BY <1>27, PlanAssumption DEF CallerSleep, poolVars, workerVars, callVars, memVars
<1>28. ASSUME CallerSpuriousWake PROVE NoLostWakeup'
  BY <1>28, PlanAssumption DEF CallerSpuriousWake, poolVars, workerVars, callVars, memVars
<1>29. ASSUME AwaitDone PROVE NoLostWakeup'
  BY <1>29, PlanAssumption DEF AwaitDone, poolVars, workerVars, callVars, memVars
<1>30. ASSUME CollectRound PROVE NoLostWakeup'
  BY <1>30, PlanAssumption DEF CollectRound, poolVars, workerVars, callVars, memVars
<1>31. ASSUME Return PROVE NoLostWakeup'
  BY <1>31, PlanAssumption DEF Return, poolVars, workerVars, callVars, memVars
<1>32. ASSUME NEW c \in Calls, BeginCall(c) PROVE NoLostWakeup'
  BY <1>32, PlanAssumption DEF BeginCall, poolVars, workerVars, callVars, memVars
<1>33. CASE UNCHANGED vars
  BY <1>33 DEF vars, poolVars, workerVars, callVars, memVars
<1> QED
  BY <1>1, <1>2, <1>3, <1>4, <1>5, <1>6, <1>7, <1>8, <1>9, <1>10, <1>11, <1>12, <1>13, <1>14, <1>15, <1>16, <1>17, <1>18, <1>19, <1>20, <1>21, <1>22, <1>23, <1>24, <1>25, <1>26, <1>27, <1>28, <1>29, <1>30, <1>31, <1>32, <1>33
     DEF Next, Worker, Lifecycle, CallStep

\* The workers a round waits for can be counted.
LEMMA OutstandingFinite ==
  IsFiniteSet(Outstanding)
<1>1. IsFiniteSet(Workers)
  BY FS_Interval, PlanAssumption DEF Workers
<1>2. Outstanding \in SUBSET Workers
  BY DEF Outstanding
<1> QED BY <1>1, <1>2, FS_Subset

\* Every step preserves the barrier's arithmetic.
LEMMA CountStep ==
  ASSUME PoolInv, [Next]_vars
  PROVE  CountInv'
<1> USE DEF PoolInv, TypeOK, CountInv, InRound, Outstanding, Busy, CallerPC, WorkerPC, LifecycleInv, Lock, Unlock, WorkerGoto, Broadcast, Signalled, AfterOwnChunk, HasSink, LabelChunk, RefuseChunk, SinkChunk
<1>1. ASSUME NEW w \in Workers, WorkerLock(w) PROVE CountInv'
  BY <1>1, PlanAssumption DEF WorkerLock, poolVars, workerVars, callVars, memVars
<1>2. ASSUME NEW w \in Workers, WorkerFindsNothing(w) PROVE CountInv'
  BY <1>2, PlanAssumption DEF WorkerFindsNothing, poolVars, workerVars, callVars, memVars
<1>3. ASSUME NEW w \in Workers, WorkerSleep(w) PROVE CountInv'
  BY <1>3, PlanAssumption DEF WorkerSleep, poolVars, workerVars, callVars, memVars
<1>4. ASSUME NEW w \in Workers, WorkerSpuriousWake(w) PROVE CountInv'
  BY <1>4, PlanAssumption DEF WorkerSpuriousWake, poolVars, workerVars, callVars, memVars
<1>5. ASSUME NEW w \in Workers, WorkerTake(w) PROVE CountInv'
  <2>1. Outstanding' = Outstanding
    BY <1>5 DEF WorkerTake, NULL, poolVars, workerVars, callVars, memVars
  <2> QED BY <1>5, <2>1 DEF WorkerTake, poolVars, workerVars, callVars, memVars
<1>6. ASSUME NEW w \in Workers, WorkerLabel(w) PROVE CountInv'
  BY <1>6, PlanAssumption DEF WorkerLabel, poolVars, workerVars, callVars, memVars
<1>7. ASSUME NEW w \in Workers, WorkerSink(w) PROVE CountInv'
  BY <1>7, PlanAssumption DEF WorkerSink, poolVars, workerVars, callVars, memVars
<1>8. ASSUME NEW w \in Workers, WorkerCount(w) PROVE CountInv'
  <2>1. w \in Outstanding
    BY <1>8 DEF WorkerCount
  <2>2. Outstanding' = Outstanding \ {w}
    BY <1>8 DEF WorkerCount, JobsInv, poolVars, workerVars, callVars, memVars
  <2>3. /\ Cardinality(Outstanding \ {w}) = Cardinality(Outstanding) - 1
        /\ Cardinality(Outstanding) \in Nat
    BY <2>1, OutstandingFinite, FS_RemoveElement, FS_CardinalityType
  <2>4. cpc # "wait"
    BY <1>8, PlanAssumption DEF WorkerCount, MutexInv, Workers, Caller
  <2>5. InRound /\ n > 1 /\ InRound'
    BY <1>8, <2>1 DEF WorkerCount
  <2> HIDE DEF Outstanding
  <2>6. /\ Outstanding' \subseteq 0 .. n - 2
        /\ n_expected = n - 1
        /\ n_done + 1 + Cardinality(Outstanding') = n - 1
    BY <2>2, <2>3, <2>5
  <2> QED BY <1>8, <2>4, <2>5, <2>6 DEF WorkerCount, poolVars, workerVars, callVars, memVars
<1>9. ASSUME NEW w \in Workers, WorkerExit(w) PROVE CountInv'
  BY <1>9, PlanAssumption DEF WorkerExit, poolVars, workerVars, callVars, memVars
<1>10. ASSUME CreatePool PROVE CountInv'
  BY <1>10, PlanAssumption DEF CreatePool, poolVars, workerVars, callVars, memVars
<1>11. ASSUME CreateWorker PROVE CountInv'
  BY <1>11, PlanAssumption DEF CreateWorker, poolVars, workerVars, callVars, memVars
<1>12. ASSUME CreateWorkerFails PROVE CountInv'
  BY <1>12, PlanAssumption DEF CreateWorkerFails, poolVars, workerVars, callVars, memVars
<1>13. ASSUME CreateReturns PROVE CountInv'
  BY <1>13, PlanAssumption DEF CreateReturns, poolVars, workerVars, callVars, memVars
<1>14. ASSUME DestroyPool PROVE CountInv'
  BY <1>14, PlanAssumption DEF DestroyPool, poolVars, workerVars, callVars, memVars
<1>15. ASSUME ShutdownLock PROVE CountInv'
  BY <1>15, PlanAssumption DEF ShutdownLock, poolVars, workerVars, callVars, memVars
<1>16. ASSUME ShutdownSet PROVE CountInv'
  BY <1>16, PlanAssumption DEF ShutdownSet, poolVars, workerVars, callVars, memVars
<1>17. ASSUME ShutdownWake PROVE CountInv'
  BY <1>17, PlanAssumption DEF ShutdownWake, poolVars, workerVars, callVars, memVars
<1>18. ASSUME JoinAndFree PROVE CountInv'
  BY <1>18, PlanAssumption DEF JoinAndFree, poolVars, workerVars, callVars, memVars
<1>19. ASSUME FillRound PROVE CountInv'
  <2>1. call \in Calls /\ ~BadArgs(call) /\ HasChunk(call, block)
    BY <1>19 DEF FillRound
  <2>2. n' \in 1 .. RegionThreads
    BY <1>19, <2>1, RoundSizeRange DEF FillRound
  <2>3. Outstanding' = {}
    BY <1>19 DEF FillRound, poolVars, workerVars, callVars, memVars
  <2>4. call' = call /\ n' \in Int /\ n' >= 1
        /\ cpc' = IF n' > 1 THEN "submit_lock" ELSE "label"
    BY <1>19, <2>2, PlanAssumption DEF FillRound
  <2> HIDE DEF Outstanding
  <2> QED BY <2>1, <2>3, <2>4
<1>20. ASSUME SubmitLock PROVE CountInv'
  BY <1>20, PlanAssumption DEF SubmitLock, poolVars, workerVars, callVars, memVars
<1>21. ASSUME SubmitJobs PROVE CountInv'
  <2>1. Outstanding = {}
    BY <1>21 DEF SubmitJobs
  <2>2. n \in 2 .. RegionThreads
    BY <1>21 DEF SubmitJobs
  <2>3. Outstanding' = 0 .. n - 2
    BY <1>21, <2>1, <2>2, PlanAssumption DEF SubmitJobs, NULL, Workers, poolVars, workerVars, callVars, memVars
  <2>4. Cardinality(0 .. n - 2) = n - 1
    BY <2>2, FS_Interval
  <2>5. /\ n' = n /\ n_done' = 0 /\ n_expected' = n - 1
        /\ cpc' = "submit_wake" /\ call' = call /\ ~BadArgs(call)
    BY <1>21 DEF SubmitJobs, poolVars, workerVars, callVars, memVars
  <2> HIDE DEF Outstanding
  <2> QED BY <2>2, <2>3, <2>4, <2>5
<1>22. ASSUME SubmitWake PROVE CountInv'
  BY <1>22, PlanAssumption DEF SubmitWake, poolVars, workerVars, callVars, memVars
<1>23. ASSUME CallerLabel PROVE CountInv'
  BY <1>23, PlanAssumption DEF CallerLabel, poolVars, workerVars, callVars, memVars
<1>24. ASSUME CallerSink PROVE CountInv'
  BY <1>24, PlanAssumption DEF CallerSink, poolVars, workerVars, callVars, memVars
<1>25. ASSUME AwaitLock PROVE CountInv'
  BY <1>25, PlanAssumption DEF AwaitLock, poolVars, workerVars, callVars, memVars
<1>26. ASSUME AwaitBlocks PROVE CountInv'
  BY <1>26, PlanAssumption DEF AwaitBlocks, poolVars, workerVars, callVars, memVars
<1>27. ASSUME CallerSleep PROVE CountInv'
  BY <1>27, PlanAssumption DEF CallerSleep, poolVars, workerVars, callVars, memVars
<1>28. ASSUME CallerSpuriousWake PROVE CountInv'
  BY <1>28, PlanAssumption DEF CallerSpuriousWake, poolVars, workerVars, callVars, memVars
<1>29. ASSUME AwaitDone PROVE CountInv'
  <2>1. n_done + Cardinality(Outstanding) = n - 1 /\ n_done >= n - 1
    BY <1>29 DEF AwaitDone
  <2>2. Outstanding = {}
    BY <2>1, OutstandingFinite, FS_CardinalityType, FS_EmptySet
  <2>3. Outstanding' = {}
    BY <1>29, <2>2 DEF AwaitDone, poolVars, workerVars, callVars, memVars
  <2> QED BY <1>29, <2>3 DEF AwaitDone, poolVars, workerVars, callVars, memVars
<1>30. ASSUME CollectRound PROVE CountInv'
  BY <1>30, PlanAssumption DEF CollectRound, poolVars, workerVars, callVars, memVars
<1>31. ASSUME Return PROVE CountInv'
  BY <1>31, PlanAssumption DEF Return, poolVars, workerVars, callVars, memVars
<1>32. ASSUME NEW c \in Calls, BeginCall(c) PROVE CountInv'
  BY <1>32, PlanAssumption DEF BeginCall, poolVars, workerVars, callVars, memVars
<1>33. CASE UNCHANGED vars
  BY <1>33 DEF vars, poolVars, workerVars, callVars, memVars
<1> QED
  BY <1>1, <1>2, <1>3, <1>4, <1>5, <1>6, <1>7, <1>8, <1>9, <1>10, <1>11, <1>12, <1>13, <1>14, <1>15, <1>16, <1>17, <1>18, <1>19, <1>20, <1>21, <1>22, <1>23, <1>24, <1>25, <1>26, <1>27, <1>28, <1>29, <1>30, <1>31, <1>32, <1>33
     DEF Next, Worker, Lifecycle, CallStep

\* Every step preserves the separation of the chunks of a round.
LEMMA ArgsStep ==
  ASSUME PoolInv, [Next]_vars
  PROVE  ArgsInv'
<1> USE DEF PoolInv, TypeOK, ArgsInv, InRound, CallerPC, Lock, Unlock, WorkerGoto, Signalled, AfterOwnChunk, LabelChunk, RefuseChunk, SinkChunk
<1>1. ASSUME NEW w \in Workers, WorkerLock(w) PROVE ArgsInv'
  BY <1>1, PlanAssumption DEF WorkerLock, poolVars, workerVars, callVars, memVars
<1>2. ASSUME NEW w \in Workers, WorkerFindsNothing(w) PROVE ArgsInv'
  BY <1>2, PlanAssumption DEF WorkerFindsNothing, poolVars, workerVars, callVars, memVars
<1>3. ASSUME NEW w \in Workers, WorkerSleep(w) PROVE ArgsInv'
  BY <1>3, PlanAssumption DEF WorkerSleep, poolVars, workerVars, callVars, memVars
<1>4. ASSUME NEW w \in Workers, WorkerSpuriousWake(w) PROVE ArgsInv'
  BY <1>4, PlanAssumption DEF WorkerSpuriousWake, poolVars, workerVars, callVars, memVars
<1>5. ASSUME NEW w \in Workers, WorkerTake(w) PROVE ArgsInv'
  BY <1>5, PlanAssumption DEF WorkerTake, poolVars, workerVars, callVars, memVars
<1>6. ASSUME NEW w \in Workers, WorkerLabel(w) PROVE ArgsInv'
  <2>1. job[w] \in Threads
    BY <1>6, PlanAssumption DEF Threads, Workers, NULL, JobsInv, CountInv, WorkerLabel
  <2>2. LabelChunk(job[w]) \/ RefuseChunk(job[w])
    BY <1>6 DEF WorkerLabel
  <2>3. \A k \in Threads : /\ args'[k].buf = args[k].buf
                            /\ args'[k].m = args[k].m
                            /\ args'[k].first = args[k].first
    BY <2>1, <2>2, ChunkStepFacts
  <2>4. 0 \in Threads /\ (0 .. n - 1) \subseteq Threads
    BY PlanAssumption DEF Threads
  <2>5. call' = call /\ n' = n
    BY <1>6 DEF WorkerLabel
  <2>6. ArgsInv' <=> (InRound' \/ cpc' \in {"submit_lock", "submit", "collect"} =>
          \A k \in 0 .. n - 1 :
            /\ args'[k].buf = k
            /\ args'[k].m <= ChunkBlocks(call)
            /\ call.op # "wave" =>
                 args'[k].first = args'[0].first + k * ChunkBlocks(call))
    BY <2>5 DEF ChunkBlocks
  <2>7. InRound \/ cpc \in {"submit_lock", "submit", "collect"}
    BY <1>6, <1>6 DEF WorkerLabel, CountInv, Outstanding, Busy
  <2> QED BY <2>3, <2>4, <2>6, <2>7
<1>7. ASSUME NEW w \in Workers, WorkerSink(w) PROVE ArgsInv'
  <2>1. job[w] \in Threads
    BY <1>7, PlanAssumption DEF Threads, Workers, NULL, JobsInv, CountInv, WorkerSink
  <2>2. SinkChunk(job[w]) /\ call.op = "wave" /\ call \in Calls
    BY <1>7, CallNotNoCall DEF JobsInv, CountInv, WorkerSink, NoCall
  <2>3. \A k \in Threads : /\ args'[k].buf = args[k].buf
                            /\ args'[k].m = args[k].m
                            /\ args'[k].first = args[k].first
    BY <2>1, <2>2, ChunkStepFacts
  <2>4. 0 \in Threads /\ (0 .. n - 1) \subseteq Threads
    BY PlanAssumption DEF Threads
  <2>5. call' = call /\ n' = n
    BY <1>7 DEF WorkerSink
  <2>6. ArgsInv' <=> (InRound' \/ cpc' \in {"submit_lock", "submit", "collect"} =>
          \A k \in 0 .. n - 1 :
            /\ args'[k].buf = k
            /\ args'[k].m <= ChunkBlocks(call)
            /\ call.op # "wave" =>
                 args'[k].first = args'[0].first + k * ChunkBlocks(call))
    BY <2>5 DEF ChunkBlocks
  <2>7. InRound \/ cpc \in {"submit_lock", "submit", "collect"}
    BY <1>7, <1>7 DEF WorkerSink, CountInv, Outstanding, Busy
  <2> QED BY <2>3, <2>4, <2>6, <2>7
<1>8. ASSUME NEW w \in Workers, WorkerCount(w) PROVE ArgsInv'
  BY <1>8, PlanAssumption DEF WorkerCount, poolVars, workerVars, callVars, memVars
<1>9. ASSUME NEW w \in Workers, WorkerExit(w) PROVE ArgsInv'
  BY <1>9, PlanAssumption DEF WorkerExit, poolVars, workerVars, callVars, memVars
<1>10. ASSUME CreatePool PROVE ArgsInv'
  BY <1>10, PlanAssumption DEF CreatePool, poolVars, workerVars, callVars, memVars
<1>11. ASSUME CreateWorker PROVE ArgsInv'
  BY <1>11, PlanAssumption DEF CreateWorker, poolVars, workerVars, callVars, memVars
<1>12. ASSUME CreateWorkerFails PROVE ArgsInv'
  BY <1>12, PlanAssumption DEF CreateWorkerFails, poolVars, workerVars, callVars, memVars
<1>13. ASSUME CreateReturns PROVE ArgsInv'
  BY <1>13, PlanAssumption DEF CreateReturns, poolVars, workerVars, callVars, memVars
<1>14. ASSUME DestroyPool PROVE ArgsInv'
  BY <1>14, PlanAssumption DEF DestroyPool, poolVars, workerVars, callVars, memVars
<1>15. ASSUME ShutdownLock PROVE ArgsInv'
  BY <1>15, PlanAssumption DEF ShutdownLock, poolVars, workerVars, callVars, memVars
<1>16. ASSUME ShutdownSet PROVE ArgsInv'
  BY <1>16, PlanAssumption DEF ShutdownSet, poolVars, workerVars, callVars, memVars
<1>17. ASSUME ShutdownWake PROVE ArgsInv'
  BY <1>17, PlanAssumption DEF ShutdownWake, poolVars, workerVars, callVars, memVars
<1>18. ASSUME JoinAndFree PROVE ArgsInv'
  BY <1>18, PlanAssumption DEF JoinAndFree, poolVars, workerVars, callVars, memVars
<1>19. ASSUME FillRound PROVE ArgsInv'
  <2>1. call \in Calls /\ ~BadArgs(call) /\ HasChunk(call, block)
    BY <1>19 DEF FillRound, LifecycleInv, CountInv
  <2>2. n' \in 1 .. RegionThreads
    BY <1>19, <2>1, RoundSizeRange DEF FillRound
  <2>3. \A k \in 0 .. n' - 1 :
          k \in Threads /\ args'[k] = ChunkArg(call, block, k)
    BY <1>19, <2>2, PlanAssumption DEF FillRound, Threads
  <2>4. \A k \in 0 .. n' - 1 :
          /\ args'[k].buf = k
          /\ args'[k].m <= ChunkBlocks(call)
          /\ call.op # "wave" =>
               args'[k].first = block + k * ChunkBlocks(call)
    <3>1. \A k \in Threads :
            /\ ChunkArg(call, block, k).buf = k
            /\ ChunkArg(call, block, k).m <= ChunkBlocks(call)
            /\ call.op # "wave" =>
                 ChunkArg(call, block, k).first = block + k * ChunkBlocks(call)
      BY <2>1, ChunkArgFacts
    <3> QED BY <2>3, <3>1
  <2>5. call.op # "wave" => args'[0].first = block
    <3>0. n' \in Int /\ 1 <= n'
      BY <2>2
    <3>4. \A x \in Int : 1 <= x => 0 \in 0 .. x - 1
      OBVIOUS
    <3>1. 0 \in 0 .. n' - 1
      BY <3>0, <3>4
    <3>2. block + 0 * ChunkBlocks(call) = block
      BY <2>1, ChunkBlocksPos
    <3> QED BY <3>1, <3>2, <2>4
  <2>6. call' = call /\ ChunkBlocks(call)' = ChunkBlocks(call)
    BY <1>19 DEF FillRound, ChunkBlocks
  <2> QED BY <2>4, <2>5, <2>6
<1>20. ASSUME SubmitLock PROVE ArgsInv'
  BY <1>20, PlanAssumption DEF SubmitLock, poolVars, workerVars, callVars, memVars
<1>21. ASSUME SubmitJobs PROVE ArgsInv'
  BY <1>21, PlanAssumption DEF SubmitJobs, poolVars, workerVars, callVars, memVars
<1>22. ASSUME SubmitWake PROVE ArgsInv'
  BY <1>22, PlanAssumption DEF SubmitWake, poolVars, workerVars, callVars, memVars
<1>23. ASSUME CallerLabel PROVE ArgsInv'
  <2>1. n - 1 \in Threads
    BY <1>23, PlanAssumption DEF Threads, Workers, NULL, JobsInv, CountInv, CallerLabel
  <2>2. LabelChunk(n - 1) \/ RefuseChunk(n - 1)
    BY <1>23 DEF CallerLabel
  <2>3. \A k \in Threads : /\ args'[k].buf = args[k].buf
                            /\ args'[k].m = args[k].m
                            /\ args'[k].first = args[k].first
    BY <2>1, <2>2, ChunkStepFacts
  <2>4. 0 \in Threads /\ (0 .. n - 1) \subseteq Threads
    BY PlanAssumption DEF Threads
  <2>5. call' = call /\ n' = n
    BY <1>23 DEF CallerLabel
  <2>6. ArgsInv' <=> (InRound' \/ cpc' \in {"submit_lock", "submit", "collect"} =>
          \A k \in 0 .. n - 1 :
            /\ args'[k].buf = k
            /\ args'[k].m <= ChunkBlocks(call)
            /\ call.op # "wave" =>
                 args'[k].first = args'[0].first + k * ChunkBlocks(call))
    BY <2>5 DEF ChunkBlocks
  <2>7. InRound \/ cpc \in {"submit_lock", "submit", "collect"}
    BY <1>23, <1>23 DEF CallerLabel, CountInv, Outstanding, Busy
  <2> QED BY <2>3, <2>4, <2>6, <2>7
<1>24. ASSUME CallerSink PROVE ArgsInv'
  <2>1. n - 1 \in Threads
    BY <1>24, PlanAssumption DEF Threads, Workers, NULL, JobsInv, CountInv, CallerSink
  <2>2. SinkChunk(n - 1) /\ call.op = "wave" /\ call \in Calls
    BY <1>24, CallNotNoCall DEF JobsInv, CountInv, CallerSink, NoCall
  <2>3. \A k \in Threads : /\ args'[k].buf = args[k].buf
                            /\ args'[k].m = args[k].m
                            /\ args'[k].first = args[k].first
    BY <2>1, <2>2, ChunkStepFacts
  <2>4. 0 \in Threads /\ (0 .. n - 1) \subseteq Threads
    BY PlanAssumption DEF Threads
  <2>5. call' = call /\ n' = n
    BY <1>24 DEF CallerSink
  <2>6. ArgsInv' <=> (InRound' \/ cpc' \in {"submit_lock", "submit", "collect"} =>
          \A k \in 0 .. n - 1 :
            /\ args'[k].buf = k
            /\ args'[k].m <= ChunkBlocks(call)
            /\ call.op # "wave" =>
                 args'[k].first = args'[0].first + k * ChunkBlocks(call))
    BY <2>5 DEF ChunkBlocks
  <2>7. InRound \/ cpc \in {"submit_lock", "submit", "collect"}
    BY <1>24, <1>24 DEF CallerSink, CountInv, Outstanding, Busy
  <2> QED BY <2>3, <2>4, <2>6, <2>7
<1>25. ASSUME AwaitLock PROVE ArgsInv'
  BY <1>25, PlanAssumption DEF AwaitLock, poolVars, workerVars, callVars, memVars
<1>26. ASSUME AwaitBlocks PROVE ArgsInv'
  BY <1>26, PlanAssumption DEF AwaitBlocks, poolVars, workerVars, callVars, memVars
<1>27. ASSUME CallerSleep PROVE ArgsInv'
  BY <1>27, PlanAssumption DEF CallerSleep, poolVars, workerVars, callVars, memVars
<1>28. ASSUME CallerSpuriousWake PROVE ArgsInv'
  BY <1>28, PlanAssumption DEF CallerSpuriousWake, poolVars, workerVars, callVars, memVars
<1>29. ASSUME AwaitDone PROVE ArgsInv'
  BY <1>29, PlanAssumption DEF AwaitDone, poolVars, workerVars, callVars, memVars
<1>30. ASSUME CollectRound PROVE ArgsInv'
  BY <1>30, PlanAssumption DEF CollectRound, poolVars, workerVars, callVars, memVars
<1>31. ASSUME Return PROVE ArgsInv'
  BY <1>31, PlanAssumption DEF Return, poolVars, workerVars, callVars, memVars
<1>32. ASSUME NEW c \in Calls, BeginCall(c) PROVE ArgsInv'
  BY <1>32, PlanAssumption DEF BeginCall, poolVars, workerVars, callVars, memVars
<1>33. CASE UNCHANGED vars
  BY <1>33 DEF vars, poolVars, workerVars, callVars, memVars
<1> QED
  BY <1>1, <1>2, <1>3, <1>4, <1>5, <1>6, <1>7, <1>8, <1>9, <1>10, <1>11, <1>12, <1>13, <1>14, <1>15, <1>16, <1>17, <1>18, <1>19, <1>20, <1>21, <1>22, <1>23, <1>24, <1>25, <1>26, <1>27, <1>28, <1>29, <1>30, <1>31, <1>32, <1>33
     DEF Next, Worker, Lifecycle, CallStep

----------------------------------------------------------------------------
(* The theorems.                                                            *)

\* The invariant holds initially.
LEMMA InitInv == Init => PoolInv
<1> SUFFICES ASSUME Init PROVE PoolInv
  OBVIOUS
<1> USE DEF Init
<1>1. TypeOK
  <2>1. 0 \in 0 .. RegionThreads - 1 /\ 0 \in 0 .. RegionThreads
    BY PlanAssumption
  <2>2. jobs \in [Workers -> Workers \cup {NULL}] /\ job \in [Workers -> Workers \cup {NULL}]
    OBVIOUS
  <2>3. pc \in [Workers -> WorkerPC] /\ cpc \in CallerPC
    BY DEF WorkerPC, CallerPC
  <2>4. args \in [Threads -> ArgType] /\ slots \in [Threads -> ArgType]
    BY OldType
  <2>5. region \in [RegionBlocks -> LabelType] /\ disk \subseteq [off : Int, len : Int, chunk : Int, m : Int]
    BY OldType
  <2>6. up \in BOOLEAN /\ shutdown \in BOOLEAN
    OBVIOUS
  <2>7. mutex \in Threads \cup {Free} /\ call \in Calls \cup {NoCall}
    OBVIOUS
  <2>8. /\ created \in 0 .. RegionThreads - 1 /\ n \in 0 .. RegionThreads
        /\ n_done \in Nat /\ n_expected \in Nat /\ block \in Nat /\ rc \in Int
    BY <2>1
  <2> HIDE DEF Init
  <2> QED BY <2>2, <2>3, <2>4, <2>5, <2>6, <2>7, <2>8 DEF TypeOK
<1>2. MutexInv
  BY PlanAssumption DEF MutexInv, Workers, Caller, Free
<1>3. LifecycleInv
  BY DEF LifecycleInv
<1>4. JobsInv
  BY DEF JobsInv, Busy
<1>5. Outstanding = {}
  BY DEF Outstanding, Busy
<1>6. CountInv /\ ArgsInv /\ NoLostWakeup
  BY <1>5 DEF CountInv, ArgsInv, InRound, NoLostWakeup
<1> QED BY <1>1, <1>2, <1>3, <1>4, <1>6 DEF PoolInv

\* PoolInv is inductive: it holds in every reachable state of the pool, for
\* every number of threads and every set of calls.
THEOREM PoolInvariant == Spec => []PoolInv
<1>1. Init => PoolInv
  BY InitInv
<1>2. PoolInv /\ [Next]_vars => PoolInv'
  BY TypeStep, MutexStep, LifecycleStep, JobsStep, CountStep, ArgsStep,
     WakeupStep DEF PoolInv
<1> QED BY <1>1, <1>2, PTL DEF Spec

\* Type correctness.
THEOREM Typing == Spec => []TypeOK
<1>1. PoolInv => TypeOK
  BY DEF PoolInv
<1> QED BY <1>1, PoolInvariant, PTL

\* The barrier: args[], scratch and slots are never reused or released while
\* a worker may still touch them.
THEOREM Barrier == Spec => []RoundBarrier
<1>1. PoolInv => RoundBarrier
  BY DEF PoolInv, CountInv, RoundBarrier
<1> QED BY <1>1, PoolInvariant, PTL

\* No signal or broadcast of the pool's two condition variables is missed.
THEOREM WakeupsArrive == Spec => []NoLostWakeup
<1>1. PoolInv => NoLostWakeup
  BY DEF PoolInv
<1> QED BY <1>1, PoolInvariant, PTL

\* A pool is freed only when all its threads are gone and its mutex is free.
THEOREM FreeIsSafe == Spec => []FreedPoolUnused
<1>1. PoolInv => FreedPoolUnused
  <2> SUFFICES ASSUME PoolInv, ~up PROVE FreedPoolUnused
    BY DEF FreedPoolUnused
  <2>1. cpc = "idle" /\ \A w \in Workers : pc[w] = "none"
    BY DEF PoolInv, LifecycleInv
  <2>2. mutex # Caller /\ \A w \in Workers : mutex # w
    BY <2>1 DEF PoolInv, MutexInv
  <2>3. mutex = Free
    BY <2>2, PlanAssumption DEF PoolInv, TypeOK, Threads, Workers, Caller
  <2> QED BY <2>1, <2>3 DEF FreedPoolUnused
<1> QED BY <1>1, PoolInvariant, PTL

\* Chunks i and k of a round cover different blocks.
LEMMA BlocksApart ==
  ASSUME PoolInv, InRound, call.op # "wave",
         NEW i \in 0 .. n - 1, NEW k \in 0 .. n - 1, i < k
  PROVE  OutBlocks(args[i]) \cap OutBlocks(args[k]) = {}
<1>1. call \in Calls
  BY DEF PoolInv, TypeOK, LifecycleInv, InRound
<1> DEFINE cb == ChunkBlocks(call)
<1>2. cb \in Nat \ {0}
  BY <1>1, ChunkBlocksPos
<1>3. i \in Threads /\ k \in Threads /\ 0 \in Threads /\ i \in Nat /\ k \in Nat
  BY PlanAssumption DEF PoolInv, TypeOK, Threads
<1>4. args[i] \in ArgType /\ args[k] \in ArgType /\ args[0] \in ArgType
  BY <1>3 DEF PoolInv, TypeOK
<1> DEFINE s == args[0].first
<1>5. s \in Int /\ args[i].first \in Int /\ args[i].m \in Int
      /\ args[k].first \in Int /\ args[k].m \in Int
  BY <1>4 DEF ArgType
<1>6. /\ args[i].first = s + i * cb /\ args[i].m <= cb
      /\ args[k].first = s + k * cb
  BY DEF PoolInv, ArgsInv
<1>7. i * cb + cb <= k * cb
  <2> HIDE DEF cb
  <2>1. PICK d \in Nat : k = i + 1 + d
    <3>1. k - i - 1 \in Nat /\ k = i + 1 + (k - i - 1)
      BY <1>3
    <3> QED BY <3>1
  <2>2. k * cb = i * cb + cb + d * cb
    BY <1>2, <1>3, <2>1
  <2>3. d * cb \in Nat
    BY <1>2, <2>1
  <2>4. i * cb \in Nat
    BY <1>2, <1>3
  <2> QED BY <1>2, <2>2, <2>3, <2>4
<1>8. i * cb \in Int /\ k * cb \in Int
  BY <1>2, <1>3
<1>9. args[i].first + args[i].m <= args[k].first
  <2> HIDE DEF cb, s
  <2> QED BY <1>2, <1>5, <1>6, <1>7, <1>8
<1> QED BY <1>5, <1>9 DEF OutBlocks

\* Threads at work at the same time share neither a scratch buffer nor a
\* slot nor a block of the region.
THEOREM DisjointWork == Spec => []WorkDisjoint
<1>1. PoolInv => WorkDisjoint
  <2> SUFFICES ASSUME PoolInv, NEW x \in Active, NEW y \in Active, x # y
               PROVE  /\ x[2] # y[2]
                      /\ args[x[2]].buf # args[y[2]].buf
                      /\ call.op # "wave" =>
                           OutBlocks(args[x[2]]) \cap OutBlocks(args[y[2]]) = {}
    BY DEF WorkDisjoint
  <2>1. InRound
    BY DEF PoolInv, CountInv, Active, Outstanding, Busy, InRound
  <2>2. n \in 0 .. RegionThreads /\ n >= 1
    BY <2>1 DEF PoolInv, TypeOK, CountInv
  <2>3. ASSUME NEW z \in Active
        PROVE  /\ z[2] \in 0 .. n - 1
               /\ z = <<z[2], z[2]>> \/ z = <<Caller, n - 1>>
               /\ z # <<Caller, n - 1>> => z[2] # n - 1
    <3>1. CASE z = <<Caller, n - 1>>
      BY <2>2, <3>1
    <3>2. ASSUME NEW w \in Workers, pc[w] \in {"label", "sink"}, z = <<w, job[w]>>
          PROVE  z = <<w, w>> /\ w \in 0 .. n - 2
      <4>1. job[w] = w
        BY <3>2 DEF PoolInv, JobsInv
      <4>2. w \in Outstanding
        BY <3>2 DEF Outstanding, Busy
      <4>3. Outstanding \subseteq 0 .. n - 2
        BY <2>1, <4>2 DEF PoolInv, CountInv
      <4> QED BY <3>2, <4>1, <4>2, <4>3
    <3>3. CASE z # <<Caller, n - 1>>
      <4>1. PICK w \in Workers : pc[w] \in {"label", "sink"} /\ z = <<w, job[w]>>
        BY <3>3 DEF Active
      <4>2. z = <<w, w>> /\ w \in 0 .. n - 2
        BY <4>1, <3>2
      <4> QED BY <2>2, <4>2
    <3> QED BY <3>1, <3>3
  <2>4. x[2] \in 0 .. n - 1 /\ y[2] \in 0 .. n - 1 /\ x[2] # y[2]
    BY <2>3
  <2>5. args[x[2]].buf = x[2] /\ args[y[2]].buf = y[2]
    BY <2>1, <2>4 DEF PoolInv, ArgsInv
  <2>6. ASSUME call.op # "wave"
        PROVE  OutBlocks(args[x[2]]) \cap OutBlocks(args[y[2]]) = {}
    <3>1. CASE x[2] < y[2]
      BY <2>1, <2>4, <2>6, <3>1, BlocksApart
    <3>2. CASE y[2] < x[2]
      <4>1. OutBlocks(args[y[2]]) \cap OutBlocks(args[x[2]]) = {}
        BY <2>1, <2>4, <2>6, <3>2, BlocksApart
      <4> QED BY <4>1
    <3> QED BY <2>2, <2>4, <3>1, <3>2
  <2> QED BY <2>4, <2>5, <2>6
<1> QED BY <1>1, PoolInvariant, PTL

----------------------------------------------------------------------------
(* What the chunks leave in memory and on the device.  PoolInv says who may *)
(* work when; the invariant below adds what has been written so far.        *)

\* The caller is between the fill loop and the end of the scan of args[].
RoundOpen == InRound \/ cpc \in {"submit_lock", "submit", "collect"}

\* Chunk i has been through chunk_thread_fn; chunk i is labelled in its slot
\* and about to be handed to the sink.  The last chunk is the caller's.
Done(i) ==
  IF i = n - 1
  THEN cpc \notin {"submit_lock", "submit", "submit_wake", "label", "sink"}
  ELSE /\ cpc \notin {"submit_lock", "submit"}
       /\ jobs[i] = NULL /\ pc[i] \notin {"label", "sink"}

AtSink(i) == IF i = n - 1 THEN cpc = "sink" ELSE pc[i] = "sink"

\* The output of chunk k + i of the call, the i-th of its round, is there.
ChunkOut(k, i) ==
  /\ \A x \in CoveredBlocks(call) :
       x \div ChunkBlocks(call) = k + i => region[x] = Expected(call, x)
  /\ call.op = "wave" => ExtentOf(call, i) \in disk

LabelledUpTo(b) ==
  \A x \in CoveredBlocks(call) : x < b => region[x] = Expected(call, x)

\* The next round starts at chunk k, and all before it is labelled.
FillAt(k) ==
  /\ block = k * ChunkBlocks(call)
  /\ LabelledUpTo(block)

\* The round under way started at chunk k.
RoundAt(k) ==
  LET start == k * ChunkBlocks(call)
  IN  /\ HasChunk(call, start)
      /\ n = RoundSize(call, start)
      /\ block = NextBlock(call, start)
      /\ \A i \in Threads : i < n => SameWork(args[i], ChunkArg(call, start, i))
      /\ \A i \in Threads : i < n /\ AtSink(i) => SameWork(slots[i], args[i])
      /\ LabelledUpTo(start)
      /\ \A i \in Threads : i < n /\ Done(i) /\ args[i].rc = 0 => ChunkOut(k, i)

RoundInv ==
  /\ cpc = "fill" => ~ChunkFailed /\ \E k \in Nat : FillAt(k)
  /\ RoundOpen => \E k \in Nat : RoundAt(k)

DataInv == RoundInv /\ LabelsExact /\ SuccessIsComplete

\* The chunks of the round under way are chunks of the call.
LEMMA RoundFacts ==
  ASSUME PoolInv, NEW k \in Nat, RoundAt(k), call \in Calls, NEW i \in Threads, i < n
  PROVE  /\ call.op # "wave" =>
              HasChunk(call, k * ChunkBlocks(call) + i * ChunkBlocks(call))
         /\ call.op = "wave" => /\ k * ChunkBlocks(call) = 0
                                /\ SameWork(args[i], ChunkArg(call, 0, i))
                                /\ n = call.n
         /\ SameWork(args[i], ChunkArg(call, k * ChunkBlocks(call), i))
<1> DEFINE s == k * ChunkBlocks(call)
<1>1. n = RoundSize(call, s) /\ SameWork(args[i], ChunkArg(call, s, i)) /\ HasChunk(call, s)
  BY DEF RoundAt
<1>2. s \in Nat
  BY ChunkBlocksPos
<1> HIDE DEF s
<1>3. ASSUME call.op # "wave" PROVE HasChunk(call, s + i * ChunkBlocks(call))
  BY <1>1, <1>2, <1>3, RoundSizeIsCount
<1>4. ASSUME call.op = "wave" PROVE s = 0 /\ n = call.n
  BY <1>1, <1>4 DEF HasChunk, RoundSize
<1> QED BY <1>1, <1>3, <1>4 DEF s

\* What one step of chunk_thread_fn on args[i] does to memory and the device.
LEMMA ChunkEffect ==
  ASSUME PoolInv, NEW k \in Nat, RoundAt(k), call \in Calls, RoundOpen,
         ~BadArgs(call), NEW i \in Threads, i < n, UNCHANGED call,
         \/ LabelChunk(i) /\ IF call.op = "wave" THEN ~Done(i)' ELSE ~AtSink(i)'
         \/ RefuseChunk(i) /\ ~AtSink(i)'
         \/ SinkChunk(i) /\ AtSink(i) /\ call.op = "wave" /\ ~AtSink(i)'
  PROVE  /\ \A j \in Threads : SameWork(args'[j], args[j])
         /\ \A j \in Threads : j # i => args'[j] = args[j] /\ slots'[j] = slots[j]
         /\ \A x \in RegionBlocks :
              \/ region'[x] = region[x]
              \/ x \in CoveredBlocks(call) /\ region'[x] = Expected(call, x)
         /\ disk \subseteq disk' /\ disk' \subseteq disk \cup ExpectedExtents(call)
         /\ AtSink(i)' => SameWork(slots'[i], args'[i])
         /\ Done(i)' /\ args'[i].rc = 0 => ChunkOut(k, i)'
<1>1. /\ args \in [Threads -> ArgType] /\ slots \in [Threads -> ArgType]
      /\ region \in [RegionBlocks -> LabelType]
      /\ args[i].buf = i
  <2>1. i \in 0 .. n - 1
    BY PlanAssumption DEF Threads, PoolInv, TypeOK
  <2> QED BY <2>1 DEF PoolInv, TypeOK, ArgsInv, RoundOpen
<1>2. SameWork(args[i], ChunkArg(call, k * ChunkBlocks(call), i))
  BY RoundFacts
<1>3. call.op = "wave" => CoveredBlocks(call) = {}
  BY DEF CoveredBlocks
<1>4. CASE LabelChunk(i) /\ IF call.op = "wave" THEN ~Done(i)' ELSE ~AtSink(i)'
  <2>1. args' = args /\ disk' = disk
    BY <1>4 DEF LabelChunk
  <2>2. CASE call.op = "wave"
    <3>1. slots' = [slots EXCEPT ![i] = args[i]] /\ region' = region /\ ~Done(i)'
      BY <1>1, <1>4, <2>2 DEF LabelChunk
    <3> QED BY <1>1, <2>1, <3>1 DEF SameWork
  <2>3. CASE call.op # "wave"
    <3>1. slots' = slots /\ region' = WriteChunk(region, args[i])
      BY <1>4, <2>3 DEF LabelChunk
    <3>2. HasChunk(call, k * ChunkBlocks(call) + i * ChunkBlocks(call))
      BY <2>3, RoundFacts
    <3>3. region' = [b \in RegionBlocks |->
                       IF b \in CoveredBlocks(call) /\ b \div ChunkBlocks(call) = k + i
                       THEN Expected(call, b) ELSE region[b]]
      BY <1>2, <2>3, <3>1, <3>2, WriteIsLabelChunk
    <3>4. CoveredBlocks(call) \subseteq RegionBlocks
      BY <2>3, CallBlocks
    <3>5. ChunkOut(k, i)'
      BY <2>3, <3>3, <3>4 DEF ChunkOut
    <3>6. ~AtSink(i)'
      BY <1>4, <2>3
    <3> QED BY <2>1, <3>1, <3>3, <3>5, <3>6 DEF SameWork
  <2> QED BY <2>2, <2>3
<1>5. CASE RefuseChunk(i) /\ ~AtSink(i)'
  <2>1. args' = [args EXCEPT ![i].rc = -1] /\ UNCHANGED <<region, slots, disk>>
    BY <1>5 DEF RefuseChunk, memVars
  <2>2. args'[i].rc = -1 /\ \A j \in Threads : SameWork(args'[j], args[j])
    BY <1>1, <2>1 DEF SameWork, ArgType
  <2> QED BY <1>1, <1>5, <2>1, <2>2
<1>6. CASE SinkChunk(i) /\ AtSink(i) /\ call.op = "wave" /\ ~AtSink(i)'
  <2>1. SameWork(slots[i], args[i]) /\ SameWork(args[i], ChunkArg(call, 0, i)) /\ n = call.n
    BY <1>6, RoundFacts DEF RoundAt
  <2>2. Extent(i) = ExtentOf(call, i)
    <3>1. [off |-> args[i].off, len |-> call.wlen, chunk |-> args[i].chunk, m |-> args[i].m]
            = ExtentOf(call, i)
      BY <1>6, <2>1, WaveArgIsRight
    <3> QED BY <1>1, <2>1, <3>1 DEF Extent, SameWork
  <2>3. ExtentOf(call, i) \in ExpectedExtents(call)
    <3>1. i \in 0 .. call.n - 1 /\ call.n \in Nat
      BY <2>1, PlanAssumption DEF Threads, PoolInv, TypeOK
    <3> QED BY <1>6, <3>1, WaveExtents
  <2>4. CASE disk' = disk \cup {Extent(i)} /\ UNCHANGED <<args, region, slots>>
    BY <1>3, <1>6, <2>2, <2>3, <2>4 DEF SameWork, ChunkOut
  <2>5. CASE args' = [args EXCEPT ![i].rc = SinkErr] /\ UNCHANGED memVars
    <3>1. args'[i].rc # 0 /\ \A j \in Threads : SameWork(args'[j], args[j])
      BY <1>1, <2>5, SinkAssumption DEF SameWork, ArgType
    <3> QED BY <1>1, <1>6, <2>5, <3>1 DEF memVars
  <2> QED BY <1>6, <2>4, <2>5 DEF SinkChunk
<1> QED BY <1>4, <1>5, <1>6

\* So it keeps what is known of the round, and writes only right labels.
LEMMA ChunkStepKeepsRound ==
  ASSUME PoolInv, NEW k \in Nat, RoundAt(k), call \in Calls, RoundOpen, LabelsExact,
         ~BadArgs(call), NEW i \in Threads, i < n, UNCHANGED <<call, n, block>>,
         \/ LabelChunk(i) /\ IF call.op = "wave" THEN ~Done(i)' ELSE ~AtSink(i)'
         \/ RefuseChunk(i) /\ ~AtSink(i)'
         \/ SinkChunk(i) /\ AtSink(i) /\ call.op = "wave" /\ ~AtSink(i)',
         \A j \in Threads : j < n /\ j # i =>
           (Done(j)' => Done(j)) /\ (AtSink(j)' => AtSink(j))
  PROVE  RoundAt(k)' /\ LabelsExact'
<1> DEFINE s == k * ChunkBlocks(call)
<1>1. /\ \A j \in Threads : SameWork(args'[j], args[j])
      /\ \A j \in Threads : j # i => args'[j] = args[j] /\ slots'[j] = slots[j]
      /\ \A x \in RegionBlocks :
           \/ region'[x] = region[x]
           \/ x \in CoveredBlocks(call) /\ region'[x] = Expected(call, x)
      /\ disk \subseteq disk' /\ disk' \subseteq disk \cup ExpectedExtents(call)
      /\ AtSink(i)' => SameWork(slots'[i], args'[i])
      /\ Done(i)' /\ args'[i].rc = 0 => ChunkOut(k, i)'
  BY ChunkEffect
<1>2. CoveredBlocks(call) \subseteq RegionBlocks
  <2>1. CASE call.op = "wave"
    BY <2>1 DEF CoveredBlocks
  <2> QED BY <2>1, CallBlocks
<1>3. call' = call /\ n' = n /\ block' = block
  OBVIOUS
<1>4. /\ HasChunk(call, s)
      /\ n = RoundSize(call, s)
      /\ block = NextBlock(call, s)
      /\ \A j \in Threads : j < n => SameWork(args[j], ChunkArg(call, s, j))
      /\ \A j \in Threads : j < n /\ AtSink(j) => SameWork(slots[j], args[j])
      /\ LabelledUpTo(s)
      /\ \A j \in Threads : j < n /\ Done(j) /\ args[j].rc = 0 => ChunkOut(k, j)
  BY DEF RoundAt
<1> HIDE DEF s
<1>5. \A j \in Threads : j < n => SameWork(args'[j], ChunkArg(call, s, j))
  BY <1>1, <1>4 DEF SameWork
<1>6. ASSUME NEW j \in Threads, j < n, AtSink(j)' PROVE SameWork(slots'[j], args'[j])
  <2>1. CASE j = i
    BY <1>1, <1>6, <2>1
  <2>2. CASE j # i
    BY <1>1, <1>4, <1>6, <2>2
  <2> QED BY <2>1, <2>2
<1>7. \A x \in CoveredBlocks(call) :
        region[x] = Expected(call, x) => region'[x] = Expected(call, x)
  BY <1>1, <1>2
<1>8. LabelledUpTo(s)'
  <2>1. \A x \in CoveredBlocks(call) : x < s => region'[x] = Expected(call, x)
    BY <1>4, <1>7 DEF LabelledUpTo
  <2> QED BY <1>3, <2>1 DEF LabelledUpTo, s
<1>9. ASSUME NEW j \in Threads, j < n, Done(j)', args'[j].rc = 0 PROVE ChunkOut(k, j)'
  <2>1. CASE j = i
    BY <1>1, <1>9, <2>1
  <2>2. CASE j # i
    <3>1. args[j].rc = 0 /\ Done(j)
      BY <1>1, <1>9, <2>2
    <3>2. ChunkOut(k, j)
      BY <1>4, <1>9, <3>1
    <3> QED BY <1>1, <1>3, <1>7, <3>2 DEF ChunkOut
  <2> QED BY <2>1, <2>2
<1>10. RoundAt(k)'
  BY <1>3, <1>4, <1>5, <1>6, <1>8, <1>9 DEF RoundAt, s
<1>11. LabelsExact'
  BY <1>1, <1>3, CallNotNoCall DEF LabelsExact
<1> QED BY <1>10, <1>11

\* Steps that touch neither the round's data nor what it has written.
LEMMA RoundKept ==
  ASSUME NEW k \in Nat, RoundAt(k), UNCHANGED <<call, n, block, args, region, slots, disk>>,
         \A j \in Threads : j < n => (Done(j)' => Done(j)) /\ (AtSink(j)' => AtSink(j))
  PROVE  RoundAt(k)'
<1>1. \A i \in Threads : ChunkOut(k, i)' <=> ChunkOut(k, i)
  BY DEF ChunkOut
<1>2. \A b : LabelledUpTo(b)' <=> LabelledUpTo(b)
  BY DEF LabelledUpTo
<1> QED BY <1>1, <1>2 DEF RoundAt

\* At the end of a round without errors every block before the next round is
\* labelled, and of a wave every super-chunk is on the device.
LEMMA RoundDone ==
  ASSUME PoolInv, NEW k \in Nat, RoundAt(k), call \in Calls, ~BadArgs(call),
         cpc = "collect", ~ChunkFailed
  PROVE  /\ LabelledUpTo(block)
         /\ call.op = "wave" => ExpectedExtents(call) \subseteq disk
<1> DEFINE s == k * ChunkBlocks(call)
<1>1. /\ HasChunk(call, s)
      /\ n = RoundSize(call, s)
      /\ block = NextBlock(call, s)
      /\ LabelledUpTo(s)
      /\ \A j \in Threads : j < n /\ Done(j) /\ args[j].rc = 0 => ChunkOut(k, j)
  BY DEF RoundAt
<1>2. n \in Nat /\ n <= RegionThreads /\ RegionThreads \in Nat
  BY PlanAssumption DEF PoolInv, TypeOK
<1>3. ASSUME NEW j \in Threads, j < n PROVE ChunkOut(k, j)
  <2>1. args[j].rc = 0
    BY <1>3 DEF ChunkFailed
  <2>2. Done(j)
    <3>1. CASE j = n - 1
      BY <3>1 DEF Done
    <3>2. CASE j # n - 1
      <4>1. j \in Workers
        BY <1>2, <1>3, <3>2 DEF Threads, Workers
      <4>2. Outstanding = {}
        BY DEF PoolInv, CountInv, InRound
      <4>3. jobs[j] = NULL /\ pc[j] \notin {"label", "sink"}
        BY <4>1, <4>2 DEF Outstanding, Busy
      <4> QED BY <3>2, <4>3 DEF Done
    <3> QED BY <3>1, <3>2
  <2> QED BY <1>1, <1>3, <2>1, <2>2
<1>4. LabelledUpTo(block)
  <2>1. SUFFICES ASSUME NEW x \in CoveredBlocks(call), x < block
                 PROVE  region[x] = Expected(call, x)
    BY DEF LabelledUpTo
  <2>2. call.op # "wave"
    BY DEF CoveredBlocks
  <2>3. CASE x < s
    BY <1>1, <2>3 DEF LabelledUpTo
  <2>4. CASE ~(x < s)
    <3>1. s <= x
      <4>1. x \in Int /\ s \in Int
        <5>1. TotalBlocks(call) \in Nat /\ CoveredBlocks(call) \subseteq 0 .. TotalBlocks(call) - 1
          BY <2>2, TotalBlocksType, CallBlocks
        <5> QED BY <5>1, ChunkBlocksPos
      <4> HIDE DEF s
      <4> QED BY <2>4, <4>1
    <3>2. PICK i \in Threads : i < RoundSize(call, s) /\ x \div ChunkBlocks(call) = k + i
      BY <1>1, <2>1, <2>2, <3>1, RoundCovers
    <3>3. ChunkOut(k, i)
      BY <1>1, <1>3, <3>2
    <3> QED BY <3>2, <3>3 DEF ChunkOut
  <2> QED BY <2>3, <2>4
<1>5. ASSUME call.op = "wave" PROVE ExpectedExtents(call) \subseteq disk
  <2>1. n = call.n
    BY <1>1, <1>5 DEF RoundSize
  <2>2. ExpectedExtents(call) = {ExtentOf(call, i) : i \in 0 .. n - 1}
    BY <1>2, <1>5, <2>1, WaveExtents
  <2>3. ASSUME NEW i \in 0 .. n - 1 PROVE ExtentOf(call, i) \in disk
    <3>1. i \in Threads /\ i < n
      BY <1>2 DEF Threads
    <3> QED BY <1>3, <1>5, <3>1 DEF ChunkOut
  <2> QED BY <2>2, <2>3
<1> QED BY <1>4, <1>5

\* A scan of args[] that ends the loop with 0 ends it with everything done.
LEMMA LoopDone ==
  ASSUME PoolInv, DataInv, call \in Calls, ~BadArgs(call),
         cpc = "collect", ~ChunkFailed, ~HasChunk(call, block)
  PROVE  /\ \A b \in CoveredBlocks(call) : region[b] = Expected(call, b)
         /\ disk = ExpectedExtents(call)
<1>1. PICK k \in Nat : RoundAt(k)
  BY DEF DataInv, RoundInv, RoundOpen
<1>2. LabelledUpTo(block) /\ (call.op = "wave" => ExpectedExtents(call) \subseteq disk)
  BY <1>1, RoundDone
<1>3. disk \subseteq ExpectedExtents(call)
  BY CallNotNoCall DEF DataInv, LabelsExact
<1>4. CASE call.op = "wave"
  BY <1>2, <1>3, <1>4 DEF CoveredBlocks
<1>5. CASE call.op # "wave"
  <2>1. ExpectedExtents(call) = {}
    BY <1>5 DEF ExpectedExtents
  <2>2. HasChunk(call, k * ChunkBlocks(call)) /\ block = NextBlock(call, k * ChunkBlocks(call))
    BY <1>1 DEF RoundAt
  <2>3. \A x \in CoveredBlocks(call) : x < block
    BY <1>5, <2>2, RoundEnds
  <2> QED BY <1>2, <1>3, <2>1, <2>3 DEF LabelledUpTo
<1> QED BY <1>4, <1>5

\* Some chunk has a return code exactly if the scan of args[] finds one.
LEMMA FirstErrorFacts ==
  ASSUME TypeOK
  PROVE  FirstError = 0 <=> ~ChunkFailed
<1> DEFINE bad == {i \in Threads : i < n /\ args[i].rc # 0}
<1>1. FirstError = IF bad = {} THEN 0 ELSE args[Min(bad)].rc
  BY DEF FirstError
<1>2. ChunkFailed <=> bad # {}
  BY DEF ChunkFailed
<1>3. bad \in SUBSET Nat
  BY PlanAssumption DEF Threads
<1>4. CASE bad = {}
  BY <1>1, <1>2, <1>4
<1>5. CASE bad # {}
  <2>1. Min(bad) \in bad
    <3> HIDE DEF bad
    <3> QED BY <1>3, <1>5, LeastElement
  <2>2. args[Min(bad)].rc # 0
    BY <2>1
  <2> HIDE DEF bad
  <2> QED BY <1>1, <1>2, <1>5, <2>2
<1> QED BY <1>4, <1>5

\* A worker that has a chunk works for the round under way, on its own entry.
LEMMA WorkerInRound ==
  ASSUME PoolInv, NEW w \in Workers, pc[w] \in {"label", "sink"}
  PROVE  /\ InRound /\ job[w] = w /\ w \in Threads /\ w < n - 1 /\ w < n /\ w # n - 1
         /\ call \in Calls /\ ~BadArgs(call)
<1>1. w \in Outstanding
  BY DEF Outstanding, Busy
<1>2. InRound /\ n > 1 /\ Outstanding \subseteq 0 .. n - 2 /\ job[w] = w
  BY <1>1 DEF PoolInv, CountInv, JobsInv
<1>3. call \in Calls /\ ~BadArgs(call)
  BY <1>2 DEF InRound, PoolInv, LifecycleInv, CountInv, TypeOK
<1>4. w \in Threads /\ n \in Nat
  BY PlanAssumption DEF Workers, Threads, PoolInv, TypeOK
<1> QED BY <1>1, <1>2, <1>3, <1>4, PlanAssumption DEF Workers

----------------------------------------------------------------------------
(* DataInv is preserved, one kind of step at a time.                        *)

\* Steps of a worker or of the caller that only move the round along.
LEMMA QuietKeepsData ==
  ASSUME PoolInv, DataInv, UNCHANGED <<callVars, memVars>>,
         (cpc # "fill" /\ cpc' # "fill") \/ cpc' = cpc,
         cpc' = "return" <=> cpc = "return",
         RoundOpen' => RoundOpen,
         RoundOpen => \A j \in Threads : j < n =>
                        (Done(j)' => Done(j)) /\ (AtSink(j)' => AtSink(j))
  PROVE  DataInv'
<1> USE DEF DataInv
<1>1. UNCHANGED <<call, block, n, args, rc, region, slots, disk>>
  BY DEF callVars, memVars
<1>2. LabelsExact'
  BY <1>1 DEF LabelsExact
<1>3. SuccessIsComplete'
  BY <1>1 DEF SuccessIsComplete
<1>4. ASSUME cpc' = "fill" PROVE (~ChunkFailed)' /\ \E k \in Nat : FillAt(k)'
  <2>1. cpc = "fill"
    BY <1>4
  <2>2. PICK k \in Nat : FillAt(k)
    BY <2>1 DEF RoundInv
  <2>3. FillAt(k)' /\ ~ChunkFailed'
    BY <1>1, <2>1, <2>2 DEF FillAt, LabelledUpTo, ChunkFailed, RoundInv
  <2> QED BY <2>3
<1>5. ASSUME RoundOpen' PROVE \E k \in Nat : RoundAt(k)'
  <2>1. PICK k \in Nat : RoundAt(k)
    BY <1>5 DEF RoundInv
  <2>2. RoundAt(k)'
    BY <1>1, <1>5, <2>1, RoundKept
  <2> QED BY <2>2
<1> QED BY <1>2, <1>3, <1>4, <1>5 DEF RoundInv

LEMMA WorkerData ==
  ASSUME PoolInv, DataInv, NEW w \in Workers, Worker(w)
  PROVE  DataInv'
<1>1. CASE \/ WorkerLock(w) \/ WorkerFindsNothing(w) \/ WorkerSleep(w)
           \/ WorkerSpuriousWake(w) \/ WorkerTake(w) \/ WorkerCount(w) \/ WorkerExit(w)
  <2> USE DEF WorkerGoto
  <2>1. UNCHANGED <<callVars, memVars>>
    BY <1>1 DEF WorkerLock, WorkerFindsNothing, WorkerSleep, WorkerSpuriousWake,
                WorkerTake, WorkerCount, WorkerExit
  <2>2. cpc' = cpc \/ (cpc = "sleep" /\ cpc' = "woken")
    BY <1>1 DEF WorkerLock, WorkerFindsNothing, WorkerSleep, WorkerSpuriousWake,
                WorkerTake, WorkerCount, WorkerExit, Signalled
  <2>3. /\ pc' \in [Workers -> WorkerPC]
        /\ \A v \in Workers : v # w => pc'[v] = pc[v] /\ jobs'[v] = jobs[v]
        /\ pc[w] \notin {"label", "sink"} /\ pc'[w] # "sink"
        /\ pc'[w] = "label" \/ jobs'[w] = jobs[w]
    BY <1>1 DEF WorkerLock, WorkerFindsNothing, WorkerSleep, WorkerSpuriousWake, WorkerPC,
                WorkerTake, WorkerCount, WorkerExit, poolVars, PoolInv, TypeOK
  <2>4. \A j \in Threads : j < n /\ j # n - 1 => j \in Workers
    BY PlanAssumption DEF Threads, Workers, PoolInv, TypeOK
  <2>5. n' = n
    BY <2>1 DEF callVars
  <2>6. \A j \in Threads : j < n => (Done(j)' => Done(j)) /\ (AtSink(j)' => AtSink(j))
    BY <2>2, <2>3, <2>4, <2>5 DEF Done, AtSink
  <2>7. /\ (cpc # "fill" /\ cpc' # "fill") \/ cpc' = cpc
        /\ cpc' = "return" <=> cpc = "return"
        /\ RoundOpen' => RoundOpen
    BY <2>2 DEF RoundOpen, InRound
  <2> QED BY <2>1, <2>6, <2>7, QuietKeepsData
<1>2. CASE WorkerLabel(w) \/ WorkerSink(w)
  <2>1. /\ InRound /\ job[w] = w /\ w \in Threads /\ w < n /\ w # n - 1
        /\ call \in Calls /\ ~BadArgs(call)
    BY <1>2, WorkerInRound DEF WorkerLabel, WorkerSink
  <2>2. UNCHANGED <<call, block, n, rc, jobs, cpc>> /\ pc \in [Workers -> WorkerPC]
    BY <1>2 DEF WorkerLabel, WorkerSink, poolVars, PoolInv, TypeOK
  <2>3. \A v \in Workers : v # w => pc'[v] = pc[v]
    BY <1>2, <2>2 DEF WorkerLabel, WorkerSink, WorkerGoto
  <2>4. \/ LabelChunk(w) /\ IF call.op = "wave" THEN ~Done(w)' ELSE ~AtSink(w)'
        \/ RefuseChunk(w) /\ ~AtSink(w)'
        \/ SinkChunk(w) /\ AtSink(w) /\ call.op = "wave" /\ ~AtSink(w)'
    <3>1. CASE WorkerLabel(w)
      <4>1. CASE LabelChunk(w) /\ WorkerGoto(w, IF HasSink THEN "sink" ELSE "finish")
        BY <2>1, <2>2, <4>1 DEF WorkerGoto, HasSink, Done, AtSink
      <4>2. CASE RefuseChunk(w) /\ WorkerGoto(w, "finish")
        BY <2>1, <2>2, <4>2 DEF WorkerGoto, AtSink
      <4> QED BY <2>1, <3>1, <4>1, <4>2 DEF WorkerLabel
    <3>2. CASE WorkerSink(w)
      <4>1. call.op = "wave"
        BY <3>2 DEF WorkerSink, PoolInv, JobsInv
      <4> QED BY <2>1, <2>2, <3>2, <4>1 DEF WorkerSink, WorkerGoto, AtSink
    <3> QED BY <1>2, <3>1, <3>2
  <2>5. \A j \in Threads : j < n /\ j # n - 1 => j \in Workers
    BY PlanAssumption DEF Threads, Workers, PoolInv, TypeOK
  <2>6. \A j \in Threads : j < n /\ j # w =>
          (Done(j)' => Done(j)) /\ (AtSink(j)' => AtSink(j))
    BY <2>2, <2>3, <2>5 DEF Done, AtSink
  <2>7. RoundOpen /\ RoundOpen' /\ cpc' \notin {"fill", "return"}
    BY <2>1, <2>2 DEF RoundOpen, InRound
  <2>8. PICK k \in Nat : RoundAt(k)
    BY <2>7 DEF DataInv, RoundInv
  <2>9. RoundAt(k)' /\ LabelsExact'
    BY <2>1, <2>2, <2>4, <2>6, <2>7, <2>8, ChunkStepKeepsRound DEF DataInv
  <2> QED BY <2>7, <2>9 DEF DataInv, RoundInv, SuccessIsComplete
<1> QED BY <1>1, <1>2 DEF Worker

LEMMA CallerQuietData ==
  ASSUME PoolInv, DataInv,
         \/ SubmitLock \/ SubmitJobs \/ SubmitWake \/ AwaitLock \/ AwaitBlocks
         \/ CallerSleep \/ CallerSpuriousWake \/ AwaitDone
  PROVE  DataInv'
<1>1. UNCHANGED <<callVars, memVars>>
  BY DEF SubmitLock, SubmitJobs, SubmitWake, AwaitLock, AwaitBlocks, CallerSleep,
         CallerSpuriousWake, AwaitDone
<1>2. /\ cpc \in {"submit_lock", "submit", "submit_wake", "await_lock", "woken", "await", "wait", "sleep"}
      /\ cpc' \in {"submit", "submit_wake", "label", "await", "wait", "sleep", "woken", "collect"}
      /\ cpc \in {"submit_lock", "submit"} => cpc' \in {"submit", "submit_wake"}
      /\ cpc = "submit_wake" <=> cpc' = "label"
      /\ cpc = "submit" <=> cpc' = "submit_wake"
  BY DEF SubmitLock, SubmitJobs, SubmitWake, AwaitLock, AwaitBlocks, CallerSleep,
         CallerSpuriousWake, AwaitDone
<1>3. n' = n /\ n \in 0 .. RegionThreads /\ RegionThreads \in Nat
  BY <1>1, PlanAssumption DEF callVars, PoolInv, TypeOK
<1>4. \A j \in Threads : j < n /\ j # n - 1 => j \in Workers /\ j < n - 1 /\ j # NULL
  BY <1>3 DEF Threads, Workers, NULL
<1>5. \A v \in Workers : pc'[v] \in {"label", "sink"} <=> pc[v] \in {"label", "sink"}
  BY DEF SubmitLock, SubmitJobs, SubmitWake, AwaitLock, AwaitBlocks, CallerSleep,
         CallerSpuriousWake, AwaitDone, workerVars, Broadcast
<1>6. \A v \in Workers : pc'[v] = "sink" <=> pc[v] = "sink"
  BY DEF SubmitLock, SubmitJobs, SubmitWake, AwaitLock, AwaitBlocks, CallerSleep,
         CallerSpuriousWake, AwaitDone, workerVars, Broadcast
<1>7. \A v \in Workers : IF cpc = "submit" THEN v < n - 1 => jobs'[v] = v ELSE jobs'[v] = jobs[v]
  BY <1>2 DEF SubmitLock, SubmitJobs, SubmitWake, AwaitLock, AwaitBlocks, CallerSleep,
         CallerSpuriousWake, AwaitDone, poolVars
<1>8. ASSUME NEW j \in Threads, j < n
      PROVE  (Done(j)' => Done(j)) /\ (AtSink(j)' => AtSink(j))
  <2>1. CASE j = n - 1
    BY <1>2, <1>3, <2>1 DEF Done, AtSink
  <2>2. CASE j # n - 1
    <3>1. j \in Workers /\ j < n - 1 /\ j # NULL
      BY <1>4, <1>8, <2>2
    <3>2. CASE cpc \in {"submit", "submit_lock"}
      BY <1>2, <1>3, <1>6, <1>7, <2>2, <3>1, <3>2 DEF Done, AtSink
    <3>3. CASE cpc \notin {"submit", "submit_lock"}
      BY <1>2, <1>3, <1>5, <1>6, <1>7, <2>2, <3>1, <3>3 DEF Done, AtSink
    <3> QED BY <3>2, <3>3
  <2> QED BY <2>1, <2>2
<1>9. RoundOpen /\ cpc # "fill" /\ cpc' # "fill" /\ cpc' # "return" /\ cpc # "return"
  BY <1>2 DEF RoundOpen, InRound
<1> QED BY <1>1, <1>8, <1>9, QuietKeepsData

LEMMA CallerChunkData ==
  ASSUME PoolInv, DataInv, CallerLabel \/ CallerSink
  PROVE  DataInv'
<1>1. /\ UNCHANGED <<call, block, n, rc, jobs, pc>> /\ cpc \in {"label", "sink"}
      /\ cpc' \in {"sink", "await_lock", "collect"}
  BY DEF CallerLabel, CallerSink, AfterOwnChunk, poolVars, workerVars
<1>2. InRound /\ RoundOpen /\ RoundOpen' /\ cpc' \notin {"fill", "return"}
  BY <1>1 DEF InRound, RoundOpen
<1>3. call \in Calls /\ ~BadArgs(call) /\ n >= 1 /\ n \in 0 .. RegionThreads
  BY <1>1, <1>2 DEF PoolInv, LifecycleInv, CountInv, TypeOK
<1>4. PICK i \in Threads : i = n - 1 /\ i < n
  BY <1>3, PlanAssumption DEF Threads
<1>5. \/ LabelChunk(i) /\ IF call.op = "wave" THEN ~Done(i)' ELSE ~AtSink(i)'
      \/ RefuseChunk(i) /\ ~AtSink(i)'
      \/ SinkChunk(i) /\ AtSink(i) /\ call.op = "wave" /\ ~AtSink(i)'
  <2>1. CASE CallerLabel
    BY <1>1, <1>4, <2>1 DEF CallerLabel, HasSink, Done, AtSink, AfterOwnChunk
  <2>2. CASE CallerSink
    <3>1. call.op = "wave"
      BY <2>2 DEF CallerSink, PoolInv, CountInv
    <3> QED BY <1>1, <1>4, <2>2, <3>1 DEF CallerSink, AtSink, AfterOwnChunk
  <2> QED BY <2>1, <2>2
<1>6. \A j \in Threads : j < n /\ j # i =>
        (Done(j)' => Done(j)) /\ (AtSink(j)' => AtSink(j))
  BY <1>1, <1>4 DEF Done, AtSink
<1>7. PICK k \in Nat : RoundAt(k)
  BY <1>2 DEF DataInv, RoundInv
<1>8. RoundAt(k)' /\ LabelsExact'
  BY <1>1, <1>2, <1>3, <1>4, <1>5, <1>6, <1>7, ChunkStepKeepsRound DEF DataInv
<1> QED BY <1>2, <1>8 DEF DataInv, RoundInv, SuccessIsComplete

LEMMA BeginData ==
  ASSUME PoolInv, DataInv, NEW c \in Calls, BeginCall(c)
  PROVE  DataInv'
<1>1. /\ call' = c /\ c # NoCall /\ block' = 0 /\ n' = 0 /\ disk' = {}
      /\ region' = [b \in RegionBlocks |-> Old]
      /\ cpc' = IF ~BadArgs(c) /\ HasChunk(c, 0) THEN "fill" ELSE "return"
      /\ rc' = IF BadArgs(c) THEN -1 ELSE 0
  BY CallNotNoCall DEF BeginCall
<1>2. LabelsExact'
  BY <1>1 DEF LabelsExact
<1>3. SuccessIsComplete'
  <2> SUFFICES ASSUME cpc' = "return", rc' = 0
               PROVE  CoveredBlocks(c) = {} /\ ExpectedExtents(c) = {}
    BY <1>1 DEF SuccessIsComplete
  <2> QED BY <1>1, WorkMeansChunk
<1>4. ~ChunkFailed'
  BY <1>1, PlanAssumption DEF ChunkFailed, Threads
<1>5. ~RoundOpen'
  BY <1>1 DEF RoundOpen, InRound
<1>6. FillAt(0)'
  <2>1. 0 = 0 * ChunkBlocks(c)
    BY ChunkBlocksPos
  <2>2. \A x \in CoveredBlocks(c) : ~(x < 0)
    <3>1. CASE c.op = "wave"
      BY <3>1 DEF CoveredBlocks
    <3>2. CASE c.op # "wave"
      <4>1. TotalBlocks(c) \in Nat /\ CoveredBlocks(c) \subseteq 0 .. TotalBlocks(c) - 1
        BY <3>2, TotalBlocksType, CallBlocks
      <4> QED BY <4>1
    <3> QED BY <3>1, <3>2
  <2> QED BY <1>1, <2>1, <2>2 DEF FillAt, LabelledUpTo
<1> QED BY <1>2, <1>3, <1>4, <1>5, <1>6 DEF DataInv, RoundInv

LEMMA FillData ==
  ASSUME PoolInv, DataInv, FillRound
  PROVE  DataInv'
<1>1. call \in Calls /\ ~BadArgs(call) /\ HasChunk(call, block) /\ block \in Nat
  BY DEF FillRound, PoolInv, TypeOK, LifecycleInv, CountInv
<1>2. PICK k \in Nat : FillAt(k)
  BY DEF FillRound, DataInv, RoundInv
<1>3. block = k * ChunkBlocks(call) /\ LabelledUpTo(block)
  BY <1>2 DEF FillAt
<1>4. n' \in 1 .. RegionThreads /\ n' = RoundSize(call, block)
  BY <1>1, RoundSizeRange DEF FillRound
<1>5. /\ cpc' = IF n' > 1 THEN "submit_lock" ELSE "label"
      /\ UNCHANGED <<call, region, slots, disk, jobs, pc>>
      /\ block' = NextBlock(call, block)
      /\ args' = [i \in Threads |-> IF i < n' THEN ChunkArg(call, block, i) ELSE args[i]]
  BY DEF FillRound, poolVars, workerVars, memVars
<1>6. \A i \in Threads : i < n' => ~Done(i)'
  <2>1. CASE n' > 1
    BY <1>5, <2>1 DEF Done
  <2>2. CASE ~(n' > 1)
    <3>1. n' = 1
      BY <1>4, <2>2, PlanAssumption
    <3>2. \A i \in Threads : i < 1 => i = 1 - 1
      BY PlanAssumption DEF Threads
    <3> QED BY <1>5, <3>1, <3>2 DEF Done
  <2> QED BY <2>1, <2>2
<1>7. \A i \in Threads : i < n' => ~AtSink(i)'
  <2>1. Outstanding = {}
    BY DEF PoolInv, CountInv, FillRound, InRound
  <2>2. \A i \in Threads : i < n' /\ i # n' - 1 => i \in Workers
    BY <1>4, PlanAssumption DEF Threads, Workers
  <2>3. \A w \in Workers : pc[w] # "sink"
    BY <2>1 DEF Outstanding, Busy
  <2> QED BY <1>5, <2>2, <2>3 DEF AtSink
<1>8. RoundAt(k)'
  <2>1. \A i \in Threads : i < n' => SameWork(args'[i], ChunkArg(call, block, i))
    BY <1>5 DEF SameWork
  <2> QED BY <1>1, <1>3, <1>4, <1>5, <1>6, <1>7, <2>1 DEF RoundAt, LabelledUpTo
<1>9. LabelsExact' /\ SuccessIsComplete' /\ cpc' # "fill"
  BY <1>5 DEF DataInv, LabelsExact, SuccessIsComplete
<1> QED BY <1>8, <1>9 DEF DataInv, RoundInv

LEMMA CollectData ==
  ASSUME PoolInv, DataInv, CollectRound
  PROVE  DataInv'
<1>1. /\ cpc = "collect" /\ rc' = FirstError
      /\ cpc' = IF rc' = 0 /\ HasChunk(call, block) THEN "fill" ELSE "return"
      /\ UNCHANGED <<call, block, n, args, region, slots, disk>>
  BY DEF CollectRound, memVars
<1>2. call \in Calls /\ ~BadArgs(call) /\ TypeOK
  BY <1>1 DEF PoolInv, TypeOK, LifecycleInv, CountInv
<1>3. rc' = 0 <=> ~ChunkFailed
  BY <1>1, <1>2, FirstErrorFacts
<1>4. LabelsExact' /\ ~RoundOpen'
  BY <1>1 DEF DataInv, LabelsExact, RoundOpen, InRound
<1>5. SuccessIsComplete'
  <2> SUFFICES ASSUME cpc' = "return", rc' = 0
               PROVE  /\ \A b \in CoveredBlocks(call) : region[b] = Expected(call, b)
                      /\ disk = ExpectedExtents(call)
    BY <1>1 DEF SuccessIsComplete
  <2> QED BY <1>1, <1>2, <1>3, LoopDone
<1>6. ASSUME cpc' = "fill" PROVE ~ChunkFailed' /\ \E k \in Nat : FillAt(k)'
  <2>1. ~ChunkFailed /\ HasChunk(call, block)
    BY <1>1, <1>3, <1>6
  <2>2. ~ChunkFailed'
    BY <1>1, <2>1 DEF ChunkFailed
  <2>3. PICK k \in Nat : RoundAt(k)
    BY <1>1 DEF DataInv, RoundInv, RoundOpen
  <2>4. LabelledUpTo(block)
    BY <1>1, <1>2, <2>1, <2>3, RoundDone
  <2>5. /\ HasChunk(call, k * ChunkBlocks(call)) /\ n = RoundSize(call, k * ChunkBlocks(call))
        /\ block = NextBlock(call, k * ChunkBlocks(call))
    BY <2>3 DEF RoundAt
  <2>6. call.op # "wave"
    <3> SUFFICES ASSUME call.op = "wave" PROVE FALSE
      OBVIOUS
    <3>1. block = call.n /\ call.n >= 1 /\ call.n \in Int
      BY <1>2, <2>5, PlanAssumption DEF NextBlock, BadArgs, CallType
    <3> QED BY <2>1, <3>1 DEF HasChunk
  <2>7. block = (k + n) * ChunkBlocks(call) /\ k + n \in Nat
    BY <1>2, <2>1, <2>5, <2>6, RoundEnds DEF TypeOK
  <2>8. FillAt(k + n)'
    BY <1>1, <2>4, <2>7 DEF FillAt, LabelledUpTo
  <2> QED BY <1>1, <2>2, <2>7, <2>8
<1> QED BY <1>4, <1>5, <1>6 DEF DataInv, RoundInv

\* Outside a call the caller writes nothing and has no round.
LEMMA OutsideData ==
  ASSUME PoolInv, DataInv, Lifecycle \/ Return
  PROVE  DataInv'
<1>1. /\ call' = NoCall
      /\ cpc' \in {"idle", "create", "shutdown_lock", "shutdown", "shutdown_wake", "join"}
  <2>1. CASE Lifecycle
    BY <2>1 DEF Lifecycle, CreatePool, CreateWorker, CreateWorkerFails, CreateReturns,
       DestroyPool, ShutdownLock, ShutdownSet, ShutdownWake, JoinAndFree, callVars,
       PoolInv, LifecycleInv
  <2>2. CASE Return
    BY <2>2 DEF Return
  <2> QED BY <2>1, <2>2
<1> QED BY <1>1 DEF DataInv, RoundInv, RoundOpen, InRound, LabelsExact, SuccessIsComplete

LEMMA DataStep ==
  ASSUME PoolInv, DataInv, [Next]_vars
  PROVE  DataInv'
<1>1. CASE UNCHANGED vars
  BY <1>1 DEF vars, poolVars, workerVars, callVars, memVars, DataInv, RoundInv, RoundOpen,
     InRound, LabelsExact, SuccessIsComplete, FillAt, RoundAt, LabelledUpTo, ChunkOut,
     Done, AtSink, ChunkFailed
<1> QED BY <1>1, WorkerData, CallerQuietData, CallerChunkData, BeginData, FillData,
           CollectData, OutsideData DEF Next, CallStep

\* DataInv is an invariant of the pool and its calls.
THEOREM DataInvariant == Spec => []DataInv
<1>1. Init => DataInv
  BY DEF Init, DataInv, RoundInv, RoundOpen, InRound, LabelsExact, SuccessIsComplete
<1>2. PoolInv /\ DataInv /\ [Next]_vars => DataInv'
  BY DataStep
<1> QED BY <1>1, <1>2, PoolInvariant, PTL DEF Spec

\* Whatever fails and however the threads interleave, a block of the region
\* holds what it held before or the label the verifier recomputes for it, and
\* the device holds only right super-chunks at their own offsets.
THEOREM LabelsAreExact == Spec => []LabelsExact
<1>1. DataInv => LabelsExact
  BY DEF DataInv
<1> QED BY <1>1, DataInvariant, PTL

\* The pooled operations return 0 only with every chunk labelled and, for a
\* wave, every super-chunk handed to the sink.
THEOREM SuccessMeansComplete == Spec => []SuccessIsComplete
<1>1. DataInv => SuccessIsComplete
  BY DEF DataInv
<1> QED BY <1>1, DataInvariant, PTL

----------------------------------------------------------------------------
(* The refinement.                                                          *)

\* The abstract specification plans a call as this module does.
LEMMA PromiseTerms ==
  /\ Promise!RegionBlocks = RegionBlocks /\ Promise!Old = Old /\ Promise!NoCall = NoCall
  /\ \A c : /\ Promise!BadArgs(c) = BadArgs(c)
            /\ Promise!ChunkBlocks(c) = ChunkBlocks(c)
            /\ Promise!CoveredBlocks(c) = CoveredBlocks(c)
            /\ Promise!ExpectedExtents(c) = ExpectedExtents(c)
  /\ \A c, x : Promise!Expected(c, x) = Expected(c, x)
<1>1. \A c : /\ Promise!ChunkBlocks(c) = ChunkBlocks(c)
             /\ Promise!TotalBlocks(c) = TotalBlocks(c)
  BY DEF Promise!ChunkBlocks, ChunkBlocks, Promise!TotalBlocks, TotalBlocks
<1>2. Promise!RegionBlocks = RegionBlocks
  BY <1>1 DEF Promise!RegionBlocks, RegionBlocks
<1>3. \A c : Promise!CoveredBlocks(c) = CoveredBlocks(c)
  BY <1>1 DEF Promise!CoveredBlocks, CoveredBlocks
<1>4. \A S : Promise!Min(S) = Min(S)
  BY DEF Promise!Min, Min
<1>5. \A c, x : Promise!Expected(c, x) = Expected(c, x)
  BY <1>1, <1>4 DEF Promise!Expected, Expected
<1>6. \A c : Promise!BadArgs(c) = BadArgs(c)
  BY DEF Promise!BadArgs, BadArgs
<1>7. Promise!Old = Old /\ Promise!NoCall = NoCall
  BY DEF Promise!Old, Old, Promise!NoCall, NoCall
<1>8. \A c : Promise!ExpectedExtents(c) = ExpectedExtents(c)
  BY <1>1 DEF Promise!ExpectedExtents, ExpectedExtents
<1> QED BY <1>1, <1>2, <1>3, <1>5, <1>6, <1>7, <1>8

\* One step of chunk_thread_fn: the chunk appears whole, its super-chunk
\* reaches the device, or the call has failed.
LEMMA ChunkRefines ==
  ASSUME PoolInv, DataInv, NEW i \in Threads, i < n, RoundOpen, RoundOpen',
         call \in Calls, UNCHANGED <<call, n>>,
         LabelChunk(i) \/ RefuseChunk(i) \/ (SinkChunk(i) /\ AtSink(i) /\ call.op = "wave")
  PROVE  [Promise!Next]_(Promise!vars)
<1>1. PICK k \in Nat : RoundAt(k)
  BY DEF DataInv, RoundInv
<1>2. AsResult = "none" /\ AsResult' = "none" /\ call # NoCall
  BY CallNotNoCall DEF RoundOpen, InRound, AsResult
<1>3. Promise!Running
  BY <1>2, PromiseTerms DEF Promise!Running
<1>4. args \in [Threads -> ArgType] /\ slots \in [Threads -> ArgType] /\ args[i].buf = i
  <2>1. i \in 0 .. n - 1
    BY PlanAssumption DEF Threads, PoolInv, TypeOK
  <2> QED BY <2>1 DEF PoolInv, TypeOK, ArgsInv, RoundOpen
<1>5. SameWork(args[i], ChunkArg(call, k * ChunkBlocks(call), i))
  BY <1>1, RoundFacts
<1>6. args' = args => AsFailed' = AsFailed
  BY DEF AsFailed, ChunkFailed
<1>7. args'[i].rc # 0 => AsFailed' = TRUE
  BY <1>2 DEF AsFailed, ChunkFailed
<1>8. CASE LabelChunk(i) /\ call.op = "wave"
  <2>1. UNCHANGED <<args, disk, region>>
    BY <1>8 DEF LabelChunk
  <2> QED BY <1>2, <1>6, <2>1 DEF Promise!vars
<1>9. CASE LabelChunk(i) /\ call.op # "wave"
  <2>1. UNCHANGED <<args, disk>> /\ region' = WriteChunk(region, args[i])
    BY <1>9 DEF LabelChunk
  <2>2. HasChunk(call, k * ChunkBlocks(call) + i * ChunkBlocks(call))
    BY <1>1, <1>9, RoundFacts
  <2>3. region' = [b \in RegionBlocks |->
                     IF b \in CoveredBlocks(call) /\ b \div ChunkBlocks(call) = k + i
                     THEN Expected(call, b) ELSE region[b]]
    BY <1>5, <1>9, <2>1, <2>2, WriteIsLabelChunk
  <2>4. Promise!LabelChunk(k + i)
    BY <1>2, <1>3, <1>6, <2>1, <2>3, PromiseTerms DEF Promise!LabelChunk
  <2>5. k + i \in RegionBlocks
    BY <1>5, <1>9, <2>2, ArgIsRight
  <2> QED BY <2>4, <2>5, PromiseTerms DEF Promise!Next
<1>10. ASSUME NEW v \in Int, v # 0, args' = [args EXCEPT ![i].rc = v], UNCHANGED memVars
       PROVE  Promise!Next
  <2>1. args'[i].rc # 0
    BY <1>4, <1>10 DEF ArgType
  <2>2. Promise!Fail
    BY <1>2, <1>3, <1>7, <1>10, <2>1 DEF Promise!Fail, memVars
  <2> QED BY <2>2 DEF Promise!Next
<1>11. CASE RefuseChunk(i)
  <2>1. -1 \in Int /\ -1 # 0
    OBVIOUS
  <2> QED BY <1>10, <1>11, <2>1 DEF RefuseChunk
<1>12. CASE SinkChunk(i) /\ AtSink(i) /\ call.op = "wave"
  <2>1. CASE disk' = disk \cup {Extent(i)} /\ UNCHANGED <<args, region, slots>>
    <3>1. SameWork(slots[i], args[i]) /\ SameWork(args[i], ChunkArg(call, 0, i)) /\ n = call.n
      BY <1>1, <1>12, RoundFacts DEF RoundAt
    <3>2. Extent(i) = ExtentOf(call, i)
      <4>1. [off |-> args[i].off, len |-> call.wlen, chunk |-> args[i].chunk, m |-> args[i].m]
              = ExtentOf(call, i)
        BY <1>12, <3>1, WaveArgIsRight
      <4> QED BY <1>4, <3>1, <4>1 DEF Extent, SameWork
    <3>3. Extent(i) \in ExpectedExtents(call)
      <4>1. i \in 0 .. call.n - 1 /\ call.n \in Nat
        BY <3>1, PlanAssumption DEF Threads, PoolInv, TypeOK
      <4> QED BY <1>12, <3>2, <4>1, WaveExtents
    <3>4. Promise!CommitChunk(Extent(i))
      BY <1>2, <1>3, <1>6, <2>1 DEF Promise!CommitChunk
    <3> QED BY <3>3, <3>4, PromiseTerms DEF Promise!Next
  <2>2. CASE args' = [args EXCEPT ![i].rc = SinkErr] /\ UNCHANGED memVars
    BY <1>10, <2>2, SinkAssumption
  <2> QED BY <1>12, <2>1, <2>2 DEF SinkChunk
<1> QED BY <1>8, <1>9, <1>11, <1>12

\* A step that changes neither the call, nor its args[], nor what it has
\* written, nor whether it is returning, is invisible.
LEMMA QuietRefines ==
  ASSUME UNCHANGED <<call, n, args, rc, region, disk>>, cpc' = "return" <=> cpc = "return"
  PROVE  UNCHANGED Promise!vars
<1>1. AsFailed' = AsFailed
  BY DEF AsFailed, ChunkFailed
<1>2. AsResult' = AsResult
  BY DEF AsResult
<1> QED BY <1>1, <1>2 DEF Promise!vars

LEMMA CollectRefines ==
  ASSUME PoolInv, DataInv, CollectRound
  PROVE  [Promise!Next]_(Promise!vars)
<1>1. /\ cpc = "collect" /\ rc' = FirstError
      /\ cpc' = IF rc' = 0 /\ HasChunk(call, block) THEN "fill" ELSE "return"
      /\ UNCHANGED <<call, block, n, args, region, slots, disk>>
  BY DEF CollectRound, memVars
<1>2. call \in Calls /\ ~BadArgs(call) /\ TypeOK /\ call # NoCall
  BY <1>1 DEF PoolInv, TypeOK, LifecycleInv, CountInv
<1>3. rc' = 0 <=> ~ChunkFailed
  BY <1>1, <1>2, FirstErrorFacts
<1>4. AsFailed = (rc' # 0) /\ AsFailed' = (rc' # 0)
  <2>1. ChunkFailed' = ChunkFailed
    BY <1>1 DEF ChunkFailed
  <2> QED BY <1>1, <1>2, <1>3, <2>1 DEF AsFailed
<1>5. AsResult = "none" /\ Promise!Running
  BY <1>1, <1>2, PromiseTerms DEF AsResult, Promise!Running
<1>6. CASE rc' # 0
  <2>1. AsResult' = "error"
    BY <1>1, <1>6 DEF AsResult
  <2>2. Promise!Finish
    BY <1>1, <1>4, <1>5, <1>6, <2>1 DEF Promise!Finish
  <2> QED BY <2>2 DEF Promise!Next
<1>7. CASE rc' = 0 /\ HasChunk(call, block)
  <2>1. AsResult' = "none"
    BY <1>1, <1>7 DEF AsResult
  <2> QED BY <1>1, <1>4, <1>5, <2>1 DEF Promise!vars
<1>8. CASE rc' = 0 /\ ~HasChunk(call, block)
  <2>1. AsResult' = "ok"
    BY <1>1, <1>8 DEF AsResult
  <2>2. /\ \A b \in CoveredBlocks(call) : region[b] = Expected(call, b)
        /\ disk = ExpectedExtents(call)
    BY <1>1, <1>2, <1>3, <1>8, LoopDone
  <2>3. Promise!Complete(call, region, disk)
    BY <2>2, PromiseTerms DEF Promise!Complete
  <2>4. Promise!Finish
    BY <1>1, <1>4, <1>5, <1>8, <2>1, <2>3 DEF Promise!Finish
  <2> QED BY <2>4 DEF Promise!Next
<1> QED BY <1>6, <1>7, <1>8

LEMMA BeginRefines ==
  ASSUME PoolInv, NEW c \in Calls, BeginCall(c)
  PROVE  Promise!Next
<1>1. /\ call = NoCall /\ call' = c /\ c # NoCall /\ n' = 0 /\ disk' = {}
      /\ region' = [b \in RegionBlocks |-> Old]
      /\ cpc' = IF ~BadArgs(c) /\ HasChunk(c, 0) THEN "fill" ELSE "return"
      /\ rc' = IF BadArgs(c) THEN -1 ELSE 0
  BY CallNotNoCall DEF BeginCall, PoolInv, LifecycleInv
<1>2. ~ChunkFailed'
  BY <1>1, PlanAssumption DEF ChunkFailed, Threads
<1>3. CASE BadArgs(c)
  <2>1. AsFailed' = TRUE /\ AsResult' = "error"
    BY <1>1, <1>3 DEF AsFailed, AsResult
  <2>2. Promise!Begin(c)
    BY <1>1, <2>1, PromiseTerms DEF Promise!Begin
  <2> QED BY <2>2 DEF Promise!Next
<1>4. CASE ~BadArgs(c)
  <2>1. AsFailed' = FALSE /\ BadArgs(c) = FALSE
    <3>1. BadArgs(c) = FALSE
      BY <1>4 DEF BadArgs
    <3> QED BY <1>1, <1>2, <1>4, <3>1 DEF AsFailed
  <2>2. AsResult' = IF CoveredBlocks(c) = {} /\ ExpectedExtents(c) = {} THEN "ok" ELSE "none"
    BY <1>1, <1>4, WorkMeansChunk DEF AsResult
  <2>3. Promise!Begin(c)
    BY <1>1, <2>1, <2>2, PromiseTerms DEF Promise!Begin
  <2> QED BY <2>3 DEF Promise!Next
<1> QED BY <1>3, <1>4

\* Every step of the pool is a step of the promise or invisible to it.
LEMMA PoolStepRefines ==
  ASSUME PoolInv, DataInv, [Next]_vars
  PROVE  [Promise!Next]_(Promise!vars)
<1>1. ASSUME NEW w \in Workers,
             \/ WorkerLock(w) \/ WorkerFindsNothing(w) \/ WorkerSleep(w)
             \/ WorkerSpuriousWake(w) \/ WorkerTake(w) \/ WorkerCount(w) \/ WorkerExit(w)
      PROVE  UNCHANGED Promise!vars
  <2>1. UNCHANGED <<call, n, args, rc, region, disk>>
    BY <1>1 DEF WorkerLock, WorkerFindsNothing, WorkerSleep, WorkerSpuriousWake,
                WorkerTake, WorkerCount, WorkerExit, callVars, memVars
  <2>2. cpc' = cpc \/ (cpc = "sleep" /\ cpc' = "woken")
    BY <1>1 DEF WorkerLock, WorkerFindsNothing, WorkerSleep, WorkerSpuriousWake,
                WorkerTake, WorkerCount, WorkerExit, Signalled
  <2> QED BY <2>1, <2>2, QuietRefines
<1>2. ASSUME NEW w \in Workers, WorkerLabel(w) \/ WorkerSink(w)
      PROVE  [Promise!Next]_(Promise!vars)
  <2>1. InRound /\ job[w] = w /\ w \in Threads /\ w < n /\ w # n - 1 /\ call \in Calls
    BY <1>2, WorkerInRound DEF WorkerLabel, WorkerSink
  <2>2. UNCHANGED <<call, n, cpc>> /\ RoundOpen /\ RoundOpen'
    BY <1>2, <2>1 DEF WorkerLabel, WorkerSink, RoundOpen, InRound
  <2>3. LabelChunk(w) \/ RefuseChunk(w) \/ (SinkChunk(w) /\ AtSink(w) /\ call.op = "wave")
    BY <1>2, <2>1 DEF WorkerLabel, WorkerSink, AtSink, PoolInv, JobsInv
  <2> QED BY <2>1, <2>2, <2>3, ChunkRefines
<1>3. ASSUME Lifecycle PROVE UNCHANGED Promise!vars
  <2>1. UNCHANGED <<call, n, args, rc, region, disk>> /\ cpc # "return" /\ cpc' # "return"
    BY <1>3 DEF Lifecycle, CreatePool, CreateWorker, CreateWorkerFails, CreateReturns,
       DestroyPool, ShutdownLock, ShutdownSet, ShutdownWake, JoinAndFree, callVars, memVars
  <2> QED BY <2>1, QuietRefines
<1>4. ASSUME \/ SubmitLock \/ SubmitJobs \/ SubmitWake \/ AwaitLock \/ AwaitBlocks
             \/ CallerSleep \/ CallerSpuriousWake \/ AwaitDone
      PROVE  UNCHANGED Promise!vars
  <2>1. UNCHANGED <<call, n, args, rc, region, disk>> /\ cpc # "return" /\ cpc' # "return"
    BY <1>4 DEF SubmitLock, SubmitJobs, SubmitWake, AwaitLock, AwaitBlocks, CallerSleep,
       CallerSpuriousWake, AwaitDone, callVars, memVars
  <2> QED BY <2>1, QuietRefines
<1>5. ASSUME FillRound PROVE UNCHANGED Promise!vars
  <2>1. /\ cpc = "fill" /\ ~ChunkFailed /\ cpc' # "return"
        /\ UNCHANGED <<call, region, disk>>
    BY <1>5 DEF FillRound, DataInv, RoundInv, memVars
  <2>2. \A i \in Threads : i < n' => args'[i].rc = 0
    BY <1>5 DEF FillRound, ChunkArg
  <2>3. AsFailed' = AsFailed
    BY <2>1, <2>2 DEF AsFailed, ChunkFailed
  <2>4. AsResult' = AsResult
    BY <2>1 DEF AsResult
  <2> QED BY <2>1, <2>3, <2>4 DEF Promise!vars
<1>6. ASSUME CallerLabel \/ CallerSink PROVE [Promise!Next]_(Promise!vars)
  <2>1. /\ UNCHANGED <<call, n>> /\ cpc \in {"label", "sink"}
        /\ cpc' \in {"sink", "await_lock", "collect"}
    BY <1>6 DEF CallerLabel, CallerSink, AfterOwnChunk
  <2>2. InRound /\ RoundOpen /\ RoundOpen'
    BY <2>1 DEF InRound, RoundOpen
  <2>3. call \in Calls /\ n >= 1 /\ n \in 0 .. RegionThreads
    BY <2>1, <2>2 DEF PoolInv, LifecycleInv, CountInv, TypeOK
  <2>4. PICK i \in Threads : i = n - 1 /\ i < n
    BY <2>3, PlanAssumption DEF Threads
  <2>5. LabelChunk(i) \/ RefuseChunk(i) \/ (SinkChunk(i) /\ AtSink(i) /\ call.op = "wave")
    BY <1>6, <2>4 DEF CallerLabel, CallerSink, AtSink, PoolInv, CountInv
  <2> QED BY <2>1, <2>2, <2>3, <2>4, <2>5, ChunkRefines
<1>7. ASSUME Return PROVE Promise!Next
  <2>1. /\ cpc = "return" /\ cpc' = "idle" /\ call' = NoCall /\ call # NoCall
        /\ UNCHANGED <<region, disk>>
    BY <1>7 DEF Return, PoolInv, LifecycleInv, memVars
  <2>2. AsFailed' = FALSE /\ AsResult # "none" /\ AsResult' = "none"
    BY <2>1 DEF AsFailed, AsResult
  <2>3. Promise!Return
    BY <2>1, <2>2, PromiseTerms DEF Promise!Return
  <2> QED BY <2>3 DEF Promise!Next
<1>8. ASSUME UNCHANGED vars PROVE UNCHANGED Promise!vars
  BY <1>8, QuietRefines DEF vars, callVars, memVars
<1> QED BY <1>1, <1>2, <1>3, <1>4, <1>5, <1>6, <1>7, <1>8, CollectRefines, BeginRefines
        DEF Next, Worker, CallStep

\* The pooled operations and the disk wave keep the promise of RegionLabel,
\* for every number of threads, chunk size and set of calls.
THEOREM PoolKeepsPromise == Spec => ImplementsRegionLabel
<1>1. Init => Promise!Init
  BY PromiseTerms DEF Init, Promise!Init, AsFailed, AsResult
<1>2. PoolInv /\ DataInv /\ [Next]_vars => [Promise!Next]_(Promise!vars)
  BY PoolStepRefines
<1> QED BY <1>1, <1>2, PoolInvariant, DataInvariant, PTL
        DEF Spec, ImplementsRegionLabel, Promise!Spec
============================================================================
