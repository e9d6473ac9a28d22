--------------------------- MODULE GpuRun_proofs ---------------------------
(***************************************************************************)
(* Proofs about GpuRun for every set of calls, every amount of free memory  *)
(* and every cap on the pool: what the buffer holds, what becomes of the    *)
(* scratch, and that the runner keeps the promise of RegionLabel.           *)
(***************************************************************************)
EXTENDS GpuRun, DivisionFacts

\* The labels super-chunk j of the buffer must carry.
Wanted(j) == (call.rbo \div call.cb) + j

Labelled(j) == persist[j] = Wanted(j)

\* Before the batches are over the call has not succeeded yet.
Working == {"alloc", "seeds", "batch", "launch", "sync", "zero"}

GpuTypes ==
  /\ call \in [cb : Nat \ {0}, len : Nat, rbo : Nat]
  /\ pc \in {"idle", "cleanup", "return"} \cup Working
  /\ rc \in {0, -1} /\ base \in Nat /\ pool \in 0 .. Cap
  /\ scratch \in {"none", "fresh", "labels", "zero"}
  /\ persist = [j \in 0 .. NumSuper |-> persist[j]]

\* Where the host is in its loop.
LoopInv ==
  /\ running # {} => pc = "sync"
  /\ pc \in Working => rc = -1 /\ NumSuper > 0 /\ pool > 0
  /\ pc \in {"alloc", "seeds"} => base = 0
  /\ pc \in {"batch", "launch", "sync"} => base < NumSuper
  /\ pc = "zero" => base >= NumSuper

\* The device works with the seeds of the host's current batch.
SeedsInv ==
  /\ running \subseteq 0 .. BatchCount - 1
  /\ pc \in {"launch", "sync"} =>
       seeds = [w \in 0 .. BatchCount - 1 |-> Wanted(base + w)]

\* Super-chunk j must be there by now.
Due(j) ==
  \/ pc \in Working /\ j < base
  \/ pc = "sync" /\ j - base \in (0 .. BatchCount - 1) \ running
  \/ pc \in {"cleanup", "return"} /\ rc = 0

BufferInv ==
  /\ \A j \in 0 .. NumSuper : persist[j] = None \/ (Labelled(j) /\ j < NumSuper)
  /\ \A j \in 0 .. NumSuper - 1 : Due(j) => Labelled(j)

ScratchInv ==
  /\ pc \in {"idle", "alloc", "return"} => scratch = "none"
  /\ pc = "cleanup" /\ rc = 0 => scratch = "zero"
  /\ pc = "return" /\ rc = 0 => freed # "labels"

\* The inductive invariant.  That a super-chunk is right rests on the seeds of
\* the batch the device works on, which rests on the host not going on to the
\* next batch (base) while any entry of this one is running.
GpuInv == GpuTypes /\ LoopInv /\ SeedsInv /\ BufferInv /\ ScratchInv

----------------------------------------------------------------------------
\* A buffer has a whole number of super-chunks.
LEMMA NumSuperType == GpuTypes => NumSuper \in Nat
BY DivNat DEF GpuTypes, NumSuper

\* The pool: at least one region, and no more than the device can hold.
LEMMA PoolSizeRange ==
  ASSUME NEW fit \in Nat, NEW num \in Nat
  PROVE  PoolSize(fit, num) \in 1 .. Cap
<1> DEFINE x == Min({fit, Cap, num})
<1>1. fit \in Int /\ num \in Int /\ Cap \in Int
  BY RunAssumption
<1>2. x \in {fit, Cap, num} /\ x <= Cap
  BY <1>1, MinOfThree
<1> HIDE DEF x
<1>3. x \in Int
  BY <1>1, <1>2
<1>4. \A y, z \in Int : Max({y, z}) \in {y, z} /\ Max({y, z}) >= y
  BY MaxOfTwo
<1>5. Max({1, x}) \in {1, x} /\ Max({1, x}) >= 1
  BY <1>3, <1>4
<1> QED BY <1>2, <1>3, <1>5, RunAssumption DEF PoolSize, x

\* A batch: at most the pool, at most what is left, at least one.
LEMMA BatchCountRange ==
  ASSUME GpuTypes, base < NumSuper, pool > 0
  PROVE  /\ BatchCount \in Nat \ {0} /\ BatchCount <= pool
         /\ base + BatchCount <= NumSuper
         /\ BatchCount = pool \/ base + BatchCount = NumSuper
<1>1. pool \in Int /\ NumSuper - base \in Int
  BY NumSuperType, RunAssumption DEF GpuTypes
<1>2. /\ BatchCount \in {pool, NumSuper - base}
      /\ BatchCount <= pool /\ BatchCount <= NumSuper - base
  BY <1>1, MinOfTwo DEF BatchCount
<1> QED BY <1>1, <1>2, NumSuperType, RunAssumption DEF GpuTypes

\* The chunk index the host computes is the one the verifier expects.
LEMMA ChunkIndexWanted ==
  ASSUME GpuTypes, NEW j \in Nat
  PROVE  ChunkIndex(j) = Wanted(j)
BY DivAdd DEF ChunkIndex, Wanted, GpuTypes

LEMMA InitInv == Init => GpuInv
<1> SUFFICES ASSUME Init PROVE GpuInv
  OBVIOUS
<1>1. NumSuper = 0
  BY DivNat DEF Init, NoCall, NumSuper
<1>2. GpuTypes
  BY <1>1, RunAssumption DEF Init, GpuTypes, Working, NoCall
<1>3. LoopInv /\ ScratchInv
  BY DEF Init, LoopInv, ScratchInv, Working
<1>4. SeedsInv /\ BufferInv
  BY <1>1 DEF Init, SeedsInv, BufferInv, Due, Labelled, Working, None
<1> QED BY <1>2, <1>3, <1>4 DEF GpuInv

\* A step that leaves the call, the batch, its seeds and the buffer alone and
\* does not move to where more super-chunks are due.
LEMMA BufferUntouched ==
  ASSUME GpuInv, UNCHANGED <<call, pool, base, seeds, running, persist>>,
         pc' \in {"launch", "sync"} => pc \in {"launch", "sync"},
         pc \in {"launch", "sync"} \/ running = {},
         \A j \in 0 .. NumSuper - 1 : Due(j)' => Due(j)
  PROVE  SeedsInv' /\ BufferInv'
<1>1. NumSuper' = NumSuper /\ BatchCount' = BatchCount
  BY DEF NumSuper, BatchCount
<1>2. \A j : Wanted(j)' = Wanted(j) /\ Labelled(j)' = Labelled(j)
  BY DEF Wanted, Labelled
<1>3. SeedsInv'
  BY <1>1, <1>2 DEF GpuInv, SeedsInv, Wanted
<1>4. BufferInv'
  BY <1>1, <1>2 DEF GpuInv, BufferInv
<1> QED BY <1>3, <1>4

----------------------------------------------------------------------------
(* The steps.                                                               *)

\* Types and the host's place in the loop.
LEMMA LoopStep ==
  ASSUME GpuInv, Next
  PROVE  GpuTypes' /\ LoopInv'
<1> USE DEF GpuInv, Working
<1>1. NumSuper \in Nat
  BY NumSuperType
<1>2. ASSUME NEW c \in Calls, NEW fit \in 0 .. MaxFit, Begin(c, fit)
      PROVE  GpuTypes' /\ LoopInv'
  <2>1. c \in [cb : Nat \ {0}, len : Nat, rbo : Nat] /\ fit \in Nat
    BY RunAssumption
  <2>2. c.len \div c.cb \in Nat /\ NumSuper' = c.len \div c.cb
    BY <2>1, <1>2, DivNat DEF Begin, NumSuper
  <2> DEFINE num == c.len \div c.cb
  <2> HIDE DEF num
  <2>3. num \in Nat /\ NumSuper' = num
    BY <2>2 DEF num
  <2>4. PoolSize(fit, num) \in 1 .. Cap
    BY <2>1, <2>3, PoolSizeRange
  <2>5. /\ pc = "idle" /\ call' = c /\ base' = 0 /\ running' = running
        /\ scratch' = scratch /\ persist' = [j \in 0 .. num |-> None]
        /\ \/ num = 0 /\ rc' = 0 /\ pool' = 0 /\ pc' = "return"
           \/ num # 0 /\ rc' = -1 /\ pool' = PoolSize(fit, num) /\ pc' = "alloc"
    BY <1>2 DEF Begin, num
  <2>6. running' = {}
    BY <2>5 DEF LoopInv
  <2>7. pool' \in 0 .. Cap /\ (pc' = "alloc" => pool' > 0)
    BY <2>4, <2>5, RunAssumption
  <2> QED BY <2>1, <2>3, <2>5, <2>6, <2>7 DEF GpuTypes, LoopInv
<1>3. ASSUME HostStep, call' = call
      PROVE  GpuTypes' /\ LoopInv'
  <2>1. NumSuper' = NumSuper
    BY <1>3 DEF NumSuper
  <2>2. CASE AllocScratch
    BY <2>1, <2>2 DEF AllocScratch, GpuTypes, LoopInv
  <2>3. CASE AllocFails
    <3>1. pool \div 2 \in 0 .. Cap /\ (pool > 1 => pool \div 2 > 0)
      BY RunAssumption DEF GpuTypes
    <3> QED BY <2>1, <2>3, <3>1 DEF AllocFails, GpuTypes, LoopInv
  <2>4. ASSUME NEW ok \in BOOLEAN, AllocSeeds(ok) PROVE GpuTypes' /\ LoopInv'
    BY <2>1, <2>4 DEF AllocSeeds, GpuTypes, LoopInv
  <2>5. ASSUME NEW ok \in BOOLEAN, UploadSeeds(ok) PROVE GpuTypes' /\ LoopInv'
    BY <2>1, <2>5 DEF UploadSeeds, GpuTypes, LoopInv
  <2>6. ASSUME NEW ok \in BOOLEAN, Launch(ok) PROVE GpuTypes' /\ LoopInv'
    BY <2>1, <2>6 DEF Launch, GpuTypes, LoopInv
  <2>7. ASSUME NEW ok \in BOOLEAN, ZeroScratch(ok) PROVE GpuTypes' /\ LoopInv'
    BY <2>1, <2>7 DEF ZeroScratch, GpuTypes, LoopInv
  <2>8. CASE Synchronize
    <3>1. base' \in Nat
      BY <2>8, RunAssumption DEF Synchronize, GpuTypes
    <3> QED BY <1>1, <2>1, <2>8, <3>1 DEF Synchronize, GpuTypes, LoopInv
  <2>9. CASE SynchronizeFails
    BY <2>1, <2>9 DEF SynchronizeFails, GpuTypes, LoopInv
  <2>10. CASE Cleanup
    BY <2>1, <2>10 DEF Cleanup, GpuTypes, LoopInv
  <2>11. CASE Return
    BY <2>1, <2>11, RunAssumption DEF Return, GpuTypes, LoopInv
  <2>12. CASE PersistLaunchFails
    BY <2>1, <2>12 DEF PersistLaunchFails, GpuTypes, LoopInv
  <2> QED BY <1>3, <2>2, <2>3, <2>4, <2>5, <2>6, <2>7, <2>8, <2>9, <2>10, <2>11, <2>12
          DEF HostStep
<1>4. ASSUME NEW w \in 0 .. MaxFit, KernelChunk(w)
      PROVE  GpuTypes' /\ LoopInv'
  <2>1. NumSuper' = NumSuper
    BY <1>4 DEF KernelChunk, NumSuper
  <2> QED BY <1>4, <2>1 DEF KernelChunk, GpuTypes, LoopInv
<1>5. HostStep => call' = call
  BY DEF HostStep, AllocScratch, AllocFails, AllocSeeds, UploadSeeds, Launch,
         PersistLaunchFails, ZeroScratch, Synchronize, SynchronizeFails, Cleanup, Return
<1> QED BY <1>2, <1>3, <1>4, <1>5 DEF Next

\* What became of the scratch.
LEMMA ScratchStep ==
  ASSUME GpuInv, Next
  PROVE  ScratchInv'
<1> USE DEF GpuInv, LoopInv, ScratchInv, Working
<1>1. ASSUME NEW c \in Calls, NEW fit \in 0 .. MaxFit, Begin(c, fit)
      PROVE  ScratchInv'
  BY <1>1 DEF Begin
<1>2. CASE AllocScratch \/ AllocFails
  BY <1>2 DEF AllocScratch, AllocFails
<1>3. ASSUME NEW ok \in BOOLEAN,
             AllocSeeds(ok) \/ UploadSeeds(ok) \/ Launch(ok) \/ ZeroScratch(ok)
      PROVE  ScratchInv'
  BY <1>3 DEF AllocSeeds, UploadSeeds, Launch, ZeroScratch
<1>4. CASE PersistLaunchFails \/ Synchronize \/ SynchronizeFails \/ Cleanup \/ Return
  BY <1>4 DEF PersistLaunchFails, Synchronize, SynchronizeFails, Cleanup, Return
<1>5. ASSUME NEW w \in 0 .. MaxFit, KernelChunk(w)
      PROVE  ScratchInv'
  BY <1>5 DEF KernelChunk
<1> QED BY <1>1, <1>2, <1>3, <1>4, <1>5 DEF Next, HostStep

\* The seeds and the buffer.
LEMMA BufferStep ==
  ASSUME GpuInv, Next
  PROVE  SeedsInv' /\ BufferInv'
<1> USE DEF GpuInv
<1>1. NumSuper \in Nat /\ base \in Nat
  BY NumSuperType DEF GpuTypes
<1>2. ASSUME NEW c \in Calls, NEW fit \in 0 .. MaxFit, Begin(c, fit)
      PROVE  SeedsInv' /\ BufferInv'
  <2>1. /\ pc = "idle" /\ call' = c /\ base' = 0 /\ running' = running
        /\ pc' \in {"return", "alloc"}
        /\ pc' = "return" => c.len \div c.cb = 0
        /\ persist' = [j \in 0 .. c.len \div c.cb |-> None]
    BY <1>2 DEF Begin
  <2>2. NumSuper' = c.len \div c.cb /\ running' = {}
    BY <2>1 DEF NumSuper, LoopInv
  <2>3. \A j \in 0 .. NumSuper' - 1 : ~Due(j)'
    BY <2>1, <2>2 DEF Due, Working
  <2>4. \A j \in 0 .. NumSuper' : persist'[j] = None
    BY <2>1, <2>2
  <2>5. BufferInv'
    BY <2>3, <2>4 DEF BufferInv, None
  <2>6. SeedsInv'
    BY <2>1, <2>2 DEF SeedsInv
  <2> QED BY <2>5, <2>6
<1>3. CASE AllocScratch \/ AllocFails
  <2>1. /\ UNCHANGED <<call, base, running, persist>> /\ pc = "alloc" /\ base = 0
        /\ pc' \in {"alloc", "seeds", "cleanup"} /\ rc' = -1 /\ running = {}
    BY <1>3 DEF AllocScratch, AllocFails, LoopInv, Working
  <2>2. NumSuper' = NumSuper
    BY <2>1 DEF NumSuper
  <2>3. \A j \in 0 .. NumSuper - 1 : ~Due(j)'
    BY <2>1 DEF Due, Working
  <2>4. BufferInv'
    BY <2>1, <2>2, <2>3 DEF BufferInv, Labelled, Wanted
  <2> QED BY <2>1, <2>4 DEF SeedsInv
<1>4. ASSUME NEW ok \in BOOLEAN, AllocSeeds(ok)
      PROVE  SeedsInv' /\ BufferInv'
  <2>1. /\ UNCHANGED <<call, pool, base, seeds, running, persist, rc>>
        /\ pc = "seeds" /\ pc' \in {"batch", "cleanup"} /\ running = {} /\ rc = -1
    BY <1>4 DEF AllocSeeds, LoopInv, Working
  <2>2. \A j \in 0 .. NumSuper - 1 : Due(j)' => Due(j)
    BY <2>1 DEF Due, Working
  <2> QED BY <2>1, <2>2, BufferUntouched
<1>5. ASSUME NEW ok \in BOOLEAN, UploadSeeds(ok)
      PROVE  SeedsInv' /\ BufferInv'
  <2>1. /\ UNCHANGED <<call, pool, base, running, persist, rc>>
        /\ pc = "batch" /\ pc' \in {"launch", "cleanup"} /\ running = {} /\ rc = -1
        /\ pc' = "launch" =>
             seeds' = [w \in 0 .. BatchCount - 1 |-> ChunkIndex(base + w)]
        /\ base < NumSuper /\ pool > 0
    BY <1>5 DEF UploadSeeds, LoopInv, Working
  <2>2. NumSuper' = NumSuper /\ BatchCount' = BatchCount
    BY <2>1 DEF NumSuper, BatchCount
  <2>3. BatchCount \in Nat
    BY <2>1, BatchCountRange
  <2>4. \A w \in 0 .. BatchCount - 1 : ChunkIndex(base + w) = Wanted(base + w)
    BY <1>1, <2>3, ChunkIndexWanted
  <2>5. SeedsInv'
    BY <2>1, <2>2, <2>4 DEF SeedsInv, Wanted
  <2>6. \A j \in 0 .. NumSuper - 1 : Due(j)' => Due(j)
    BY <2>1 DEF Due, Working
  <2>7. BufferInv'
    BY <2>1, <2>2, <2>6 DEF BufferInv, Labelled, Wanted
  <2> QED BY <2>5, <2>7
<1>6. ASSUME NEW ok \in BOOLEAN, Launch(ok)
      PROVE  SeedsInv' /\ BufferInv'
  <2>1. /\ UNCHANGED <<call, pool, base, seeds, persist, rc>>
        /\ pc = "launch" /\ pc' \in {"sync", "cleanup"} /\ rc = -1
        /\ running' = IF pc' = "sync" THEN DOMAIN seeds ELSE {}
        /\ base < NumSuper /\ pool > 0
    BY <1>6 DEF Launch, LoopInv, Working
  <2>2. NumSuper' = NumSuper /\ BatchCount' = BatchCount
    BY <2>1 DEF NumSuper, BatchCount
  <2>3. DOMAIN seeds = 0 .. BatchCount - 1
    BY <2>1 DEF SeedsInv
  <2>4. SeedsInv'
    BY <2>1, <2>2, <2>3 DEF SeedsInv, Wanted
  <2>5. \A j \in 0 .. NumSuper - 1 : Due(j)' => Due(j)
    <3>1. pc' = "sync" => (0 .. BatchCount' - 1) \ running' = {}
      BY <2>1, <2>2, <2>3
    <3> QED BY <2>1, <3>1 DEF Due, Working
  <2>6. BufferInv'
    BY <2>1, <2>2, <2>5 DEF BufferInv, Labelled, Wanted
  <2> QED BY <2>4, <2>6
<1>7. CASE Synchronize
  <2>1. /\ UNCHANGED <<call, pool, seeds, running, persist, rc>>
        /\ pc = "sync" /\ running = {} /\ rc = -1
        /\ base' = base + pool /\ base < NumSuper /\ pool > 0
        /\ pc' \in {"batch", "zero"}
    BY <1>7 DEF Synchronize, LoopInv, Working
  <2>2. NumSuper' = NumSuper
    BY <2>1 DEF NumSuper
  <2>3. /\ BatchCount \in Nat \ {0} /\ BatchCount <= pool
        /\ BatchCount = pool \/ base + BatchCount = NumSuper
    BY <2>1, BatchCountRange
  <2>4. \A j \in 0 .. NumSuper - 1 : Due(j)' => Due(j)
    <3> SUFFICES ASSUME NEW j \in 0 .. NumSuper - 1, Due(j)' PROVE Due(j)
      OBVIOUS
    <3>1. j < base + pool
      BY <2>1 DEF Due
    <3>2. CASE j < base
      BY <2>1, <3>2 DEF Due, Working
    <3>3. CASE j >= base
      <4>1. j - base \in 0 .. BatchCount - 1
        BY <1>1, <2>3, <3>1, <3>3, RunAssumption DEF GpuTypes
      <4> QED BY <2>1, <4>1 DEF Due
    <3> QED BY <1>1, <3>2, <3>3
  <2>5. BufferInv'
    BY <2>1, <2>2, <2>4 DEF BufferInv, Labelled, Wanted
  <2> QED BY <2>1, <2>5 DEF SeedsInv
<1>8. CASE SynchronizeFails
  <2>1. /\ UNCHANGED <<call, pool, base, seeds, persist, rc>>
        /\ pc' = "cleanup" /\ running' = {} /\ rc = -1
    BY <1>8 DEF SynchronizeFails, LoopInv, Working
  <2>2. NumSuper' = NumSuper
    BY <2>1 DEF NumSuper
  <2>3. \A j : ~Due(j)'
    BY <2>1 DEF Due, Working
  <2>4. BufferInv'
    BY <2>1, <2>2, <2>3 DEF BufferInv, Labelled, Wanted
  <2> QED BY <2>1, <2>4 DEF SeedsInv
<1>9. ASSUME NEW ok \in BOOLEAN, ZeroScratch(ok)
      PROVE  SeedsInv' /\ BufferInv'
  <2>1. /\ UNCHANGED <<call, pool, base, seeds, running, persist>>
        /\ pc = "zero" /\ pc' = "cleanup" /\ running = {} /\ base >= NumSuper
    BY <1>9 DEF ZeroScratch, LoopInv
  <2>2. \A j \in 0 .. NumSuper - 1 : Due(j)
    BY <1>1, <2>1 DEF Due, Working
  <2> QED BY <2>1, <2>2, BufferUntouched
<1>10. CASE Cleanup \/ Return
  <2>1. /\ UNCHANGED <<call, persist, running>>
        /\ \/ pc = "cleanup" /\ pc' = "return" /\ UNCHANGED <<pool, base, seeds, rc>>
           \/ pc' = "idle"
        /\ running = {}
    BY <1>10 DEF Cleanup, Return, LoopInv
  <2>2. NumSuper' = NumSuper
    BY <2>1 DEF NumSuper
  <2>3. \A j \in 0 .. NumSuper - 1 : Due(j)' => Due(j)
    BY <2>1 DEF Due, Working
  <2>4. BufferInv'
    BY <2>1, <2>2, <2>3 DEF BufferInv, Labelled, Wanted
  <2> QED BY <2>1, <2>4 DEF SeedsInv
<1>11. ASSUME NEW w \in 0 .. MaxFit, KernelChunk(w)
       PROVE  SeedsInv' /\ BufferInv'
  <2>1. /\ UNCHANGED <<pc, call, rc, pool, base, seeds>>
        /\ w \in running /\ running' = running \ {w}
        /\ persist' = [persist EXCEPT ![base + w] = seeds[w]]
    BY <1>11 DEF KernelChunk
  <2>2. NumSuper' = NumSuper /\ BatchCount' = BatchCount
    BY <2>1 DEF NumSuper, BatchCount
  <2>3. pc = "sync" /\ base < NumSuper /\ pool > 0
    BY <2>1 DEF LoopInv, Working
  <2>4. w \in 0 .. BatchCount - 1 /\ BatchCount \in Nat /\ base + BatchCount <= NumSuper
    BY <2>1, <2>3, BatchCountRange DEF SeedsInv
  <2>5. seeds[w] = Wanted(base + w)
    BY <2>3, <2>4 DEF SeedsInv
  <2>6. base + w \in 0 .. NumSuper - 1
    BY <1>1, <2>4
  <2>7. /\ persist'[base + w] = Wanted(base + w)
        /\ \A j \in 0 .. NumSuper : j # base + w => persist'[j] = persist[j]
    <3>1. persist = [j \in 0 .. NumSuper |-> persist[j]]
      BY DEF GpuTypes
    <3> QED BY <1>1, <2>1, <2>5, <2>6, <3>1
  <2>8. \A j : Wanted(j)' = Wanted(j)
    BY <2>1 DEF Wanted
  <2>9. \A j \in 0 .. NumSuper - 1 : Due(j)' => Due(j) \/ j = base + w
    BY <1>1, <2>1, <2>2, <2>4 DEF Due
  <2>10. BufferInv'
    BY <1>1, <2>2, <2>6, <2>7, <2>8, <2>9 DEF BufferInv, Labelled
  <2>11. SeedsInv'
    BY <2>1, <2>2, <2>8 DEF SeedsInv
  <2> QED BY <2>10, <2>11
<1>12. CASE PersistLaunchFails
  <2>1. /\ UNCHANGED <<call, pool, base, seeds, running, persist, rc>>
        /\ pc = "launch" /\ pc' = "cleanup" /\ running = {} /\ rc = -1
    BY <1>12 DEF PersistLaunchFails, LoopInv, Working
  <2>2. \A j \in 0 .. NumSuper - 1 : Due(j)' => Due(j)
    BY <2>1 DEF Due, Working
  <2> QED BY <2>1, <2>2, BufferUntouched
<1> QED BY <1>2, <1>3, <1>4, <1>5, <1>6, <1>7, <1>8, <1>9, <1>10, <1>11, <1>12
        DEF Next, HostStep

\* Every state of the runner satisfies the invariant.
THEOREM GpuInvariant == Spec => []GpuInv
<1>1. ASSUME GpuInv, UNCHANGED vars
      PROVE  GpuInv'
  BY <1>1 DEF vars, GpuInv, GpuTypes, LoopInv, SeedsInv, BufferInv, ScratchInv,
              NumSuper, BatchCount, Wanted, Labelled, Due
<1>2. GpuInv /\ [Next]_vars => GpuInv'
  BY <1>1, LoopStep, ScratchStep, BufferStep DEF GpuInv
<1> QED BY InitInv, <1>2, PTL DEF Spec

----------------------------------------------------------------------------
(* The properties.                                                          *)

\* The runner's variables have their types, and a launch stays inside the
\* scratch and the device's resident capacity.
THEOREM Typing == Spec => []TypeOK
<1>1. GpuInv => TypeOK
  <2> SUFFICES ASSUME GpuInv PROVE TypeOK
    OBVIOUS
  <2>1. DOMAIN persist = 0 .. NumSuper
    BY DEF GpuInv, GpuTypes
  <2>2. running \subseteq 0 .. pool - 1
    <3>1. CASE running = {}
      BY <3>1
    <3>2. CASE running # {}
      <4>1. base < NumSuper /\ pool > 0
        BY <3>2 DEF GpuInv, LoopInv, Working
      <4>2. BatchCount \in Nat /\ BatchCount <= pool /\ pool \in Int
        BY <4>1, BatchCountRange, RunAssumption DEF GpuInv, GpuTypes
      <4> QED BY <4>2 DEF GpuInv, SeedsInv
    <3> QED BY <3>1, <3>2
  <2> QED BY <2>1, <2>2 DEF GpuInv, GpuTypes, TypeOK, Working
<1> QED BY <1>1, GpuInvariant, PTL

\* Whatever fails, a super-chunk of the buffer is untouched or carries the labels
\* of its own chunk index, and success means that none is missing.
THEOREM BufferIsExact == Spec => []BufferExact
<1>1. GpuInv => BufferExact
  <2> SUFFICES ASSUME GpuInv, NEW j \in DOMAIN persist
               PROVE  \/ persist[j] = None /\ (j = NumSuper \/ ~(pc = "return" /\ rc = 0))
                      \/ persist[j] = (call.rbo \div call.cb) + j /\ j < NumSuper
    BY DEF BufferExact
  <2>1. j \in 0 .. NumSuper /\ NumSuper \in Nat
    BY NumSuperType DEF GpuInv, GpuTypes
  <2>2. CASE persist[j] # None
    BY <2>1, <2>2 DEF GpuInv, BufferInv, Labelled, Wanted
  <2>3. CASE persist[j] = None /\ j # NumSuper
    <3>1. pc = "return" /\ rc = 0 => Labelled(j) /\ j < NumSuper
      BY <2>1, <2>3 DEF GpuInv, BufferInv, Due
    <3> QED BY <2>3, <3>1 DEF Labelled, Wanted
  <2> QED BY <2>2, <2>3
<1> QED BY <1>1, GpuInvariant, PTL

\* No scratch is left allocated, and a call that succeeds has zeroed its own.
THEOREM ScratchIsReleased == Spec => []ScratchReleased
<1>1. GpuInv => ScratchReleased
  BY DEF GpuInv, ScratchInv, ScratchReleased
<1> QED BY <1>1, GpuInvariant, PTL

----------------------------------------------------------------------------
(***************************************************************************)
(* The refinement of RegionLabel.  The in-place CPU operation refuses an    *)
(* empty region where the GPU has nothing to do and reports success, so the *)
(* calls are taken to have a buffer.                                        *)
(***************************************************************************)

\* The plan of a call, as RegionLabel sees it.
LEMMA PlanOfCall ==
  ASSUME NEW c \in Calls
  PROVE  LET d == AsInplace(c)
             num == c.len \div c.cb
         IN  /\ Promise!ChunkBlocks(d) = c.cb
             /\ Promise!TotalBlocks(d) = c.len
             /\ Promise!ExpectedExtents(d) = {}
             /\ Promise!CoveredBlocks(d) = 0 .. num * c.cb - 1
             /\ c.len > 0 => ~Promise!BadArgs(d)
             /\ d # [op |-> "none"]
<1> DEFINE d == AsInplace(c)
<1>1. /\ d.op = "inplace" /\ d.ptr = TRUE /\ d.len = c.len /\ d.cb = c.cb
      /\ d.rbo = c.rbo /\ "ptr" \in DOMAIN d
  BY DEF AsInplace
<1>2. c.cb \in Nat \ {0} /\ c.len \in Nat
  BY RunAssumption
<1> HIDE DEF d
<1>3. c.len \div 1 = c.len /\ c.len % 1 = 0
  BY <1>2
<1>4. Promise!ChunkBlocks(d) = c.cb
  BY <1>1, <1>2 DEF Promise!ChunkBlocks
<1>5. Promise!TotalBlocks(d) = c.len
  BY <1>1, <1>3 DEF Promise!TotalBlocks
<1>6. Promise!ExpectedExtents(d) = {}
  BY <1>1 DEF Promise!ExpectedExtents
<1>7. Promise!CoveredBlocks(d) = 0 .. (c.len \div c.cb) * c.cb - 1
  BY <1>1, <1>4, <1>5 DEF Promise!CoveredBlocks
<1>8. c.len > 0 => ~Promise!BadArgs(d)
  BY <1>1, <1>2, <1>3 DEF Promise!BadArgs
<1>9. d # [op |-> "none"]
  <2>1. "ptr" \notin DOMAIN [op |-> "none"]
    OBVIOUS
  <2> QED BY <1>1, <2>1
<1> QED BY <1>4, <1>5, <1>6, <1>7, <1>8, <1>9 DEF d

\* The label RegionLabel expects at block b of super-chunk j.
LEMMA ExpectedOfCall ==
  ASSUME NEW c \in Calls, NEW b \in Promise!CoveredBlocks(AsInplace(c))
  PROVE  /\ b \in Nat /\ b < c.len /\ b \div c.cb \in 0 .. (c.len \div c.cb) - 1
         /\ Promise!Expected(AsInplace(c), b) =
              [chunk |-> (c.rbo \div c.cb) + (b \div c.cb), m |-> c.cb, i |-> b % c.cb]
<1> DEFINE d == AsInplace(c)
           cb == c.cb
           len == c.len
<1>1. cb \in Nat \ {0} /\ len \in Nat
  BY RunAssumption
<1>2. b \in 0 .. (len \div cb) * cb - 1
  BY PlanOfCall
<1>3. d.rbo = c.rbo
  BY DEF AsInplace
<1>4. Promise!ChunkBlocks(d) = cb /\ Promise!TotalBlocks(d) = len
  BY PlanOfCall
<1> HIDE DEF cb, len, d
<1>5. /\ b \in Nat /\ b < len /\ b \div cb \in 0 .. (len \div cb) - 1
      /\ Min({cb, len - (b - (b % cb))}) = cb
  BY <1>1, <1>2, BlockOfWholeChunk
<1>6. \A S : Promise!Min(S) = Min(S)
  BY DEF Promise!Min, Min
<1>7. Promise!Expected(d, b) =
        [chunk |-> (c.rbo \div cb) + (b \div cb),
         m |-> Min({cb, len - (b - (b % cb))}), i |-> b % cb]
  BY <1>3, <1>4, <1>6 DEF Promise!Expected
<1>8. Promise!Expected(d, b) =
        [chunk |-> (c.rbo \div cb) + (b \div cb), m |-> cb, i |-> b % cb]
  BY <1>5, <1>7
<1> QED BY <1>5, <1>8 DEF d, cb, len

\* The blocks RegionLabel keeps are the blocks of the buffer.
LEMMA BlocksOfCalls == Promise!RegionBlocks = DOMAIN AsRegion
<1>1. ASSUME NEW c \in Calls
      PROVE  AsInplace(c).op # "wave" /\ Promise!TotalBlocks(AsInplace(c)) = c.len
  BY PlanOfCall DEF AsInplace
<1>2. {d \in {AsInplace(c) : c \in Calls} : d.op # "wave"} = {AsInplace(c) : c \in Calls}
  BY <1>1
<1>3. {0 .. Promise!TotalBlocks(d) - 1 : d \in {AsInplace(c) : c \in Calls}}
        = {0 .. c.len - 1 : c \in Calls}
  BY <1>1
<1> QED BY <1>2, <1>3 DEF Promise!RegionBlocks, AsRegion

\* While a call runs it is one of Calls.
CallInv == pc # "idle" => call \in Calls

LEMMA CallInvariant == Spec => []CallInv
<1>1. Init => CallInv
  BY DEF Init, CallInv
<1>2. ASSUME CallInv, [Next]_vars
      PROVE  CallInv'
  <2>1. CASE UNCHANGED vars
    BY <1>2, <2>1 DEF vars, CallInv
  <2>2. ASSUME NEW c \in Calls, NEW fit \in 0 .. MaxFit, Begin(c, fit)
        PROVE  CallInv'
    BY <2>2 DEF Begin, CallInv
  <2>3. CASE HostStep
    BY <1>2, <2>3
       DEF CallInv, HostStep, AllocScratch, AllocFails, AllocSeeds, UploadSeeds,
           Launch, PersistLaunchFails, ZeroScratch, Synchronize, SynchronizeFails, Cleanup, Return
  <2>4. ASSUME NEW w \in 0 .. MaxFit, KernelChunk(w)
        PROVE  CallInv'
    BY <1>2, <2>4 DEF CallInv, KernelChunk
  <2> QED BY <1>2, <2>1, <2>2, <2>3, <2>4 DEF Next
<1> QED BY <1>1, <1>2, PTL DEF Spec

\* A step of the host that leaves the buffer alone is a stutter of RegionLabel
\* or the step at which the call fails.
LEMMA HostStepRefines ==
  ASSUME GpuInv, CallInv, pc # "idle", pc' # "idle", UNCHANGED <<call, persist>>,
         pc # "return", pc' # "return",
         (AsFailed' = AsFailed) \/ AsFailed'
  PROVE  [Promise!Next]_(Promise!vars)
<1>1. AsCall' = AsCall /\ AsRegion' = AsRegion /\ AsResult' = AsResult
  BY DEF AsCall, AsRegion, AsResult, NumSuper
<1>2. CASE AsFailed' = AsFailed
  BY <1>1, <1>2 DEF Promise!vars
<1>3. CASE AsFailed'
  <2>1. AsCall # [op |-> "none"]
    BY PlanOfCall DEF AsCall, CallInv
  <2>2. AsResult = "none"
    BY DEF AsResult
  <2> QED BY <1>1, <1>3, <2>1, <2>2
          DEF Promise!Next, Promise!Fail, Promise!Running, Promise!NoCall, AsFailed
<1> QED BY <1>2, <1>3 DEF AsFailed

\* A super-chunk the device finishes is a chunk of RegionLabel that gets its labels.
LEMMA KernelRefines ==
  ASSUME GpuInv, CallInv, NEW w \in 0 .. MaxFit, KernelChunk(w)
  PROVE  Promise!Next
<1> DEFINE k == base + w
           d == AsInplace(call)
<1>1. /\ UNCHANGED <<pc, call, rc, base>> /\ w \in running
      /\ persist' = [persist EXCEPT ![k] = seeds[w]]
  BY DEF KernelChunk
<1>2. pc = "sync" /\ base < NumSuper /\ pool > 0 /\ base \in Nat /\ NumSuper \in Nat
  BY <1>1, NumSuperType DEF GpuInv, LoopInv, Working, GpuTypes
<1>3. w \in 0 .. BatchCount - 1 /\ BatchCount \in Nat /\ base + BatchCount <= NumSuper
  BY <1>1, <1>2, BatchCountRange DEF GpuInv, SeedsInv
<1>4. k \in 0 .. NumSuper - 1 /\ k \in Nat
  BY <1>2, <1>3
<1>5. seeds[w] = Wanted(k)
  BY <1>2, <1>3 DEF GpuInv, SeedsInv
<1>6. call \in Calls /\ call.cb \in Nat \ {0} /\ call.len \in Nat /\ call.rbo \in Nat
  BY <1>2, RunAssumption DEF CallInv
<1>7. /\ AsCall = d /\ AsCall' = d /\ d # [op |-> "none"]
      /\ AsResult = "none" /\ AsResult' = "none" /\ AsFailed' = AsFailed
  BY <1>1, <1>2, <1>6, PlanOfCall DEF AsCall, AsResult, AsFailed
<1>8. persist'[k] = Wanted(k) /\ Wanted(k) # None
      /\ \A j \in 0 .. NumSuper : j # k => persist'[j] = persist[j]
  <2>1. persist = [j \in 0 .. NumSuper |-> persist[j]]
    BY DEF GpuInv, GpuTypes
  <2>2. Wanted(k) \in Nat
    <3>1. call.rbo \div call.cb \in Nat
      BY <1>6, DivNat
    <3> QED BY <1>4, <3>1 DEF Wanted
  <2> QED BY <1>1, <1>2, <1>4, <1>5, <2>1, <2>2 DEF None
<1>9. NumSuper' = NumSuper /\ NumSuper = call.len \div call.cb
  BY <1>1 DEF NumSuper
<1>10. Promise!CoveredBlocks(d) = 0 .. NumSuper * call.cb - 1 /\ Promise!ChunkBlocks(d) = call.cb
  BY <1>6, <1>9, PlanOfCall
<1>11. k \in Promise!RegionBlocks
  <2>1. NumSuper * call.cb <= call.len
    BY <1>6, <1>9, DivNat
  <2>2. NumSuper * 1 <= NumSuper * call.cb
    BY <1>2, <1>6
  <2>3. k \in 0 .. call.len - 1
    BY <1>2, <1>4, <1>6, <2>1, <2>2
  <2> QED BY <1>6, <2>3, BlocksOfCalls DEF AsRegion
<1>12. ASSUME NEW b \in Promise!RegionBlocks
       PROVE  AsRegion'[b] = IF b \in Promise!CoveredBlocks(d) /\ b \div call.cb = k
                             THEN Promise!Expected(d, b) ELSE AsRegion[b]
  <2>1. b \in UNION {0 .. c.len - 1 : c \in Calls} /\ b \in Nat
    <3>1. b \in UNION {0 .. c.len - 1 : c \in Calls}
      BY BlocksOfCalls DEF AsRegion
    <3>2. PICK c \in Calls : b \in 0 .. c.len - 1
      BY <3>1
    <3> QED BY <3>1, <3>2
  <2> DEFINE j == b \div call.cb
  <2>2. j \in Nat /\ j * call.cb <= b /\ b < j * call.cb + call.cb
    BY <1>6, <2>1, DivNat
  <2>3. AsRegion[b] = IF j < NumSuper /\ persist[j] # None
                      THEN [chunk |-> persist[j], m |-> call.cb, i |-> b % call.cb]
                      ELSE [chunk |-> -1, m |-> 0, i |-> 0]
    BY <2>1 DEF AsRegion
  <2>4. AsRegion'[b] = IF j < NumSuper /\ persist'[j] # None
                       THEN [chunk |-> persist'[j], m |-> call.cb, i |-> b % call.cb]
                       ELSE [chunk |-> -1, m |-> 0, i |-> 0]
    BY <1>1, <1>9, <2>1 DEF AsRegion
  <2> HIDE DEF j
  <2>5. CASE j # k
    <3>1. j < NumSuper => persist'[j] = persist[j]
      BY <1>2, <1>8, <2>2, <2>5
    <3> QED BY <2>3, <2>4, <2>5, <3>1 DEF j
  <2>6. CASE j = k
    <3>1. b \in Promise!CoveredBlocks(d)
      <4> DEFINE cb == call.cb
      <4>1. cb \in Nat \ {0} /\ b \in Nat /\ NumSuper \in Nat /\ b \div cb < NumSuper
        BY <1>2, <1>4, <1>6, <2>1, <2>6 DEF j
      <4> HIDE DEF cb
      <4>2. b \in 0 .. NumSuper * cb - 1
        BY <4>1, BlockOfChunkIsCovered
      <4> QED BY <1>10, <4>2 DEF cb
    <3>2. Promise!Expected(d, b) =
            [chunk |-> (call.rbo \div call.cb) + j, m |-> call.cb, i |-> b % call.cb]
      BY <1>6, <3>1, ExpectedOfCall DEF j
    <3>3. j < NumSuper /\ persist'[j] = (call.rbo \div call.cb) + j /\ persist'[j] # None
      <4>1. j < NumSuper
        BY <1>2, <1>4, <2>6
      <4>2. Wanted(j) = (call.rbo \div call.cb) + j
        BY DEF Wanted
      <4> HIDE DEF k
      <4>3. persist'[j] = Wanted(j) /\ Wanted(j) # None
        BY <1>8, <2>6
      <4> QED BY <4>1, <4>2, <4>3
    <3>4. AsRegion'[b] = Promise!Expected(d, b)
      BY <2>4, <3>2, <3>3
    <3> QED BY <2>6, <3>1, <3>4 DEF j
  <2> QED BY <2>5, <2>6
<1>13. AsRegion' = [b \in Promise!RegionBlocks |->
                      IF b \in Promise!CoveredBlocks(d) /\ b \div call.cb = k
                      THEN Promise!Expected(d, b) ELSE AsRegion[b]]
  <2>1. DOMAIN AsRegion' = Promise!RegionBlocks
    BY BlocksOfCalls DEF AsRegion
  <2>2. AsRegion' = [b \in Promise!RegionBlocks |-> AsRegion'[b]]
    BY <2>1 DEF AsRegion
  <2> QED BY <1>12, <2>2
<1> HIDE DEF d, k
<1>14. Promise!LabelChunk(k)
  BY <1>7, <1>10, <1>13
     DEF Promise!LabelChunk, Promise!Running, Promise!NoCall
<1> QED BY <1>11, <1>14 DEF Promise!Next

\* Every step of the runner is a step of RegionLabel, or a stutter.
LEMMA StepRefines ==
  ASSUME \A c \in Calls : c.len > 0, GpuInv, GpuInv', CallInv, CallInv', [Next]_vars
  PROVE  [Promise!Next]_(Promise!vars)
<1>1. CASE UNCHANGED vars
  BY <1>1 DEF vars, Promise!vars, AsCall, AsRegion, AsFailed, AsResult, NumSuper
<1>2. ASSUME NEW c \in Calls, NEW fit \in 0 .. MaxFit, Begin(c, fit)
      PROVE  Promise!Next
  <2> DEFINE d == AsInplace(c)
             num == c.len \div c.cb
  <2>1. /\ AsCall = [op |-> "none"] /\ AsCall' = d
        /\ ~AsFailed' /\ AsFailed' \in BOOLEAN
        /\ AsResult' = IF num = 0 THEN "ok" ELSE "none"
        /\ NumSuper' = num /\ persist' = [j \in 0 .. num |-> None] /\ call' = c
    BY <1>2 DEF Begin, AsCall, AsFailed, AsResult, NumSuper
  <2>2. c.cb \in Nat \ {0} /\ c.len \in Nat /\ num \in Nat
    BY RunAssumption, DivNat
  <2>3. AsRegion' = [b \in Promise!RegionBlocks |-> Promise!Old]
    <3>1. ASSUME NEW b \in UNION {0 .. e.len - 1 : e \in Calls}
          PROVE  AsRegion'[b] = [chunk |-> -1, m |-> 0, i |-> 0]
      <4>1. b \in Nat
        <5>1. PICK e \in Calls : b \in 0 .. e.len - 1
          OBVIOUS
        <5> QED BY <5>1
      <4>2. b \div c.cb \in Nat
        BY <2>2, <4>1, DivNat
      <4>3. b \div c.cb < num => persist'[b \div c.cb] = None
        BY <2>1, <2>2, <4>2
      <4> QED BY <2>1, <4>3 DEF AsRegion
    <3>2. AsRegion' = [b \in UNION {0 .. e.len - 1 : e \in Calls} |-> AsRegion'[b]]
      BY DEF AsRegion
    <3>3. AsRegion' = [b \in UNION {0 .. e.len - 1 : e \in Calls} |->
                         [chunk |-> -1, m |-> 0, i |-> 0]]
      BY <3>1, <3>2
    <3>4. Promise!RegionBlocks = UNION {0 .. e.len - 1 : e \in Calls}
      BY BlocksOfCalls DEF AsRegion
    <3> QED BY <3>3, <3>4 DEF Promise!Old
  <2>4. ~Promise!BadArgs(d) /\ Promise!ExpectedExtents(d) = {}
        /\ Promise!CoveredBlocks(d) = 0 .. num * c.cb - 1
    BY PlanOfCall
  <2>5. Promise!BadArgs(d) \in BOOLEAN
    BY DEF AsInplace, Promise!BadArgs
  <2>6. Promise!CoveredBlocks(d) = {} <=> num = 0
    <3> DEFINE cb == c.cb
    <3> HIDE DEF cb, num
    <3>1. cb \in Nat \ {0} /\ num \in Nat
      BY <2>2 DEF cb, num
    <3>2. num # 0 => num * cb >= 1 * cb
      BY <3>1, MulMono
    <3>3. num # 0 => 0 \in 0 .. num * cb - 1
      BY <3>1, <3>2
    <3>4. num = 0 => 0 .. num * cb - 1 = {}
      BY <3>1
    <3> QED BY <2>4, <3>3, <3>4 DEF cb, num
  <2> HIDE DEF d, num
  <2>7. d \in {AsInplace(e) : e \in Calls}
    BY DEF d
  <2>8. AsFailed' = Promise!BadArgs(d)
    BY <2>1, <2>4, <2>5
  <2>9. Promise!Begin(d)
    BY <2>1, <2>3, <2>4, <2>6, <2>8 DEF Promise!Begin, Promise!NoCall
  <2> QED BY <2>7, <2>9 DEF Promise!Next
<1>3. CASE \/ AllocScratch \/ AllocFails \/ Synchronize \/ SynchronizeFails
           \/ PersistLaunchFails
           \/ \E ok \in BOOLEAN : \/ AllocSeeds(ok) \/ UploadSeeds(ok)
                                  \/ Launch(ok) \/ ZeroScratch(ok)
  <2>1. /\ pc \notin {"idle", "return"} /\ pc' \notin {"idle", "return"}
        /\ UNCHANGED <<call, persist>>
        /\ pc # "cleanup"
    BY <1>3 DEF AllocScratch, AllocFails, Synchronize, SynchronizeFails,
                AllocSeeds, UploadSeeds, Launch, PersistLaunchFails, ZeroScratch
  <2>2. (AsFailed' = AsFailed) \/ AsFailed'
    BY <2>1 DEF AsFailed
  <2> QED BY <2>1, <2>2, HostStepRefines
<1>4. CASE Cleanup
  <2>1. /\ pc = "cleanup" /\ pc' = "return" /\ UNCHANGED <<call, persist, rc>>
    BY <1>4 DEF Cleanup
  <2>2. /\ AsCall' = AsCall /\ AsRegion' = AsRegion /\ AsFailed' = AsFailed
        /\ AsResult = "none" /\ AsResult' = IF AsFailed THEN "error" ELSE "ok"
    BY <2>1 DEF AsCall, AsRegion, AsFailed, AsResult, NumSuper
  <2>3. call \in Calls /\ AsCall = AsInplace(call) /\ AsCall # [op |-> "none"]
    BY <2>1, PlanOfCall DEF CallInv, AsCall
  <2>4. ASSUME ~AsFailed
        PROVE  Promise!Complete(AsCall, AsRegion, {})
    <3>1. \A j \in 0 .. NumSuper - 1 : Labelled(j)
      BY <2>1, <2>4 DEF AsFailed, GpuInv, BufferInv, Due
    <3>2. ASSUME NEW b \in Promise!CoveredBlocks(AsInplace(call))
          PROVE  AsRegion[b] = Promise!Expected(AsInplace(call), b)
      <4> DEFINE j == b \div call.cb
      <4>1. /\ b \in Nat /\ b < call.len /\ j \in 0 .. NumSuper - 1
            /\ Promise!Expected(AsInplace(call), b) =
                 [chunk |-> (call.rbo \div call.cb) + j, m |-> call.cb, i |-> b % call.cb]
        BY <2>3, ExpectedOfCall DEF NumSuper
      <4>2. b \in UNION {0 .. e.len - 1 : e \in Calls}
        <5>1. b \in 0 .. call.len - 1
          BY <2>3, <4>1, RunAssumption
        <5> QED BY <2>3, <5>1
      <4> HIDE DEF j
      <4>3. persist[j] = (call.rbo \div call.cb) + j
        BY <3>1, <4>1 DEF Labelled, Wanted
      <4>4. persist[j] # None /\ j < NumSuper
        <5>1. call.rbo \in Nat /\ call.cb \in Nat \ {0}
          BY <2>3, RunAssumption
        <5>2. call.rbo \div call.cb \in Nat
          BY <5>1, DivNat
        <5>3. NumSuper \in Nat
          BY NumSuperType DEF GpuInv
        <5> QED BY <4>1, <4>3, <5>2, <5>3 DEF None
      <4>5. AsRegion[b] = [chunk |-> persist[j], m |-> call.cb, i |-> b % call.cb]
        BY <4>2, <4>4 DEF AsRegion, j
      <4> QED BY <4>1, <4>3, <4>5
    <3>3. Promise!ExpectedExtents(AsInplace(call)) = {}
      BY <2>3, PlanOfCall
    <3> QED BY <2>3, <3>2, <3>3 DEF Promise!Complete
  <2>5. Promise!Finish
    BY <2>2, <2>3, <2>4 DEF Promise!Finish, Promise!Running, Promise!NoCall
  <2> QED BY <2>5 DEF Promise!Next
<1>5. CASE Return
  <2>1. pc = "return" /\ pc' = "idle" /\ UNCHANGED <<call, persist>>
    BY <1>5 DEF Return
  <2>2. /\ AsCall' = [op |-> "none"] /\ AsRegion' = AsRegion
        /\ AsFailed' = FALSE /\ AsResult' = "none" /\ AsResult # "none"
    BY <2>1 DEF AsCall, AsRegion, AsFailed, AsResult, NumSuper
  <2>3. AsCall # [op |-> "none"]
    BY <2>1, PlanOfCall DEF CallInv, AsCall
  <2>4. Promise!Return
    BY <2>2, <2>3 DEF Promise!Return, Promise!NoCall
  <2> QED BY <2>4 DEF Promise!Next
<1> QED BY <1>1, <1>2, <1>3, <1>4, <1>5, KernelRefines DEF Next, HostStep

\* The GPU keeps the promise of the CPU's in-place operation: super-chunks appear
\* whole, right and only while the call runs, 0 is returned only when all are
\* there and -1 only when something failed.  An empty buffer, which the tool never
\* passes (it labels a window only if win > 0), is the one place where the two part:
\* the CPU refuses it, the GPU does nothing and returns 0.
THEOREM GpuKeepsPromise ==
  ASSUME \A c \in Calls : c.len > 0
  PROVE  Spec => ImplementsRegionLabel
<1>1. Init => Promise!Init
  <2> SUFFICES ASSUME Init PROVE Promise!Init
    OBVIOUS
  <2>1. NumSuper = 0 /\ call.cb = 1 /\ pc = "idle"
    BY DivNat DEF Init, NoCall, NumSuper
  <2>2. ASSUME NEW b \in UNION {0 .. e.len - 1 : e \in Calls}
        PROVE  AsRegion[b] = [chunk |-> -1, m |-> 0, i |-> 0]
    <3>1. PICK e \in Calls : b \in 0 .. e.len - 1
      OBVIOUS
    <3>2. b \div call.cb \in Nat
      BY <2>1, <3>1, DivNat
    <3> QED BY <2>1, <3>2 DEF AsRegion
  <2>3. AsRegion = [b \in Promise!RegionBlocks |-> Promise!Old]
    <3>1. AsRegion = [b \in UNION {0 .. e.len - 1 : e \in Calls} |-> AsRegion[b]]
      BY DEF AsRegion
    <3>2. Promise!RegionBlocks = UNION {0 .. e.len - 1 : e \in Calls}
      BY BlocksOfCalls DEF AsRegion
    <3> QED BY <2>2, <3>1, <3>2 DEF Promise!Old
  <2> QED BY <2>1, <2>3
          DEF Promise!Init, Promise!NoCall, AsCall, AsFailed, AsResult
<1>2. GpuInv /\ GpuInv' /\ CallInv /\ CallInv' /\ [Next]_vars => [Promise!Next]_(Promise!vars)
  BY StepRefines
<1> QED BY <1>1, <1>2, GpuInvariant, CallInvariant, PTL
        DEF Spec, ImplementsRegionLabel, Promise!Spec
============================================================================
