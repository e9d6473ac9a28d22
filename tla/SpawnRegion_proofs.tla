------------------------- MODULE SpawnRegion_proofs -------------------------
(***************************************************************************)
(* Proofs about SpawnRegion for every number of threads, chunk size and     *)
(* region: no thread outlives its round, a failed thread creation leaves    *)
(* only whole chunks, and the call keeps the promise of RegionLabel.        *)
(***************************************************************************)
EXTENDS SpawnRegion, ChunkPlan_proofs

----------------------------------------------------------------------------
(* The inductive invariant.                                                 *)

SpawnTypes ==
  /\ cpc \in {"idle", "fill", "launch", "label", "join", "collect", "return"}
  /\ call \in RegionCalls \cup {NoCall}
  /\ block \in Nat
  /\ n \in 0 .. RegionThreads
  /\ rc \in Int
  /\ launched \in Nat
  /\ args \in [Threads -> ArgType]
  /\ tpc \in [Threads -> {"none", "label", "done"}]
  /\ region \in [RegionBlocks -> LabelType]

\* The calling thread is in a call, with good arguments once past the checks,
\* and nothing has gone wrong while it still fills and launches.
CallInv ==
  /\ cpc = "idle" <=> call = NoCall
  /\ cpc \notin {"idle", "return"} => ~BadArgs(call)
  /\ cpc \in {"fill", "launch", "label"} => rc = 0
  /\ cpc = "fill" => ~ChunkFailed

\* The threads that exist are the ones launched in this round; if no creation
\* failed they are all but the last.
ThreadInv ==
  /\ IF cpc \in {"launch", "label", "join"}
     THEN /\ launched < n
          /\ \A i \in Threads : tpc[i] # "none" <=> i < launched
     ELSE \A i \in Threads : tpc[i] = "none"
  /\ cpc \in {"label", "join", "collect"} => (rc = 0 <=> launched = n - 1)

\* Has chunk i of this round been worked on?
Finished(i) ==
  \/ tpc[i] = "done"
  \/ cpc = "join" /\ launched = n - 1 /\ i = n - 1
  \/ cpc \in {"collect", "return"} /\ Ran(i)

\* The blocks of chunk k, and the blocks before block b, have their labels.
ChunkLabelled(k) ==
  \A x \in CoveredBlocks(call) :
    x \div ChunkBlocks(call) = k => region[x] = Expected(call, x)

LabelledUpTo(b) ==
  \A x \in CoveredBlocks(call) : x < b => region[x] = Expected(call, x)

\* Has block x its label, in the round that started at chunk k?
Done(k, x) ==
  /\ x \in CoveredBlocks(call)
  /\ \/ x < k * ChunkBlocks(call)
     \/ \E i \in Threads : /\ i < n /\ Finished(i) /\ args[i].rc = 0
                           /\ x \div ChunkBlocks(call) = k + i

\* The next round starts at chunk k: all before it is labelled, and nothing else.
FillAt(k) ==
  /\ block = k * ChunkBlocks(call)
  /\ HasChunk(call, block)
  /\ LabelledUpTo(block)
  /\ \A x \in RegionBlocks : ~(x \in CoveredBlocks(call) /\ x < block) => region[x] = Old

\* The round under way started at chunk k.
RoundAt(k) ==
  LET start == k * ChunkBlocks(call)
  IN  /\ HasChunk(call, start)
      /\ n = RoundSize(call, start)
      /\ block = NextBlock(call, start)
      /\ \A i \in Threads : i < n => SameWork(args[i], ChunkArg(call, start, i))
      /\ LabelledUpTo(start)
      /\ \A i \in Threads :
           i < n /\ Finished(i) /\ args[i].rc = 0 => ChunkLabelled(k + i)
      /\ \A i \in Threads : i < n /\ ~Finished(i) => args[i].rc = 0
      /\ \A x \in RegionBlocks : ~Done(k, x) => region[x] = Old

RoundInv ==
  /\ cpc = "fill" => \E k \in Nat : FillAt(k)
  /\ cpc \in {"launch", "label", "join", "collect"} => \E k \in Nat : RoundAt(k)
  /\ cpc = "return" =>
       \/ block = 0 /\ \A x \in RegionBlocks : region[x] = Old
       \/ ~BadArgs(call) /\ \E k \in Nat : RoundAt(k)

SpawnInv == SpawnTypes /\ CallInv /\ ThreadInv /\ RoundInv

----------------------------------------------------------------------------
(* What the steps rest on.                                                  *)

\* A call past the argument checks has at least one block.
LEMMA FirstChunk ==
  ASSUME NEW c \in RegionCalls, ~BadArgs(c)
  PROVE  HasChunk(c, 0) /\ 0 \in CoveredBlocks(c)
<1>1. c \in Calls /\ c.op = "region" /\ HashBytes \in Nat \ {0}
  BY PlanAssumption DEF RegionCalls
<1> DEFINE len == c.len
<1>2. len \in Nat /\ len # 0 /\ len % HashBytes = 0
  BY <1>1, PlanAssumption DEF CallType, BadArgs
<1>3. TotalBlocks(c) = len \div HashBytes /\ TotalBlocks(c) \in Nat
  BY <1>1, TotalBlocksType DEF TotalBlocks
<1>4. TotalBlocks(c) # 0
  <2> HIDE DEF len
  <2> SUFFICES ASSUME len \div HashBytes = 0 PROVE FALSE
    BY <1>3
  <2>1. len = HashBytes * (len \div HashBytes) + (len % HashBytes)
    BY <1>1, <1>2, DivMod
  <2> QED BY <1>1, <1>2, <2>1
<1> QED BY <1>1, <1>3, <1>4 DEF HasChunk, CoveredBlocks

\* Some chunk has a return code exactly if the scan of args[] finds one.
LEMMA FirstErrorFacts ==
  ASSUME SpawnTypes
  PROVE  /\ FirstError \in Int
         /\ FirstError = 0 <=> ~ChunkFailed
<1> DEFINE bad == {i \in Threads : i < n /\ args[i].rc # 0}
<1>1. FirstError = IF bad = {} THEN 0 ELSE args[Min(bad)].rc
  BY DEF FirstError
<1>2. ChunkFailed <=> bad # {}
  BY DEF ChunkFailed
<1>3. bad \in SUBSET Nat
  BY PlanAssumption DEF Threads
<1>4. CASE bad = {}
  BY <1>1, <1>2, <1>4
<1>5. CASE bad # {}
  <2>1. Min(bad) \in bad
    <3> HIDE DEF bad
    <3> QED BY <1>3, <1>5, LeastElement
  <2>2. Min(bad) \in Threads /\ args[Min(bad)].rc # 0
    BY <2>1
  <2> HIDE DEF bad
  <2>3. args[Min(bad)].rc \in Int
    BY <2>2 DEF SpawnTypes, ArgType
  <2> QED BY <1>1, <1>2, <1>5, <2>2, <2>3
<1> QED BY <1>4, <1>5

\* The chunks of the round under way are chunks of the call.
LEMMA RoundFacts ==
  ASSUME SpawnTypes, NEW k \in Nat, RoundAt(k), call \in RegionCalls,
         NEW i \in Threads, i < n
  PROVE  /\ call \in Calls /\ call.op # "wave"
         /\ HasChunk(call, k * ChunkBlocks(call) + i * ChunkBlocks(call))
         /\ SameWork(args[i], ChunkArg(call, k * ChunkBlocks(call), i))
<1>1. call \in Calls /\ call.op # "wave"
  BY DEF RegionCalls
<1>2. k * ChunkBlocks(call) \in Nat
  BY <1>1, ChunkBlocksPos
<1> DEFINE s == k * ChunkBlocks(call)
<1>3. n = RoundSize(call, s) /\ SameWork(args[i], ChunkArg(call, s, i))
  BY DEF RoundAt
<1> HIDE DEF s
<1>4. s \in Nat
  BY <1>2 DEF s
<1>5. HasChunk(call, s + i * ChunkBlocks(call))
  BY <1>1, <1>3, <1>4, RoundSizeIsCount
<1> QED BY <1>1, <1>3, <1>5 DEF s

\* What chunk_thread_fn does to a chunk of the round: it gets its labels, or a
\* return code and nothing else changes.
LEMMA RunChunkFacts ==
  ASSUME SpawnTypes, NEW k \in Nat, RoundAt(k), call \in RegionCalls,
         NEW i \in Threads, i < n, RunChunk(i)
  PROVE  /\ args' \in [Threads -> ArgType]
         /\ region' \in [RegionBlocks -> LabelType]
         /\ \A j \in Threads : SameWork(args'[j], args[j])
         /\ \A j \in Threads : j # i => args'[j] = args[j]
         /\ \A x \in RegionBlocks :
              \/ region'[x] = region[x]
              \/ /\ x \in CoveredBlocks(call) /\ x \div ChunkBlocks(call) = k + i
                 /\ region'[x] = Expected(call, x) /\ args' = args
         /\ args'[i].rc = 0 =>
              /\ args[i].rc = 0
              /\ \A x \in CoveredBlocks(call) :
                   x \div ChunkBlocks(call) = k + i => region'[x] = Expected(call, x)
<1>1. /\ call \in Calls /\ call.op # "wave"
      /\ HasChunk(call, k * ChunkBlocks(call) + i * ChunkBlocks(call))
      /\ SameWork(args[i], ChunkArg(call, k * ChunkBlocks(call), i))
  BY RoundFacts
<1>2. args \in [Threads -> ArgType] /\ region \in [RegionBlocks -> LabelType]
  BY DEF SpawnTypes
<1>3. CASE CanLabel(args[i].m)
  <2>1. args' = args /\ region' = WriteChunk(region, args[i])
    BY <1>3 DEF RunChunk
  <2>2. region' = [b \in RegionBlocks |->
                     IF b \in CoveredBlocks(call) /\ b \div ChunkBlocks(call) = k + i
                     THEN Expected(call, b) ELSE region[b]]
    BY <1>1, <2>1, WriteIsLabelChunk
  <2>3. region' \in [RegionBlocks -> LabelType]
    BY <1>2, <2>1, WriteChunkType
  <2>4. CoveredBlocks(call) \subseteq RegionBlocks
    BY <1>1, CallBlocks
  <2> QED BY <1>2, <2>1, <2>2, <2>3, <2>4 DEF SameWork
<1>4. CASE ~CanLabel(args[i].m)
  <2>1. region' = region /\ args' = [args EXCEPT ![i].rc = -1]
    BY <1>4 DEF RunChunk
  <2>2. args[i] \in ArgType
    BY <1>2
  <2>3. args' \in [Threads -> ArgType]
    BY <1>2, <2>1 DEF ArgType
  <2>4. args'[i].rc = -1 /\ \A j \in Threads : SameWork(args'[j], args[j])
    BY <1>2, <2>1, <2>2 DEF SameWork, ArgType
  <2>5. \A j \in Threads : j # i => args'[j] = args[j]
    BY <1>2, <2>1
  <2> QED BY <1>2, <2>1, <2>3, <2>4, <2>5
<1> QED BY <1>3, <1>4

\* What args[] and region mean to the round survives the work on one chunk.
LEMMA RunChunkKeepsRound ==
  ASSUME SpawnTypes, NEW k \in Nat, RoundAt(k), call \in RegionCalls,
         NEW i \in Threads, i < n, RunChunk(i), UNCHANGED <<call, n, block>>,
         ~Finished(i), Finished(i)',
         \A j \in Threads : j # i => (Finished(j)' <=> Finished(j))
  PROVE  RoundAt(k)'
<1> DEFINE s == k * ChunkBlocks(call)
<1>1. /\ \A j \in Threads : SameWork(args'[j], args[j])
      /\ \A j \in Threads : j # i => args'[j] = args[j]
      /\ \A x \in RegionBlocks :
           \/ region'[x] = region[x]
           \/ /\ x \in CoveredBlocks(call) /\ x \div ChunkBlocks(call) = k + i
              /\ region'[x] = Expected(call, x) /\ args' = args
      /\ args'[i].rc = 0 =>
           /\ args[i].rc = 0
           /\ \A x \in CoveredBlocks(call) :
                x \div ChunkBlocks(call) = k + i => region'[x] = Expected(call, x)
  BY RunChunkFacts
<1>2. CoveredBlocks(call) \subseteq RegionBlocks
  <2>1. call \in Calls /\ call.op # "wave"
    BY DEF RegionCalls
  <2> QED BY <2>1, CallBlocks
<1>3. call' = call /\ n' = n /\ block' = block
  OBVIOUS
<1>4. /\ HasChunk(call, s)
      /\ n = RoundSize(call, s)
      /\ block = NextBlock(call, s)
      /\ \A j \in Threads : j < n => SameWork(args[j], ChunkArg(call, s, j))
      /\ LabelledUpTo(s)
      /\ \A j \in Threads :
           j < n /\ Finished(j) /\ args[j].rc = 0 => ChunkLabelled(k + j)
      /\ \A j \in Threads : j < n /\ ~Finished(j) => args[j].rc = 0
      /\ \A x \in RegionBlocks : ~Done(k, x) => region[x] = Old
  BY DEF RoundAt
<1> HIDE DEF s
<1>5. \A j \in Threads : j < n => SameWork(args'[j], ChunkArg(call, s, j))
  BY <1>1, <1>4 DEF SameWork
<1>6. \A x \in CoveredBlocks(call) : x < s => region'[x] = Expected(call, x)
  BY <1>1, <1>2, <1>4 DEF LabelledUpTo
<1>7. ASSUME NEW j \in Threads, j < n, Finished(j)', args'[j].rc = 0
      PROVE  \A x \in CoveredBlocks(call) :
               x \div ChunkBlocks(call) = k + j => region'[x] = Expected(call, x)
  <2>1. CASE j = i
    BY <1>1, <1>7, <2>1
  <2>2. CASE j # i
    <3>1. args[j].rc = 0 /\ Finished(j)
      BY <1>1, <1>7, <2>2
    <3>2. ChunkLabelled(k + j)
      BY <1>4, <1>7, <3>1
    <3> QED BY <1>1, <1>2, <3>2 DEF ChunkLabelled
  <2> QED BY <2>1, <2>2
<1>8. \A j \in Threads : j < n /\ ~Finished(j)' => args'[j].rc = 0
  BY <1>1, <1>4
<1>9. ASSUME NEW x \in RegionBlocks, ~Done(k, x)' PROVE region'[x] = Old
  <2>1. ASSUME Done(k, x) PROVE Done(k, x)'
    <3>1. CASE x < k * ChunkBlocks(call)
      BY <1>3, <2>1, <3>1 DEF Done
    <3>2. CASE ~(x < k * ChunkBlocks(call))
      <4>1. PICK j \in Threads : /\ j < n /\ Finished(j) /\ args[j].rc = 0
                                /\ x \div ChunkBlocks(call) = k + j
        BY <2>1, <3>2 DEF Done
      <4>2. Finished(j)' /\ args'[j].rc = 0
        BY <1>1, <4>1
      <4> QED BY <1>3, <2>1, <4>1, <4>2 DEF Done
    <3> QED BY <3>1, <3>2
  <2>2. CASE region'[x] = region[x]
    BY <1>4, <1>9, <2>1, <2>2
  <2>3. CASE /\ x \in CoveredBlocks(call) /\ x \div ChunkBlocks(call) = k + i
             /\ args' = args
    <3>1. args'[i].rc = 0
      BY <1>4, <2>3
    <3>2. Done(k, x)'
      BY <1>3, <2>3, <3>1 DEF Done
    <3> QED BY <1>9, <3>2
  <2> QED BY <1>1, <2>2, <2>3
<1>10. \A x \in RegionBlocks : ~Done(k, x)' => region'[x] = Old
  BY <1>9
<1> QED BY <1>3, <1>4, <1>5, <1>6, <1>7, <1>8, <1>10 DEF RoundAt, LabelledUpTo, ChunkLabelled, s

\* When every chunk of the round has been labelled, so has every block before
\* the next round.
LEMMA RoundDone ==
  ASSUME SpawnTypes, NEW k \in Nat, RoundAt(k), call \in RegionCalls,
         ~BadArgs(call), cpc = "collect", launched = n - 1, ~ChunkFailed
  PROVE  LabelledUpTo(block)
<1>1. call \in Calls /\ call.op # "wave"
  BY DEF RegionCalls
<1> DEFINE s == k * ChunkBlocks(call)
<1>2. /\ HasChunk(call, s)
      /\ n = RoundSize(call, s)
      /\ block = NextBlock(call, s)
      /\ LabelledUpTo(s)
      /\ \A j \in Threads :
           j < n /\ Finished(j) /\ args[j].rc = 0 => ChunkLabelled(k + j)
  BY DEF RoundAt
<1>3. \A j \in Threads : j < n => args[j].rc = 0 /\ Finished(j)
  BY DEF ChunkFailed, Finished, Ran
<1>4. SUFFICES ASSUME NEW x \in CoveredBlocks(call), x < block
               PROVE  region[x] = Expected(call, x)
  BY DEF LabelledUpTo
<1>5. CASE x < s
  BY <1>2, <1>5 DEF LabelledUpTo
<1>6. CASE ~(x < s)
  <2>1. s <= x
    <3>1. x \in Int /\ s \in Int
      <4>1. TotalBlocks(call) \in Nat /\ CoveredBlocks(call) \subseteq 0 .. TotalBlocks(call) - 1
        BY <1>1, TotalBlocksType, CallBlocks
      <4> QED BY <1>1, <4>1, ChunkBlocksPos
    <3> HIDE DEF s
    <3> QED BY <1>6, <3>1
  <2>2. PICK i \in Threads : i < RoundSize(call, s) /\ x \div ChunkBlocks(call) = k + i
    BY <1>1, <1>2, <1>4, <2>1, RoundCovers
  <2>3. ChunkLabelled(k + i)
    BY <1>2, <1>3, <2>2
  <2> QED BY <2>2, <2>3 DEF ChunkLabelled
<1> QED BY <1>5, <1>6

\* Nothing outside the rounds so far has been written.
LEMMA RestIsOld ==
  ASSUME NEW k \in Nat, RoundAt(k), call \in RegionCalls, ~BadArgs(call)
  PROVE  \A x \in RegionBlocks :
           ~(x \in CoveredBlocks(call) /\ x < block) => region[x] = Old
<1> DEFINE cb == ChunkBlocks(call)
           s == k * cb
<1>1. call \in Calls /\ call.op = "region" /\ call.op # "wave"
  BY DEF RegionCalls
<1>2. /\ HasChunk(call, s) /\ n = RoundSize(call, s) /\ block = NextBlock(call, s)
      /\ \A x \in RegionBlocks : ~Done(k, x) => region[x] = Old
  BY DEF RoundAt
<1>3. /\ s \in Nat /\ block \in Nat /\ s <= block
      /\ \A x \in CoveredBlocks(call), i \in Threads :
           i < n /\ x \div cb = k + i => x < block
  BY <1>1, <1>2, RoundExtent
<1>4. ASSUME NEW x \in RegionBlocks, Done(k, x)
      PROVE  x \in CoveredBlocks(call) /\ x < block
  <2>1. x \in CoveredBlocks(call) /\ x \in Nat
    BY <1>4, RegionBlocksAreNat DEF Done
  <2>2. CASE x < s
    <3> HIDE DEF s
    <3> QED BY <1>3, <2>1, <2>2
  <2>3. CASE ~(x < s)
    BY <1>3, <1>4, <2>1, <2>3 DEF Done
  <2> QED BY <2>1, <2>2, <2>3
<1> QED BY <1>2, <1>4

----------------------------------------------------------------------------
(* SpawnInv holds initially and every step preserves it.                    *)

LEMMA InitInv ==
  ASSUME Init
  PROVE  SpawnInv
<1>1. SpawnTypes
  BY OldType, PlanAssumption DEF Init, SpawnTypes
<1>2. CallInv /\ ThreadInv /\ RoundInv
  BY DEF Init, CallInv, ThreadInv, RoundInv
<1> QED BY <1>1, <1>2 DEF SpawnInv

LEMMA BeginStep ==
  ASSUME SpawnInv, NEW c \in RegionCalls, NEW allocOK \in BOOLEAN,
         BeginCall(c, allocOK)
  PROVE  SpawnInv'
<1> USE DEF SpawnInv
<1>1. c \in Calls /\ c # NoCall /\ call' = c
  BY CallNotNoCall DEF RegionCalls, BeginCall
<1>2. SpawnTypes'
  BY <1>1, OldType, PlanAssumption DEF BeginCall, SpawnTypes
<1>3. cpc' \in {"fill", "return"} /\ rc' \in {0, -1} /\ (cpc' = "fill" => rc' = 0 /\ ~BadArgs(c))
  BY DEF BeginCall
<1>4. ~ChunkFailed'
  BY PlanAssumption DEF BeginCall, ChunkFailed, Threads
<1>5. CallInv'
  BY <1>1, <1>3, <1>4 DEF CallInv
<1>6. ThreadInv'
  BY <1>3 DEF BeginCall, ThreadInv
<1>7. RoundInv'
  <2>0. block' = 0 /\ \A x \in RegionBlocks : region'[x] = Old
    BY DEF BeginCall
  <2> SUFFICES ASSUME cpc' = "fill" PROVE FillAt(0)'
    BY <1>3, <2>0 DEF RoundInv
  <2>1. HasChunk(c, 0) /\ block' = 0
    BY <1>3, FirstChunk DEF BeginCall
  <2>2. 0 = 0 * ChunkBlocks(c)
    BY <1>1, ChunkBlocksPos
  <2>3. \A x \in CoveredBlocks(c) : ~(x < 0)
    <3>1. c.op # "wave"
      BY DEF RegionCalls
    <3>2. TotalBlocks(c) \in Nat /\ CoveredBlocks(c) \subseteq 0 .. TotalBlocks(c) - 1
      BY <1>1, <3>1, TotalBlocksType, CallBlocks
    <3> QED BY <3>2
  <2> QED BY <1>1, <2>0, <2>1, <2>2, <2>3 DEF FillAt, LabelledUpTo
<1> QED BY <1>2, <1>5, <1>6, <1>7

LEMMA FillStep ==
  ASSUME SpawnInv, FillRound
  PROVE  SpawnInv'
<1> USE DEF SpawnInv
<1>1. PICK k \in Nat : FillAt(k)
  BY DEF RoundInv, FillRound
<1>2. call \in RegionCalls /\ call \in Calls /\ call.op # "wave" /\ ~BadArgs(call)
  BY DEF CallInv, FillRound, RegionCalls, SpawnTypes
<1>3. block \in Nat /\ HasChunk(call, block) /\ LabelledUpTo(block)
  BY <1>1 DEF FillAt, SpawnTypes
<1>4. n' \in 1 .. RegionThreads /\ n' = RoundSize(call, block)
  BY <1>2, <1>3, RoundSizeRange DEF FillRound
<1>5. block' \in Nat
  BY <1>2, <1>3, NextBlockType DEF FillRound
<1>6. \A i \in Threads : ChunkArg(call, block, i) \in ArgType /\ ChunkArg(call, block, i).rc = 0
  BY <1>2, <1>3, ChunkArgFacts DEF ChunkArg
<1>7. args' = [i \in Threads |-> IF i < n' THEN ChunkArg(call, block, i) ELSE args[i]]
  BY DEF FillRound
<1>8. SpawnTypes'
  BY <1>4, <1>5, <1>6, <1>7, PlanAssumption DEF SpawnTypes, FillRound
<1>9. /\ cpc' = "launch" /\ launched' = 0 /\ rc = 0
      /\ UNCHANGED <<call, rc, tpc, region>>
  BY DEF FillRound, CallInv
<1>10. CallInv'
  BY <1>2, <1>9 DEF CallInv, FillRound
<1>11. ThreadInv'
  <2>1. \A i \in Threads : tpc[i] = "none" /\ ~(i < 0)
    BY PlanAssumption DEF ThreadInv, FillRound, Threads
  <2> QED BY <1>4, <1>9, <2>1, PlanAssumption DEF ThreadInv
<1>12. RoundInv'
  <2> SUFFICES RoundAt(k)'
    BY <1>9 DEF RoundInv
  <2>1. block = k * ChunkBlocks(call)
    BY <1>1 DEF FillAt
  <2>2. \A i \in Threads : ~Finished(i)'
    BY <1>9 DEF Finished, ThreadInv, FillRound
  <2>5. \A i \in Threads : i < n' => args'[i].rc = 0
    BY <1>6, <1>7
  <2>6. \A x \in RegionBlocks : ~Done(k, x)' => region'[x] = Old
    <3>1. \A x \in RegionBlocks :
            ~(x \in CoveredBlocks(call) /\ x < block) => region[x] = Old
      BY <1>1 DEF FillAt
    <3> QED BY <1>9, <2>1, <3>1 DEF Done
  <2>3. \A i \in Threads : i < n' => SameWork(args'[i], ChunkArg(call, block, i))
    BY <1>7 DEF SameWork
  <2>4. block' = NextBlock(call, block)
    BY DEF FillRound
  <2> QED BY <1>3, <1>4, <1>9, <2>1, <2>2, <2>3, <2>4, <2>5, <2>6 DEF RoundAt, LabelledUpTo
<1> QED BY <1>8, <1>10, <1>11, <1>12

\* A step that leaves the round's data alone keeps what is known of the round,
\* as long as it counts the same chunks as finished.
LEMMA RoundKept ==
  ASSUME NEW k \in Nat, RoundAt(k), UNCHANGED <<call, n, block, args, region>>,
         \A j \in Threads : j < n => (Finished(j)' <=> Finished(j))
  PROVE  RoundAt(k)'
<1>1. \A x \in RegionBlocks : Done(k, x) => Done(k, x)'
  BY DEF Done
<1> QED BY <1>1 DEF RoundAt, LabelledUpTo, ChunkLabelled

LEMMA LaunchStep ==
  ASSUME SpawnInv, LaunchThread \/ LaunchFails \/ LaunchDone
  PROVE  SpawnInv'
<1> USE DEF SpawnInv
<1>1. /\ cpc = "launch" /\ rc = 0
      /\ UNCHANGED <<call, block, n, args, region>>
      /\ cpc' \in {"launch", "label", "join"} /\ rc' \in {0, -1}
      /\ (cpc' \in {"launch", "label"} => rc' = 0)
      /\ ~BadArgs(call)
  BY DEF LaunchThread, LaunchFails, LaunchDone, CallInv
<1>2. /\ n \in Nat /\ n <= RegionThreads /\ launched \in Nat /\ launched < n
      /\ tpc \in [Threads -> {"none", "label", "done"}]
      /\ \A i \in Threads : tpc[i] # "none" <=> i < launched
  BY <1>1, PlanAssumption DEF SpawnTypes, ThreadInv
<1>3. /\ launched' \in Nat /\ launched' < n
      /\ tpc' \in [Threads -> {"none", "label", "done"}]
      /\ \A i \in Threads : tpc'[i] # "none" <=> i < launched'
      /\ \A i \in Threads : tpc'[i] = "done" <=> tpc[i] = "done"
      /\ cpc' \in {"label", "join"} => (rc' = 0 <=> launched' = n - 1)
      /\ cpc' = "join" => launched' # n - 1
  <2>1. CASE LaunchThread
    <3>1. launched \in Threads /\ tpc' = [tpc EXCEPT ![launched] = "label"]
          /\ launched' = launched + 1 /\ launched < n - 1 /\ cpc' = "launch"
      BY <1>1, <1>2, <2>1, PlanAssumption DEF LaunchThread, Threads
    <3>2. \A i \in Threads : i \in Nat
      BY PlanAssumption DEF Threads
    <3> QED BY <1>2, <3>1, <3>2
  <2>2. CASE LaunchFails
    BY <1>2, <2>2 DEF LaunchFails
  <2>3. CASE LaunchDone
    BY <1>1, <1>2, <2>3 DEF LaunchDone
  <2> QED BY <2>1, <2>2, <2>3
<1>4. SpawnTypes'
  BY <1>1, <1>3 DEF SpawnTypes
<1>5. CallInv'
  BY <1>1 DEF CallInv
<1>6. ThreadInv'
  BY <1>1, <1>3 DEF ThreadInv
<1>7. RoundInv'
  <2>1. PICK k \in Nat : RoundAt(k)
    BY <1>1 DEF RoundInv
  <2>2. \A j \in Threads : j < n => (Finished(j)' <=> Finished(j))
    BY <1>1, <1>3 DEF Finished
  <2>3. RoundAt(k)'
    BY <1>1, <2>1, <2>2, RoundKept
  <2> QED BY <1>1, <2>3 DEF RoundInv
<1> QED BY <1>4, <1>5, <1>6, <1>7

\* One chunk is worked on, by its thread or by the caller.
LEMMA LabelStep ==
  ASSUME SpawnInv, NEW i \in Threads,
         \/ ThreadLabel(i)
         \/ CallerLabel /\ i = n - 1
  PROVE  /\ SpawnInv'
         /\ \E k \in Nat : RoundAt(k) /\ call \in RegionCalls /\ i < n /\ RunChunk(i)
         /\ cpc \notin {"idle", "return"} /\ cpc' \notin {"idle", "return"}
         /\ UNCHANGED <<call, block, n, rc, launched>>
<1> USE DEF SpawnInv
<1>1. /\ cpc \in {"launch", "label", "join"} /\ i < n
      /\ \/ /\ cpc' = cpc /\ tpc[i] = "label" /\ tpc' = [tpc EXCEPT ![i] = "done"]
            /\ i < launched
         \/ cpc = "label" /\ cpc' = "join" /\ i = n - 1 /\ tpc' = tpc
      /\ UNCHANGED <<call, block, n, rc, launched>> /\ RunChunk(i)
  <2>1. CASE ThreadLabel(i)
    <3>1. cpc \in {"launch", "label", "join"} /\ i < launched /\ launched < n
      BY <2>1 DEF ThreadLabel, ThreadInv
    <3>2. i < n
      BY <3>1, PlanAssumption DEF SpawnTypes, Threads
    <3> QED BY <2>1, <3>1, <3>2 DEF ThreadLabel
  <2>2. CASE CallerLabel /\ i = n - 1
    BY <2>2, PlanAssumption DEF CallerLabel, SpawnTypes
  <2> QED BY <2>1, <2>2
<1>11. /\ launched \in Nat /\ launched < n /\ n \in Int
       /\ cpc # "launch" => (rc = 0 <=> launched = n - 1)
       /\ \A j \in Threads : j \in Nat /\ (tpc[j] # "none" <=> j < launched)
  BY <1>1, PlanAssumption DEF SpawnTypes, ThreadInv, Threads
<1>2. call \in RegionCalls /\ ~BadArgs(call)
  BY <1>1 DEF CallInv, SpawnTypes
<1>3. PICK k \in Nat : RoundAt(k)
  BY <1>1 DEF RoundInv
<1>4. /\ args' \in [Threads -> ArgType]
      /\ region' \in [RegionBlocks -> LabelType]
  BY <1>1, <1>2, <1>3, RunChunkFacts
<1>5. /\ tpc' \in [Threads -> {"none", "label", "done"}]
      /\ \A j \in Threads : tpc'[j] = "none" <=> tpc[j] = "none"
      /\ \A j \in Threads : j # i => tpc'[j] = tpc[j]
  BY DEF ThreadLabel, CallerLabel, SpawnTypes
<1>6. SpawnTypes'
  BY <1>1, <1>4, <1>5 DEF SpawnTypes
<1>7. CallInv'
  BY <1>1, <1>2 DEF CallInv, SpawnTypes
<1>8. ThreadInv'
  BY <1>1, <1>5 DEF ThreadInv
<1>9. RoundInv'
  <2>1. \A j \in Threads : j # i => (Finished(j)' <=> Finished(j))
    BY <1>1, <1>5, <1>11 DEF Finished
  <2>3. ~Finished(i)
    BY <1>1, <1>11 DEF Finished
  <2>4. Finished(i)'
    <3>1. CASE tpc' = [tpc EXCEPT ![i] = "done"]
      BY <3>1 DEF SpawnTypes, Finished
    <3>2. CASE cpc = "label" /\ cpc' = "join" /\ i = n - 1
      <4>1. rc = 0
        BY <3>2 DEF CallInv
      <4>2. launched' = n' - 1 /\ i = n' - 1
        BY <1>1, <1>11, <3>2, <4>1
      <4> QED BY <3>2, <4>2 DEF Finished
    <3> QED BY <1>1, <3>1, <3>2
  <2>2. RoundAt(k)'
    BY <1>1, <1>2, <1>3, <2>1, <2>3, <2>4, RunChunkKeepsRound
  <2> QED BY <1>1, <2>2 DEF RoundInv
<1> QED BY <1>1, <1>2, <1>3, <1>6, <1>7, <1>8, <1>9

LEMMA JoinStep ==
  ASSUME SpawnInv, JoinRound
  PROVE  SpawnInv'
<1> USE DEF SpawnInv
<1>1. /\ cpc = "join" /\ cpc' = "collect"
      /\ UNCHANGED <<call, block, n, args, rc, launched, region>>
      /\ \A i \in 0 .. launched - 1 : tpc[i] = "done"
      /\ tpc' = [i \in Threads |-> IF tpc[i] = "done" THEN "none" ELSE tpc[i]]
  BY DEF JoinRound
<1>2. /\ launched < n /\ (rc = 0 <=> launched = n - 1)
      /\ \A i \in Threads : tpc[i] # "none" <=> i < launched
      /\ launched \in Nat /\ n \in Int
  BY <1>1 DEF ThreadInv, SpawnTypes
<1>3. \A i \in Threads : i \in Nat
  BY PlanAssumption DEF Threads
<1>4. \A i \in Threads : tpc[i] = "done" \/ tpc[i] = "none"
  BY <1>1, <1>2, <1>3
<1>5. \A i \in Threads : tpc'[i] = "none"
  BY <1>1, <1>4
<1>6. SpawnTypes'
  BY <1>1, <1>4 DEF SpawnTypes
<1>7. CallInv'
  BY <1>1 DEF CallInv
<1>8. ThreadInv'
  BY <1>1, <1>2, <1>5 DEF ThreadInv
<1>9. RoundInv'
  <2>1. PICK k \in Nat : RoundAt(k)
    BY <1>1 DEF RoundInv
  <2>2. ASSUME NEW j \in Threads, j < n PROVE Finished(j)' <=> Finished(j)
    <3>1. Finished(j)' <=> j < launched \/ launched = n - 1
      BY <1>1, <1>5 DEF Finished, Ran
    <3>2. Finished(j) <=> j < launched \/ (launched = n - 1 /\ j = n - 1)
      BY <1>1, <1>2, <1>4 DEF Finished
    <3> QED BY <1>2, <1>3, <2>2, <3>1, <3>2
  <2>3. RoundAt(k)'
    BY <1>1, <2>1, <2>2, RoundKept
  <2> QED BY <1>1, <2>3 DEF RoundInv
<1> QED BY <1>6, <1>7, <1>8, <1>9

LEMMA CollectStep ==
  ASSUME SpawnInv, CollectRound
  PROVE  SpawnInv'
<1> USE DEF SpawnInv
<1>1. /\ cpc = "collect" /\ cpc' \in {"fill", "return"}
      /\ UNCHANGED <<call, block, n, args, launched, tpc, region>>
      /\ rc' = IF rc = 0 THEN FirstError ELSE rc
      /\ cpc' = "fill" => rc' = 0 /\ HasChunk(call, block)
  BY DEF CollectRound
<1>2. FirstError \in Int /\ (FirstError = 0 <=> ~ChunkFailed)
  BY FirstErrorFacts
<1>3. call \in RegionCalls /\ ~BadArgs(call) /\ call \in Calls /\ call.op # "wave"
  BY <1>1 DEF CallInv, SpawnTypes, RegionCalls
<1>4. SpawnTypes'
  BY <1>1, <1>2 DEF SpawnTypes
<1>5. ~ChunkFailed => ~ChunkFailed'
  BY <1>1 DEF ChunkFailed
<1>6. cpc' = "fill" => rc = 0 /\ rc' = 0 /\ ~ChunkFailed
  BY <1>1, <1>2 DEF SpawnTypes
<1>7. CallInv'
  BY <1>1, <1>3, <1>5, <1>6 DEF CallInv
<1>8. ThreadInv'
  BY <1>1 DEF ThreadInv
<1>9. RoundInv'
  <2>1. PICK k \in Nat : RoundAt(k)
    BY <1>1 DEF RoundInv
  <2>5. CASE cpc' = "return"
    <3>1. \A j \in Threads : Finished(j)' <=> Finished(j)
      BY <1>1, <2>5 DEF Finished, Ran
    <3>2. RoundAt(k)'
      BY <1>1, <2>1, <3>1, RoundKept
    <3> QED BY <1>1, <1>3, <2>5, <3>2 DEF RoundInv
  <2> SUFFICES ASSUME cpc' = "fill" PROVE \E k_1 \in Nat : FillAt(k_1)'
    BY <1>1, <2>5 DEF RoundInv
  <2>6. launched = n - 1
    BY <1>1, <1>6 DEF ThreadInv
  <2>2. LabelledUpTo(block)
    BY <1>1, <1>3, <1>6, <2>1, <2>6, RoundDone
  <2>3. block = (k + n) * ChunkBlocks(call) /\ k + n \in Nat
    <3>1. HasChunk(call, k * ChunkBlocks(call)) /\ n = RoundSize(call, k * ChunkBlocks(call))
          /\ block = NextBlock(call, k * ChunkBlocks(call)) /\ HasChunk(call, block)
      BY <1>1, <2>1 DEF RoundAt
    <3> QED BY <1>3, <3>1, RoundEnds DEF SpawnTypes
  <2>7. \A x \in RegionBlocks :
          ~(x \in CoveredBlocks(call) /\ x < block) => region[x] = Old
    BY <1>3, <2>1, RestIsOld
  <2>4. FillAt(k + n)'
    BY <1>1, <2>2, <2>3, <2>7 DEF FillAt, LabelledUpTo
  <2> QED BY <1>1, <2>3, <2>4
<1> QED BY <1>4, <1>7, <1>8, <1>9

LEMMA ReturnStep ==
  ASSUME SpawnInv, Return
  PROVE  SpawnInv'
<1> USE DEF SpawnInv
<1>1. SpawnTypes'
  BY OldType, PlanAssumption DEF SpawnTypes, Return
<1>2. CallInv' /\ ThreadInv' /\ RoundInv'
  BY DEF CallInv, ThreadInv, RoundInv, Return
<1> QED BY <1>1, <1>2

\* SpawnInv is an invariant of the labellers that start their own threads.
THEOREM SpawnInvariant == Spec => []SpawnInv
<1>1. Init => SpawnInv
  BY InitInv
<1>2. SpawnInv /\ [Next]_vars => SpawnInv'
  <2> SUFFICES ASSUME SpawnInv, [Next]_vars PROVE SpawnInv'
    OBVIOUS
  <2>1. ASSUME NEW c \in RegionCalls, NEW allocOK \in BOOLEAN, BeginCall(c, allocOK)
        PROVE  SpawnInv'
    BY <2>1, BeginStep
  <2>2. ASSUME CallStep PROVE SpawnInv'
    <3>1. CASE CallerLabel
      <4>1. n - 1 \in Threads
        BY <3>1, PlanAssumption DEF SpawnInv, SpawnTypes, ThreadInv, CallerLabel, Threads
      <4> QED BY <3>1, <4>1, LabelStep
    <3> QED BY <2>2, <3>1, FillStep, LaunchStep, JoinStep, CollectStep, ReturnStep DEF CallStep
  <2>3. ASSUME NEW i \in Threads, ThreadLabel(i) PROVE SpawnInv'
    BY <2>3, LabelStep
  <2>4. CASE UNCHANGED vars
    BY <2>4 DEF vars, SpawnInv, SpawnTypes, CallInv, ThreadInv, RoundInv,
       FillAt, RoundAt, Done, LabelledUpTo, ChunkLabelled, Finished, Ran, ChunkFailed
  <2> QED BY <2>1, <2>2, <2>3, <2>4 DEF Next
<1> QED BY <1>1, <1>2, PTL DEF Spec

\* No thread outlives its round: pose_graph_label_region_ex joins whatever it
\* has launched before it refills args[], frees scratch or returns, also when
\* pthread_create fails half way.
THEOREM NoStrayThreadEver == Spec => []NoStrayThread
<1>1. SpawnInv => NoStrayThread
  BY DEF SpawnInv, ThreadInv, NoStrayThread
<1> QED BY <1>1, SpawnInvariant, PTL

\* After the joins the region is as the round's threads left it, chunk by chunk.
LEMMA RoundIsClean ==
  ASSUME SpawnInv, cpc \in {"collect", "return"}
  PROVE  PartialRoundIsClean
<1> USE DEF SpawnInv
<1>1. call \in RegionCalls /\ call \in Calls /\ call.op = "region"
  BY DEF SpawnTypes, CallInv, RegionCalls
<1>2. ChunkBlocks(call) \in Nat \ {0} /\ RegionBlocks \subseteq Nat
  BY <1>1, ChunkBlocksPos, RegionBlocksAreNat
<1>3. CASE block = 0 /\ \A x \in RegionBlocks : region[x] = Old
  <2>1. \A b \in RegionBlocks : ~(b < block) /\ region[b] = Old
    BY <1>2, <1>3
  <2> QED BY <2>1 DEF PartialRoundIsClean
<1>4. CASE ~BadArgs(call) /\ \E k \in Nat : RoundAt(k)
  <2>1. PICK k \in Nat : RoundAt(k)
    BY <1>4
  <2> DEFINE cb == ChunkBlocks(call)
             s == k * cb
  <2>2. /\ HasChunk(call, s) /\ n = RoundSize(call, s) /\ block = NextBlock(call, s)
        /\ \A i \in Threads : i < n => SameWork(args[i], ChunkArg(call, s, i))
        /\ LabelledUpTo(s)
        /\ \A i \in Threads :
             i < n /\ Finished(i) /\ args[i].rc = 0 => ChunkLabelled(k + i)
    BY <2>1 DEF RoundAt
  <2>3. /\ s \in Nat /\ block \in Nat /\ s <= block
        /\ \A x \in Nat : x < block => x \in CoveredBlocks(call)
    BY <1>1, <1>4, <2>2, RoundExtent
  <2>4. args[0].first = s /\ args[0].first \div cb = k
    <3>1. 0 \in Threads /\ 0 < n
      <4>1. RoundSize(call, s) \in 1 .. RegionThreads
        BY <1>1, <1>4, <2>2, <2>3, RoundSizeRange
      <4> QED BY <2>2, <4>1, PlanAssumption DEF Threads
    <3>2. ChunkArg(call, s, 0).first = s + 0 * cb
      BY <1>1, <2>3, <3>1, ChunkArgFacts
    <3>3. args[0].first = s
      BY <1>2, <2>2, <2>3, <3>1, <3>2 DEF SameWork
    <3>4. s \div cb = k
      BY <1>2, ChunkOfBlock
    <3> QED BY <3>3, <3>4
  <2>5. \A i \in Threads : i \in Nat /\ (Ran(i) => Finished(i)) /\ (Finished(i) => Ran(i))
    BY PlanAssumption DEF Threads, Finished, ThreadInv
  <2>6. ASSUME NEW b \in RegionBlocks
        PROVE  region[b] = IF b < block /\ (b >= s => Ran(b \div cb - k) /\ args[b \div cb - k].rc = 0)
                           THEN Expected(call, b) ELSE Old
    <3>1. b \in Nat
      BY <1>2
    <3>2. CASE b < s
      <4>1. b < block /\ b \in CoveredBlocks(call)
        <5> HIDE DEF s
        <5>1. b < block
          BY <2>3, <3>1, <3>2
        <5> QED BY <2>3, <3>1, <5>1
      <4>2. region[b] = Expected(call, b)
        BY <2>2, <3>2, <4>1 DEF LabelledUpTo
      <4>3. ~(b >= s)
        <5> HIDE DEF s
        <5> QED BY <2>3, <3>1, <3>2
      <4> QED BY <4>1, <4>2, <4>3
    <3>3. CASE b >= s /\ b < block
      <4>1. s <= b /\ b \in CoveredBlocks(call)
        <5> HIDE DEF s
        <5> QED BY <2>3, <3>1, <3>3
      <4>2. PICK i \in Threads : i < n /\ b \div cb = k + i
        BY <1>1, <1>4, <2>2, <3>3, <4>1, RoundCovers
      <4>3. b \div cb - k = i
        <5> HIDE DEF cb
        <5> QED BY <2>5, <4>2
      <4>4. CASE Ran(i) /\ args[i].rc = 0
        <5>1. ChunkLabelled(k + i)
          BY <2>2, <2>5, <4>2, <4>4
        <5>2. region[b] = Expected(call, b)
          BY <4>1, <4>2, <5>1 DEF ChunkLabelled
        <5> QED BY <3>3, <4>3, <4>4, <5>2
      <4>5. CASE ~(Ran(i) /\ args[i].rc = 0)
        <5>1. ~Done(k, b)
          <6>1. ~(b < s)
            <7> HIDE DEF s
            <7> QED BY <2>3, <3>1, <4>1
          <6>2. ASSUME NEW j \in Threads, b \div cb = k + j PROVE j = i
            <7> HIDE DEF cb
            <7> QED BY <2>5, <4>2, <6>2
          <6> QED BY <2>5, <4>5, <6>1, <6>2 DEF Done
        <5>2. region[b] = Old
          BY <2>1, <5>1 DEF RoundAt
        <5> QED BY <3>3, <4>3, <4>5, <5>2
      <4> QED BY <4>4, <4>5
    <3>4. CASE ~(b < block)
      <4>1. region[b] = Old
        BY <1>1, <1>4, <2>1, <3>4, RestIsOld
      <4> QED BY <3>4, <4>1
    <3> QED
      <4> HIDE DEF s
      <4> QED BY <2>3, <3>1, <3>2, <3>3, <3>4
  <2> QED BY <2>4, <2>6 DEF PartialRoundIsClean
<1> QED BY <1>3, <1>4 DEF RoundInv, CallInv

\* Once pose_graph_label_region_ex has joined a round, each of its chunks that
\* was launched (or, if no creation failed, run by the caller) and not refused
\* is wholly labelled, and every other one is untouched.
THEOREM PartialRoundsAreClean == Spec => []PartialRoundIsClean
<1>1. SpawnInv => PartialRoundIsClean
  BY RoundIsClean DEF PartialRoundIsClean
<1> QED BY <1>1, SpawnInvariant, PTL

----------------------------------------------------------------------------
(* The refinement.                                                          *)

\* The abstract specification plans a call as this module does.
LEMMA PromiseTerms ==
  /\ Promise!RegionBlocks = RegionBlocks /\ Promise!Old = Old /\ Promise!NoCall = NoCall
  /\ \A c : /\ Promise!BadArgs(c) = BadArgs(c)
            /\ Promise!ChunkBlocks(c) = ChunkBlocks(c)
            /\ Promise!CoveredBlocks(c) = CoveredBlocks(c)
            /\ c.op # "wave" => Promise!ExpectedExtents(c) = {}
  /\ \A c, x : Promise!Expected(c, x) = Expected(c, x)
<1>1. \A c : /\ Promise!ChunkBlocks(c) = ChunkBlocks(c)
             /\ Promise!TotalBlocks(c) = TotalBlocks(c)
  BY DEF Promise!ChunkBlocks, ChunkBlocks, Promise!TotalBlocks, TotalBlocks
<1>2. Promise!RegionBlocks = RegionBlocks
  BY <1>1 DEF Promise!RegionBlocks, RegionBlocks
<1>3. \A c : Promise!CoveredBlocks(c) = CoveredBlocks(c)
  BY <1>1 DEF Promise!CoveredBlocks, CoveredBlocks
<1>4. \A S : Promise!Min(S) = Min(S)
  BY DEF Promise!Min, Min
<1>5. \A c, x : Promise!Expected(c, x) = Expected(c, x)
  BY <1>1, <1>4 DEF Promise!Expected, Expected
<1>6. \A c : Promise!BadArgs(c) = BadArgs(c)
  BY DEF Promise!BadArgs, BadArgs
<1>7. Promise!Old = Old /\ Promise!NoCall = NoCall
  BY DEF Promise!Old, Old, Promise!NoCall, NoCall
<1>8. \A c : c.op # "wave" => Promise!ExpectedExtents(c) = {}
  BY DEF Promise!ExpectedExtents
<1> QED BY <1>1, <1>2, <1>3, <1>5, <1>6, <1>7, <1>8

\* A chunk of the round gets its labels, or fails.
LEMMA LabelRefines ==
  ASSUME SpawnInv, NEW i \in Threads,
         \/ ThreadLabel(i)
         \/ CallerLabel /\ i = n - 1
  PROVE  Promise!Next
<1>1. PICK k \in Nat : RoundAt(k) /\ call \in RegionCalls /\ i < n /\ RunChunk(i)
  BY LabelStep
<1>2. /\ cpc \notin {"idle", "return"} /\ cpc' \notin {"idle", "return"}
      /\ call' = call /\ n' = n /\ rc' = rc
  BY LabelStep
<1>3. SpawnTypes /\ call # NoCall
  BY <1>2 DEF SpawnInv, CallInv
<1>4. AsResult = "none" /\ AsResult' = "none"
  BY <1>2 DEF AsResult
<1>5. Promise!Running
  BY <1>3, <1>4, PromiseTerms DEF Promise!Running
<1>6. /\ call \in Calls /\ call.op # "wave"
      /\ HasChunk(call, k * ChunkBlocks(call) + i * ChunkBlocks(call))
      /\ SameWork(args[i], ChunkArg(call, k * ChunkBlocks(call), i))
  BY <1>1, <1>3, RoundFacts
<1>7. CASE CanLabel(args[i].m)
  <2>1. args' = args /\ region' = WriteChunk(region, args[i])
    BY <1>1, <1>7 DEF RunChunk
  <2>2. region' = [b \in RegionBlocks |->
                     IF b \in CoveredBlocks(call) /\ b \div ChunkBlocks(call) = k + i
                     THEN Expected(call, b) ELSE region[b]]
    BY <1>6, <2>1, WriteIsLabelChunk
  <2>3. AsFailed' = AsFailed
    BY <1>2, <2>1 DEF AsFailed, ChunkFailed
  <2>4. Promise!LabelChunk(k + i)
    BY <1>2, <1>4, <1>5, <2>2, <2>3, PromiseTerms DEF Promise!LabelChunk
  <2>5. k + i \in RegionBlocks
    BY <1>6, ArgIsRight
  <2> QED BY <2>4, <2>5, PromiseTerms DEF Promise!Next
<1>8. CASE ~CanLabel(args[i].m)
  <2>1. region' = region /\ args' = [args EXCEPT ![i].rc = -1]
    BY <1>1, <1>8 DEF RunChunk
  <2>2. args'[i].rc = -1
    BY <1>3, <2>1 DEF SpawnTypes, ArgType
  <2>3. AsFailed' = TRUE
    BY <1>1, <1>2, <1>3, <2>2 DEF AsFailed, ChunkFailed
  <2>4. Promise!Fail
    BY <1>2, <1>4, <1>5, <2>1, <2>3 DEF Promise!Fail
  <2> QED BY <2>4 DEF Promise!Next
<1> QED BY <1>7, <1>8

\* The call ends: badly if a creation or a chunk failed, and well only with
\* every block labelled.
LEMMA CollectRefines ==
  ASSUME SpawnInv, CollectRound
  PROVE  [Promise!Next]_(Promise!vars)
<1>1. /\ cpc = "collect" /\ cpc' = (IF rc' = 0 /\ HasChunk(call, block) THEN "fill" ELSE "return")
      /\ UNCHANGED <<call, block, n, args, launched, tpc, region>>
      /\ rc' = IF rc = 0 THEN FirstError ELSE rc
  BY DEF CollectRound
<1>2. SpawnTypes /\ call # NoCall /\ call \in RegionCalls /\ ~BadArgs(call)
  BY <1>1 DEF SpawnInv, SpawnTypes, CallInv
<1>3. call \in Calls /\ call.op # "wave"
  BY <1>2 DEF RegionCalls
<1>4. FirstError \in Int /\ (FirstError = 0 <=> ~ChunkFailed)
  BY <1>2, FirstErrorFacts
<1>5. ChunkFailed' = ChunkFailed
  BY <1>1 DEF ChunkFailed
<1>6. AsFailed = (rc' # 0) /\ AsFailed' = (rc' # 0)
  <2>1. rc' # 0 <=> rc # 0 \/ ChunkFailed
    BY <1>1, <1>4 DEF SpawnTypes
  <2> QED BY <1>1, <1>2, <1>5, <2>1 DEF AsFailed
<1>7. AsResult = "none" /\ Promise!Running
  BY <1>1, <1>2, PromiseTerms DEF AsResult, Promise!Running
<1>8. CASE rc' # 0
  <2>1. AsResult' = "error"
    BY <1>1, <1>8 DEF AsResult
  <2>2. Promise!Finish
    BY <1>1, <1>6, <1>7, <1>8, <2>1 DEF Promise!Finish
  <2> QED BY <2>2 DEF Promise!Next
<1>9. CASE rc' = 0 /\ HasChunk(call, block)
  <2>1. AsResult' = "none"
    BY <1>1, <1>9 DEF AsResult
  <2> QED BY <1>1, <1>6, <1>7, <2>1 DEF Promise!vars
<1>10. CASE rc' = 0 /\ ~HasChunk(call, block)
  <2>1. AsResult' = "ok"
    BY <1>1, <1>10 DEF AsResult
  <2>2. rc = 0 /\ ~ChunkFailed
    BY <1>1, <1>4, <1>10 DEF SpawnTypes
  <2>3. PICK k \in Nat : RoundAt(k)
    BY <1>1 DEF SpawnInv, RoundInv
  <2>4. LabelledUpTo(block)
    <3>1. launched = n - 1
      BY <1>1, <2>2 DEF SpawnInv, ThreadInv
    <3> QED BY <1>1, <1>2, <2>2, <2>3, <3>1, RoundDone
  <2>5. \A x \in CoveredBlocks(call) : x < block
    <3>1. HasChunk(call, k * ChunkBlocks(call)) /\ block = NextBlock(call, k * ChunkBlocks(call))
      BY <2>3 DEF RoundAt
    <3> QED BY <1>2, <1>3, <1>10, <3>1, RoundEnds
  <2>6. Promise!Complete(call, region, {})
    BY <1>3, <2>4, <2>5, PromiseTerms DEF Promise!Complete, LabelledUpTo
  <2>7. Promise!Finish
    BY <1>1, <1>6, <1>7, <1>10, <2>1, <2>6 DEF Promise!Finish
  <2> QED BY <2>7 DEF Promise!Next
<1> QED BY <1>8, <1>9, <1>10

\* Every step of the labellers is a step of the promise or invisible to it.
LEMMA SpawnStepRefines ==
  ASSUME SpawnInv, [Next]_vars
  PROVE  [Promise!Next]_(Promise!vars)
<1>1. ASSUME NEW c \in RegionCalls, NEW allocOK \in BOOLEAN, BeginCall(c, allocOK)
      PROVE  Promise!Next
  <2>1. /\ cpc = "idle" /\ call = NoCall /\ call' = c /\ n' = 0
        /\ rc' = IF BadArgs(c) \/ ~allocOK THEN -1 ELSE 0
        /\ cpc' = IF rc' = 0 THEN "fill" ELSE "return"
        /\ region' = [b \in RegionBlocks |-> Old]
    BY <1>1 DEF BeginCall, SpawnInv, CallInv
  <2>2. c \in Calls /\ c # NoCall /\ c.op # "wave"
    BY CallNotNoCall DEF RegionCalls
  <2>3. ~ChunkFailed'
    BY <2>1, PlanAssumption DEF ChunkFailed, Threads
  <2>4. /\ rc' = 0 => ~BadArgs(c) /\ AsFailed' = FALSE
        /\ rc' # 0 => AsFailed' = TRUE
    <3>1. rc' = 0 => ~BadArgs(c)
      BY <2>1
    <3> QED BY <2>1, <2>2, <2>3, <3>1 DEF AsFailed
  <2>5. AsFailed' = BadArgs(c) \/ AsFailed' = TRUE
    <3>1. ~BadArgs(c) => BadArgs(c) = FALSE
      BY DEF BadArgs
    <3> QED BY <2>4, <3>1
  <2>6. AsResult' = IF AsFailed' THEN "error"
                    ELSE IF Promise!CoveredBlocks(c) = {} /\ Promise!ExpectedExtents(c) = {}
                    THEN "ok" ELSE "none"
    <3>1. CASE rc' = 0
      <4>1. ~BadArgs(c) /\ AsResult' = "none" /\ ~AsFailed'
        BY <2>1, <2>4, <3>1 DEF AsResult
      <4>2. CoveredBlocks(c) # {}
        BY <4>1, FirstChunk
      <4> QED BY <4>1, <4>2, PromiseTerms
    <3>2. CASE rc' # 0
      BY <2>1, <2>4, <3>2 DEF AsResult
    <3> QED BY <3>1, <3>2
  <2>7. Promise!Begin(c)
    BY <2>1, <2>5, <2>6, PromiseTerms DEF Promise!Begin
  <2> QED BY <2>2, <2>7 DEF Promise!Next
<1>2. ASSUME FillRound PROVE UNCHANGED Promise!vars
  <2>1. /\ cpc = "fill" /\ rc = 0 /\ ~ChunkFailed /\ cpc' = "launch" /\ rc' = rc
        /\ call' = call /\ region' = region /\ ~BadArgs(call)
    BY <1>2 DEF FillRound, SpawnInv, CallInv
  <2>2. \A i \in Threads : i < n' => args'[i].rc = 0
    BY <1>2 DEF FillRound, ChunkArg
  <2>3. AsFailed = FALSE /\ AsFailed' = FALSE
    BY <2>1, <2>2 DEF AsFailed, ChunkFailed
  <2>4. AsResult' = AsResult
    BY <2>1 DEF AsResult
  <2> QED BY <2>1, <2>3, <2>4 DEF Promise!vars
<1>3. ASSUME LaunchThread \/ LaunchDone \/ JoinRound PROVE UNCHANGED Promise!vars
  <2>1. /\ cpc # "return" /\ cpc' # "return"
        /\ UNCHANGED <<call, n, args, rc, region>>
    BY <1>3 DEF LaunchThread, LaunchDone, JoinRound
  <2>2. AsFailed' = AsFailed /\ AsResult' = AsResult
    BY <2>1 DEF AsFailed, ChunkFailed, AsResult
  <2> QED BY <2>1, <2>2 DEF Promise!vars
<1>4. ASSUME LaunchFails PROVE Promise!Next
  <2>1. /\ cpc = "launch" /\ cpc' = "join" /\ rc' = -1
        /\ call' = call /\ region' = region /\ call # NoCall
    BY <1>4 DEF LaunchFails, SpawnInv, CallInv
  <2>2. AsFailed' = TRUE /\ AsResult = "none" /\ AsResult' = "none"
    BY <2>1 DEF AsFailed, AsResult
  <2>3. Promise!Fail
    BY <2>1, <2>2, PromiseTerms DEF Promise!Fail, Promise!Running
  <2> QED BY <2>3 DEF Promise!Next
<1>5. ASSUME CallerLabel PROVE Promise!Next
  <2>1. n - 1 \in Threads
    BY <1>5, PlanAssumption DEF SpawnInv, SpawnTypes, ThreadInv, CallerLabel, Threads
  <2> QED BY <1>5, <2>1, LabelRefines
<1>6. ASSUME Return PROVE Promise!Next
  <2>1. /\ cpc = "return" /\ cpc' = "idle" /\ call' = NoCall /\ region' = region
        /\ call # NoCall
    BY <1>6 DEF Return, SpawnInv, CallInv
  <2>2. AsFailed' = FALSE /\ AsResult # "none" /\ AsResult' = "none"
    BY <2>1 DEF AsFailed, AsResult
  <2>3. Promise!Return
    BY <2>1, <2>2, PromiseTerms DEF Promise!Return
  <2> QED BY <2>3 DEF Promise!Next
<1>7. ASSUME NEW i \in Threads, ThreadLabel(i) PROVE Promise!Next
  BY <1>7, LabelRefines
<1>8. ASSUME UNCHANGED vars PROVE UNCHANGED Promise!vars
  BY <1>8 DEF vars, Promise!vars, AsFailed, AsResult, ChunkFailed
<1> QED BY <1>1, <1>2, <1>3, <1>4, <1>5, <1>6, <1>7, <1>8, CollectRefines DEF Next, CallStep

\* The spawning labellers keep the promise of RegionLabel: chunks appear whole
\* and right, success means every block has its label, and a failed creation or
\* a refused chunk always ends in an error.
THEOREM SpawnKeepsPromise == Spec => ImplementsRegionLabel
<1>1. Init => Promise!Init
  BY PromiseTerms DEF Init, Promise!Init, AsFailed, AsResult
<1>2. SpawnInv /\ [Next]_vars => [Promise!Next]_(Promise!vars)
  BY SpawnStepRefines
<1> QED BY <1>1, <1>2, SpawnInvariant, PTL
        DEF Spec, ImplementsRegionLabel, Promise!Spec
============================================================================
