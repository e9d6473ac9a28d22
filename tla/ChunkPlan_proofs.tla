-------------------------- MODULE ChunkPlan_proofs --------------------------
(***************************************************************************)
(* Proofs about the plan of a labelling call, for every chunk size, region  *)
(* length and number of threads: the fill loop hands out whole chunks, each *)
(* block of the call in exactly one of them, with the label the verifier    *)
(* recomputes.  The proofs about ChunkPool and SpawnRegion rest on these.   *)
(***************************************************************************)
EXTENDS ChunkPlan, DivisionFacts, FiniteSetTheorems, TLAPS

----------------------------------------------------------------------------
(* The plan of a call.                                                      *)

\* A chunk is never empty: chunk_blocks = 0 has been resolved.
LEMMA ChunkBlocksPos ==
  ASSUME NEW c \in Calls
  PROVE  ChunkBlocks(c) \in Nat \ {0}
BY PlanAssumption DEF ChunkBlocks, CallType

\* The block count of a region.
LEMMA TotalBlocksType ==
  ASSUME NEW c \in Calls, c.op # "wave"
  PROVE  TotalBlocks(c) \in Nat
<1>1. c.len \in Nat
  BY PlanAssumption DEF CallType
<1> QED BY <1>1, PlanAssumption DEF TotalBlocks

\* The fill loop finds at least one chunk and at most one per thread.
LEMMA RoundSizeRange ==
  ASSUME NEW c \in Calls, NEW b \in Nat, ~BadArgs(c), HasChunk(c, b)
  PROVE  RoundSize(c, b) \in 1 .. RegionThreads
<1>1. CASE c.op = "wave"
  BY <1>1, PlanAssumption DEF RoundSize, BadArgs, CallType
<1>2. CASE c.op # "wave"
  <2> DEFINE S == {i \in Threads : HasChunk(c, b + i * ChunkBlocks(c))}
  <2>1. IsFiniteSet(Threads) /\ Cardinality(Threads) = RegionThreads
    BY FS_Interval, PlanAssumption DEF Threads
  <2>2. IsFiniteSet(S) /\ Cardinality(S) <= RegionThreads /\ Cardinality(S) \in Nat
    BY <2>1, FS_Subset, FS_CardinalityType
  <2>3. 0 \in S
    <3>1. b + 0 * ChunkBlocks(c) = b
      BY ChunkBlocksPos
    <3> QED BY <3>1, PlanAssumption DEF Threads
  <2>4. Cardinality(S) # 0
    BY <2>2, <2>3, FS_EmptySet
  <2> QED BY <1>2, <2>2, <2>4, PlanAssumption DEF RoundSize
<1> QED BY <1>1, <1>2

\* After a round, block is again a block number.
LEMMA NextBlockType ==
  ASSUME NEW c \in Calls, NEW b \in Nat, ~BadArgs(c), HasChunk(c, b)
  PROVE  NextBlock(c, b) \in Nat
<1>1. RoundSize(c, b) \in Nat
  BY RoundSizeRange, PlanAssumption
<1>2. b + RoundSize(c, b) * ChunkBlocks(c) \in Nat
  BY <1>1, ChunkBlocksPos
<1>3. c.op \in {"region", "inplace", "wave"}
  BY PlanAssumption DEF CallType
<1>4. CASE c.op = "wave"
  <2>1. c.n \in Nat
    BY <1>4, PlanAssumption DEF CallType, BadArgs
  <2> QED BY <1>4, <2>1 DEF NextBlock
<1>5. CASE c.op = "inplace"
  BY <1>2, <1>5 DEF NextBlock
<1>6. CASE c.op = "region"
  <2>1. TotalBlocks(c) \in Nat
    BY <1>6, TotalBlocksType
  <2> DEFINE x == b + RoundSize(c, b) * ChunkBlocks(c)
  <2>2. Min({TotalBlocks(c), x}) \in Nat
    <3> HIDE DEF x
    <3>1. x \in Nat BY <1>2 DEF x
    <3>2. \A y, z \in Int : Min({y, z}) \in {y, z}
      BY MinOfTwo
    <3>3. Min({TotalBlocks(c), x}) \in {TotalBlocks(c), x}
      BY <3>1, <3>2, <2>1
    <3> QED BY <3>1, <3>3, <2>1
  <2> QED BY <1>6, <2>2 DEF NextBlock
<1> QED BY <1>3, <1>4, <1>5, <1>6

\* A chunk is never larger than chunk_blocks.
LEMMA ThisBlocksRange ==
  ASSUME NEW c \in Calls, NEW b \in Nat
  PROVE  ThisBlocks(c, b) \in Int /\ ThisBlocks(c, b) <= ChunkBlocks(c)
<1>1. ChunkBlocks(c) \in Nat
  BY ChunkBlocksPos
<1>2. CASE c.op = "region"
  <2>1. TotalBlocks(c) - b \in Int
    BY <1>2, TotalBlocksType
  <2> DEFINE x == TotalBlocks(c) - b
  <2> HIDE DEF x
  <2>2. /\ Min({ChunkBlocks(c), x}) \in {ChunkBlocks(c), x}
        /\ Min({ChunkBlocks(c), x}) <= ChunkBlocks(c)
    BY <1>1, <2>1, MinOfTwo DEF x
  <2>3. ThisBlocks(c, b) = Min({ChunkBlocks(c), x})
    BY <1>2 DEF ThisBlocks, x
  <2> QED BY <1>1, <2>1, <2>2, <2>3 DEF x
<1>3. CASE c.op # "region"
  BY <1>1, <1>3 DEF ThisBlocks
<1> QED BY <1>2, <1>3

\* What the fill loop puts in args[i]: its own buffer, at most chunk_blocks
\* blocks, starting i chunks after the first.
LEMMA ChunkArgFacts ==
  ASSUME NEW c \in Calls, NEW b \in Nat, NEW i \in Threads
  PROVE  /\ ChunkArg(c, b, i) \in ArgType
         /\ ChunkArg(c, b, i).buf = i
         /\ ChunkArg(c, b, i).m <= ChunkBlocks(c)
         /\ c.op # "wave" => ChunkArg(c, b, i).first = b + i * ChunkBlocks(c)
<1> DEFINE cb == ChunkBlocks(c)
           start == b + i * cb
           j == IF c.op = "wave" THEN c.base + i ELSE start \div cb
           a == ChunkArg(c, b, i)
<1>1. cb \in Nat \ {0}
  BY ChunkBlocksPos
<1>2. i \in Nat
  BY PlanAssumption DEF Threads
<1>3. start \in Nat
  BY <1>1, <1>2
<1>4. c.rbo \in Nat
  BY PlanAssumption DEF CallType
<1>5. j \in Int
  <2>1. CASE c.op = "wave"
    <3>1. c.base \in Nat
      BY <2>1, PlanAssumption DEF CallType
    <3> QED BY <2>1, <3>1, <1>2
  <2>2. CASE c.op # "wave"
    BY <2>2, <1>1, <1>3
  <2> QED BY <2>1, <2>2
<1>6. ThisBlocks(c, start) \in Int /\ ThisBlocks(c, start) <= cb
  <2> HIDE DEF start
  <2> QED BY <1>3, ThisBlocksRange
<1>7. RegionChunkIndex(c, start) \in Int
  BY <1>1, <1>3, <1>4 DEF RegionChunkIndex
<1>8. SuperChunkIndex(c, j) \in Int
  <2> HIDE DEF j
  <2>1. j * cb \in Int
    BY <1>1, <1>5
  <2> QED BY <1>1, <1>4, <2>1 DEF SuperChunkIndex
<1>9. (IF c.op = "wave" THEN c.start + j * c.wlen ELSE 0) \in Int
  <2>1. CASE c.op = "wave"
    <3>1. c.start \in Int /\ c.wlen \in Int
      BY <2>1, PlanAssumption DEF CallType
    <3> HIDE DEF j
    <3> QED BY <2>1, <3>1, <1>5
  <2> QED BY <2>1
<1>10. a = [chunk |-> IF c.op = "region" THEN RegionChunkIndex(c, start)
                                         ELSE SuperChunkIndex(c, j),
            m     |-> ThisBlocks(c, start),
            first |-> IF c.op = "wave" THEN 0 ELSE start,
            buf   |-> i,
            off   |-> IF c.op = "wave" THEN c.start + j * c.wlen ELSE 0,
            rc    |-> 0]
  BY DEF ChunkArg
<1> HIDE DEF a, start, j, cb
<1>11. a \in ArgType
  BY <1>3, <1>6, <1>7, <1>8, <1>9, <1>10 DEF ArgType
<1>12. a.buf = i /\ a.m <= cb /\ (c.op # "wave" => a.first = start)
  BY <1>6, <1>10
<1> QED BY <1>11, <1>12 DEF a, start, cb

\* The initial contents are well formed.
LEMMA OldType == Old \in LabelType /\ Unused \in ArgType
BY PlanAssumption DEF Old, Unused, LabelType, ArgType, Threads

\* No call is mistaken for the absence of one.
LEMMA CallNotNoCall == \A c \in Calls : c # NoCall /\ c.op # "none"
BY PlanAssumption DEF CallType, NoCall

\* Blocks are numbered from 0.
LEMMA RegionBlocksAreNat == RegionBlocks \subseteq Nat
<1> SUFFICES ASSUME NEW b \in RegionBlocks PROVE b \in Nat
  OBVIOUS
<1>1. PICK c \in Calls : c.op # "wave" /\ b \in 0 .. TotalBlocks(c) - 1
  BY DEF RegionBlocks
<1>2. TotalBlocks(c) \in Nat
  BY <1>1, TotalBlocksType
<1> QED BY <1>1, <1>2

\* Writing a chunk leaves a well-formed region.
LEMMA WriteChunkType ==
  ASSUME NEW reg \in [RegionBlocks -> LabelType], NEW a \in ArgType
  PROVE  WriteChunk(reg, a) \in [RegionBlocks -> LabelType]
<1>1. ASSUME NEW b \in RegionBlocks
      PROVE  Label(a, b - a.first) \in LabelType
  <2>1. b \in Int
    BY RegionBlocksAreNat
  <2> QED BY <2>1 DEF Label, LabelType, ArgType
<1> QED BY <1>1 DEF WriteChunk

----------------------------------------------------------------------------
(* Which chunks a round has, and what they cover.  A round starts at a      *)
(* chunk boundary: block = k * chunk_blocks.                                *)

\* A region's length and chunk size, as the loops use them.
LEMMA RegionShape ==
  ASSUME NEW c \in Calls, c.op # "wave"
  PROVE  /\ ChunkBlocks(c) \in Nat \ {0}
         /\ TotalBlocks(c) \in Nat
         /\ c.rbo \in Nat
         /\ c.op \in {"region", "inplace"}
<1>1. c.rbo \in Nat /\ c.op \in {"region", "inplace", "wave"}
  BY PlanAssumption DEF CallType
<1> QED BY <1>1, ChunkBlocksPos, TotalBlocksType

\* If there is a chunk at a block, there is one at every earlier block.
LEMMA HasChunkEarlier ==
  ASSUME NEW c \in Calls, c.op # "wave", NEW x \in Int, NEW y \in Int,
         x <= y, HasChunk(c, y)
  PROVE  HasChunk(c, x)
<1> DEFINE cb == ChunkBlocks(c)
           tb == TotalBlocks(c)
<1>1. cb \in Nat /\ tb \in Nat /\ c.op \in {"region", "inplace"}
  BY RegionShape
<1>2. \A z : /\ c.op = "region" => (HasChunk(c, z) <=> z < tb)
             /\ c.op = "inplace" => (HasChunk(c, z) <=> z + cb <= tb)
  BY DEF HasChunk
<1> HIDE DEF cb, tb
<1>3. CASE c.op = "region"
  <2>1. y < tb
    BY <1>2, <1>3
  <2>2. x < tb
    BY <1>1, <2>1
  <2> QED BY <1>2, <1>3, <2>2
<1>4. CASE c.op = "inplace"
  <2>1. y + cb <= tb
    BY <1>2, <1>4
  <2>2. x + cb <= tb
    BY <1>1, <2>1
  <2> QED BY <1>2, <1>4, <2>2
<1> QED BY <1>1, <1>3, <1>4

\* The round has an i-th chunk exactly if the loop condition holds i chunks
\* further: the fill loop stops at the first block with no chunk.
LEMMA RoundSizeIsCount ==
  ASSUME NEW c \in Calls, c.op # "wave", NEW b \in Nat, NEW i \in Threads
  PROVE  i < RoundSize(c, b) <=> HasChunk(c, b + i * ChunkBlocks(c))
<1> DEFINE cb == ChunkBlocks(c)
           S == {k \in Threads : HasChunk(c, b + k * cb)}
<1>1. cb \in Nat \ {0} /\ i \in Nat
  BY ChunkBlocksPos, PlanAssumption DEF Threads
<1>2. RoundSize(c, b) = Cardinality(S)
  BY DEF RoundSize
<1>3. IsFiniteSet(Threads)
  BY FS_Interval, PlanAssumption DEF Threads
<1>4. IsFiniteSet(S) /\ Cardinality(S) \in Nat
  BY <1>3, FS_Subset, FS_CardinalityType
<1>5. ASSUME NEW j \in Threads, NEW k \in Threads, j <= k, k \in S PROVE j \in S
  <2>1. j \in Int /\ k \in Int
    BY PlanAssumption DEF Threads
  <2> HIDE DEF cb
  <2>2. j * cb <= k * cb /\ j * cb \in Int /\ k * cb \in Int
    BY <1>1, <1>5, <2>1, MulMono
  <2> DEFINE x == b + j * cb
             y == b + k * cb
  <2>3. x \in Int /\ y \in Int /\ x <= y
    BY <2>2
  <2>4. HasChunk(c, y)
    BY <1>5
  <2> HIDE DEF x, y
  <2>5. HasChunk(c, x)
    BY <2>3, <2>4, HasChunkEarlier
  <2> QED BY <2>5 DEF x
<1>6. CASE i \in S
  <2>1. 0 .. i \subseteq S
    <3> SUFFICES ASSUME NEW j \in 0 .. i PROVE j \in S
      OBVIOUS
    <3>1. j \in Threads /\ j <= i
      BY PlanAssumption DEF Threads
    <3> HIDE DEF S
    <3> QED BY <1>5, <1>6, <3>1
  <2>2. Cardinality(0 .. i) <= Cardinality(S)
    <3> HIDE DEF S
    <3> QED BY <1>4, <2>1, FS_Subset
  <2>3. Cardinality(0 .. i) = i + 1
    BY <1>1, FS_Interval
  <2>4. i < Cardinality(S)
    <3> HIDE DEF S
    <3> QED BY <1>1, <1>4, <2>2, <2>3
  <2> QED BY <1>2, <1>6, <2>4
<1>7. CASE i \notin S
  <2>1. S \subseteq 0 .. i - 1
    <3> SUFFICES ASSUME NEW j \in S PROVE j \in 0 .. i - 1
      OBVIOUS
    <3>1. j \in Threads /\ j \in Nat
      BY PlanAssumption DEF Threads
    <3>2. ~(i <= j)
      <4> HIDE DEF S
      <4> QED BY <1>5, <1>7, <3>1
    <3> QED BY <1>1, <3>1, <3>2
  <2>2. IsFiniteSet(0 .. i - 1) /\ Cardinality(0 .. i - 1) = i
    <3>1. i - 1 \in Int /\ 0 \in Int
      BY <1>1
    <3>2. IsFiniteSet(0 .. i - 1)
      BY <3>1, FS_Interval
    <3>3. Cardinality(0 .. i - 1) = IF 0 > i - 1 THEN 0 ELSE i - 1 - 0 + 1
      BY ONLY <3>1, FS_Interval
    <3> QED BY <1>1, <3>2, <3>3
  <2>3. Cardinality(S) <= i
    <3> HIDE DEF S
    <3> QED BY <2>1, <2>2, FS_Subset
  <2>4. ~(i < Cardinality(S))
    <3> HIDE DEF S
    <3> QED BY <1>1, <1>4, <2>3
  <2> QED BY <1>2, <1>7, <2>4
<1> QED BY <1>6, <1>7

\* The k-th chunk of a call, if there is one, has at least one block and at
\* most chunk_blocks, lies inside the region and is all the call must label
\* of the blocks numbered k * chunk_blocks and up to the next chunk's.
LEMMA ChunkShape ==
  ASSUME NEW c \in Calls, c.op # "wave", NEW k \in Nat,
         HasChunk(c, k * ChunkBlocks(c))
  PROVE  LET cb == ChunkBlocks(c)
             m  == ThisBlocks(c, k * cb)
         IN  /\ m \in 1 .. cb
             /\ k * cb + m <= TotalBlocks(c)
             /\ m = Min({cb, TotalBlocks(c) - k * cb})
             /\ \A x \in Int :
                  x \in k * cb .. k * cb + m - 1 <=>
                    x \in CoveredBlocks(c) /\ x \div cb = k
<1> DEFINE cb == ChunkBlocks(c)
           tb == TotalBlocks(c)
           s  == k * cb
           m  == ThisBlocks(c, s)
<1>1. /\ cb \in Nat \ {0} /\ tb \in Nat
      /\ c.op \in {"region", "inplace"}
      /\ HasChunk(c, s)
  BY RegionShape
<1>2. s \in Nat
  BY <1>1
<1>3. \A x \in Int : x \div cb = k <=> (s <= x /\ x < s + cb)
  <2> HIDE DEF cb
  <2>1. cb \in Nat \ {0} /\ k \in Int
    BY <1>1
  <2>2. \A x \in Int : x \div cb = k <=> (k * cb <= x /\ x < k * cb + cb)
    BY ONLY <2>1, ChunkOfBlock
  <2> QED BY <2>2
<1> HIDE DEF cb, tb, s
<1>4. CASE c.op = "region"
  <2>1. s < tb
    BY <1>1, <1>4 DEF HasChunk, tb
  <2>2. m = Min({cb, tb - s})
    BY <1>4 DEF ThisBlocks, cb, tb
  <2> DEFINE d == tb - s
  <2>3. d \in Int /\ d >= 1 /\ d = tb - s
    BY <1>1, <1>2, <2>1
  <2> HIDE DEF d
  <2>4. Min({cb, d}) \in {cb, d} /\ Min({cb, d}) <= cb /\ Min({cb, d}) <= d
    <3>1. cb \in Int /\ d \in Int
      BY <1>1, <2>3
    <3> QED BY ONLY <3>1, MinOfTwo
  <2>5. m = Min({cb, d})
    BY <2>2 DEF d
  <2> HIDE DEF m
  <2>6. m \in 1 .. cb /\ s + m <= tb
    BY <1>1, <1>2, <2>3, <2>4, <2>5
  <2>7. CoveredBlocks(c) = 0 .. tb - 1
    BY <1>4 DEF CoveredBlocks, tb
  <2>8. \A x \in Int : x \in s .. s + m - 1 <=>
                         x \in 0 .. tb - 1 /\ s <= x /\ x < s + cb
    BY <1>1, <1>2, <2>3, <2>4, <2>5, <2>6
  <2> QED BY <1>3, <2>2, <2>6, <2>7, <2>8 DEF m, s, cb, tb
<1>5. CASE c.op = "inplace"
  <2>1. s + cb <= tb
    BY <1>1, <1>5 DEF HasChunk, tb, cb
  <2>2. m = cb
    BY <1>5 DEF ThisBlocks, cb
  <2>3. cb = Min({cb, tb - s})
    <3> DEFINE d == tb - s
    <3>1. d \in Int /\ cb <= d
      BY <1>1, <1>2, <2>1
    <3> HIDE DEF d
    <3>2. Min({cb, d}) \in {cb, d} /\ Min({cb, d}) <= cb
      BY ONLY <1>1, <3>1, MinOfTwo
    <3> QED BY <1>1, <3>1, <3>2 DEF d
  <2> DEFINE num == tb \div cb
  <2>4. num \in Nat /\ tb < num * cb + cb /\ num * cb \in Int
    BY <1>1, DivNat
  <2>5. CoveredBlocks(c) = 0 .. num * cb - 1
    BY <1>5 DEF CoveredBlocks, tb, cb
  <2> HIDE DEF num
  <2>6. s + cb <= num * cb
    <3>1. (k + 1) * cb = s + cb
      BY <1>1 DEF s
    <3>2. k + 1 <= num
      <4>1. (k + 1) * cb < num * cb + cb
        BY <1>1, <1>2, <2>1, <2>4, <3>1
      <4> QED BY <1>1, <2>4, <4>1, ChunkOrder
    <3>3. (k + 1) * cb <= num * cb
      BY <1>1, <2>4, <3>2, MulMono
    <3> QED BY <3>1, <3>3
  <2>7. \A x \in Int : x \in s .. s + cb - 1 <=>
                         x \in 0 .. num * cb - 1 /\ s <= x /\ x < s + cb
    BY <1>1, <1>2, <2>4, <2>6
  <2> HIDE DEF m
  <2> QED BY <1>1, <1>3, <2>1, <2>2, <2>3, <2>5, <2>7 DEF m, s, cb, tb
<1> QED BY <1>1, <1>4, <1>5

\* The blocks of a region call's region are blocks of the model's region.
LEMMA CallBlocks ==
  ASSUME NEW c \in Calls, c.op # "wave"
  PROVE  /\ 0 .. TotalBlocks(c) - 1 \subseteq RegionBlocks
         /\ CoveredBlocks(c) \subseteq 0 .. TotalBlocks(c) - 1
<1> DEFINE cb == ChunkBlocks(c)
           tb == TotalBlocks(c)
<1>1. cb \in Nat \ {0} /\ tb \in Nat /\ c.op \in {"region", "inplace"}
  BY RegionShape
<1>2. 0 .. tb - 1 \subseteq RegionBlocks
  BY DEF RegionBlocks
<1>3. CASE c.op = "region"
  BY <1>2, <1>3 DEF CoveredBlocks
<1>4. CASE c.op = "inplace"
  <2> DEFINE num == tb \div cb
  <2>1. CoveredBlocks(c) = 0 .. num * cb - 1
    BY <1>4 DEF CoveredBlocks
  <2> HIDE DEF cb, tb
  <2>2. num * cb <= tb /\ num * cb \in Int
    BY <1>1, DivNat
  <2> HIDE DEF num
  <2>3. 0 .. num * cb - 1 \subseteq 0 .. tb - 1
    BY <1>1, <2>2
  <2> QED BY <1>2, <2>1, <2>3 DEF tb
<1> QED BY <1>1, <1>3, <1>4

\* Two entries of args[] that stand for the same work.
SameWork(a, d) ==
  a.chunk = d.chunk /\ a.m = d.m /\ a.first = d.first /\ a.buf = d.buf /\ a.off = d.off

\* args[i] of the round at chunk k is chunk k + i of the call: it writes the
\* blocks of that chunk that the call must label, no others, and each of them
\* gets the label the verifier expects there.
LEMMA ArgIsRight ==
  ASSUME NEW c \in Calls, c.op # "wave", NEW k \in Nat, NEW i \in Threads,
         HasChunk(c, k * ChunkBlocks(c) + i * ChunkBlocks(c)),
         NEW a, SameWork(a, ChunkArg(c, k * ChunkBlocks(c), i))
  PROVE  /\ k + i \in Nat
         /\ k + i \in RegionBlocks
         /\ a.m \in 1 .. ChunkBlocks(c)
         /\ \A x \in Int : x \in OutBlocks(a) <=>
                             x \in CoveredBlocks(c) /\ x \div ChunkBlocks(c) = k + i
         /\ \A x \in OutBlocks(a) : x \in Int /\ Label(a, x - a.first) = Expected(c, x)
<1> DEFINE cb == ChunkBlocks(c)
           tb == TotalBlocks(c)
           q  == k + i
           s  == q * cb
           m  == ThisBlocks(c, s)
<1>1. /\ cb \in Nat \ {0} /\ tb \in Nat /\ c.rbo \in Nat
      /\ c.op \in {"region", "inplace"} /\ i \in Nat
  BY RegionShape, PlanAssumption DEF Threads
<1>2. q \in Nat /\ s = k * cb + i * cb /\ s \in Nat
  <2> HIDE DEF cb
  <2> QED BY <1>1
<1>3. HasChunk(c, s)
  BY <1>2
<1>4. /\ m \in 1 .. cb
      /\ s + m <= tb
      /\ m = Min({cb, tb - s})
      /\ \A x \in Int : x \in s .. s + m - 1 <=> x \in CoveredBlocks(c) /\ x \div cb = q
  <2> HIDE DEF q
  <2> QED BY <1>2, <1>3, ChunkShape
<1>5. s \div cb = q
  <2> HIDE DEF cb, q, s
  <2>1. s <= s /\ s < s + cb
    BY <1>1, <1>2
  <2>2. q * cb <= s /\ s < q * cb + cb
    BY <2>1 DEF s
  <2>3. cb \in Nat \ {0} /\ q \in Int /\ s \in Int
    BY <1>1, <1>2
  <2> QED BY ONLY <2>2, <2>3, ChunkOfBlock
<1>6. a.m = m /\ a.first = s
  BY <1>1, <1>2 DEF SameWork, ChunkArg
<1>7. a.chunk = (c.rbo + s) \div cb
  <2>1. CASE c.op = "region"
    BY <1>2, <2>1 DEF SameWork, ChunkArg, RegionChunkIndex
  <2>2. CASE c.op = "inplace"
    <3>1. a.chunk = SuperChunkIndex(c, s \div cb)
      BY <1>2, <2>2 DEF SameWork, ChunkArg
    <3>2. a.chunk = SuperChunkIndex(c, q)
      BY <1>5, <3>1
    <3> QED BY <3>2 DEF SuperChunkIndex
  <2> QED BY <1>1, <2>1, <2>2
<1>8. a.chunk = (c.rbo \div cb) + q
  <2> DEFINE r == c.rbo
  <2>1. r \in Int /\ cb \in Nat \ {0} /\ q \in Int
    BY <1>1, <1>2
  <2>2. a.chunk = (r + q * cb) \div cb
    BY <1>7
  <2> HIDE DEF r, cb, q
  <2>3. (r + q * cb) \div cb = (r \div cb) + q
    BY ONLY <2>1, DivAdd
  <2> QED BY <2>2, <2>3 DEF r
<1>9. OutBlocks(a) = s .. s + m - 1
  BY <1>6 DEF OutBlocks
<1>10. ASSUME NEW x \in OutBlocks(a)
       PROVE  x \in Int /\ Label(a, x - a.first) = Expected(c, x)
  <2> HIDE DEF cb, tb, q, s, m
  <2>1. x \in Int /\ x \div cb = q
    <3>1. x \in s .. s + m - 1
      BY <1>9
    <3>2. x \in Int
      BY <1>1, <1>2, <1>4, <3>1
    <3> QED BY <1>4, <3>1, <3>2
  <2>2. x % cb = x - s
    <3>1. cb \in Nat \ {0} /\ q \in Int
      BY <1>1, <1>2
    <3>2. x % cb = x - q * cb
      BY ONLY <2>1, <3>1, ChunkOfBlock
    <3> QED BY <3>2 DEF s
  <2>3. x - (x % cb) = s
    BY <1>2, <2>1, <2>2
  <2>4. Expected(c, x) = [chunk |-> (c.rbo \div cb) + (x \div cb),
                          m |-> Min({cb, tb - (x - (x % cb))}), i |-> x % cb]
    BY DEF Expected, cb, tb
  <2> QED BY <1>4, <1>6, <1>8, <2>1, <2>2, <2>3, <2>4 DEF Label
<1>11. q \in RegionBlocks
  <2>1. q \in 0 .. tb - 1
    <3> HIDE DEF cb, tb, q
    <3>1. q <= s
      <4>1. s - q = q * (cb - 1)
        BY <1>1, <1>2
      <4>2. q * (cb - 1) >= 0
        BY <1>1, <1>2
      <4> HIDE DEF s
      <4> QED BY <1>2, <4>1, <4>2
    <3> HIDE DEF s, m
    <3> QED BY <1>1, <1>2, <1>4, <3>1
  <2> QED BY <2>1, CallBlocks
<1> QED BY <1>2, <1>4, <1>6, <1>9, <1>10, <1>11

\* So labelling it is one step of the promised behaviour: chunk k + i appears,
\* whole and right.
LEMMA WriteIsLabelChunk ==
  ASSUME NEW c \in Calls, c.op # "wave", NEW k \in Nat, NEW i \in Threads,
         HasChunk(c, k * ChunkBlocks(c) + i * ChunkBlocks(c)),
         NEW a, SameWork(a, ChunkArg(c, k * ChunkBlocks(c), i)), NEW reg
  PROVE  WriteChunk(reg, a) =
           [b \in RegionBlocks |->
              IF b \in CoveredBlocks(c) /\ b \div ChunkBlocks(c) = k + i
              THEN Expected(c, b) ELSE reg[b]]
<1>1. /\ \A x \in Int : x \in OutBlocks(a) <=>
                          x \in CoveredBlocks(c) /\ x \div ChunkBlocks(c) = k + i
      /\ \A x \in OutBlocks(a) : x \in Int /\ Label(a, x - a.first) = Expected(c, x)
  BY ArgIsRight
<1>2. \A b \in RegionBlocks : b \in Int
  BY RegionBlocksAreNat
<1> QED BY <1>1, <1>2 DEF WriteChunk

\* The round's chunks leave no gap: every block between the old and the new
\* value of block is in one of them.
LEMMA RoundCovers ==
  ASSUME NEW c \in Calls, c.op # "wave", NEW k \in Nat,
         ~BadArgs(c), HasChunk(c, k * ChunkBlocks(c)),
         NEW x \in CoveredBlocks(c), k * ChunkBlocks(c) <= x,
         x < NextBlock(c, k * ChunkBlocks(c))
  PROVE  \E i \in Threads : /\ i < RoundSize(c, k * ChunkBlocks(c))
                            /\ x \div ChunkBlocks(c) = k + i
<1> DEFINE cb == ChunkBlocks(c)
           tb == TotalBlocks(c)
           s  == k * cb
           n  == RoundSize(c, s)
           q  == x \div cb
<1>1. cb \in Nat \ {0} /\ tb \in Nat /\ c.op \in {"region", "inplace"}
  BY RegionShape
<1>2. s \in Nat /\ s <= x /\ x \in Nat
  <2>1. x \in 0 .. tb - 1
    BY CallBlocks
  <2> QED BY <1>1, <2>1
<1>3. n \in 1 .. RegionThreads
  <2> HIDE DEF s
  <2> QED BY <1>2, RoundSizeRange DEF s
<1>4. NextBlock(c, s) <= s + n * cb /\ n * cb \in Int
  <2>1. n * cb \in Int /\ s + n * cb \in Int
    BY <1>1, <1>2, <1>3
  <2>2. CASE c.op = "region"
    <3> DEFINE e == s + n * cb
    <3>1. NextBlock(c, s) = Min({tb, e})
      BY <2>2 DEF NextBlock
    <3>2. tb \in Int /\ e \in Int
      BY <1>1, <2>1
    <3> HIDE DEF e, tb
    <3>3. Min({tb, e}) <= e
      BY ONLY <3>2, MinOfTwo
    <3> QED BY <2>1, <3>1, <3>3 DEF e
  <2>3. CASE c.op = "inplace"
    <3>1. NextBlock(c, s) = s + n * cb
      BY <2>3 DEF NextBlock
    <3> HIDE DEF n, s
    <3> QED BY <2>1, <3>1
  <2> QED BY <1>1, <2>1, <2>2, <2>3
<1>5. x < s + n * cb
  <2>1. NextBlock(c, s) \in Int
    <3> HIDE DEF s
    <3> QED BY <1>2, NextBlockType DEF s
  <2> DEFINE nb == NextBlock(c, s)
  <2>2. x < nb /\ nb \in Int /\ nb <= s + n * cb
    BY <1>4, <2>1
  <2> HIDE DEF n, s, nb
  <2> QED BY <1>2, <1>4, <2>2
<1>6. q \in Nat /\ q * cb <= x /\ x < q * cb + cb
  BY <1>1, <1>2, DivNat
<1> HIDE DEF n, q, cb
<1>7. k <= q
  <2>1. k * cb < q * cb + cb
    BY <1>1, <1>2, <1>6
  <2> QED BY <1>1, <1>6, <2>1, ChunkOrder
<1>8. q < k + n
  <2>1. (k + n) * cb = s + n * cb
    BY <1>1, <1>3
  <2>2. q * cb < (k + n) * cb
    <3> HIDE DEF s
    <3>1. q * cb \in Int
      BY <1>1, <1>6
    <3> QED BY <1>1, <1>2, <1>4, <1>5, <1>6, <2>1, <3>1
  <2> SUFFICES ASSUME k + n <= q PROVE FALSE
    BY <1>3, <1>6
  <2>3. (k + n) * cb <= q * cb
    BY <1>1, <1>3, <1>6, MulMono
  <2>4. (k + n) * cb \in Int /\ q * cb \in Int
    BY <1>1, <1>3, <1>6
  <2> QED BY <2>2, <2>3, <2>4
<1>9. q - k \in Threads /\ q - k < n /\ q = k + (q - k)
  BY <1>3, <1>6, <1>7, <1>8, PlanAssumption DEF Threads
<1> QED BY <1>9 DEF n, q, cb

\* If there is another round it starts at a chunk boundary, and if there is
\* none every block the call must label is behind it.
LEMMA RoundEnds ==
  ASSUME NEW c \in Calls, c.op # "wave", NEW k \in Nat,
         ~BadArgs(c), HasChunk(c, k * ChunkBlocks(c))
  PROVE  LET cb == ChunkBlocks(c)
             nb == NextBlock(c, k * cb)
         IN  /\ HasChunk(c, nb) => nb = (k + RoundSize(c, k * cb)) * cb
             /\ ~HasChunk(c, nb) => \A x \in CoveredBlocks(c) : x < nb
<1> DEFINE cb == ChunkBlocks(c)
           tb == TotalBlocks(c)
           s  == k * cb
           n  == RoundSize(c, s)
           nb == NextBlock(c, s)
           e  == s + n * cb
<1>1. cb \in Nat \ {0} /\ tb \in Nat /\ c.op \in {"region", "inplace"}
  BY RegionShape
<1>2. s \in Nat
  BY <1>1
<1>3. n \in 1 .. RegionThreads /\ n \in Nat
  <2>1. RegionThreads \in Nat
    BY PlanAssumption
  <2> HIDE DEF s
  <2> QED BY <1>2, <2>1, RoundSizeRange DEF s
<1>4. e = (k + n) * cb /\ e \in Int
  <2> HIDE DEF n, cb
  <2> QED BY <1>1, <1>3
<1>5. CASE c.op = "region"
  <2>1. nb = Min({tb, e}) /\ (HasChunk(c, nb) <=> nb < tb)
    BY <1>5 DEF NextBlock, HasChunk
  <2>2. CoveredBlocks(c) = 0 .. tb - 1
    BY <1>5 DEF CoveredBlocks
  <2> HIDE DEF e, nb, tb
  <2>3. nb \in {tb, e} /\ nb <= tb
    <3>1. Min({tb, e}) \in {tb, e} /\ Min({tb, e}) <= tb
      <4>1. tb \in Int /\ e \in Int
        BY <1>1, <1>4
      <4> QED BY ONLY <4>1, MinOfTwo
    <3> QED BY <2>1, <3>1
  <2>4. HasChunk(c, nb) => nb = e
    BY <1>1, <2>1, <2>3
  <2>5. ~HasChunk(c, nb) => \A x \in CoveredBlocks(c) : x < nb
    BY <1>1, <1>4, <2>1, <2>2, <2>3
  <2> QED BY <1>4, <2>4, <2>5 DEF nb, n, s, cb
<1>6. CASE c.op = "inplace"
  <2>1. nb = e /\ (HasChunk(c, nb) <=> nb + cb <= tb)
    BY <1>6 DEF NextBlock, HasChunk
  <2> DEFINE num == tb \div cb
  <2>2. CoveredBlocks(c) = 0 .. num * cb - 1
    BY <1>6 DEF CoveredBlocks
  <2>3. num \in Nat /\ num * cb <= tb /\ num * cb \in Int
    <3> HIDE DEF cb, tb
    <3>1. num \in Nat /\ num * cb <= tb
      BY <1>1, DivNat
    <3> HIDE DEF num
    <3> QED BY <1>1, <3>1
  <2> HIDE DEF e, nb, tb, num, cb, n
  <2>4. ASSUME ~HasChunk(c, nb), NEW x \in CoveredBlocks(c) PROVE x < nb
    <3>1. tb < e + cb
      BY <1>1, <1>4, <2>1, <2>4
    <3>2. num * cb < (k + n) * cb + cb
      BY <1>1, <1>4, <2>3, <3>1
    <3>3. num <= k + n
      BY <1>1, <1>3, <2>3, <3>2, ChunkOrder
    <3>4. num * cb <= e
      BY <1>1, <1>3, <1>4, <2>3, <3>3, MulMono
    <3> QED BY <1>4, <2>1, <2>2, <2>3, <2>4, <3>4
  <2> QED BY <1>4, <2>1, <2>4 DEF nb, n, s, cb
<1> QED BY <1>1, <1>5, <1>6

\* A round of a region call covers a stretch of the call's blocks: it does not
\* step back or run past the end, and its chunks lie before the next round.
LEMMA RoundExtent ==
  ASSUME NEW c \in Calls, c.op = "region", NEW k \in Nat,
         ~BadArgs(c), HasChunk(c, k * ChunkBlocks(c))
  PROVE  LET cb == ChunkBlocks(c)
             nb == NextBlock(c, k * cb)
         IN  /\ k * cb \in Nat /\ nb \in Nat /\ k * cb <= nb
             /\ \A x \in Nat : x < nb => x \in CoveredBlocks(c)
             /\ \A x \in CoveredBlocks(c), i \in Threads :
                  i < RoundSize(c, k * cb) /\ x \div cb = k + i => x < nb
<1> DEFINE cb == ChunkBlocks(c)
           tb == TotalBlocks(c)
           s  == k * cb
           n  == RoundSize(c, s)
           nb == NextBlock(c, s)
           e  == s + n * cb
<1>0. c.op # "wave"
  OBVIOUS
<1>1. cb \in Nat \ {0} /\ tb \in Nat
  BY <1>0, RegionShape
<1>2. s \in Nat
  BY <1>1
<1>3. n \in 1 .. RegionThreads /\ n \in Nat
  <2>1. RegionThreads \in Nat
    BY PlanAssumption
  <2> HIDE DEF s
  <2> QED BY <1>2, <2>1, RoundSizeRange DEF s
<1>4. e = (k + n) * cb /\ e \in Int /\ s <= e
  <2> HIDE DEF n, cb
  <2>1. e = (k + n) * cb /\ e \in Int
    BY <1>1, <1>3
  <2>2. k * cb <= (k + n) * cb
    BY <1>1, <1>3, MulMono
  <2> QED BY <2>1, <2>2
<1>5. nb = Min({tb, e}) /\ s < tb
  BY DEF NextBlock, HasChunk
<1>6. CoveredBlocks(c) = 0 .. tb - 1
  BY DEF CoveredBlocks
<1> HIDE DEF e, nb, tb
<1>7. nb \in {tb, e} /\ nb <= tb
  <2>1. tb \in Int /\ e \in Int
    BY <1>1, <1>4
  <2>2. Min({tb, e}) \in {tb, e} /\ Min({tb, e}) <= tb
    BY ONLY <2>1, MinOfTwo
  <2> QED BY <1>5, <2>2
<1> HIDE DEF s, n, cb
<1>8. nb \in Nat /\ s <= nb
  BY <1>1, <1>2, <1>4, <1>5, <1>7
<1>9. \A x \in Nat : x < nb => x \in CoveredBlocks(c)
  BY <1>1, <1>6, <1>7, <1>8
<1>10. ASSUME NEW x \in CoveredBlocks(c), NEW i \in Threads, i < n, x \div cb = k + i
       PROVE  x < nb
  <2>1. x \in Int /\ x < tb
    BY <1>1, <1>6, <1>10
  <2>2. i \in Nat /\ k + i \in Int /\ (k + i) + 1 <= k + n
    BY <1>3, <1>10, PlanAssumption DEF Threads
  <2>3. x < (k + i) * cb + cb
    BY <1>1, <1>10, <2>1, <2>2, ChunkOfBlock
  <2>4. ((k + i) + 1) * cb <= (k + n) * cb
    BY <1>1, <1>3, <2>2, MulMono
  <2>5. ((k + i) + 1) * cb = (k + i) * cb + cb /\ (k + i) * cb \in Int
    BY <1>1, <2>2
  <2>6. x < e
    BY <1>1, <1>4, <2>1, <2>3, <2>4, <2>5
  <2> QED BY <1>7, <2>1, <2>6
<1> QED BY <1>2, <1>8, <1>9, <1>10 DEF s, n, cb, nb

\* The extent the i-th super-chunk of a wave must become.
ExtentOf(c, i) ==
  [off |-> c.start + (c.base + i) * c.wlen, len |-> c.wlen,
   chunk |-> c.rbo \div ChunkBlocks(c) + (c.base + i), m |-> ChunkBlocks(c)]


\* What the fill loop puts in args[i] of a wave is what that extent needs.
LEMMA WaveArgIsRight ==
  ASSUME NEW c \in Calls, c.op = "wave", NEW i \in Threads,
         NEW a, SameWork(a, ChunkArg(c, 0, i))
  PROVE  [off |-> a.off, len |-> c.wlen, chunk |-> a.chunk, m |-> a.m] = ExtentOf(c, i)
<1> DEFINE cb == ChunkBlocks(c)
           j == c.base + i
           r == c.rbo
<1>1. cb \in Nat \ {0} /\ j \in Int /\ r \in Int
  BY ChunkBlocksPos, PlanAssumption DEF CallType, Threads
<1>2. a.off = c.start + j * c.wlen /\ a.m = cb /\ a.chunk = (r + j * cb) \div cb
  BY DEF SameWork, ChunkArg, ThisBlocks, SuperChunkIndex
<1>3. ExtentOf(c, i) = [off |-> c.start + j * c.wlen, len |-> c.wlen,
                        chunk |-> (r \div cb) + j, m |-> cb]
  BY DEF ExtentOf
<1> HIDE DEF cb, j, r
<1>4. (r + j * cb) \div cb = (r \div cb) + j
  BY ONLY <1>1, DivAdd
<1> QED BY <1>2, <1>3, <1>4

\* A wave's extents are those of its n super-chunks.
LEMMA WaveExtents ==
  ASSUME NEW c \in Calls, c.op = "wave", c.n \in Nat
  PROVE  ExpectedExtents(c) = {ExtentOf(c, i) : i \in 0 .. c.n - 1}
<1>1. c.base \in Nat
  BY PlanAssumption DEF CallType
<1> DEFINE E(j) == [off |-> c.start + j * c.wlen, len |-> c.wlen,
                    chunk |-> c.rbo \div ChunkBlocks(c) + j, m |-> ChunkBlocks(c)]
<1>2. ExpectedExtents(c) = {E(j) : j \in c.base .. c.base + c.n - 1}
  BY DEF ExpectedExtents
<1>3. \A i : ExtentOf(c, i) = E(c.base + i)
  BY DEF ExtentOf
<1> HIDE DEF E
<1>4. ASSUME NEW j \in c.base .. c.base + c.n - 1
      PROVE  j - c.base \in 0 .. c.n - 1 /\ j = c.base + (j - c.base)
  BY <1>1
<1>5. ASSUME NEW i \in 0 .. c.n - 1
      PROVE  c.base + i \in c.base .. c.base + c.n - 1
  BY <1>1
<1> QED BY <1>2, <1>3, <1>4, <1>5

\* A call past the argument checks has a chunk exactly if it has something to
\* deliver: only the in-place operation can have neither.
LEMMA WorkMeansChunk ==
  ASSUME NEW c \in Calls, ~BadArgs(c)
  PROVE  HasChunk(c, 0) <=> ~(CoveredBlocks(c) = {} /\ ExpectedExtents(c) = {})
<1>1. CASE c.op = "wave"
  <2>1. c.n \in Nat /\ c.n >= 1
    BY <1>1, PlanAssumption DEF CallType, BadArgs
  <2>2. ExtentOf(c, 0) \in ExpectedExtents(c)
    BY <1>1, <2>1, WaveExtents
  <2> QED BY <1>1, <2>2 DEF HasChunk
<1>2. CASE c.op # "wave"
  <2> DEFINE cb == ChunkBlocks(c)
             tb == TotalBlocks(c)
             num == tb \div cb
  <2>1. cb \in Nat \ {0} /\ tb \in Nat /\ c.op \in {"region", "inplace"}
    BY <1>2, RegionShape
  <2>2. ExpectedExtents(c) = {}
    BY <1>2 DEF ExpectedExtents
  <2>3. /\ c.op = "region" => CoveredBlocks(c) = 0 .. tb - 1 /\ (HasChunk(c, 0) <=> 0 < tb)
        /\ c.op = "inplace" => /\ CoveredBlocks(c) = 0 .. num * cb - 1
                               /\ HasChunk(c, 0) <=> 0 + cb <= tb
    BY DEF CoveredBlocks, HasChunk
  <2>4. num \in Nat /\ num * cb <= tb /\ tb < num * cb + cb /\ num * cb \in Nat
    <3> HIDE DEF cb, tb
    <3>1. num \in Nat /\ num * cb <= tb /\ tb < num * cb + cb
      BY <2>1, DivNat
    <3> HIDE DEF num
    <3> QED BY <2>1, <3>1
  <2> HIDE DEF cb, tb, num
  <2>5. cb <= tb <=> num * cb > 0
    <3>1. ASSUME num * cb > 0 PROVE cb <= tb
      <4>1. num # 0
        BY <2>1, <3>1
      <4>2. 1 * cb <= num * cb
        BY <2>1, <2>4, <4>1, MulMono
      <4> QED BY <2>1, <2>4, <4>2
    <3> QED BY <2>1, <2>4, <3>1
  <2>6. CASE c.op = "region"
    BY <2>1, <2>2, <2>3, <2>6
  <2>7. CASE c.op = "inplace"
    <3>1. CoveredBlocks(c) = {} <=> ~(num * cb > 0)
      BY <2>3, <2>4, <2>7
    <3>2. HasChunk(c, 0) <=> cb <= tb
      BY <2>1, <2>3, <2>7
    <3> QED BY <2>2, <2>5, <3>1, <3>2
  <2> QED BY <2>1, <2>6, <2>7
<1> QED BY <1>1, <1>2
============================================================================
