-------------------------- MODULE DiskWipe_proofs --------------------------
(***************************************************************************)
(* Proofs about DiskWipe, for every set of devices, command lines, GPUs and *)
(* super-chunk size, with kills, errors and power failures at any moment.   *)
(*                                                                          *)
(* The first part is about the schedule alone, for every set of disks,      *)
(* every number of GPUs, team size and super-chunk size: the ranges the     *)
(* loop cuts a disk into are whole super-chunks that follow one another,    *)
(* and together the work items of all GPUs hold every super-chunk once.     *)
(***************************************************************************)
EXTENDS DiskWipe, DivisionFacts, FiniteSetTheorems, TLAPS

----------------------------------------------------------------------------
(* Whole super-chunks.                                                      *)

Aligned == {x \in Nat : x % Super = 0}

\* k super-chunks.
LEMMA MultipleIsAligned ==
  ASSUME NEW k \in Nat
  PROVE  k * Super \in Aligned /\ (k * Super) \div Super = k
<1>1. k * Super \in Nat /\ Super \in Nat \ {0} /\ 0 \in 0 .. Super - 1
  BY DiskAssumption
<1>2. k * Super + 0 = k * Super
  BY <1>1
<1>3. (k * Super + 0) \div Super = k /\ (k * Super + 0) % Super = 0
  BY <1>1, DivInChunk
<1> QED BY <1>1, <1>2, <1>3 DEF Aligned

\* An aligned position is a whole number of super-chunks.
LEMMA AlignedIsMultiple ==
  ASSUME NEW x \in Aligned
  PROVE  x \div Super \in Nat /\ x = (x \div Super) * Super
<1> DEFINE q == x \div Super
           r == x % Super
<1>1. x \in Nat /\ r = 0 /\ Super \in Nat \ {0}
  BY DiskAssumption DEF Aligned
<1>2. q \in Nat
  BY <1>1, DivNat
<1>3. x = Super * q + r
  BY <1>1, DivMod
<1> HIDE DEF q, r
<1> QED BY <1>1, <1>2, <1>3 DEF q

\* Sums, and the number of super-chunks in them.
LEMMA AlignedSum ==
  ASSUME NEW x \in Aligned, NEW y \in Aligned
  PROVE  x + y \in Aligned
<1>1. PICK k \in Nat : x = k * Super
  BY AlignedIsMultiple
<1>2. PICK m \in Nat : y = m * Super
  BY AlignedIsMultiple
<1>3. x + y = (k + m) * Super
  BY <1>1, <1>2, DiskAssumption
<1>4. k + m \in Nat
  OBVIOUS
<1> QED BY <1>3, <1>4, MultipleIsAligned

\* What is left of an aligned length.
LEMMA AlignedRest ==
  ASSUME NEW x \in Aligned, NEW y \in Aligned, y <= x
  PROVE  x - y \in Aligned
<1>1. PICK k \in Nat : x = k * Super
  BY AlignedIsMultiple
<1>2. PICK m \in Nat : y = m * Super
  BY AlignedIsMultiple
<1>3. m <= k
  <2> SUFFICES ASSUME k + 1 <= m PROVE FALSE
    OBVIOUS
  <2>1. (k + 1) * Super <= m * Super
    BY MulMono, DiskAssumption
  <2>2. (k + 1) * Super = k * Super + Super
    BY DiskAssumption
  <2> QED BY <1>1, <1>2, <2>1, <2>2, DiskAssumption
<1>4. x - y = (k - m) * Super
  BY <1>1, <1>2, DiskAssumption
<1>5. k - m \in Nat
  BY <1>3
<1> QED BY <1>4, <1>5, MultipleIsAligned

\* Nothing and one super-chunk; an aligned length that is not 0 holds one.
LEMMA AlignedUnits ==
  /\ 0 \in Aligned /\ Super \in Aligned
  /\ \A x \in Aligned : x \in Nat /\ (x > 0 => x >= Super)
<1>1. 0 * Super = 0 /\ 1 * Super = Super /\ 0 \in Nat /\ 1 \in Nat
  BY DiskAssumption
<1>2. 0 \in Aligned /\ Super \in Aligned
  BY <1>1, MultipleIsAligned
<1>3. ASSUME NEW x \in Aligned, x > 0 PROVE x >= Super
  <2>1. PICK k \in Nat : x = k * Super
    BY AlignedIsMultiple
  <2>2. k >= 1
    BY <1>1, <1>3, <2>1
  <2>3. 1 * Super <= k * Super
    BY <2>2, MulMono, DiskAssumption
  <2> QED BY <1>1, <2>1, <2>3
<1> QED BY <1>2, <1>3 DEF Aligned

\* floor_to cuts to whole super-chunks.
LEMMA FloorTo ==
  ASSUME NEW v \in Nat
  PROVE  /\ floor_to(v, Super) \in Aligned
         /\ floor_to(v, Super) <= v /\ v < floor_to(v, Super) + Super
         /\ v \in Aligned => floor_to(v, Super) = v
<1>1. v \div Super \in Nat /\ (v \div Super) * Super <= v /\ v < (v \div Super) * Super + Super
  BY DivNat, DiskAssumption
<1>2. (v \div Super) * Super \in Aligned
  BY <1>1, MultipleIsAligned
<1>3. v \in Aligned => (v \div Super) * Super = v
  BY AlignedIsMultiple
<1> QED BY <1>1, <1>2, <1>3 DEF floor_to

\* A larger length holds no fewer whole super-chunks.
LEMMA FloorMono ==
  ASSUME NEW x \in Nat, NEW y \in Nat, x <= y
  PROVE  floor_to(x, Super) <= floor_to(y, Super)
<1> DEFINE a == floor_to(x, Super)
           b == floor_to(y, Super)
<1>1. a \in Aligned /\ a <= x /\ b \in Aligned /\ y < b + Super
  BY FloorTo
<1> HIDE DEF a, b
<1>2. a \in Nat /\ b \in Nat
  BY <1>1, AlignedUnits
<1>3. ASSUME b < a PROVE FALSE
  <2>1. a - b \in Aligned
    BY <1>1, <1>2, <1>3, AlignedRest
  <2>2. a - b >= Super
    BY <1>2, <1>3, <2>1, AlignedUnits
  <2> QED BY <1>1, <1>2, <2>2, DiskAssumption
<1> QED BY <1>2, <1>3 DEF a, b

\* A list of numbers has a largest one.
LEMMA MaxOfList ==
  ASSUME NEW n \in Nat \ {0}, NEW f \in [1 .. n -> Nat]
  PROVE  Max({f[i] : i \in 1 .. n}) \in Nat
<1> DEFINE Bounded(m) == m <= n => \E b \in Nat : \A i \in 1 .. m : f[i] <= b
           Good == {m \in Nat : Bounded(m)}
<1>1. 0 \in Good
  <2>1. \A i \in 1 .. 0 : f[i] <= 0
    OBVIOUS
  <2> QED BY <2>1
<1>2. ASSUME NEW m \in Good PROVE m + 1 \in Good
  <2> SUFFICES ASSUME m + 1 <= n
               PROVE  \E b \in Nat : \A i \in 1 .. m + 1 : f[i] <= b
    OBVIOUS
  <2>1. PICK b \in Nat : \A i \in 1 .. m : f[i] <= b
    OBVIOUS
  <2>2. f[m + 1] \in Nat
    OBVIOUS
  <2>3. b + f[m + 1] \in Nat /\ \A i \in 1 .. m + 1 : f[i] <= b + f[m + 1]
    <3>1. \A i \in 1 .. m + 1 : f[i] \in Nat /\ (i = m + 1 \/ i \in 1 .. m)
      OBVIOUS
    <3> QED BY <2>1, <2>2, <3>1
  <2> QED BY <2>3
<1>3. n \in Good
  <2>1. Good \in SUBSET Nat
    OBVIOUS
  <2> HIDE DEF Good
  <2> QED BY <1>1, <1>2, <2>1, InductiveSet
<1> DEFINE S == {f[i] : i \in 1 .. n}
           B == {b \in Nat : \A y \in S : y <= b}
           m == Min(B)
<1>4. B \in SUBSET Nat /\ B # {}
  <2>1. PICK b \in Nat : \A i \in 1 .. n : f[i] <= b
    BY <1>3
  <2>2. b \in B
    BY <2>1
  <2> QED BY <2>2
<1>5. m \in B /\ \A y \in B : m <= y
  BY <1>4, LeastElement
<1>6. S \subseteq Nat /\ f[1] \in S
  OBVIOUS
<1> HIDE DEF m, S
<1>7. m \in S
  <2> SUFFICES ASSUME m \notin S PROVE FALSE
    OBVIOUS
  <2>1. m \in Nat /\ \A y \in S : y <= m /\ y # m /\ y \in Nat
    BY <1>5, <1>6
  <2>2. m - 1 \in Nat
    BY <1>6, <2>1
  <2>3. \A y \in S : y <= m - 1
    BY <2>1
  <2>4. m <= m - 1
    BY <1>5, <2>2, <2>3
  <2> QED BY <2>1, <2>4
<1>8. \A y \in S : m >= y
  BY <1>5, <1>6
<1>9. Max(S) \in S
  BY <1>7, <1>8 DEF Max
<1> QED BY <1>6, <1>9 DEF S

\* What the labeller leaves at u of a window that starts on a super-chunk.
LEMMA LabelledAt ==
  ASSUME NEW rbo \in Aligned, NEW u \in Nat
  PROVE  Labelled(rbo, u) = <<cfg.seed, rbo + u>>
<1> DEFINE q == u \div Super
           r == u % Super
<1>1. q \in Nat
  BY DivNat, DiskAssumption
<1>2. u = Super * q + r /\ r \in Nat
  <2>1. u \in Int /\ Super \in Nat \ {0}
    BY DiskAssumption
  <2>2. r \in 0 .. Super - 1 /\ u = Super * q + r
    BY ONLY <2>1, DivMod
  <2> QED BY <2>2, DiskAssumption
<1>3. q * Super \in Aligned
  BY <1>1, MultipleIsAligned
<1> DEFINE x == rbo + q * Super
<1>4. x \in Aligned /\ rbo \in Nat
  BY <1>3, AlignedSum, AlignedUnits
<1>5. Labelled(rbo, u) = <<cfg.seed, (x \div Super) * Super + r>>
  BY DEF Labelled, floor_to
<1> HIDE DEF x, q, r
<1>6. (x \div Super) * Super = x
  BY <1>4, AlignedIsMultiple
<1>7. x + r = rbo + u
  <2>1. Super * q = q * Super /\ q * Super \in Nat
    BY <1>1, DiskAssumption
  <2> QED BY <1>2, <1>4, <2>1 DEF x
<1> QED BY <1>5, <1>6, <1>7

----------------------------------------------------------------------------
(* The ranges of a disk of n super-chunks.                                  *)

\* The super-chunks before range j.
Cut(n, j) == j * (n \div K) + (IF j < n % K THEN j ELSE n % K)

\* The ranges start at 0, follow one another and end at n.
LEMMA CutSteps ==
  ASSUME NEW n \in Nat, K \in Nat \ {0}
  PROVE  /\ \A j \in Nat :
              /\ Cut(n, j) \in Nat
              /\ RangeLen(n, j) \in Aligned
              /\ Cut(n, j + 1) - Cut(n, j) \in Nat
              /\ RangeLen(n, j) = (Cut(n, j + 1) - Cut(n, j)) * Super
         /\ Cut(n, 0) = 0
         /\ Cut(n, K) = n
<1> DEFINE q == n \div K
           r == n % K
<1>1. q \in Nat /\ r \in 0 .. K - 1 /\ n = K * q + r
  <2>1. q \in Nat
    BY DivNat
  <2>2. n \in Int
    OBVIOUS
  <2>3. n % K \in 0 .. K - 1 /\ n = K * (n \div K) + (n % K)
    BY ONLY <2>2, K \in Nat \ {0}, DivMod
  <2> QED BY <2>1, <2>3
<1> HIDE DEF q, r
<1>2. \A j \in Nat : Cut(n, j) = j * q + (IF j < r THEN j ELSE r)
  BY DEF Cut, q, r
<1>3. \A j \in Nat : RangeLen(n, j) = (q + (IF j < r THEN 1 ELSE 0)) * Super
  BY DEF RangeLen, q, r
<1>4. ASSUME NEW j \in Nat
      PROVE  /\ Cut(n, j) \in Nat
             /\ Cut(n, j + 1) - Cut(n, j) = q + (IF j < r THEN 1 ELSE 0)
  <2>1. (j + 1) * q = j * q + q /\ j * q \in Nat /\ j + 1 \in Nat
    BY <1>1
  <2>2. Cut(n, j) = j * q + (IF j < r THEN j ELSE r)
    BY <1>2
  <2>3. Cut(n, j + 1) = j * q + q + (IF j + 1 < r THEN j + 1 ELSE r)
    BY <1>2, <2>1
  <2> QED BY <1>1, <2>1, <2>2, <2>3
<1>5. ASSUME NEW j \in Nat
      PROVE  q + (IF j < r THEN 1 ELSE 0) \in Nat
  BY <1>1
<1>6. Cut(n, 0) = 0
  <2>1. 0 * q = 0
    BY <1>1
  <2> QED BY <1>1, <1>2, <2>1
<1>7. Cut(n, K) = n
  BY <1>1, <1>2
<1> QED BY <1>3, <1>4, <1>5, <1>6, <1>7, MultipleIsAligned

\* The running sum of the loop is where the range starts.
LEMMA RangeOffIsCut ==
  ASSUME NEW n \in Nat, K \in Nat \ {0}, NEW j \in Nat
  PROVE  RangeOff(n, j) = Cut(n, j) * Super
<1> DEFINE Sum(f) == [i \in Nat |-> IF i = 0 THEN 0 ELSE f[i - 1] + RangeLen(n, i - 1)]
           off == CHOOSE f : f = Sum(f)
           at == [i \in Nat |-> Cut(n, i) * Super]
<1>1. at = Sum(at)
  <2>1. ASSUME NEW i \in Nat, i # 0
        PROVE  Cut(n, i) * Super = Cut(n, i - 1) * Super + RangeLen(n, i - 1)
    <3>1. i - 1 \in Nat /\ (i - 1) + 1 = i
      BY <2>1
    <3> DEFINE a == Cut(n, i - 1)
               b == Cut(n, i)
    <3>2. a \in Nat /\ b \in Nat /\ RangeLen(n, i - 1) = (b - a) * Super
      BY <3>1, CutSteps
    <3> HIDE DEF a, b
    <3> QED BY <3>2, DiskAssumption DEF a, b
  <2>2. Cut(n, 0) * Super = 0
    BY CutSteps, DiskAssumption
  <2>3. \A i \in Nat \ {0} : i - 1 \in Nat /\ at[i - 1] = Cut(n, i - 1) * Super
    OBVIOUS
  <2>4. ASSUME NEW i \in Nat
        PROVE  at[i] = IF i = 0 THEN 0 ELSE at[i - 1] + RangeLen(n, i - 1)
    <3>1. CASE i = 0 BY <2>2, <3>1
    <3>2. CASE i # 0 BY <2>1, <2>3, <3>2
    <3> QED BY <3>1, <3>2
  <2> QED BY <2>4
<1>2. off = Sum(off)
  <2> HIDE DEF Sum, at
  <2> QED BY <1>1
<1>3. RangeOff(n, j) = off[j]
  BY DEF RangeOff
<1> HIDE DEF off
<1>4. off[0] = 0 /\ \A i \in Nat : off[i + 1] = off[i] + RangeLen(n, i)
  <2>1. \A i \in Nat : off[i] = IF i = 0 THEN 0 ELSE off[i - 1] + RangeLen(n, i - 1)
    BY <1>2
  <2>2. \A i \in Nat : i + 1 \in Nat /\ i + 1 # 0 /\ (i + 1) - 1 = i
    OBVIOUS
  <2> QED BY <2>1, <2>2
<1>5. at[0] = 0 /\ \A i \in Nat : at[i + 1] = at[i] + RangeLen(n, i)
  <2>1. \A i \in Nat : at[i] = IF i = 0 THEN 0 ELSE at[i - 1] + RangeLen(n, i - 1)
    BY <1>1
  <2>2. \A i \in Nat : i + 1 \in Nat /\ i + 1 # 0 /\ (i + 1) - 1 = i
    OBVIOUS
  <2> HIDE DEF at
  <2> QED BY <2>1, <2>2
<1> DEFINE S == {i \in Nat : off[i] = at[i]}
<1>6. S = Nat
  <2> HIDE DEF at
  <2>1. S \in SUBSET Nat /\ 0 \in S /\ \A i \in S : i + 1 \in S
    BY <1>4, <1>5
  <2> HIDE DEF S
  <2> QED BY <2>1, InductiveSet
<1> QED BY <1>3, <1>6

\* Every super-chunk is in a range, and a later range is behind an earlier one.
LEMMA RangesCover ==
  ASSUME NEW n \in Nat, K \in Nat \ {0}
  PROVE  /\ \A s \in 0 .. n - 1 : \E j \in 0 .. K - 1 :
              Cut(n, j) <= s /\ s < Cut(n, j + 1)
         /\ \A i, j \in Nat : i <= j => Cut(n, i) <= Cut(n, j)
<1>1. ASSUME NEW i \in Nat
      PROVE  \A d \in Nat : Cut(n, i) <= Cut(n, i + d)
  <2> DEFINE S == {d \in Nat : Cut(n, i) <= Cut(n, i + d)}
  <2>1. 0 \in S
    <3>1. i + 0 = i
      OBVIOUS
    <3> QED BY <3>1, CutSteps
  <2>2. ASSUME NEW d \in S PROVE d + 1 \in S
    <3>1. i + d \in Nat /\ i + (d + 1) = (i + d) + 1 /\ i + (d + 1) \in Nat /\ d + 1 \in Nat
      OBVIOUS
    <3>2. /\ Cut(n, i) \in Nat /\ Cut(n, i + d) \in Nat /\ Cut(n, i + (d + 1)) \in Nat
          /\ Cut(n, i + (d + 1)) - Cut(n, i + d) \in Nat
      BY <3>1, CutSteps
    <3>3. Cut(n, i) <= Cut(n, i + d)
      OBVIOUS
    <3>4. Cut(n, i) <= Cut(n, i + (d + 1))
      BY <3>2, <3>3
    <3> QED BY <3>1, <3>4
  <2>3. S \in SUBSET Nat
    OBVIOUS
  <2> HIDE DEF S
  <2>4. S = Nat
    BY <2>1, <2>2, <2>3, InductiveSet
  <2> QED BY <2>4 DEF S
<1>2. ASSUME NEW i \in Nat, NEW j \in Nat, i <= j
      PROVE  Cut(n, i) <= Cut(n, j)
  <2>1. j - i \in Nat /\ i + (j - i) = j
    BY <1>2
  <2> QED BY <1>1, <2>1
<1>3. ASSUME NEW s \in 0 .. n - 1
      PROVE  \E j \in 0 .. K - 1 : Cut(n, j) <= s /\ s < Cut(n, j + 1)
  <2> DEFINE S == {j \in Nat : s < Cut(n, j)}
             m == Min(S)
  <2>1. S \in SUBSET Nat /\ K \in S
    BY CutSteps
  <2>2. m \in S /\ \A y \in S : m <= y
    BY <2>1, LeastElement
  <2> HIDE DEF m
  <2>3. m \in Nat /\ s < Cut(n, m) /\ m <= K
    BY <2>1, <2>2
  <2>4. m # 0
    BY <2>3, CutSteps
  <2>5. m - 1 \in Nat /\ m - 1 \in 0 .. K - 1 /\ (m - 1) + 1 = m
    BY <2>3, <2>4
  <2>6. ~(s < Cut(n, m - 1))
    BY <2>2, <2>3, <2>5
  <2>7. Cut(n, m - 1) \in Nat
    BY <2>5, CutSteps
  <2> QED BY <2>3, <2>5, <2>6, <2>7
<1> QED BY <1>2, <1>3

----------------------------------------------------------------------------
(* The work items of a GPU.                                                 *)

Increasing(f) == \A a, b \in DOMAIN f : a < b => f[a] < f[b]

\* A finite set of numbers can be listed in order.
LEMMA AscendingExists ==
  ASSUME NEW S \in SUBSET Nat, IsFiniteSet(S)
  PROVE  \E f \in [1 .. Cardinality(S) -> S] : Increasing(f)
<1> DEFINE Listed(n) == \A X \in SUBSET Nat : IsFiniteSet(X) /\ Cardinality(X) = n
                          => \E f \in [1 .. n -> X] : Increasing(f)
           Good == {n \in Nat : Listed(n)}
<1>1. 0 \in Good
  <2> SUFFICES ASSUME NEW X \in SUBSET Nat, IsFiniteSet(X), Cardinality(X) = 0
               PROVE  \E f \in [1 .. 0 -> X] : Increasing(f)
    OBVIOUS
  <2>1. [a \in 1 .. 0 |-> 0] \in [1 .. 0 -> X]
    OBVIOUS
  <2>2. Increasing([a \in 1 .. 0 |-> 0])
    BY DEF Increasing
  <2> QED BY <2>1, <2>2
<1>2. ASSUME NEW n \in Good PROVE n + 1 \in Good
  <2> SUFFICES ASSUME NEW X \in SUBSET Nat, IsFiniteSet(X), Cardinality(X) = n + 1
               PROVE  \E f \in [1 .. n + 1 -> X] : Increasing(f)
    OBVIOUS
  <2> DEFINE m == Min(X)
             Y == X \ {m}
  <2>1. n \in Nat /\ Listed(n)
    OBVIOUS
  <2>2. X # {}
    BY <2>1, FS_EmptySet
  <2>3. m \in X /\ \A y \in X : m <= y
    BY <2>2, LeastElement
  <2>4. IsFiniteSet(Y) /\ Cardinality(Y) = n
    BY <2>1, <2>3, FS_RemoveElement
  <2>5. PICK f \in [1 .. n -> Y] : Increasing(f)
    BY <2>1, <2>4
  <2> DEFINE h == [a \in 1 .. n + 1 |-> IF a = 1 THEN m ELSE f[a - 1]]
  <2>6. \A a \in 1 .. n + 1 : a # 1 => a - 1 \in 1 .. n
    BY <2>1
  <2>7. h \in [1 .. n + 1 -> X]
    BY <2>3, <2>5, <2>6
  <2> HIDE DEF m
  <2>8. \A y \in Y : m < y
    <3>1. m \in Nat
      BY <2>3
    <3> QED BY <2>3, <3>1
  <2> HIDE DEF Y
  <2>9. ASSUME NEW a \in 1 .. n + 1, NEW b \in 1 .. n + 1, a < b PROVE h[a] < h[b]
    <3>1. b # 1 /\ b - 1 \in 1 .. n /\ h[b] = f[b - 1] /\ f[b - 1] \in Y
      BY <2>1, <2>5, <2>6, <2>9
    <3>2. CASE a = 1
      BY <2>8, <3>1, <3>2
    <3>3. CASE a # 1
      <4>1. a - 1 \in 1 .. n /\ h[a] = f[a - 1] /\ a - 1 < b - 1
        BY <2>1, <2>6, <2>9, <3>3
      <4> QED BY <2>5, <3>1, <4>1 DEF Increasing
    <3> QED BY <3>2, <3>3
  <2> QED BY <2>7, <2>9 DEF Increasing
<1>3. Good \in SUBSET Nat
  OBVIOUS
<1>4. Good = Nat
  <2> HIDE DEF Good
  <2> QED BY <1>1, <1>2, <1>3, InductiveSet
<1>5. Cardinality(S) \in Nat
  BY FS_CardinalityType
<1> QED BY <1>4, <1>5

\* Ascending lists every element once.
LEMMA AscendingLists ==
  ASSUME NEW S \in SUBSET Nat, IsFiniteSet(S)
  PROVE  /\ Ascending(S) \in [1 .. Cardinality(S) -> S]
         /\ \A a, b \in 1 .. Cardinality(S) : Ascending(S)[a] = Ascending(S)[b] => a = b
         /\ \A x \in S : \E a \in 1 .. Cardinality(S) : Ascending(S)[a] = x
<1> DEFINE n == Cardinality(S)
           f == Ascending(S)
<1>1. f \in [1 .. n -> S] /\ Increasing(f)
  BY AscendingExists DEF Ascending, Increasing
<1>2. n \in Nat
  BY FS_CardinalityType
<1> HIDE DEF f, n
<1>3. ASSUME NEW a \in 1 .. n, NEW b \in 1 .. n, f[a] = f[b] PROVE a = b
  <2>1. f[a] \in Nat /\ f[b] \in Nat
    BY <1>1
  <2>2. ~(a < b) /\ ~(b < a)
    BY <1>1, <1>3, <2>1 DEF Increasing
  <2> QED BY <1>2, <2>2
<1>4. f \in Injection(1 .. n, S)
  BY <1>1, <1>3 DEF Injection, IsInjective
<1>5. Cardinality(1 .. n) = n
  BY <1>2, FS_Interval
<1>6. f \in Surjection(1 .. n, S)
  BY <1>4, <1>5, FS_Injection DEF n
<1>7. \A x \in S : \E a \in 1 .. n : f[a] = x
  BY <1>6 DEF Surjection
<1> QED BY <1>1, <1>3, <1>7 DEF f, n

----------------------------------------------------------------------------
(* The schedule of a run.                                                   *)

TargetType == [dev : DOMAIN Devices, wipe_len : Aligned \ {0}]
ItemType   == [dev : DOMAIN Devices, off : Aligned, len : Aligned \ {0}]
Holds(it, u) == it.off <= u /\ u < it.off + it.len

\* Teams of at least one GPU, at least one team.
LEMMA TeamSize ==
  ASSUME gpus \in Seq(Nat), gpus # <<>>, cfg.k \in Int
  PROVE  K \in Nat \ {0} /\ T \in Nat \ {0} /\ T * K \in Nat /\ T * K <= Len(gpus)
<1> DEFINE G == Len(gpus)
           x == IF cfg.k > 0 THEN cfg.k
                ELSE IF cfg.mode = "gpus-per-disk" THEN Len(gpus) ELSE 1
<1>1. G \in Nat \ {0}
  OBVIOUS
<1>2. x \in Nat \ {0}
  BY <1>1
<1> HIDE DEF G, x
<1>3. Min({G, x}) \in {G, x} /\ Min({G, x}) <= G
  <2>1. G \in Int /\ x \in Int
    BY <1>1, <1>2
  <2> QED BY <2>1, MinOfTwo
<1>4. K = Min({G, x}) /\ T = G \div K
  BY DEF K, T, G, x
<1>5. K \in Nat \ {0} /\ K <= G
  BY <1>1, <1>2, <1>3, <1>4
<1>6. T \in Nat /\ T * K <= G /\ G < T * K + K
  BY <1>1, <1>4, <1>5, DivNat
<1>7. T # 0
  <2> SUFFICES ASSUME T = 0 PROVE FALSE
    OBVIOUS
  <2>1. T * K = 0
    BY <1>5
  <2> QED BY <1>1, <1>5, <1>6, <2>1
<1> QED BY <1>5, <1>6, <1>7 DEF G

\* One GPU's range of a disk: whole super-chunks, inside what is to be wiped; the
\* ranges of the K GPUs hold every unit of it exactly once.
LEMMA RangesOfDisk ==
  ASSUME targets \in Seq(TargetType), K \in Nat \ {0}, NEW d \in DOMAIN targets
  PROVE  /\ \A j \in 0 .. K - 1 :
              /\ WorkItem(d, j) \in [dev : DOMAIN Devices, off : Aligned, len : Aligned]
              /\ WorkItem(d, j).dev = targets[d].dev
              /\ WorkItem(d, j).off + WorkItem(d, j).len <= targets[d].wipe_len
         /\ \A u \in 0 .. targets[d].wipe_len - 1 :
              \E j \in 0 .. K - 1 : Holds(WorkItem(d, j), u)
         /\ \A u \in Nat : \A i, j \in 0 .. K - 1 :
              Holds(WorkItem(d, i), u) /\ Holds(WorkItem(d, j), u) => i = j
<1> DEFINE L == targets[d].wipe_len
           n == L \div Super
<1>1. targets[d] \in TargetType /\ L \in Aligned /\ L \in Nat
  <2>1. targets[d] \in TargetType
    OBVIOUS
  <2>2. L \in Aligned
    BY <2>1 DEF TargetType
  <2> QED BY <2>1, <2>2, AlignedUnits
<1>2. n \in Nat /\ L = n * Super
  BY <1>1, AlignedIsMultiple
<1> HIDE DEF n, L
<1>3. ASSUME NEW j \in 0 .. K - 1
      PROVE  /\ WorkItem(d, j) = [dev |-> targets[d].dev, off |-> Cut(n, j) * Super,
                                  len |-> RangeLen(n, j)]
             /\ Cut(n, j) \in Nat /\ Cut(n, j + 1) \in Nat /\ Cut(n, j + 1) <= n
             /\ Cut(n, j) * Super \in Aligned /\ RangeLen(n, j) \in Aligned
             /\ Cut(n, j) * Super + RangeLen(n, j) = Cut(n, j + 1) * Super
             /\ Cut(n, j) * Super \in Nat /\ Cut(n, j + 1) * Super \in Nat
  <2>1. j \in Nat /\ j + 1 \in Nat /\ j + 1 <= K
    OBVIOUS
  <2>2. WorkItem(d, j) = [dev |-> targets[d].dev, off |-> Cut(n, j) * Super,
                          len |-> RangeLen(n, j)]
    BY <1>2, <2>1, RangeOffIsCut DEF WorkItem, n, L
  <2> DEFINE a == Cut(n, j)
             b == Cut(n, j + 1)
             l == RangeLen(n, j)
  <2>3. a \in Nat /\ b \in Nat /\ l \in Aligned /\ l = (b - a) * Super
    BY <1>2, <2>1, CutSteps
  <2>4. b <= Cut(n, K) /\ Cut(n, K) = n
    BY <1>2, <2>1, RangesCover, CutSteps
  <2> HIDE DEF a, b, l
  <2>5. a * Super + l = b * Super /\ a * Super \in Nat /\ b * Super \in Nat
    BY <2>3, DiskAssumption
  <2>6. a * Super \in Aligned
    BY <2>3, MultipleIsAligned
  <2> QED BY <2>2, <2>3, <2>4, <2>5, <2>6 DEF a, b, l
<1>4. ASSUME NEW j \in 0 .. K - 1
      PROVE  /\ WorkItem(d, j) \in [dev : DOMAIN Devices, off : Aligned, len : Aligned]
             /\ WorkItem(d, j).dev = targets[d].dev
             /\ WorkItem(d, j).off + WorkItem(d, j).len <= L
  <2>1. Cut(n, j + 1) * Super <= n * Super
    <3>1. Cut(n, j + 1) \in Nat /\ Cut(n, j + 1) <= n
      BY <1>3
    <3>2. n \in Nat /\ Super \in Nat
      BY <1>2, DiskAssumption
    <3> QED BY ONLY <3>1, <3>2, MulMono
  <2>2. targets[d].dev \in DOMAIN Devices
    BY <1>1 DEF TargetType
  <2> QED BY <1>2, <1>3, <2>1, <2>2
<1>5. ASSUME NEW u \in 0 .. L - 1
      PROVE  \E j \in 0 .. K - 1 : Holds(WorkItem(d, j), u)
  <2> DEFINE s == u \div Super
  <2>1. u \in Nat /\ u < L
    BY <1>1
  <2>2. s \in Nat /\ s * Super <= u /\ u < s * Super + Super
    BY <2>1, DivNat, DiskAssumption
  <2> HIDE DEF s
  <2>3. s < n
    <3> SUFFICES ASSUME n <= s PROVE FALSE
      BY <1>2, <2>2
    <3>1. n * Super <= s * Super
      BY <1>2, <2>2, MulMono, DiskAssumption
    <3> QED BY <1>1, <1>2, <2>1, <2>2, <3>1, DiskAssumption
  <2>4. PICK j \in 0 .. K - 1 : Cut(n, j) <= s /\ s < Cut(n, j + 1)
    BY <1>2, <2>2, <2>3, RangesCover
  <2>5. Cut(n, j) * Super <= s * Super
    BY <1>3, <2>2, <2>4, MulMono, DiskAssumption
  <2>6. (s + 1) * Super <= Cut(n, j + 1) * Super
    <3> DEFINE c == Cut(n, j + 1)
    <3>1. c \in Int
      BY <1>3
    <3>2. s < c
      BY <2>4
    <3> HIDE DEF c
    <3>3. s + 1 \in Int /\ s + 1 <= c /\ Super \in Nat
      BY <2>2, <3>1, <3>2, DiskAssumption
    <3>4. (s + 1) * Super <= c * Super
      BY ONLY <3>1, <3>3, MulMono
    <3> QED BY <3>4 DEF c
  <2>7. (s + 1) * Super = s * Super + Super /\ s * Super \in Nat
    BY <2>2, DiskAssumption
  <2> DEFINE a == Cut(n, j) * Super
             b == Cut(n, j + 1) * Super
             l == RangeLen(n, j)
             z == s * Super
  <2>8. a \in Nat /\ b \in Nat /\ a + l = b
    BY <1>3
  <2>9. WorkItem(d, j).off = a /\ WorkItem(d, j).len = l
    BY <1>3
  <2>10. z \in Nat /\ z <= u /\ u < z + Super /\ a <= z /\ z + Super <= b
    BY <2>2, <2>5, <2>6, <2>7
  <2> HIDE DEF a, b, l, z
  <2>11. a <= u /\ u < b
    BY <2>1, <2>8, <2>10, DiskAssumption
  <2> QED BY <2>8, <2>9, <2>11 DEF Holds
<1>6. ASSUME NEW u \in Nat, NEW i \in 0 .. K - 1, NEW j \in 0 .. K - 1, i < j,
             Holds(WorkItem(d, i), u), Holds(WorkItem(d, j), u)
      PROVE  FALSE
  <2>1. u < Cut(n, i + 1) * Super /\ Cut(n, j) * Super <= u
    <3>1. /\ WorkItem(d, i).off + WorkItem(d, i).len = Cut(n, i + 1) * Super
          /\ WorkItem(d, j).off = Cut(n, j) * Super
      BY <1>3
    <3> QED BY <1>6, <3>1 DEF Holds
  <2>2. Cut(n, i + 1) <= Cut(n, j)
    <3>1. i + 1 \in Nat /\ j \in Nat /\ i + 1 <= j
      BY <1>6
    <3> QED BY <1>2, <3>1, RangesCover
  <2>3. Cut(n, i + 1) * Super <= Cut(n, j) * Super
    <3>1. Cut(n, i + 1) \in Nat /\ Cut(n, j) \in Nat
      BY <1>3
    <3>2. Super \in Nat
      BY DiskAssumption
    <3> QED BY ONLY <2>2, <3>1, <3>2, MulMono
  <2>4. Cut(n, i + 1) * Super \in Nat /\ Cut(n, j) * Super \in Nat
    BY <1>3
  <2> QED BY ONLY <2>1, <2>3, <2>4, u \in Nat
<1>7. ASSUME NEW u \in Nat, NEW i \in 0 .. K - 1, NEW j \in 0 .. K - 1,
             Holds(WorkItem(d, i), u), Holds(WorkItem(d, j), u)
      PROVE  i = j
  <2>1. ~(i < j) /\ ~(j < i)
    BY <1>6, <1>7
  <2>2. i \in Int /\ j \in Int
    OBVIOUS
  <2> QED BY <2>1, <2>2
<1> QED BY <1>4, <1>5, <1>7 DEF L

\* The sorted list of disks has every disk once.
LEMMA OrderIsComplete ==
  ASSUME targets \in Seq(TargetType), NEW order \in Orders
  PROVE  /\ order \in [1 .. Len(targets) -> 1 .. Len(targets)]
         /\ \A a, b \in 1 .. Len(targets) : order[a] = order[b] => a = b
         /\ \A d \in 1 .. Len(targets) : \E a \in 1 .. Len(targets) : order[a] = d
<1> DEFINE D == 1 .. Len(targets)
<1>1. DOMAIN targets = D /\ Len(targets) \in Nat
  OBVIOUS
<1>2. order \in [D -> D] /\ IsInjective(order)
  BY <1>1 DEF Orders
<1>3. \A a, b \in D : order[a] = order[b] => a = b
  BY <1>2 DEF IsInjective
<1>4. order \in Injection(D, D)
  BY <1>2 DEF Injection
<1>5. IsFiniteSet(D)
  BY <1>1, FS_Interval
<1> HIDE DEF D
<1>6. order \in Surjection(D, D)
  BY <1>4, <1>5, FS_Injection
<1>7. \A d \in D : \E a \in D : order[a] = d
  BY <1>6 DEF Surjection
<1> QED BY <1>2, <1>3, <1>7 DEF D

\* mine numbers the disks of team t of which GPU j has a range, one per item.
Lists(mine, its, order, t, j) ==
  /\ mine \in [DOMAIN its -> 1 .. Len(targets)]
  /\ \A a, b \in DOMAIN mine : mine[a] = mine[b] => a = b
  /\ \A n \in DOMAIN mine : /\ its[n] = WorkItem(order[mine[n]], j)
                            /\ (mine[n] - 1) % T = t
  /\ \A i \in 1 .. Len(targets) :
       (i - 1) % T = t /\ WorkItem(order[i], j).len > 0 => \E n \in DOMAIN mine : mine[n] = i

\* The items of GPU j of team t are its nonempty ranges of the team's disks, each
\* once.
LEMMA ItemsOfGpu ==
  ASSUME targets \in Seq(TargetType), K \in Nat \ {0}, NEW order \in Orders,
         NEW t, NEW j \in 0 .. K - 1
  PROVE  /\ WorkItems(order, t, j) \in Seq(ItemType)
         /\ Len(WorkItems(order, t, j)) <= Len(targets)
         /\ \E mine : Lists(mine, WorkItems(order, t, j), order, t, j)
<1> DEFINE D == 1 .. Len(targets)
           M == {i \in D : (i - 1) % T = t /\ WorkItem(order[i], j).len > 0}
           c == Cardinality(M)
           mine == Ascending(M)
           its == WorkItems(order, t, j)
<1>1. /\ order \in [D -> D] /\ Len(targets) \in Nat /\ DOMAIN targets = D
      /\ DOMAIN order = D
  BY OrderIsComplete
<1>2. M \in SUBSET Nat /\ M \in SUBSET D
  BY <1>1
<1>3. IsFiniteSet(D) /\ Cardinality(D) = Len(targets)
  <2>1. Len(targets) \in Nat /\ Len(targets) \in Int /\ 1 \in Int
    BY <1>1
  <2>2. /\ IsFiniteSet(1 .. Len(targets))
        /\ Cardinality(1 .. Len(targets))
             = IF 1 > Len(targets) THEN 0 ELSE Len(targets) - 1 + 1
    BY ONLY <2>1, FS_Interval
  <2>3. Cardinality(1 .. Len(targets)) = Len(targets)
    BY <2>1, <2>2
  <2> QED BY <2>2, <2>3
<1>4. IsFiniteSet(M) /\ c <= Len(targets) /\ c \in Nat
  BY <1>2, <1>3, FS_Subset, FS_CardinalityType
<1>5. its = [n \in DOMAIN mine |-> WorkItem(order[mine[n]], j)]
  BY <1>1 DEF WorkItems
<1>6. \A i \in M : i \in D /\ (i - 1) % T = t /\ WorkItem(order[i], j).len > 0
  OBVIOUS
<1>7. \A i \in D : (i - 1) % T = t /\ WorkItem(order[i], j).len > 0 => i \in M
  OBVIOUS
<1> HIDE DEF M
<1>8. /\ mine \in [1 .. c -> M]
      /\ \A a, b \in 1 .. c : mine[a] = mine[b] => a = b
      /\ \A x \in M : \E a \in 1 .. c : mine[a] = x
  BY <1>2, <1>4, AscendingLists
<1> HIDE DEF mine, c, its
<1>9. DOMAIN its = 1 .. c /\ DOMAIN mine = 1 .. c
  BY <1>5, <1>8
<1>10. ASSUME NEW n \in 1 .. c PROVE its[n] \in ItemType
  <2>1. mine[n] \in M
    BY <1>8
  <2>2. order[mine[n]] \in DOMAIN targets /\ WorkItem(order[mine[n]], j).len > 0
    BY <1>1, <1>6, <2>1
  <2>3. WorkItem(order[mine[n]], j) \in [dev : DOMAIN Devices, off : Aligned, len : Aligned]
    BY <2>2, RangesOfDisk
  <2> DEFINE it == WorkItem(order[mine[n]], j)
  <2>4. it.len # 0
    BY <2>2
  <2>5. its[n] = it
    BY <1>5, <1>9
  <2> HIDE DEF it
  <2> QED BY <2>3, <2>4, <2>5 DEF ItemType, it
<1>11. its \in Seq(ItemType) /\ Len(its) = c
  <2>1. its \in [1 .. c -> ItemType]
    BY <1>5, <1>9, <1>10
  <2> QED BY <1>4, <2>1
<1>12. mine \in [DOMAIN its -> D]
  BY <1>2, <1>8, <1>9
<1>13. \A n \in DOMAIN mine : its[n] = WorkItem(order[mine[n]], j) /\ (mine[n] - 1) % T = t
  BY <1>5, <1>6, <1>8, <1>9
<1>14. \A i \in D : (i - 1) % T = t /\ WorkItem(order[i], j).len > 0
                      => \E n \in DOMAIN mine : mine[n] = i
  BY <1>7, <1>8, <1>9
<1>15. Lists(mine, its, order, t, j)
  <2>1. \A a, b \in DOMAIN mine : mine[a] = mine[b] => a = b
    BY <1>8, <1>9
  <2> QED BY <1>12, <1>13, <1>14, <2>1 DEF Lists
<1> QED BY <1>4, <1>11, <1>15 DEF its

\* Which GPU has which place in which team.
LEMMA PlaceOfGpu ==
  ASSUME K \in Nat \ {0}, T \in Nat \ {0}, T * K <= Len(gpus), gpus \in Seq(Nat),
         IsInjective(gpus), NEW order
  PROVE  /\ \A g \in DOMAIN Workers(order) : \E p \in 1 .. T * K :
              /\ g = gpus[p]
              /\ (p - 1) \div K \in 0 .. T - 1 /\ (p - 1) % K \in 0 .. K - 1
              /\ p = ((p - 1) \div K) * K + ((p - 1) % K) + 1
              /\ Workers(order)[g] = NewWorker(WorkItems(order, (p - 1) \div K, (p - 1) % K))
         /\ \A t \in 0 .. T - 1, j \in 0 .. K - 1 :
              /\ gpus[t * K + j + 1] \in DOMAIN Workers(order)
              /\ Workers(order)[gpus[t * K + j + 1]] = NewWorker(WorkItems(order, t, j))
<1> DEFINE P == 1 .. T * K
           Place(g) == CHOOSE n \in P : gpus[n] = g
<1>1. T * K \in Nat /\ Len(gpus) \in Nat /\ DOMAIN gpus = 1 .. Len(gpus)
  OBVIOUS
<1>2. P \subseteq DOMAIN gpus
  BY <1>1
<1>3. ASSUME NEW p \in P PROVE Place(gpus[p]) = p
  <2>1. \A n \in P : gpus[n] = gpus[p] => n = p
    BY <1>2 DEF IsInjective
  <2> QED BY <2>1
<1>4. Workers(order) =
        [g \in {gpus[i] : i \in P} |->
           NewWorker(WorkItems(order, (Place(g) - 1) \div K, (Place(g) - 1) % K))]
  BY DEF Workers
<1> HIDE DEF Place
<1>5. ASSUME NEW p \in P
      PROVE  /\ gpus[p] \in DOMAIN Workers(order)
             /\ Workers(order)[gpus[p]]
                  = NewWorker(WorkItems(order, (p - 1) \div K, (p - 1) % K))
  BY <1>3, <1>4
<1>6. ASSUME NEW p \in P
      PROVE  /\ (p - 1) \div K \in 0 .. T - 1 /\ (p - 1) % K \in 0 .. K - 1
             /\ p = ((p - 1) \div K) * K + ((p - 1) % K) + 1
  <2> DEFINE x == p - 1
             q == x \div K
             r == x % K
  <2>1. x \in Nat /\ x < T * K /\ x \in Int /\ p = x + 1
    BY <1>1
  <2> HIDE DEF x
  <2>2. q \in Nat /\ q * K <= x
    BY <2>1, DivNat
  <2>3. r \in 0 .. K - 1 /\ x = K * q + r
    BY ONLY <2>1, K \in Nat \ {0}, DivMod
  <2> HIDE DEF q, r
  <2>4. q < T
    <3> SUFFICES ASSUME T <= q PROVE FALSE
      BY <2>2
    <3>1. T * K <= q * K
      BY <2>2, MulMono
    <3> QED BY <1>1, <2>1, <2>2, <3>1
  <2>5. K * q = q * K
    BY <2>2
  <2> QED BY <2>1, <2>2, <2>3, <2>4, <2>5 DEF q, r, x
<1>7. ASSUME NEW g \in DOMAIN Workers(order)
      PROVE  \E p \in P : g = gpus[p]
  BY <1>4
<1>8. ASSUME NEW t \in 0 .. T - 1, NEW j \in 0 .. K - 1
      PROVE  /\ t * K + j + 1 \in P
             /\ ((t * K + j + 1) - 1) \div K = t
             /\ ((t * K + j + 1) - 1) % K = j
  <2>1. (t + 1) * K <= T * K
    <3>1. t + 1 \in Int /\ T \in Int /\ t + 1 <= T /\ K \in Nat
      OBVIOUS
    <3> QED BY ONLY <3>1, MulMono
  <2>2. (t + 1) * K = t * K + K /\ t * K \in Nat
    OBVIOUS
  <2>3. (t * K + j + 1) - 1 = t * K + j
    BY <2>2
  <2>4. (t * K + j) \div K = t /\ (t * K + j) % K = j
    <3>1. t \in Int
      OBVIOUS
    <3> QED BY ONLY <3>1, K \in Nat \ {0}, j \in 0 .. K - 1, DivInChunk
  <2> QED BY <1>1, <2>1, <2>2, <2>3, <2>4
<1>9. ASSUME NEW g \in DOMAIN Workers(order)
      PROVE  \E p \in P :
               /\ g = gpus[p]
               /\ (p - 1) \div K \in 0 .. T - 1 /\ (p - 1) % K \in 0 .. K - 1
               /\ p = ((p - 1) \div K) * K + ((p - 1) % K) + 1
               /\ Workers(order)[g] = NewWorker(WorkItems(order, (p - 1) \div K, (p - 1) % K))
  <2>1. PICK p \in P : g = gpus[p]
    BY <1>7
  <2> QED BY <1>5, <1>6, <2>1
<1>10. ASSUME NEW t \in 0 .. T - 1, NEW j \in 0 .. K - 1
       PROVE  /\ gpus[t * K + j + 1] \in DOMAIN Workers(order)
              /\ Workers(order)[gpus[t * K + j + 1]] = NewWorker(WorkItems(order, t, j))
  <2> DEFINE p == t * K + j + 1
  <2>1. p \in P /\ (p - 1) \div K = t /\ (p - 1) % K = j
    BY <1>8
  <2> HIDE DEF p
  <2>2. /\ gpus[p] \in DOMAIN Workers(order)
        /\ Workers(order)[gpus[p]] = NewWorker(WorkItems(order, t, j))
    BY <1>5, <2>1
  <2> QED BY <2>2 DEF p
<1> QED BY <1>9, <1>10

\* What the schedule is made from when main gets to it.
Scheduled ==
  /\ targets \in Seq(TargetType)
  /\ gpus \in Seq(Nat) /\ IsInjective(gpus) /\ gpus # <<>>
  /\ cfg.k \in Int

\* Every work item is a range of whole super-chunks of a target.
LEMMA ItemsFit ==
  ASSUME Scheduled, NEW order \in Orders, NEW g \in DOMAIN Workers(order)
  PROVE  /\ \E i \in DOMAIN gpus : g = gpus[i]
         /\ Workers(order)[g].items \in Seq(ItemType)
         /\ Len(Workers(order)[g].items) <= Len(targets)
         /\ Workers(order)[g] = NewWorker(Workers(order)[g].items)
         /\ \A k \in DOMAIN Workers(order)[g].items : \E d \in DOMAIN targets :
              /\ Workers(order)[g].items[k].dev = targets[d].dev
              /\ Workers(order)[g].items[k].off + Workers(order)[g].items[k].len
                   <= targets[d].wipe_len
<1>1. K \in Nat \ {0} /\ T \in Nat \ {0} /\ T * K \in Nat /\ T * K <= Len(gpus)
  BY TeamSize DEF Scheduled
<1>2. targets \in Seq(TargetType) /\ gpus \in Seq(Nat) /\ IsInjective(gpus)
  BY DEF Scheduled
<1>3. PICK p \in 1 .. T * K :
        /\ g = gpus[p]
        /\ (p - 1) % K \in 0 .. K - 1
        /\ Workers(order)[g] = NewWorker(WorkItems(order, (p - 1) \div K, (p - 1) % K))
  BY <1>1, <1>2, PlaceOfGpu
<1> DEFINE t == (p - 1) \div K
           j == (p - 1) % K
           its == WorkItems(order, t, j)
<1>4. Workers(order)[g].items = its /\ Workers(order)[g] = NewWorker(its)
  BY <1>3 DEF NewWorker
<1>5. j \in 0 .. K - 1 /\ p \in DOMAIN gpus
  BY <1>1, <1>2, <1>3
<1> HIDE DEF t, j
<1>6. /\ its \in Seq(ItemType) /\ Len(its) <= Len(targets)
      /\ \E mine : Lists(mine, its, order, t, j)
  BY <1>1, <1>2, <1>5, ItemsOfGpu
<1>7. PICK mine : Lists(mine, its, order, t, j)
  BY <1>6
<1> HIDE DEF its
<1>8. ASSUME NEW k \in DOMAIN its
      PROVE  \E d \in DOMAIN targets :
               its[k].dev = targets[d].dev /\ its[k].off + its[k].len <= targets[d].wipe_len
  <2>1. mine[k] \in 1 .. Len(targets) /\ its[k] = WorkItem(order[mine[k]], j)
    BY <1>7 DEF Lists
  <2>2. order[mine[k]] \in DOMAIN targets
    BY <1>2, <2>1, OrderIsComplete
  <2> QED BY <1>1, <1>2, <1>5, <2>1, <2>2, RangesOfDisk
<1> QED BY <1>3, <1>4, <1>5, <1>6, <1>8

\* Every unit that is to be wiped is in some item of some GPU.
LEMMA ItemsCover ==
  ASSUME Scheduled, NEW order \in Orders, NEW d \in DOMAIN targets,
         NEW u \in 0 .. targets[d].wipe_len - 1
  PROVE  \E g \in DOMAIN Workers(order) : \E k \in DOMAIN Workers(order)[g].items :
           /\ Workers(order)[g].items[k].dev = targets[d].dev
           /\ Holds(Workers(order)[g].items[k], u)
<1>1. K \in Nat \ {0} /\ T \in Nat \ {0} /\ T * K \in Nat /\ T * K <= Len(gpus)
  BY TeamSize DEF Scheduled
<1>2. targets \in Seq(TargetType) /\ gpus \in Seq(Nat) /\ IsInjective(gpus)
  BY DEF Scheduled
<1>3. PICK j \in 0 .. K - 1 : Holds(WorkItem(d, j), u)
  BY <1>1, <1>2, RangesOfDisk
<1>4. PICK a \in 1 .. Len(targets) : order[a] = d
  <2>1. d \in 1 .. Len(targets)
    BY <1>2
  <2> QED BY <1>2, <2>1, OrderIsComplete
<1> DEFINE t == (a - 1) % T
           its == WorkItems(order, t, j)
           g == gpus[t * K + j + 1]
<1>5. t \in 0 .. T - 1
  <2>1. a - 1 \in Int
    BY <1>2
  <2> QED BY ONLY <2>1, <1>1, DivMod
<1>6. (a - 1) % T = t
  OBVIOUS
<1> HIDE DEF t
<1>7. WorkItem(order[a], j).len > 0
  <2> DEFINE it == WorkItem(d, j)
  <2>1. it \in [dev : DOMAIN Devices, off : Aligned, len : Aligned]
    BY <1>1, <1>2, RangesOfDisk
  <2> HIDE DEF it
  <2>2. it.off \in Nat /\ it.len \in Nat
    BY <2>1, AlignedUnits
  <2>3. it.off <= u /\ u < it.off + it.len /\ u \in Int
    BY <1>3 DEF Holds, it
  <2>4. it.len > 0
    BY <2>2, <2>3
  <2> QED BY <1>4, <2>4 DEF it
<1>8. PICK mine : Lists(mine, its, order, t, j)
  BY <1>1, <1>2, ItemsOfGpu
<1>9. PICK n \in DOMAIN mine : mine[n] = a
  BY <1>6, <1>7, <1>8 DEF Lists
<1>10. g \in DOMAIN Workers(order) /\ Workers(order)[g] = NewWorker(its)
  BY <1>1, <1>2, <1>5, PlaceOfGpu
<1> HIDE DEF its, g
<1>11. Workers(order)[g].items = its
  BY <1>10 DEF NewWorker
<1>12. n \in DOMAIN its /\ its[n] = WorkItem(d, j)
  BY <1>4, <1>8, <1>9 DEF Lists
<1>13. its[n].dev = targets[d].dev /\ Holds(its[n], u)
  BY <1>1, <1>2, <1>3, <1>12, RangesOfDisk
<1> QED BY <1>10, <1>11, <1>12, <1>13

\* No unit is in two items when no disk is listed twice.
LEMMA ItemsDisjoint ==
  ASSUME Scheduled, NEW order \in Orders,
         \A a, b \in DOMAIN targets : targets[a].dev = targets[b].dev => a = b,
         NEW g \in DOMAIN Workers(order), NEW h \in DOMAIN Workers(order),
         NEW k \in DOMAIN Workers(order)[g].items, NEW m \in DOMAIN Workers(order)[h].items,
         NEW u \in Nat,
         Workers(order)[g].items[k].dev = Workers(order)[h].items[m].dev,
         Holds(Workers(order)[g].items[k], u), Holds(Workers(order)[h].items[m], u)
  PROVE  g = h /\ k = m
<1>1. K \in Nat \ {0} /\ T \in Nat \ {0} /\ T * K \in Nat /\ T * K <= Len(gpus)
  BY TeamSize DEF Scheduled
<1>2. targets \in Seq(TargetType) /\ gpus \in Seq(Nat) /\ IsInjective(gpus)
  BY DEF Scheduled
<1> DEFINE Team(p) == (p - 1) \div K
           Rank(p) == (p - 1) % K
           Its(p)  == WorkItems(order, Team(p), Rank(p))
<1>3. ASSUME NEW f \in DOMAIN Workers(order)
      PROVE  \E p \in 1 .. T * K :
               /\ f = gpus[p] /\ Rank(p) \in 0 .. K - 1
               /\ p = Team(p) * K + Rank(p) + 1
               /\ Workers(order)[f].items = Its(p)
  <2>1. PICK p \in 1 .. T * K :
          /\ f = gpus[p] /\ Rank(p) \in 0 .. K - 1
          /\ p = Team(p) * K + Rank(p) + 1
          /\ Workers(order)[f] = NewWorker(Its(p))
    BY <1>1, <1>2, PlaceOfGpu
  <2> HIDE DEF Its
  <2>2. Workers(order)[f].items = Its(p)
    BY <2>1 DEF NewWorker
  <2> QED BY <2>1, <2>2
<1>4. PICK p \in 1 .. T * K :
        /\ g = gpus[p] /\ Rank(p) \in 0 .. K - 1
        /\ p = Team(p) * K + Rank(p) + 1
        /\ Workers(order)[g].items = Its(p)
  BY <1>3
<1>5. PICK q \in 1 .. T * K :
        /\ h = gpus[q] /\ Rank(q) \in 0 .. K - 1
        /\ q = Team(q) * K + Rank(q) + 1
        /\ Workers(order)[h].items = Its(q)
  BY <1>3
<1> HIDE DEF Team, Rank
<1>6. PICK mine : Lists(mine, Its(p), order, Team(p), Rank(p))
  BY <1>1, <1>2, <1>4, ItemsOfGpu
<1>7. PICK yours : Lists(yours, Its(q), order, Team(q), Rank(q))
  BY <1>1, <1>2, <1>5, ItemsOfGpu
<1> HIDE DEF Its
<1> DEFINE x == mine[k]
           y == yours[m]
<1>8. x \in 1 .. Len(targets) /\ y \in 1 .. Len(targets)
  BY <1>4, <1>5, <1>6, <1>7 DEF Lists
<1>9. /\ Workers(order)[g].items[k] = WorkItem(order[x], Rank(p))
      /\ Workers(order)[h].items[m] = WorkItem(order[y], Rank(q))
      /\ (x - 1) % T = Team(p) /\ (y - 1) % T = Team(q)
  BY <1>4, <1>5, <1>6, <1>7 DEF Lists
<1> HIDE DEF x, y
<1>10. /\ order[x] \in DOMAIN targets /\ order[y] \in DOMAIN targets
       /\ \A a \in 1 .. Len(targets) : order[a] \in DOMAIN targets
  <2>1. order \in [1 .. Len(targets) -> 1 .. Len(targets)]
    BY <1>2, OrderIsComplete
  <2>2. DOMAIN targets = 1 .. Len(targets)
    BY <1>2
  <2> QED BY <1>8, <2>1, <2>2
<1>11. /\ WorkItem(order[x], Rank(p)).dev = targets[order[x]].dev
       /\ WorkItem(order[y], Rank(q)).dev = targets[order[y]].dev
  BY <1>1, <1>2, <1>4, <1>5, <1>10, RangesOfDisk
<1>12. order[x] = order[y]
  BY <1>9, <1>10, <1>11
<1>13. x = y
  BY <1>2, <1>8, <1>12, OrderIsComplete
<1>14. Rank(p) = Rank(q)
  BY <1>1, <1>2, <1>4, <1>5, <1>9, <1>10, <1>12, RangesOfDisk
<1>15. p = q
  BY <1>4, <1>5, <1>9, <1>13, <1>14
<1> DEFINE z == mine[m]
<1>16. /\ z \in 1 .. Len(targets) /\ k \in DOMAIN mine /\ m \in DOMAIN mine
       /\ Workers(order)[h].items[m] = WorkItem(order[z], Rank(q))
  BY <1>4, <1>5, <1>6, <1>15 DEF Lists
<1>17. order[z] \in DOMAIN targets /\ WorkItem(order[z], Rank(q)).dev = targets[order[z]].dev
  <2>1. order[z] \in DOMAIN targets
    BY <1>10, <1>16
  <2> QED BY <1>1, <1>2, <1>5, <2>1, RangesOfDisk
<1>18. order[z] = order[y]
  BY <1>9, <1>10, <1>11, <1>16, <1>17
<1>19. z = x
  BY <1>2, <1>8, <1>13, <1>16, <1>18, OrderIsComplete
<1>20. k = m
  BY <1>6, <1>16, <1>19 DEF Lists, x
<1> QED BY <1>4, <1>5, <1>15, <1>20

----------------------------------------------------------------------------
(* The inductive invariant.                                                 *)

Units(d) == 0 .. Devices[d].size - 1

\* A unit of store m (the disks or the media) is old or the label of its position.
InPlace(m) ==
  \A d \in DOMAIN Devices : \A u \in Units(d) :
    m[d][u] = Old \/ (m[d][u][2] = u /\ u < floor_to(Devices[d].size, Super))

IsStore(m) == DOMAIN m = DOMAIN Devices /\ \A d \in DOMAIN Devices : DOMAIN m[d] = Units(d)

\* The units a .. b - 1 of device d hold this run's labels.
Wiped(m, d, a, b) == \A u \in a .. b - 1 : m[d][u] = <<cfg.seed, u>>

ItemWiped(m, it) == Wiped(m, it.dev, it.off, it.off + it.len)

StorageInv ==
  /\ IsStore(disk) /\ IsStore(medium) /\ InPlace(disk) /\ InPlace(medium)
  /\ \A d \in DOMAIN Devices \ Volatile : medium[d] = disk[d]

\* main: what each phase may rely on.
MainInv ==
  /\ mpc \in {"off", "gpus", "check", "open", "plan", "run", "join", "verify", "exit"}
  /\ holder \in [DOMAIN Devices -> InUse]
  /\ rc \in 0 .. 2 /\ runs \in 0 .. MaxRuns
  /\ cfg \in CommandLines
  /\ gpus \in Seq(Nat) /\ IsInjective(gpus)
  /\ targets \in Seq(TargetType)
  /\ \A i \in DOMAIN targets :
       targets[i].wipe_len <= floor_to(Devices[targets[i].dev].size, Super)
  /\ mpc = "off" => cfg = NoCfg /\ w = <<>>
  /\ mpc \in {"off", "gpus"} => targets = <<>>
  /\ mpc \in {"check", "open"} => Len(targets) < Len(cfg.disks)
  /\ mpc = "gpus" => cfg.disks # <<>>
  /\ mpc \in {"check", "open", "plan"} => gpus # <<>>
  /\ mpc \in {"plan", "run", "join"} => Len(targets) = Len(cfg.disks) /\ ~cfg.only
  /\ mpc \in {"run", "join"} => cfg.confirm \/ cfg.dry

\* The items of the workers: ranges of the targets, everything once.
ItemsInv ==
  mpc \in {"run", "join"} =>
    /\ \A g \in DOMAIN w : \A k \in DOMAIN w[g].items : \E d \in DOMAIN targets :
         /\ w[g].items[k].dev = targets[d].dev
         /\ w[g].items[k].off + w[g].items[k].len <= targets[d].wipe_len
    /\ \A g \in DOMAIN w : Len(w[g].items) <= Len(targets)
    /\ \A d \in DOMAIN targets : \A u \in 0 .. targets[d].wipe_len - 1 :
         \E g \in DOMAIN w : \E k \in DOMAIN w[g].items :
           w[g].items[k].dev = targets[d].dev /\ Holds(w[g].items[k], u)
    /\ \A g, h \in DOMAIN w : \A k \in DOMAIN w[g].items, m \in DOMAIN w[h].items :
         \A u \in Nat :
           w[g].items[k].dev = w[h].items[m].dev
             /\ Holds(w[g].items[k], u) /\ Holds(w[h].items[m], u) => g = h /\ k = m

WorkerFields ==
  {"pc", "items", "i", "window", "stage", "pos", "win", "s", "done", "buf", "slice",
   "ok", "synced"}

\* One worker: its position in the loops, and what its two buffers hold.
WorkerTypes(h) ==
  /\ DOMAIN h = WorkerFields
  /\ h.pc \in {"setup", "item", "label", "slice", "write", "flush", "done"}
  /\ h.items \in Seq(ItemType)
  /\ h.i \in Nat \ {0}
  /\ h.window \in Aligned /\ h.stage \in Aligned
  /\ h.pos \in Aligned /\ h.s \in Aligned /\ h.win \in Aligned /\ h.done \in Nat
  /\ h.ok \in BOOLEAN /\ h.synced \in BOOLEAN

SliceLen(h) == Min({h.stage, h.win - h.s})

\* What a slice must hold.
SliceLabels(h) ==
  [u \in 0 .. SliceLen(h) - 1 |-> <<cfg.seed, h.items[h.i].off + h.pos + h.s + u>>]

WorkerInv(h) ==
  /\ WorkerTypes(h)
  /\ h.pc \notin {"setup", "done"} => h.window > 0 /\ h.stage > 0
  /\ h.pc \in {"label", "slice", "write", "flush"} => h.i \in DOMAIN h.items
  /\ h.pc \in {"label", "slice", "write"} => h.pos <= h.items[h.i].len
  /\ h.pc \in {"slice", "write"} =>
       /\ h.win > 0 /\ h.pos + h.win <= h.items[h.i].len
       /\ h.buf = [u \in 0 .. h.win - 1 |-> <<cfg.seed, h.items[h.i].off + h.pos + u>>]
  /\ h.pc = "write" =>
       /\ h.s < h.win /\ h.done < SliceLen(h) /\ h.ok
       /\ h.slice = [u \in 0 .. SliceLen(h) - 1 |->
                       <<cfg.seed, h.items[h.i].off + h.pos + h.s + u>>]
  /\ h.pc \in {"write", "flush"} => ~cfg.dry /\ h.ok
  /\ h.pc = "setup" => h.i = 1
  /\ h.pc = "done" /\ h.ok => h.i > Len(h.items)

\* How far the item in progress has been written.
Frontier(h) ==
  h.pos + (CASE h.pc = "slice" -> (IF h.s < h.win THEN h.s ELSE h.win)
             [] h.pc = "write" -> h.s + h.done
             [] OTHER -> 0)

\* A worker that met no error has written what its loops have passed, and, unless
\* an fsync failed, flushed the items before this one.
Progress(h, dk, md) ==
  h.ok /\ ~cfg.dry =>
    /\ \A k \in DOMAIN h.items : k < h.i => ItemWiped(dk, h.items[k])
    /\ h.pc \in {"label", "slice", "write"} =>
         Wiped(dk, h.items[h.i].dev, h.items[h.i].off, h.items[h.i].off + Frontier(h))
    /\ h.pc = "flush" => ItemWiped(dk, h.items[h.i])
    /\ h.synced => \A k \in DOMAIN h.items : k < h.i => ItemWiped(md, h.items[k])

WorkersInv == \A g \in DOMAIN w : WorkerInv(w[g])
WrittenInv == \A g \in DOMAIN w : Progress(w[g], disk, medium)

TargetWiped(m, d) == Wiped(m, targets[d].dev, 0, targets[d].wipe_len)

\* After the join: the result, and what verify_disk has seen so far.
ResultInv ==
  /\ mpc = "join" => \A g \in DOMAIN w : w[g].pc = "done"
  /\ mpc \in {"verify", "exit"} /\ rc = 0 /\ ~cfg.only /\ ~cfg.dry =>
       /\ \A d \in DOMAIN targets : TargetWiped(disk, d)
       /\ (\A g \in DOMAIN w : w[g].synced) =>
            \A d \in DOMAIN targets : TargetWiped(medium, d)

Full(d) == cfg.verify_n * Super >= targets[d].wipe_len

VerifyInv ==
  /\ vdisk \in Nat \ {0} /\ vk \in Nat /\ mism \in Nat
  /\ mpc \notin {"off", "verify", "exit"} => vdisk = 1 /\ vk = 0 /\ mism = 0
  /\ mpc \in {"verify", "exit"} /\ rc = 0 /\ cfg.only =>
       \A d \in DOMAIN targets :
         (mpc = "verify" => d < vdisk) /\ Full(d) => TargetWiped(disk, d)
  /\ mpc = "verify" /\ vdisk <= Len(targets) =>
       /\ vk <= Samples
       /\ mism = 0 /\ Full(vdisk) => Wiped(disk, targets[vdisk].dev, 0, vk * Super)

MainParts == MainInv /\ Exclusive /\ ItemsInv
DataParts == WorkersInv /\ StorageInv /\ WrittenInv /\ ResultInv
DiskInv == MainParts /\ DataParts /\ VerifyInv

----------------------------------------------------------------------------
(* The initial state.                                                       *)

LEMMA NoCfgIsCommandLine == NoCfg \in CommandLines
<1>1. <<>> \in Seq(DOMAIN Devices) /\ <<>> \in Seq(Nat) /\ IsInjective(<<>>)
  BY DEF IsInjective
<1> QED BY <1>1 DEF NoCfg, CommandLines

LEMMA InitInv == ASSUME Init PROVE DiskInv
<1> USE DEF Init
<1>1. MainInv
  <2>1. <<>> \in Seq(Nat) /\ IsInjective(<<>>) /\ <<>> \in Seq(TargetType)
    BY DEF IsInjective
  <2>2. 0 \in 0 .. MaxRuns
    BY DiskAssumption
  <2> QED BY <2>1, <2>2, NoCfgIsCommandLine DEF MainInv, InUse
<1>2. Exclusive
  BY DEF Exclusive, Targets
<1>3. StorageInv
  BY DEF StorageInv, IsStore, InPlace, Units
<1>4. ItemsInv /\ WorkersInv /\ WrittenInv
  BY DEF ItemsInv, WorkersInv, WrittenInv
<1>5. ResultInv /\ VerifyInv
  BY DEF ResultInv, VerifyInv
<1> QED BY <1>1, <1>2, <1>3, <1>4, <1>5 DEF DiskInv, MainParts, DataParts

----------------------------------------------------------------------------
(* What the steps of a worker leave alone.                                  *)

LEMMA WorkerFrame ==
  ASSUME WorkersInv, NEW g, WorkerStep(g)
  PROVE  /\ mpc = "run" /\ g \in DOMAIN w
         /\ UNCHANGED <<holder, runs, mpc, cfg, rc, gpus, targets, reporting>>
         /\ DOMAIN w' = DOMAIN w
         /\ \A f \in DOMAIN w : f # g => w'[f] = w[f]
         /\ \A f \in DOMAIN w : w'[f].items = w[f].items
<1> DEFINE Same == /\ UNCHANGED <<holder, runs, mpc, cfg, rc, gpus, targets, reporting>>
                   /\ DOMAIN w' = DOMAIN w
                   /\ \A f \in DOMAIN w : f # g => w'[f] = w[f]
                   /\ w'[g].items = w[g].items
<1>1. mpc = "run" /\ g \in DOMAIN w
  BY DEF WorkerStep, WorkerSetup, LabelWindow, CopySlice, Flush, NextItem, WriteFails, At
<1>2. DOMAIN w[g] = WorkerFields
  BY <1>1 DEF WorkersInv, WorkerInv, WorkerTypes
<1> USE DEF WorkerFields, Goto
<1>3. ASSUME NEW ok \in BOOLEAN, NEW avail, WorkerSetup(g, avail, ok)
      PROVE  Same
  <2>1. CASE ~ok
    BY <1>1, <1>2, <1>3, <2>1 DEF WorkerSetup
  <2>2. CASE ok /\ w[g].items = <<>>
    BY <1>1, <1>2, <1>3, <2>2 DEF WorkerSetup
  <2>3. CASE ok /\ w[g].items # <<>>
    BY <1>1, <1>2, <1>3, <2>3 DEF WorkerSetup
  <2> QED BY <2>1, <2>2, <2>3
<1>4. ASSUME NEW ok \in BOOLEAN, LabelWindow(g, ok)
      PROVE  Same
  BY <1>1, <1>2, <1>4 DEF LabelWindow, AfterWindows
<1>5. ASSUME NEW ok \in BOOLEAN, CopySlice(g, ok)
      PROVE  Same
  BY <1>1, <1>2, <1>5 DEF CopySlice
<1>6. ASSUME NEW ok \in BOOLEAN, Flush(g, ok)
      PROVE  Same
  BY <1>1, <1>2, <1>6 DEF Flush
<1>7. CASE NextItem(g)
  BY <1>1, <1>2, <1>7 DEF NextItem
<1>8. CASE WriteFails(g)
  BY <1>1, <1>2, <1>8 DEF WriteFails
<1>9. ASSUME NEW n, WriteSome(g, n)
      PROVE  Same
  BY <1>1, <1>2, <1>9 DEF WriteSome
<1>10. Same
  BY <1>3, <1>4, <1>5, <1>6, <1>7, <1>8, <1>9 DEF WorkerStep
<1> QED BY <1>1, <1>10

----------------------------------------------------------------------------
(* main.                                                                    *)

\* What main computes of a device it may wipe.
LEMMA WipeLenFits ==
  ASSUME cfg \in CommandLines, NEW d \in DOMAIN Devices
  PROVE  WipeLen(d) \in Aligned /\ WipeLen(d) <= floor_to(Devices[d].size, Super)
<1> DEFINE size == Devices[d].size
           v == IF cfg.cap > 0 THEN Min({cfg.cap, size}) ELSE size
<1>1. size \in Nat /\ cfg.cap \in Nat
  BY DiskAssumption DEF CommandLines
<1> HIDE DEF size
<1>2. v \in Nat /\ v <= size
  <2>1. size \in Int /\ cfg.cap \in Int
    BY <1>1
  <2>2. Min({cfg.cap, size}) \in {cfg.cap, size} /\ Min({cfg.cap, size}) <= size
    BY <2>1, MinOfTwo
  <2> QED BY <1>1, <2>2
<1>3. WipeLen(d) = floor_to(v, Super)
  BY DEF WipeLen, size
<1> HIDE DEF v
<1>4. floor_to(v, Super) \in Aligned /\ floor_to(v, Super) <= floor_to(size, Super)
  BY <1>1, <1>2, FloorTo, FloorMono
<1> QED BY <1>3, <1>4 DEF size

LEMMA BeginRunMain ==
  ASSUME MainInv, NEW c \in Configs, BeginRun(c)
  PROVE  MainInv'
<1> USE DEF BeginRun, Fail
<1>1. c \in CommandLines
  BY ConfigAssumption
<1>2. cfg' \in CommandLines
  BY <1>1 DEF CommandLines
<1>3. cfg'.disks = c.disks
  BY <1>1 DEF CommandLines
<1>4. runs' \in 0 .. MaxRuns
  BY DiskAssumption DEF MainInv
<1>5. targets' = <<>> /\ mpc' \in {"gpus", "exit"} /\ rc' \in 0 .. 2
  BY DEF MainInv
<1>6. mpc' = "gpus" => cfg'.disks # <<>>
  BY <1>3
<1> HIDE DEF BeginRun, Fail
<1>7. holder' = holder /\ gpus' = gpus
  BY DEF BeginRun
<1>8. \A i \in DOMAIN targets' :
        targets'[i].wipe_len <= floor_to(Devices[targets'[i].dev].size, Super)
  BY <1>5
<1> QED BY <1>2, <1>4, <1>5, <1>6, <1>7, <1>8 DEF MainInv

LEMMA InventoryMain ==
  ASSUME MainInv, NEW ndev \in Nat, Inventory(ndev)
  PROVE  MainInv'
<1>1. cfg.gpus \in Seq(Nat) /\ IsInjective(cfg.gpus)
  BY DEF MainInv, CommandLines
<1> DEFINE all == [i \in 1 .. ndev |-> i - 1]
<1>2. all \in Seq(Nat) /\ IsInjective(all) /\ Len(all) = ndev
  <2>1. \A i \in 1 .. ndev : i - 1 \in Nat
    OBVIOUS
  <2>2. all \in [1 .. ndev -> Nat]
    BY <2>1
  <2>3. \A a, b \in 1 .. ndev : a - 1 = b - 1 => a = b
    OBVIOUS
  <2> QED BY <2>2, <2>3 DEF IsInjective
<1> HIDE DEF all
<1>3. gpus' = IF cfg.gpus = <<>> THEN all ELSE cfg.gpus
  BY DEF Inventory, all
<1>4. gpus' \in Seq(Nat) /\ IsInjective(gpus')
  BY <1>1, <1>2, <1>3
<1>5. ndev >= 1 => gpus' # <<>>
  BY <1>2, <1>3
<1>6. /\ mpc = "gpus" /\ UNCHANGED <<holder, runs, cfg, targets, w>>
      /\ \/ mpc' = "exit" /\ rc' \in 1 .. 2
         \/ mpc' = "check" /\ rc' = rc /\ ndev >= 1
  <2>1. CASE ndev < 1
    BY <2>1 DEF Inventory, Fail
  <2>2. CASE ndev >= 1 /\ (\E i \in DOMAIN gpus' : gpus'[i] >= ndev)
    BY <2>2 DEF Inventory, Fail
  <2>3. CASE ndev >= 1 /\ ~(\E i \in DOMAIN gpus' : gpus'[i] >= ndev)
    BY <2>3 DEF Inventory, Fail
  <2> QED BY <2>1, <2>2, <2>3
<1>7. targets' = <<>>
  BY <1>6 DEF MainInv
<1>8. mpc' = "check" => Len(targets') < Len(cfg'.disks)
  <2>1. cfg.disks \in Seq(DOMAIN Devices) /\ cfg.disks # <<>> /\ cfg' = cfg
    BY <1>6 DEF MainInv, CommandLines
  <2> QED BY <1>7, <2>1
<1> QED BY <1>4, <1>5, <1>6, <1>7, <1>8 DEF MainInv

LEMMA OpenDiskMain ==
  ASSUME MainInv, NEW ok, OpenDisk(ok)
  PROVE  /\ MainInv'
         /\ UNCHANGED <<cfg, w, holder, disk, medium, vdisk, vk, mism>>
         /\ \/ mpc' = "exit" /\ rc' = 1 /\ targets' = targets
            \/ /\ mpc' \in {"check", "verify", "plan"}
               /\ ~cfg.only => CanClaim(Target)
               /\ targets' = Append(targets, [dev |-> Target, wipe_len |-> WipeLen(Target)])
<1>1. /\ mpc = "open" /\ targets \in Seq(TargetType) /\ Len(targets) < Len(cfg.disks)
      /\ cfg.disks \in Seq(DOMAIN Devices) /\ gpus # <<>>
  BY DEF OpenDisk, MainInv, CommandLines
<1>2. Target \in DOMAIN Devices
  BY <1>1 DEF Target
<1>3. WipeLen(Target) \in Aligned /\ WipeLen(Target) <= floor_to(Devices[Target].size, Super)
  BY <1>2, WipeLenFits DEF MainInv
<1>4. UNCHANGED <<cfg, w, holder, disk, medium, runs, gpus, vdisk, vk, mism>>
  BY DEF OpenDisk, reporting, storage
<1>5. CASE \/ ~ok \/ (~cfg.only /\ ~CanClaim(Target))
           \/ Super % Devices[Target].sector # 0 \/ WipeLen(Target) = 0
  <2>1. mpc' = "exit" /\ rc' = 1 /\ targets' = targets
    BY <1>5 DEF OpenDisk, Fail
  <2> QED BY <1>4, <2>1 DEF MainInv
<1>6. CASE ~(\/ ~ok \/ (~cfg.only /\ ~CanClaim(Target))
             \/ Super % Devices[Target].sector # 0 \/ WipeLen(Target) = 0)
  <2> DEFINE t == [dev |-> Target, wipe_len |-> WipeLen(Target)]
  <2>1. /\ targets' = Append(targets, t)
        /\ mpc' = IF Len(targets') < Len(cfg.disks) THEN "check"
                  ELSE IF cfg.only THEN "verify" ELSE "plan"
        /\ rc' = rc
    BY <1>6 DEF OpenDisk
  <2>2. t \in TargetType
    BY <1>2, <1>3, <1>6 DEF TargetType
  <2>3. t.wipe_len <= floor_to(Devices[t.dev].size, Super)
    BY <1>3
  <2> HIDE DEF t
  <2>4. /\ targets' \in Seq(TargetType) /\ Len(targets') = Len(targets) + 1
        /\ DOMAIN targets' = 1 .. Len(targets) + 1
        /\ \A i \in DOMAIN targets' : targets'[i] = t \/ (i \in DOMAIN targets /\ targets'[i] = targets[i])
    BY <1>1, <2>1, <2>2
  <2>5. \A i \in DOMAIN targets' :
          targets'[i].wipe_len <= floor_to(Devices[targets'[i].dev].size, Super)
    BY <2>3, <2>4 DEF MainInv
  <2>6. mpc' # "check" => Len(targets') = Len(cfg.disks)
    BY <1>1, <2>1, <2>4
  <2>7. MainInv'
    BY <1>1, <1>4, <2>1, <2>4, <2>5, <2>6 DEF MainInv
  <2>8. mpc' \in {"check", "verify", "plan"} /\ (~cfg.only => CanClaim(Target))
    BY <1>6, <2>1
  <2> QED BY <1>4, <2>1, <2>7, <2>8 DEF t
<1> QED BY <1>5, <1>6

\* The run is over: nothing of it is left.
LEMMA GoneMain ==
  ASSUME MainInv, Gone
  PROVE  MainInv'
<1>1. <<>> \in Seq(Nat) /\ IsInjective(<<>>) /\ <<>> \in Seq(TargetType)
  BY DEF IsInjective
<1> QED BY <1>1, NoCfgIsCommandLine DEF MainInv, Gone

LEMMA MainStepInv ==
  ASSUME MainInv, WorkersInv, [Next]_vars
  PROVE  MainInv'
<1>1. ASSUME NEW c \in Configs, BeginRun(c) PROVE MainInv'
  BY <1>1, BeginRunMain
<1>2. ASSUME NEW ndev \in 0 .. MaxDevs, Inventory(ndev) PROVE MainInv'
  <2>1. ndev \in Nat
    BY DiskAssumption
  <2> QED BY <1>2, <2>1, InventoryMain
<1>3. ASSUME NEW b \in BOOLEAN, CheckDisk(b) PROVE MainInv'
  <2>1. /\ UNCHANGED <<holder, runs, cfg, gpus, targets, w>>
        /\ (mpc' = "exit" /\ rc' = 1) \/ (mpc = "check" /\ mpc' = "open" /\ rc' = rc)
    BY <1>3 DEF CheckDisk, Fail
  <2> QED BY <2>1 DEF MainInv
<1>4. ASSUME NEW b \in BOOLEAN, OpenDisk(b) PROVE MainInv'
  BY <1>4, OpenDiskMain
<1>5. ASSUME NEW b \in BOOLEAN, VerifyNext(b) PROVE MainInv'
  <2>1. /\ UNCHANGED <<holder, runs, cfg, gpus, targets, w, mpc>> /\ rc' \in {1, rc}
    BY <1>5 DEF VerifyNext
  <2> QED BY <2>1 DEF MainInv
<1>6. CASE Plan
  <2>1. /\ UNCHANGED <<holder, runs, cfg, gpus, targets>> /\ mpc = "plan"
        /\ \/ mpc' = "exit" /\ rc' = 1
           \/ mpc' = "run" /\ rc' = rc /\ (cfg.dry \/ cfg.confirm)
    BY <1>6 DEF Plan, Fail
  <2> QED BY <2>1 DEF MainInv
<1>7. CASE JoinWorkers \/ VerifyDone
  BY <1>7 DEF JoinWorkers, VerifyDone, MainInv
<1>8. CASE Report
  <2>1. /\ UNCHANGED <<holder, runs, cfg, gpus, targets, w>> /\ mpc = "join"
        /\ mpc' \in {"verify", "exit"} /\ rc' \in 0 .. 1
    BY <1>8 DEF Report
  <2> QED BY <2>1 DEF MainInv
<1>9. CASE VerifySample \/ FinalFrame \/ UNCHANGED vars
  <2>1. UNCHANGED <<holder, runs, cfg, gpus, targets, w, mpc, rc>>
    BY <1>9 DEF VerifySample, FinalFrame, vars
  <2> QED BY <2>1 DEF MainInv
<1>10. CASE Exit \/ Crash \/ PowerLoss
  BY <1>10, GoneMain DEF Exit, Crash, PowerLoss
<1>11. ASSUME NEW g, WorkerStep(g) PROVE MainInv'
  <2>1. UNCHANGED <<holder, runs, mpc, cfg, rc, gpus, targets>> /\ mpc = "run"
    BY <1>11, WorkerFrame
  <2> QED BY <2>1 DEF MainInv
<1>12. ASSUME NEW d \in Mountable, NEW h \in {"mount", "other"}, Release(d) \/ Hold(d, h)
       PROVE  MainInv'
  <2>1. /\ UNCHANGED <<runs, mpc, cfg, rc, gpus, targets, w>>
        /\ \E x \in InUse : holder' = [holder EXCEPT ![d] = x]
    BY <1>12 DEF Release, Hold, InUse
  <2>2. holder' \in [DOMAIN Devices -> InUse]
    BY <2>1 DEF MainInv
  <2> QED BY <2>1, <2>2 DEF MainInv
<1> QED BY <1>1, <1>2, <1>3, <1>4, <1>5, <1>6, <1>7, <1>8, <1>9, <1>10, <1>11, <1>12
        DEF Next, MainStep

LEMMA ExclusiveStep ==
  ASSUME MainInv, WorkersInv, Exclusive, [Next]_vars
  PROVE  Exclusive'
<1> DEFINE Same == UNCHANGED <<cfg, targets, holder>>
<1>1. ASSUME Same PROVE Exclusive'
  BY <1>1 DEF Exclusive, Targets, Overlaps
<1>2. ASSUME targets' = <<>> PROVE Exclusive'
  BY <1>2 DEF Exclusive, Targets
<1>3. ASSUME NEW c \in Configs, BeginRun(c) PROVE Exclusive'
  BY <1>2, <1>3 DEF BeginRun, MainInv
<1>4. ASSUME NEW ndev, Inventory(ndev) PROVE Same
  BY <1>4 DEF Inventory
<1>5. ASSUME NEW b \in BOOLEAN, CheckDisk(b) \/ VerifyNext(b) PROVE Same
  BY <1>5 DEF CheckDisk, VerifyNext
<1>6. ASSUME NEW b \in BOOLEAN, OpenDisk(b) PROVE Exclusive'
  <2>1. UNCHANGED <<cfg, holder>>
    BY <1>6, OpenDiskMain
  <2>2. CASE targets' = targets
    BY <1>1, <2>1, <2>2
  <2>3. CASE targets' # targets
    <3> DEFINE t == [dev |-> Target, wipe_len |-> WipeLen(Target)]
    <3>1. targets' = Append(targets, t) /\ (~cfg.only => CanClaim(Target))
      BY <1>6, <2>3, OpenDiskMain
    <3>2. targets \in Seq(TargetType) /\ t.dev = Target
      BY DEF MainInv
    <3> HIDE DEF t
    <3>3. /\ DOMAIN targets' = 1 .. Len(targets) + 1
          /\ \A i \in DOMAIN targets' : \/ i = Len(targets) + 1 /\ targets'[i] = t
                                        \/ i \in DOMAIN targets /\ targets'[i] = targets[i]
      BY <3>1, <3>2
    <3> SUFFICES ASSUME ~cfg.only PROVE Exclusive'
      BY <2>1 DEF Exclusive
    <3>4. \A c \in Claimed : ~Overlaps(c, Target) /\ ~Overlaps(Target, c)
      BY <3>1 DEF CanClaim, Overlaps
    <3>5. \A o \in DOMAIN Devices : holder[o] # "no" => ~Overlaps(Target, o)
      BY <3>4 DEF Claimed
    <3>6. \A i \in DOMAIN targets :
            ~Overlaps(targets[i].dev, Target) /\ ~Overlaps(Target, targets[i].dev)
      BY <3>4 DEF Claimed
    <3>7. \A i \in DOMAIN targets : \A o \in DOMAIN Devices :
            holder[o] # "no" => ~Overlaps(targets[i].dev, o)
      BY DEF Exclusive, Targets
    <3>8. \A i \in DOMAIN targets' : \A o \in DOMAIN Devices :
            holder'[o] # "no" => ~Overlaps(targets'[i].dev, o)
      BY <2>1, <3>2, <3>3, <3>5, <3>7
    <3>9. \A i, j \in DOMAIN targets' :
            i # j => ~Overlaps(targets'[i].dev, targets'[j].dev)
      BY <3>2, <3>3, <3>6 DEF Exclusive
    <3> QED BY <3>8, <3>9 DEF Exclusive, Targets, Overlaps
  <2> QED BY <2>2, <2>3
<1>7. CASE Plan \/ JoinWorkers \/ VerifyDone \/ Report \/ VerifySample \/ FinalFrame
             \/ UNCHANGED vars
  <2>1. Same
    BY <1>7 DEF Plan, JoinWorkers, VerifyDone, Report, VerifySample, FinalFrame, vars
  <2> QED BY <1>1, <2>1
<1>8. CASE Exit \/ Crash \/ PowerLoss
  BY <1>2, <1>8 DEF Exit, Crash, PowerLoss, Gone
<1>9. ASSUME NEW g, WorkerStep(g) PROVE Same
  BY <1>9, WorkerFrame
<1>10. ASSUME NEW d \in Mountable, Release(d) PROVE Exclusive'
  <2>1. UNCHANGED <<cfg, targets>> /\ holder' = [holder EXCEPT ![d] = "no"]
    BY <1>10 DEF Release
  <2>2. \A o \in DOMAIN Devices : holder'[o] # "no" => holder[o] # "no"
    BY <2>1 DEF MainInv
  <2> QED BY <2>1, <2>2 DEF Exclusive, Targets, Overlaps
<1>11. ASSUME NEW d \in Mountable, NEW h \in {"mount", "other"}, Hold(d, h) PROVE Exclusive'
  <2>1. UNCHANGED <<cfg, targets>> /\ holder' = [holder EXCEPT ![d] = h] /\ CanClaim(d)
    BY <1>11 DEF Hold
  <2>2. \A o \in DOMAIN Devices : holder'[o] # "no" => holder[o] # "no" \/ o = d
    BY <2>1 DEF MainInv
  <2>3. ~cfg.only => \A c \in Targets : ~Overlaps(c, d)
    BY <2>1 DEF CanClaim, Claimed, Targets
  <2>4. Targets' = Targets
    BY <2>1 DEF Targets
  <2> QED BY <2>1, <2>2, <2>3, <2>4 DEF Exclusive, Overlaps
<1> QED BY <1>1, <1>3, <1>4, <1>5, <1>6, <1>7, <1>8, <1>9, <1>10, <1>11 DEF Next, MainStep

----------------------------------------------------------------------------
(* The workers that Plan starts.                                            *)

LEMMA PlanStarts ==
  ASSUME MainInv, Plan, mpc' = "run"
  PROVE  /\ Scheduled
         /\ \E order \in Orders : w' = Workers(order)
         /\ UNCHANGED <<storage, holder, runs, cfg, gpus, targets, vdisk, vk, mism>>
<1>1. mpc = "plan"
  BY DEF Plan
<1>2. Scheduled
  BY <1>1 DEF Scheduled, MainInv, CommandLines
<1> QED BY <1>2 DEF Plan, Fail, StartWorkers

LEMMA PlanItems ==
  ASSUME MainInv, Exclusive, Plan, mpc' = "run"
  PROVE  ItemsInv'
<1>1. PICK order \in Orders : w' = Workers(order)
  BY PlanStarts
<1>2. Scheduled /\ targets' = targets
  BY PlanStarts
<1>3. \A a, b \in DOMAIN targets : targets[a].dev = targets[b].dev => a = b
  BY DEF Exclusive, Overlaps, Plan, MainInv
<1>4. ASSUME NEW g \in DOMAIN w', NEW k \in DOMAIN w'[g].items
      PROVE  \E d \in DOMAIN targets' :
               /\ w'[g].items[k].dev = targets'[d].dev
               /\ w'[g].items[k].off + w'[g].items[k].len <= targets'[d].wipe_len
  BY <1>1, <1>2, ItemsFit
<1>5. ASSUME NEW g \in DOMAIN w' PROVE Len(w'[g].items) <= Len(targets')
  BY <1>1, <1>2, ItemsFit
<1>6. ASSUME NEW d \in DOMAIN targets', NEW u \in 0 .. targets'[d].wipe_len - 1
      PROVE  \E g \in DOMAIN w' : \E k \in DOMAIN w'[g].items :
               w'[g].items[k].dev = targets'[d].dev /\ Holds(w'[g].items[k], u)
  BY <1>1, <1>2, ItemsCover
<1>7. ASSUME NEW g \in DOMAIN w', NEW h \in DOMAIN w',
             NEW k \in DOMAIN w'[g].items, NEW m \in DOMAIN w'[h].items, NEW u \in Nat,
             w'[g].items[k].dev = w'[h].items[m].dev,
             Holds(w'[g].items[k], u), Holds(w'[h].items[m], u)
      PROVE  g = h /\ k = m
  <2>1. /\ g \in DOMAIN Workers(order) /\ h \in DOMAIN Workers(order)
        /\ k \in DOMAIN Workers(order)[g].items /\ m \in DOMAIN Workers(order)[h].items
        /\ Workers(order)[g].items[k].dev = Workers(order)[h].items[m].dev
        /\ Holds(Workers(order)[g].items[k], u) /\ Holds(Workers(order)[h].items[m], u)
    BY <1>1, <1>7
  <2> QED BY <1>2, <1>3, <2>1, ItemsDisjoint
<1> QED BY <1>4, <1>5, <1>6, <1>7 DEF ItemsInv, Holds

LEMMA PlanWorkers ==
  ASSUME MainInv, Plan, mpc' = "run"
  PROVE  /\ \A g \in DOMAIN w' : WorkerInv(w'[g]) /\ w'[g] = NewWorker(w'[g].items)
         /\ cfg' = cfg
<1>1. PICK order \in Orders : w' = Workers(order)
  BY PlanStarts
<1>2. ASSUME NEW g \in DOMAIN w' PROVE WorkerInv(w'[g]) /\ w'[g] = NewWorker(w'[g].items)
  <2> DEFINE its == w'[g].items
  <2>1. its \in Seq(ItemType) /\ w'[g] = NewWorker(its)
    BY <1>1, PlanStarts, ItemsFit
  <2> HIDE DEF its
  <2>2. 0 \in Aligned
    BY AlignedUnits
  <2>3. WorkerTypes(NewWorker(its))
    BY <2>1, <2>2 DEF WorkerTypes, WorkerFields, NewWorker
  <2>4. WorkerInv(NewWorker(its))
    BY <2>3 DEF WorkerInv, NewWorker
  <2> QED BY <2>1, <2>4 DEF its
<1>3. cfg' = cfg
  BY PlanStarts
<1> QED BY <1>2, <1>3

LEMMA ItemsStep ==
  ASSUME MainInv, WorkersInv, Exclusive, ItemsInv, [Next]_vars
  PROVE  ItemsInv'
<1> SUFFICES ASSUME mpc' \in {"run", "join"} PROVE ItemsInv'
  BY DEF ItemsInv
<1>1. ASSUME mpc \in {"run", "join"}, targets' = targets, DOMAIN w' = DOMAIN w,
             \A g \in DOMAIN w : w'[g].items = w[g].items
      PROVE  ItemsInv'
  <2>1. \A g \in DOMAIN w' : \A k \in DOMAIN w'[g].items : \E d \in DOMAIN targets' :
          /\ w'[g].items[k].dev = targets'[d].dev
          /\ w'[g].items[k].off + w'[g].items[k].len <= targets'[d].wipe_len
    BY <1>1 DEF ItemsInv
  <2>2. \A g \in DOMAIN w' : Len(w'[g].items) <= Len(targets')
    BY <1>1 DEF ItemsInv
  <2>3. ASSUME NEW d \in DOMAIN targets', NEW u \in 0 .. targets'[d].wipe_len - 1
        PROVE  \E g \in DOMAIN w' : \E k \in DOMAIN w'[g].items :
                 w'[g].items[k].dev = targets'[d].dev /\ Holds(w'[g].items[k], u)
    <3>1. PICK g \in DOMAIN w : \E k \in DOMAIN w[g].items :
                 w[g].items[k].dev = targets[d].dev /\ Holds(w[g].items[k], u)
      BY <1>1, <2>3 DEF ItemsInv
    <3> QED BY <1>1, <3>1
  <2>4. ASSUME NEW g \in DOMAIN w', NEW h \in DOMAIN w',
               NEW k \in DOMAIN w'[g].items, NEW m \in DOMAIN w'[h].items, NEW u \in Nat,
               w'[g].items[k].dev = w'[h].items[m].dev,
               Holds(w'[g].items[k], u), Holds(w'[h].items[m], u)
        PROVE  g = h /\ k = m
    <3>1. w'[g].items = w[g].items /\ w'[h].items = w[h].items
      BY <1>1, <2>4
    <3>2. /\ g \in DOMAIN w /\ h \in DOMAIN w
          /\ k \in DOMAIN w[g].items /\ m \in DOMAIN w[h].items
          /\ w[g].items[k].dev = w[h].items[m].dev
          /\ Holds(w[g].items[k], u) /\ Holds(w[h].items[m], u)
      BY <1>1, <2>4, <3>1
    <3> QED BY <1>1, <3>2 DEF ItemsInv
  <2> QED BY <2>1, <2>2, <2>3, <2>4 DEF ItemsInv, Holds
<1>2. ASSUME mpc \in {"run", "join"}, UNCHANGED <<targets, w>> PROVE ItemsInv'
  BY <1>1, <1>2
<1>3. ASSUME NEW c \in Configs, BeginRun(c) PROVE FALSE
  BY <1>3 DEF BeginRun, Fail
<1>4. ASSUME NEW ndev, Inventory(ndev) PROVE FALSE
  <2>1. mpc' \in {"exit", "check"}
    <3>1. CASE ndev < 1
      BY <1>4, <3>1 DEF Inventory, Fail
    <3>2. CASE ndev >= 1 /\ (\E i \in DOMAIN gpus' : gpus'[i] >= ndev)
      BY <1>4, <3>2 DEF Inventory, Fail
    <3>3. CASE ~(ndev < 1) /\ ~(ndev >= 1 /\ (\E i \in DOMAIN gpus' : gpus'[i] >= ndev))
      BY <1>4, <3>3 DEF Inventory, Fail
    <3> QED BY <3>1, <3>2, <3>3
  <2> QED BY <2>1
<1>5. ASSUME NEW b \in BOOLEAN, CheckDisk(b) \/ VerifyNext(b) \/ OpenDisk(b) PROVE FALSE
  BY <1>5 DEF CheckDisk, VerifyNext, OpenDisk, Fail
<1>6. CASE Plan
  BY <1>6, PlanItems DEF Plan, Fail
<1>7. CASE JoinWorkers \/ FinalFrame \/ UNCHANGED vars
  <2>1. mpc \in {"run", "join"} /\ UNCHANGED <<targets, w>>
    BY <1>7 DEF JoinWorkers, FinalFrame, vars
  <2> QED BY <1>2, <2>1
<1>8. CASE VerifyDone \/ Report \/ VerifySample \/ Exit \/ Crash \/ PowerLoss
  BY <1>8 DEF VerifyDone, Report, VerifySample, Exit, Crash, PowerLoss, Gone
<1>9. ASSUME NEW g, WorkerStep(g) PROVE ItemsInv'
  BY <1>1, <1>9, WorkerFrame
<1>10. ASSUME NEW d, NEW h, Release(d) \/ Hold(d, h) PROVE ItemsInv'
  <2>1. mpc \in {"run", "join"} /\ UNCHANGED <<targets, w>>
    BY <1>10 DEF Release, Hold
  <2> QED BY <1>2, <2>1
<1> QED BY <1>3, <1>4, <1>5, <1>6, <1>7, <1>8, <1>9, <1>10 DEF Next, MainStep

----------------------------------------------------------------------------
(* One worker.                                                              *)

\* The item in progress.
LEMMA ItemInProgress ==
  ASSUME NEW h, WorkerTypes(h), h.i \in DOMAIN h.items
  PROVE  /\ h.items[h.i] \in ItemType
         /\ h.items[h.i].off \in Aligned /\ h.items[h.i].off \in Nat
         /\ h.items[h.i].len \in Aligned /\ h.items[h.i].len \in Nat
         /\ h.items[h.i].dev \in DOMAIN Devices
<1>1. h.items[h.i] \in ItemType
  BY DEF WorkerTypes
<1>2. /\ h.items[h.i].off \in Aligned /\ h.items[h.i].len \in Aligned
      /\ h.items[h.i].dev \in DOMAIN Devices
  BY <1>1 DEF ItemType
<1> QED BY <1>1, <1>2, AlignedUnits

\* Aligned numbers are numbers.
LEMMA WorkerNumbers ==
  ASSUME NEW h, WorkerTypes(h)
  PROVE  /\ h.window \in Nat /\ h.stage \in Nat /\ h.pos \in Nat /\ h.s \in Nat
         /\ h.win \in Nat /\ h.done \in Nat /\ h.i \in Nat /\ Len(h.items) \in Nat
BY AlignedUnits DEF WorkerTypes

LEMMA SetupWorker ==
  ASSUME MainInv, NEW g, g \in DOMAIN w, WorkerInv(w[g]), NEW avail \in Nat,
         NEW ok \in BOOLEAN, WorkerSetup(g, avail, ok)
  PROVE  /\ WorkerInv(w'[g]) /\ w'[g].pc \in {"done", "item"}
         /\ w'[g].ok => w'[g].i = 1
<1> DEFINE h == w[g]
           items == h.items
           request == IF cfg.window > 0 THEN cfg.window ELSE avail
           max_item == Max({items[i].len : i \in DOMAIN items})
           window == WindowSize(request, max_item)
<1>1. WorkerInv(h) /\ h.pc = "setup" /\ WorkerTypes(h) /\ h.i = 1
  BY DEF WorkerSetup, At, WorkerInv
<1>2. CASE ~ok
  <2>1. w'[g] = [h EXCEPT !.pc = "done", !.ok = FALSE]
    BY <1>2 DEF WorkerSetup, Goto
  <2> QED BY <1>1, <2>1 DEF WorkerInv, WorkerTypes, WorkerFields
<1>3. CASE ok /\ items = <<>>
  <2>1. w'[g] = [h EXCEPT !.pc = "done"]
    BY <1>3 DEF WorkerSetup, Goto
  <2>2. Len(items) = 0
    BY <1>3
  <2> QED BY <1>1, <2>1, <2>2 DEF WorkerInv, WorkerTypes, WorkerFields
<1>4. CASE ok /\ items # <<>>
  <2>1. w'[g] = [h EXCEPT !.pc = "item", !.window = window, !.stage = StageSize(window)]
    BY <1>4 DEF WorkerSetup, Goto
  <2>2. max_item \in Nat
    <3> DEFINE n == Len(items)
               f == [i \in 1 .. n |-> items[i].len]
    <3>1. items \in Seq(ItemType) /\ n \in Nat \ {0} /\ DOMAIN items = 1 .. n
      BY <1>1, <1>4 DEF WorkerTypes
    <3>2. \A i \in 1 .. n : items[i].len \in Nat
      <4>1. \A i \in 1 .. n : items[i] \in ItemType
        BY <3>1
      <4> QED BY <4>1, AlignedUnits DEF ItemType
    <3> HIDE DEF items, n
    <3>3. f \in [1 .. n -> Nat]
      BY <3>2
    <3>4. Max({f[i] : i \in 1 .. n}) \in Nat
      BY <3>1, <3>3, MaxOfList
    <3>5. {f[i] : i \in 1 .. n} = {items[i].len : i \in DOMAIN items}
      BY <3>1
    <3> QED BY <3>4, <3>5
  <2>3. request \in Nat /\ cfg.stage \in Nat
    BY DEF MainInv, CommandLines
  <2> HIDE DEF max_item, request
  <2>4. window \in Aligned /\ window > 0
    <3> DEFINE m == Min({request, max_item})
               v == floor_to(m, Super)
    <3>1. m \in Nat
      <4>1. request \in Int /\ max_item \in Int
        BY <2>2, <2>3
      <4>2. m \in {request, max_item}
        BY <4>1, MinOfTwo
      <4> QED BY <2>2, <2>3, <4>2
    <3>2. v \in Aligned /\ Super \in Aligned
      BY <3>1, FloorTo, AlignedUnits
    <3>4. window = Max({Super, v})
      BY DEF WindowSize
    <3> HIDE DEF v
    <3>3. v \in Int /\ Super \in Int /\ Super > 0
      BY <3>2, AlignedUnits, DiskAssumption
    <3>5. Max({Super, v}) \in {Super, v} /\ Max({Super, v}) >= Super
      BY <3>3, MaxOfTwo
    <3> QED BY <3>2, <3>3, <3>4, <3>5
  <2> HIDE DEF window
  <2>5. StageSize(window) \in Aligned /\ StageSize(window) > 0
    <3> DEFINE v == floor_to(cfg.stage, Super)
               x == Max({Super, v})
    <3>1. v \in Aligned /\ Super \in Aligned
      BY <2>3, FloorTo, AlignedUnits
    <3> HIDE DEF v
    <3>2. v \in Int /\ Super \in Int /\ Super > 0
      BY <3>1, AlignedUnits, DiskAssumption
    <3>3. x \in {Super, v} /\ x >= Super
      BY <3>2, MaxOfTwo
    <3>4. x \in Aligned /\ x > 0 /\ x \in Int /\ window \in Int
      BY <2>4, <3>1, <3>2, <3>3, AlignedUnits
    <3> HIDE DEF x
    <3>5. Min({window, x}) \in {window, x}
      BY <3>4, MinOfTwo
    <3>6. StageSize(window) = Min({window, x})
      BY DEF StageSize, x, v
    <3> QED BY <2>4, <3>4, <3>5, <3>6
  <2> QED BY <1>1, <2>1, <2>4, <2>5 DEF WorkerInv, WorkerTypes, WorkerFields
<1> QED BY <1>2, <1>3, <1>4

LEMMA NextItemWorker ==
  ASSUME NEW g, g \in DOMAIN w, WorkerInv(w[g]), NextItem(g)
  PROVE  WorkerInv(w'[g])
<1> DEFINE h == w[g]
<1>1. WorkerInv(h) /\ h.pc = "item" /\ WorkerTypes(h)
  BY DEF NextItem, At, WorkerInv
<1>2. h.i \in Nat \ {0} /\ h.items \in Seq(ItemType)
  BY <1>1 DEF WorkerTypes
<1>3. CASE ~h.ok \/ h.i > Len(h.items)
  <2>1. w'[g] = [h EXCEPT !.pc = "done", !.buf = <<>>, !.slice = <<>>]
    BY <1>3 DEF NextItem, Goto
  <2> QED BY <1>1, <1>3, <2>1 DEF WorkerInv, WorkerTypes, WorkerFields
<1>4. CASE ~(~h.ok \/ h.i > Len(h.items))
  <2>1. w'[g] = [h EXCEPT !.pc = "label", !.pos = 0]
    BY <1>4 DEF NextItem, Goto
  <2>2. h.i \in DOMAIN h.items
    BY <1>2, <1>4
  <2>3. 0 \in Aligned /\ 0 <= h.items[h.i].len
    BY <1>1, <2>2, ItemInProgress, AlignedUnits
  <2> QED BY <1>1, <2>1, <2>2, <2>3 DEF WorkerInv, WorkerTypes, WorkerFields
<1> QED BY <1>3, <1>4

\* The window is cut to what is left of the item; nothing is left when it is empty.
LEMMA LabelWindowEffect ==
  ASSUME NEW g, g \in DOMAIN w, WorkerInv(w[g]), NEW ok \in BOOLEAN, LabelWindow(g, ok)
  PROVE  LET h  == w[g]
             it == h.items[h.i]
         IN  /\ h.pc = "label"
             /\ \/ /\ h.pos = it.len /\ h.ok /\ ~cfg.dry
                   /\ w'[g] = [h EXCEPT !.pc = "flush"]
                \/ /\ h.pos = it.len /\ ~(h.ok /\ ~cfg.dry)
                   /\ w'[g] = [h EXCEPT !.pc = "item", !.i = @ + 1]
                \/ \E win \in Aligned :
                     /\ win > 0 /\ h.pos + win <= it.len
                     /\ w'[g] = [h EXCEPT !.pc = "slice", !.win = win, !.s = 0,
                                  !.buf = [u \in 0 .. win - 1 |-> <<cfg.seed, it.off + h.pos + u>>]]
                \/ w'[g] = [h EXCEPT !.pc = "item", !.i = @ + 1, !.ok = FALSE]
<1> DEFINE h == w[g]
           it == h.items[h.i]
           rest == it.len - h.pos
           win == floor_to(Min({h.window, rest}), Super)
           rbo == it.off + h.pos
<1>1. h.pc = "label" /\ WorkerTypes(h) /\ h.i \in DOMAIN h.items
      /\ h.window > 0 /\ h.pos <= it.len
  BY DEF LabelWindow, At, WorkerInv
<1>2. it.off \in Aligned /\ it.len \in Aligned /\ it.off \in Nat /\ it.len \in Nat
  BY <1>1, ItemInProgress
<1>3. h.pos \in Aligned /\ h.window \in Aligned /\ h.pos \in Nat /\ h.window \in Nat
  BY <1>1, WorkerNumbers DEF WorkerTypes
<1>4. w'[g] = IF win = 0 THEN AfterWindows(h)
              ELSE IF ok
              THEN [h EXCEPT !.pc = "slice", !.win = win, !.s = 0,
                             !.buf = [u \in 0 .. win - 1 |-> Labelled(rbo, u)]]
              ELSE [h EXCEPT !.pc = "item", !.i = @ + 1, !.ok = FALSE]
  BY DEF LabelWindow, Goto, Item, RegionBlockOffset
<1> HIDE DEF h, it
<1>5. rest \in Aligned /\ rest \in Nat
  BY <1>1, <1>2, <1>3, AlignedRest
<1>6. rbo \in Aligned /\ rbo \in Nat
  BY <1>2, <1>3, AlignedSum
<1> HIDE DEF rest, rbo
<1>7. win \in Aligned /\ win \in Nat /\ win <= rest /\ (win = 0 => rest = 0)
  <2> DEFINE m == Min({h.window, rest})
  <2>1. h.window \in Int /\ rest \in Int
    BY <1>3, <1>5
  <2>2. m \in {h.window, rest} /\ m <= rest
    BY <2>1, MinOfTwo
  <2>3. m \in Aligned /\ m \in Nat
    BY <1>3, <1>5, <2>2
  <2> HIDE DEF m
  <2>4. floor_to(m, Super) = m
    BY <2>3, FloorTo
  <2>5. win = m
    BY <2>4 DEF m
  <2> QED BY <1>1, <1>3, <2>2, <2>3, <2>5
<1> HIDE DEF win
<1>8. CASE win = 0
  <2>1. h.pos = it.len
    BY <1>2, <1>3, <1>7, <1>8 DEF rest
  <2>2. w'[g] = AfterWindows(h)
    BY <1>4, <1>8
  <2> QED BY <1>1, <2>1, <2>2 DEF AfterWindows, h, it
<1>9. CASE win # 0 /\ ok
  <2>1. win > 0 /\ h.pos + win <= it.len
    BY <1>2, <1>3, <1>7, <1>9 DEF rest
  <2>2. \A u \in 0 .. win - 1 : Labelled(rbo, u) = <<cfg.seed, it.off + h.pos + u>>
    <3>1. \A u \in 0 .. win - 1 : u \in Nat
      BY <1>7
    <3> QED BY <1>6, <3>1, LabelledAt DEF rbo
  <2>3. [u \in 0 .. win - 1 |-> Labelled(rbo, u)]
          = [u \in 0 .. win - 1 |-> <<cfg.seed, it.off + h.pos + u>>]
    BY <2>2
  <2>4. w'[g] = [h EXCEPT !.pc = "slice", !.win = win, !.s = 0,
                   !.buf = [u \in 0 .. win - 1 |-> <<cfg.seed, it.off + h.pos + u>>]]
    BY <1>4, <1>9, <2>3
  <2> QED BY <1>1, <1>7, <2>1, <2>4 DEF h, it
<1>10. CASE win # 0 /\ ~ok
  BY <1>1, <1>4, <1>10 DEF h, it
<1> QED BY <1>8, <1>9, <1>10

LEMMA LabelWorker ==
  ASSUME NEW g, g \in DOMAIN w, WorkerInv(w[g]), NEW ok \in BOOLEAN, LabelWindow(g, ok)
  PROVE  WorkerInv(w'[g])
<1> DEFINE h == w[g]
           it == h.items[h.i]
<1>1. WorkerInv(h) /\ WorkerTypes(h) /\ h.pc = "label"
  BY LabelWindowEffect DEF WorkerInv
<1>2. CASE h.ok /\ ~cfg.dry /\ w'[g] = [h EXCEPT !.pc = "flush"]
  BY <1>1, <1>2 DEF WorkerInv, WorkerTypes, WorkerFields
<1>3. CASE w'[g] = [h EXCEPT !.pc = "item", !.i = @ + 1]
  BY <1>1, <1>3 DEF WorkerInv, WorkerTypes, WorkerFields
<1>4. ASSUME NEW win \in Aligned, win > 0, h.pos + win <= it.len,
             w'[g] = [h EXCEPT !.pc = "slice", !.win = win, !.s = 0,
                        !.buf = [u \in 0 .. win - 1 |-> <<cfg.seed, it.off + h.pos + u>>]]
      PROVE  WorkerInv(w'[g])
  <2>1. 0 \in Aligned
    BY AlignedUnits
  <2> QED BY <1>1, <1>4, <2>1 DEF WorkerInv, WorkerTypes, WorkerFields
<1>5. CASE w'[g] = [h EXCEPT !.pc = "item", !.i = @ + 1, !.ok = FALSE]
  BY <1>1, <1>5 DEF WorkerInv, WorkerTypes, WorkerFields
<1> QED BY <1>2, <1>3, <1>4, <1>5, LabelWindowEffect

\* The slice is not empty and inside the window.
LEMMA SliceLenRange ==
  ASSUME NEW h, WorkerTypes(h), h.stage > 0, h.s < h.win
  PROVE  /\ SliceLen(h) \in Nat \ {0} /\ SliceLen(h) <= h.win - h.s
         /\ SliceLen(h) <= h.stage /\ SliceLen(h) \in {h.stage, h.win - h.s}
<1> DEFINE rest == h.win - h.s
<1>1. h.stage \in Nat /\ h.win \in Nat /\ h.s \in Nat
  BY WorkerNumbers
<1>2. rest \in Int /\ h.stage \in Int /\ rest > 0
  BY <1>1
<1> HIDE DEF rest
<1>3. Min({h.stage, rest}) \in {h.stage, rest} /\ Min({h.stage, rest}) <= h.stage
      /\ Min({h.stage, rest}) <= rest
  BY <1>2, MinOfTwo
<1>4. SliceLen(h) = Min({h.stage, rest})
  BY DEF SliceLen, rest
<1>5. SliceLen(h) \in Nat \ {0}
  BY <1>1, <1>2, <1>3, <1>4
<1> QED BY <1>3, <1>4, <1>5 DEF rest

LEMMA CopySliceEffect ==
  ASSUME NEW g, g \in DOMAIN w, WorkerInv(w[g]), NEW ok \in BOOLEAN, CopySlice(g, ok)
  PROVE  LET h == w[g]
         IN  /\ h.pc = "slice"
             /\ \/ /\ h.s >= h.win \/ ~h.ok
                   /\ w'[g] = [h EXCEPT !.pc = "label", !.pos = @ + h.win]
                \/ w'[g] = [h EXCEPT !.ok = FALSE]
                \/ cfg.dry /\ w'[g] = [h EXCEPT !.s = @ + h.stage]
                \/ /\ h.s < h.win /\ h.ok /\ ~cfg.dry
                   /\ w'[g] = [h EXCEPT !.pc = "write", !.done = 0, !.slice = SliceLabels(h)]
<1> DEFINE h == w[g]
           it == h.items[h.i]
           len == SliceLen(h)
<1>1. /\ h.pc = "slice" /\ WorkerTypes(h) /\ h.i \in DOMAIN h.items /\ h.stage > 0
      /\ h.buf = [u \in 0 .. h.win - 1 |-> <<cfg.seed, it.off + h.pos + u>>]
  BY DEF CopySlice, At, WorkerInv
<1>2. w'[g] = IF h.s >= h.win \/ ~h.ok
              THEN [h EXCEPT !.pc = "label", !.pos = @ + h.win]
              ELSE IF ~ok THEN [h EXCEPT !.ok = FALSE]
              ELSE IF cfg.dry THEN [h EXCEPT !.s = @ + h.stage]
              ELSE [h EXCEPT !.pc = "write", !.done = 0,
                             !.slice = [u \in 0 .. len - 1 |-> h.buf[h.s + u]]]
  BY DEF CopySlice, Goto, SliceLen
<1>3. h.s \in Nat /\ h.win \in Nat /\ h.pos \in Nat /\ it.off \in Nat
  BY <1>1, ItemInProgress, WorkerNumbers
<1>4. CASE ~(h.s >= h.win \/ ~h.ok) /\ ok /\ ~cfg.dry
  <2>1. h.s < h.win
    BY <1>3, <1>4
  <2>2. len \in Nat \ {0} /\ len <= h.win - h.s
    BY <1>1, <2>1, SliceLenRange
  <2> HIDE DEF h, it, len
  <2>3. \A u \in 0 .. len - 1 : h.buf[h.s + u] = <<cfg.seed, it.off + h.pos + h.s + u>>
    <3> SUFFICES ASSUME NEW u \in 0 .. len - 1
                 PROVE  h.buf[h.s + u] = <<cfg.seed, it.off + h.pos + h.s + u>>
      OBVIOUS
    <3>1. h.s + u \in 0 .. h.win - 1
      BY <1>3, <2>2
    <3>2. h.buf[h.s + u] = <<cfg.seed, it.off + h.pos + (h.s + u)>>
      BY <1>1, <3>1
    <3>3. it.off + h.pos + (h.s + u) = it.off + h.pos + h.s + u
      BY <1>3, <2>2
    <3> QED BY <3>2, <3>3
  <2>4. [u \in 0 .. len - 1 |-> h.buf[h.s + u]]
          = [u \in 0 .. len - 1 |-> <<cfg.seed, it.off + h.pos + h.s + u>>]
    BY <2>3
  <2>5. w'[g] = [h EXCEPT !.pc = "write", !.done = 0,
                   !.slice = [u \in 0 .. len - 1 |-> <<cfg.seed, it.off + h.pos + h.s + u>>]]
    BY <1>2, <1>4, <2>4
  <2> QED BY <1>1, <1>4, <2>1, <2>5 DEF h, it, len, SliceLabels
<1>5. CASE ~(~(h.s >= h.win \/ ~h.ok) /\ ok /\ ~cfg.dry)
  BY <1>1, <1>2, <1>5
<1> QED BY <1>4, <1>5

LEMMA CopyWorker ==
  ASSUME NEW g, g \in DOMAIN w, WorkerInv(w[g]), NEW ok \in BOOLEAN, CopySlice(g, ok)
  PROVE  WorkerInv(w'[g])
<1> DEFINE h == w[g]
           it == h.items[h.i]
<1>1. WorkerInv(h) /\ WorkerTypes(h) /\ h.pc = "slice" /\ h.stage > 0
  BY CopySliceEffect DEF WorkerInv
<1>2. h.pos + h.win \in Aligned /\ h.s + h.stage \in Aligned
  BY <1>1, AlignedSum DEF WorkerTypes
<1>3. CASE w'[g] = [h EXCEPT !.pc = "label", !.pos = @ + h.win]
  BY <1>1, <1>2, <1>3 DEF WorkerInv, WorkerTypes, WorkerFields
<1>4. CASE w'[g] = [h EXCEPT !.ok = FALSE]
  BY <1>1, <1>4 DEF WorkerInv, WorkerTypes, WorkerFields
<1>5. CASE w'[g] = [h EXCEPT !.s = @ + h.stage]
  BY <1>1, <1>2, <1>5 DEF WorkerInv, WorkerTypes, WorkerFields
<1>6. CASE /\ h.s < h.win /\ h.ok /\ ~cfg.dry
           /\ w'[g] = [h EXCEPT !.pc = "write", !.done = 0, !.slice = SliceLabels(h)]
  <2>1. SliceLen(h) \in Nat \ {0}
    BY <1>1, <1>6, SliceLenRange
  <2>2. SliceLen(w'[g]) = SliceLen(h)
    BY <1>1, <1>6 DEF SliceLen, WorkerTypes, WorkerFields
  <2>3. WorkerTypes(w'[g])
    <3> DEFINE sl == SliceLabels(h)
    <3>1. w'[g] = [h EXCEPT !.pc = "write", !.done = 0, !.slice = sl]
      BY <1>6
    <3> HIDE DEF sl
    <3> QED BY <1>1, <3>1 DEF WorkerTypes, WorkerFields
  <2> QED BY <1>1, <1>6, <2>1, <2>2, <2>3 DEF WorkerInv, WorkerTypes, WorkerFields, SliceLabels
<1> QED BY <1>3, <1>4, <1>5, <1>6, CopySliceEffect

\* pwrite is given the rest of the slice.
LEMMA WriteSomeEffect ==
  ASSUME NEW g, g \in DOMAIN w, WorkerInv(w[g]), NEW n \in Nat, WriteSome(g, n)
  PROVE  LET h == w[g]
         IN  /\ h.pc = "write" /\ h.done + n <= SliceLen(h) /\ Written(g, n)
             /\ \/ /\ h.done + n < SliceLen(h)
                   /\ w'[g] = [h EXCEPT !.done = @ + n]
                \/ /\ h.done + n = SliceLen(h)
                   /\ w'[g] = [h EXCEPT !.pc = "slice", !.s = @ + h.stage]
<1> DEFINE h == w[g]
           len == SliceLen(h)
<1>1. /\ h.pc = "write" /\ WorkerTypes(h) /\ h.stage > 0 /\ h.s < h.win
      /\ DOMAIN h.slice = 0 .. len - 1 /\ h.done \in Nat
  BY DEF WriteSome, At, WorkerInv, WorkerTypes
<1>2. len \in Nat \ {0}
  BY <1>1, SliceLenRange
<1>3. Cardinality(DOMAIN h.slice) = len
  <2>1. Cardinality(0 .. len - 1) = len
    <3> HIDE DEF len
    <3>1. len - 1 \in Int /\ 0 \in Int /\ ~(0 > len - 1)
      BY <1>2
    <3>2. Cardinality(0 .. len - 1) = IF 0 > len - 1 THEN 0 ELSE (len - 1) - 0 + 1
      BY ONLY <3>1, FS_Interval
    <3> QED BY <1>2, <3>1, <3>2
  <2> QED BY <1>1, <2>1
<1>4. h.done + n <= len /\ Written(g, n)
  BY <1>3 DEF WriteSome
<1>5. w'[g] = IF h.done + n < len THEN [h EXCEPT !.done = @ + n]
              ELSE [h EXCEPT !.pc = "slice", !.s = @ + h.stage]
  BY <1>3 DEF WriteSome, Goto
<1> HIDE DEF len
<1>6. h.done + n < len \/ h.done + n = len
  BY <1>1, <1>2, <1>4
<1> QED BY <1>1, <1>4, <1>5, <1>6 DEF len

LEMMA WriteWorker ==
  ASSUME NEW g, g \in DOMAIN w, WorkerInv(w[g]), NEW n \in Nat, WriteSome(g, n)
  PROVE  WorkerInv(w'[g])
<1> DEFINE h == w[g]
<1>1. WorkerInv(h) /\ WorkerTypes(h) /\ h.pc = "write"
  BY WriteSomeEffect DEF WorkerInv
<1>2. h.s + h.stage \in Aligned /\ h.done + n \in Nat
  <2>1. h.s \in Aligned /\ h.stage \in Aligned /\ h.done \in Nat
    BY <1>1 DEF WorkerTypes
  <2> QED BY <2>1, AlignedSum
<1>3. CASE h.done + n < SliceLen(h) /\ w'[g] = [h EXCEPT !.done = @ + n]
  <2>1. SliceLen(w'[g]) = SliceLen(h)
    BY <1>1, <1>3 DEF SliceLen, WorkerTypes, WorkerFields
  <2>2. WorkerTypes(w'[g])
    BY <1>1, <1>2, <1>3 DEF WorkerTypes, WorkerFields
  <2> DEFINE k == w'[g]
  <2>3. /\ k.pc = "write" /\ k.items = h.items /\ k.i = h.i /\ k.window = h.window
        /\ k.stage = h.stage /\ k.pos = h.pos /\ k.win = h.win /\ k.s = h.s
        /\ k.buf = h.buf /\ k.slice = h.slice /\ k.ok = h.ok /\ k.done = h.done + n
    BY <1>1, <1>3 DEF WorkerTypes, WorkerFields
  <2> HIDE DEF k, h
  <2>4. k.done < SliceLen(k)
    BY <1>3, <2>1, <2>3 DEF k
  <2>5. WorkerInv(k)
    BY <1>1, <2>1, <2>2, <2>3, <2>4 DEF WorkerInv, k
  <2> QED BY <2>5 DEF k
<1>4. CASE w'[g] = [h EXCEPT !.pc = "slice", !.s = @ + h.stage]
  BY <1>1, <1>2, <1>4 DEF WorkerInv, WorkerTypes, WorkerFields
<1> QED BY <1>3, <1>4, WriteSomeEffect

LEMMA WriteFailsWorker ==
  ASSUME NEW g, g \in DOMAIN w, WorkerInv(w[g]), WriteFails(g)
  PROVE  WorkerInv(w'[g]) /\ ~w'[g].ok
<1> DEFINE h == w[g]
<1>1. WorkerInv(h) /\ WorkerTypes(h) /\ h.pc = "write"
  BY DEF WorkerInv, WriteFails, At
<1>2. w'[g] = [h EXCEPT !.pc = "slice", !.ok = FALSE]
  BY DEF WriteFails, Goto
<1> QED BY <1>1, <1>2 DEF WorkerInv, WorkerTypes, WorkerFields

LEMMA FlushWorker ==
  ASSUME NEW g, g \in DOMAIN w, WorkerInv(w[g]), NEW ok \in BOOLEAN, Flush(g, ok)
  PROVE  /\ WorkerInv(w'[g]) /\ w[g].pc = "flush"
         /\ w'[g] = [w[g] EXCEPT !.pc = "item", !.i = @ + 1, !.synced = @ /\ ok]
<1> DEFINE h == w[g]
<1>1. WorkerInv(h) /\ WorkerTypes(h) /\ h.pc = "flush"
  BY DEF WorkerInv, Flush, At
<1>2. w'[g] = [h EXCEPT !.pc = "item", !.i = @ + 1, !.synced = @ /\ ok]
  BY DEF Flush, Goto
<1>3. (h.synced /\ ok) \in BOOLEAN
  OBVIOUS
<1> QED BY <1>1, <1>2, <1>3 DEF WorkerInv, WorkerTypes, WorkerFields

LEMMA WorkersStep ==
  ASSUME MainInv, WorkersInv, [Next]_vars
  PROVE  WorkersInv'
<1>1. ASSUME cfg' = cfg, w' = w PROVE WorkersInv'
  BY <1>1 DEF WorkersInv, WorkerInv, WorkerTypes, SliceLen
<1>2. ASSUME w' = <<>> PROVE WorkersInv'
  BY <1>2 DEF WorkersInv
<1>3. ASSUME cfg' = cfg, \A f \in DOMAIN w' : WorkerInv(w'[f]) PROVE WorkersInv'
  BY <1>3 DEF WorkersInv, WorkerInv, WorkerTypes, SliceLen
<1>4. ASSUME NEW g, WorkerStep(g) PROVE WorkersInv'
  <2>1. /\ g \in DOMAIN w /\ DOMAIN w' = DOMAIN w /\ cfg' = cfg
        /\ \A f \in DOMAIN w : f # g => w'[f] = w[f]
    BY <1>4, WorkerFrame
  <2>2. WorkerInv(w[g])
    BY <2>1 DEF WorkersInv
  <2>3. ASSUME NEW ok \in BOOLEAN, NEW avail \in 0 .. MaxAvail, WorkerSetup(g, avail, ok)
        PROVE  WorkerInv(w'[g])
    <3>1. avail \in Nat
      BY DiskAssumption
    <3> QED BY <2>1, <2>2, <2>3, <3>1, SetupWorker
  <2>4. ASSUME NEW n \in 1 .. w[g].stage, At(g, "write"), WriteSome(g, n)
        PROVE  WorkerInv(w'[g])
    <3>1. n \in Nat
      BY <2>2, WorkerNumbers DEF WorkerInv
    <3> QED BY <2>1, <2>2, <2>4, <3>1, WriteWorker
  <2>5. WorkerInv(w'[g])
    BY <1>4, <2>1, <2>2, <2>3, <2>4, NextItemWorker, LabelWorker, CopyWorker,
       WriteFailsWorker, FlushWorker DEF WorkerStep
  <2>6. \A f \in DOMAIN w' : WorkerInv(w'[f])
    BY <2>1, <2>5 DEF WorkersInv
  <2> QED BY <1>3, <2>1, <2>6
<1>5. ASSUME NEW c \in Configs, BeginRun(c) PROVE WorkersInv'
  BY <1>2, <1>5 DEF BeginRun, MainInv
<1>6. CASE Plan
  <2>1. CASE mpc' = "run"
    BY <1>3, <1>6, <2>1, PlanWorkers
  <2>2. CASE mpc' # "run"
    BY <1>1, <1>6, <2>2 DEF Plan, Fail
  <2> QED BY <2>1, <2>2
<1>7. CASE Exit \/ Crash \/ PowerLoss
  BY <1>2, <1>7 DEF Exit, Crash, PowerLoss, Gone
<1>8. ASSUME NEW ndev, Inventory(ndev) PROVE cfg' = cfg /\ w' = w
  BY <1>8 DEF Inventory
<1>9. ASSUME NEW b \in BOOLEAN, CheckDisk(b) \/ VerifyNext(b) \/ OpenDisk(b)
      PROVE  cfg' = cfg /\ w' = w
  BY <1>9 DEF CheckDisk, VerifyNext, OpenDisk
<1>10. ASSUME JoinWorkers \/ FinalFrame \/ VerifyDone \/ Report \/ VerifySample \/ UNCHANGED vars
       PROVE  cfg' = cfg /\ w' = w
  BY <1>10 DEF JoinWorkers, FinalFrame, VerifyDone, Report, VerifySample, vars
<1>11. ASSUME NEW d, NEW h, Release(d) \/ Hold(d, h) PROVE cfg' = cfg /\ w' = w
  BY <1>11 DEF Release, Hold
<1> QED BY <1>1, <1>4, <1>5, <1>6, <1>7, <1>8, <1>9, <1>10, <1>11 DEF Next, MainStep

----------------------------------------------------------------------------
(* The disks.                                                               *)

\* An item is inside the whole super-chunks of its device.
LEMMA ItemFitsDevice ==
  ASSUME MainInv, ItemsInv, WorkersInv, mpc = "run", NEW g \in DOMAIN w,
         NEW k \in DOMAIN w[g].items
  PROVE  LET it == w[g].items[k]
         IN  /\ it.dev \in DOMAIN Devices /\ it.off \in Nat /\ it.len \in Nat
             /\ floor_to(Devices[it.dev].size, Super) \in Nat
             /\ floor_to(Devices[it.dev].size, Super) <= Devices[it.dev].size
             /\ Devices[it.dev].size \in Nat
             /\ it.off + it.len <= floor_to(Devices[it.dev].size, Super)
<1> DEFINE it == w[g].items[k]
           size == Devices[it.dev].size
           fl == floor_to(size, Super)
<1>1. it \in ItemType
  <2>1. w[g].items \in Seq(ItemType)
    BY DEF WorkersInv, WorkerInv, WorkerTypes
  <2> QED BY <2>1
<1>2. PICK d \in DOMAIN targets :
        it.dev = targets[d].dev /\ it.off + it.len <= targets[d].wipe_len
  BY DEF ItemsInv
<1>3. targets[d].wipe_len <= floor_to(Devices[targets[d].dev].size, Super)
  BY DEF MainInv
<1>4. targets[d].wipe_len \in Nat
  <2>1. targets \in Seq(TargetType)
    BY DEF MainInv
  <2>2. targets[d] \in TargetType
    BY <2>1
  <2> QED BY <2>2, AlignedUnits DEF TargetType
<1> HIDE DEF it
<1>5. it.dev \in DOMAIN Devices /\ it.off \in Nat /\ it.len \in Nat
  BY <1>1, AlignedUnits DEF ItemType
<1>6. size \in Nat
  BY <1>5, DiskAssumption
<1>7. fl \in Nat /\ fl <= size
  BY <1>6, FloorTo, AlignedUnits
<1>8. targets[d].wipe_len <= fl
  BY <1>2, <1>3
<1> HIDE DEF fl, size
<1>9. it.off + it.len <= fl
  BY <1>2, <1>4, <1>5, <1>7, <1>8
<1> QED BY <1>5, <1>6, <1>7, <1>9 DEF it, fl, size

\* A pwrite puts labels where they belong, inside the item, and nothing else changes;
\* a device without a write cache has them on its medium at once.
LEMMA WriteEffect ==
  ASSUME MainInv, ItemsInv, WorkersInv, StorageInv, NEW g \in DOMAIN w, mpc = "run",
         NEW n \in Nat, WriteSome(g, n)
  PROVE  LET h  == w[g]
             it == h.items[h.i]
             at == it.off + h.pos + h.s + h.done
         IN  /\ at \in Nat /\ at + n <= it.off + it.len
             /\ IsStore(disk') /\ IsStore(medium')
             /\ \A d \in DOMAIN Devices : \A u \in Units(d) :
                  disk'[d][u] = IF d = it.dev /\ u \in at .. at + n - 1
                                THEN <<cfg.seed, u>> ELSE disk[d][u]
             /\ \A d \in DOMAIN Devices :
                  medium'[d] = IF d \in Volatile THEN medium[d] ELSE disk'[d]
<1> DEFINE h == w[g]
           it == h.items[h.i]
           at == it.off + h.pos + h.s + h.done
<1>1. WorkerInv(h) /\ WorkerTypes(h)
  BY DEF WorkersInv, WorkerInv
<1>2. h.pc = "write" /\ h.done + n <= SliceLen(h) /\ Written(g, n)
  BY <1>1, WriteSomeEffect
<1>3. /\ h.i \in DOMAIN h.items /\ h.s < h.win /\ h.stage > 0 /\ h.pos + h.win <= it.len
      /\ h.slice = [u \in 0 .. SliceLen(h) - 1 |-> <<cfg.seed, it.off + h.pos + h.s + u>>]
  BY <1>1, <1>2 DEF WorkerInv
<1>4. it.off \in Nat /\ it.len \in Nat /\ it.dev \in DOMAIN Devices
  BY <1>1, <1>3, ItemInProgress
<1>5. h.pos \in Nat /\ h.s \in Nat /\ h.done \in Nat /\ h.win \in Nat
  BY <1>1, WorkerNumbers
<1>6. SliceLen(h) \in Nat \ {0} /\ SliceLen(h) <= h.win - h.s
  BY <1>1, <1>3, SliceLenRange
<1>7. /\ disk' = [disk EXCEPT ![it.dev] =
                     [u \in DOMAIN @ |-> IF u \in at .. at + n - 1
                                         THEN h.slice[h.done + u - at] ELSE @[u]]]
      /\ medium' = IF it.dev \in Volatile THEN medium
                   ELSE [medium EXCEPT ![it.dev] = disk'[it.dev]]
  BY <1>2 DEF Written, Item
<1> HIDE DEF h, it
<1>8. at \in Nat /\ at + n <= it.off + it.len
  <2> DEFINE len == SliceLen(h)
  <2>1. len \in Nat /\ len <= h.win - h.s /\ h.done + n <= len /\ h.pos + h.win <= it.len
    BY <1>2, <1>3, <1>6
  <2> HIDE DEF len
  <2> QED BY <1>4, <1>5, <2>1
<1>9. \A u \in at .. at + n - 1 : h.slice[h.done + u - at] = <<cfg.seed, u>>
  <2> SUFFICES ASSUME NEW u \in at .. at + n - 1
               PROVE  h.slice[h.done + u - at] = <<cfg.seed, u>>
    OBVIOUS
  <2> DEFINE x == h.done + u - at
  <2>1. x \in 0 .. SliceLen(h) - 1
    BY <1>2, <1>4, <1>5, <1>6, <1>8
  <2>2. it.off + h.pos + h.s + x = u
    BY <1>4, <1>5, <1>8
  <2> HIDE DEF x
  <2>3. h.slice[x] = <<cfg.seed, it.off + h.pos + h.s + x>>
    BY <1>3, <2>1
  <2> QED BY <2>2, <2>3 DEF x
<1> HIDE DEF at
<1>10. DOMAIN disk = DOMAIN Devices /\ \A d \in DOMAIN Devices : DOMAIN disk[d] = Units(d)
  BY DEF StorageInv, IsStore
<1>11. ASSUME NEW d \in DOMAIN Devices, NEW u \in Units(d)
       PROVE  disk'[d][u] = IF d = it.dev /\ u \in at .. at + n - 1
                            THEN <<cfg.seed, u>> ELSE disk[d][u]
  <2>1. CASE d # it.dev
    BY <1>7, <1>10, <2>1
  <2>2. CASE d = it.dev
    <3>1. disk'[d][u] = IF u \in at .. at + n - 1 THEN h.slice[h.done + u - at] ELSE disk[d][u]
      BY <1>7, <1>10, <2>2
    <3> QED BY <1>9, <2>2, <3>1
  <2> QED BY <2>1, <2>2
<1>12. IsStore(disk')
  <2>1. DOMAIN disk' = DOMAIN Devices
    BY <1>7, <1>10
  <2>2. ASSUME NEW d \in DOMAIN Devices PROVE DOMAIN disk'[d] = Units(d)
    <3>1. CASE d # it.dev
      BY <1>7, <1>10, <3>1
    <3>2. CASE d = it.dev
      BY <1>7, <1>10, <3>2
    <3> QED BY <3>1, <3>2
  <2> QED BY <2>1, <2>2 DEF IsStore
<1>13. /\ DOMAIN medium = DOMAIN Devices /\ \A d \in DOMAIN Devices : DOMAIN medium[d] = Units(d)
       /\ \A d \in DOMAIN Devices \ Volatile : medium[d] = disk[d]
  BY DEF StorageInv, IsStore
<1>14. \A d \in DOMAIN Devices : d # it.dev => disk'[d] = disk[d]
  BY <1>7, <1>10
<1>15. ASSUME NEW d \in DOMAIN Devices
       PROVE  medium'[d] = IF d \in Volatile THEN medium[d] ELSE disk'[d]
  BY <1>7, <1>13, <1>14
<1>16. IsStore(medium')
  <2>1. DOMAIN medium' = DOMAIN Devices
    BY <1>7, <1>13
  <2> QED BY <1>12, <1>13, <1>15, <2>1 DEF IsStore
<1> QED BY <1>8, <1>11, <1>12, <1>15, <1>16 DEF at, it, h

\* fsync takes a whole device to its medium.
LEMMA FlushEffect ==
  ASSUME WorkersInv, StorageInv, NEW g \in DOMAIN w, NEW ok \in BOOLEAN, Flush(g, ok)
  PROVE  LET dev == w[g].items[w[g].i].dev
         IN  /\ disk' = disk /\ IsStore(medium')
             /\ \A d \in DOMAIN Devices :
                  medium'[d] = IF ok /\ d = dev THEN disk[d] ELSE medium[d]
<1> DEFINE dev == w[g].items[w[g].i].dev
<1>1. disk' = disk /\ medium' = IF ok THEN [medium EXCEPT ![dev] = disk[dev]] ELSE medium
  BY DEF Flush, Item
<1> HIDE DEF dev
<1>2. /\ DOMAIN medium = DOMAIN Devices
      /\ \A d \in DOMAIN Devices : DOMAIN medium[d] = Units(d) /\ DOMAIN disk[d] = Units(d)
  BY DEF StorageInv, IsStore
<1>3. \A d \in DOMAIN Devices : medium'[d] = IF ok /\ d = dev THEN disk[d] ELSE medium[d]
  BY <1>1, <1>2
<1>4. DOMAIN medium' = DOMAIN Devices
  BY <1>1, <1>2
<1>5. IsStore(medium')
  BY <1>2, <1>3, <1>4 DEF IsStore
<1> QED BY <1>1, <1>3, <1>5 DEF dev

\* Labelling moves no data.
LEMMA WorkerStorage ==
  ASSUME NEW g, WorkerStep(g)
  PROVE  \/ UNCHANGED storage
         \/ \E ok \in BOOLEAN : Flush(g, ok)
         \/ At(g, "write") /\ \E n \in 1 .. w[g].stage : WriteSome(g, n)
BY DEF WorkerStep, WorkerSetup, LabelWindow, CopySlice, NextItem, WriteFails

\* The power fails: every unit is what the disk or its medium held, and both agree.
LEMMA PowerLossEffect ==
  ASSUME StorageInv, PowerLoss
  PROVE  /\ IsStore(disk') /\ medium' = disk'
         /\ \A d \in DOMAIN Devices : \A u \in Units(d) :
              disk'[d][u] = disk[d][u] \/ disk'[d][u] = medium[d][u]
<1>1. PICK lost \in SUBSET Unsaved :
        disk' = [d \in DOMAIN disk |->
                   [u \in DOMAIN disk[d] |->
                      IF <<d, u>> \in lost THEN medium[d][u] ELSE disk[d][u]]]
  BY DEF PowerLoss
<1>2. DOMAIN disk = DOMAIN Devices /\ \A d \in DOMAIN Devices : DOMAIN disk[d] = Units(d)
  BY DEF StorageInv, IsStore
<1>3. medium' = disk'
  BY DEF PowerLoss
<1>4. IsStore(disk')
  BY <1>1, <1>2 DEF IsStore
<1> QED BY <1>1, <1>2, <1>3, <1>4

LEMMA StorageStep ==
  ASSUME MainInv, ItemsInv, WorkersInv, StorageInv, [Next]_vars
  PROVE  StorageInv'
<1>1. ASSUME UNCHANGED storage PROVE StorageInv'
  BY <1>1 DEF StorageInv, storage, IsStore, InPlace
<1>2. ASSUME NEW m, IsStore(m), NEW m1, NEW m2, InPlace(m1), InPlace(m2),
             \A d \in DOMAIN Devices : \A u \in Units(d) :
               m[d][u] = m1[d][u] \/ m[d][u] = m2[d][u]
      PROVE  InPlace(m)
  BY <1>2 DEF InPlace
<1>3. CASE PowerLoss
  <2>1. /\ IsStore(disk') /\ medium' = disk'
        /\ \A d \in DOMAIN Devices : \A u \in Units(d) :
             disk'[d][u] = disk[d][u] \/ disk'[d][u] = medium[d][u]
    BY <1>3, PowerLossEffect
  <2>2. InPlace(disk) /\ InPlace(medium)
    BY DEF StorageInv
  <2>3. InPlace(disk')
    BY <1>2, <2>1, <2>2
  <2> QED BY <2>1, <2>3 DEF StorageInv, IsStore, InPlace
<1>4. ASSUME NEW g, NEW ok \in BOOLEAN, g \in DOMAIN w, Flush(g, ok) PROVE StorageInv'
  <2> DEFINE dev == w[g].items[w[g].i].dev
  <2>1. /\ disk' = disk /\ IsStore(medium')
        /\ \A d \in DOMAIN Devices :
             medium'[d] = IF ok /\ d = dev THEN disk[d] ELSE medium[d]
    BY <1>4, FlushEffect
  <2>2. InPlace(disk) /\ InPlace(medium)
    BY DEF StorageInv
  <2> HIDE DEF dev
  <2>3. InPlace(medium')
    BY <1>2, <2>1, <2>2
  <2>4. \A d \in DOMAIN Devices \ Volatile : medium'[d] = disk'[d]
    BY <2>1 DEF StorageInv
  <2> QED BY <2>1, <2>3, <2>4 DEF StorageInv, IsStore, InPlace
<1>5. ASSUME NEW g, g \in DOMAIN w, mpc = "run", NEW n \in Nat, WriteSome(g, n)
      PROVE  StorageInv'
  <2> DEFINE h  == w[g]
             it == h.items[h.i]
             at == it.off + h.pos + h.s + h.done
             fl == floor_to(Devices[it.dev].size, Super)
  <2>1. /\ at \in Nat /\ at + n <= it.off + it.len
        /\ IsStore(disk') /\ IsStore(medium')
    BY <1>5, WriteEffect
  <2>2. \A d \in DOMAIN Devices : \A u \in Units(d) :
          disk'[d][u] = IF d = it.dev /\ u \in at .. at + n - 1
                        THEN <<cfg.seed, u>> ELSE disk[d][u]
    BY <1>5, WriteEffect
  <2>3. \A d \in DOMAIN Devices :
          medium'[d] = IF d \in Volatile THEN medium[d] ELSE disk'[d]
    BY <1>5, WriteEffect
  <2>4. h.i \in DOMAIN h.items
    BY <1>5, WriteSomeEffect DEF WorkersInv, WorkerInv
  <2>5. it.off \in Nat /\ it.len \in Nat /\ fl \in Nat /\ it.off + it.len <= fl
    BY <1>5, <2>4, ItemFitsDevice
  <2>6. InPlace(disk) /\ InPlace(medium)
    BY DEF StorageInv
  <2> HIDE DEF h, it, at
  <2>7. \A u \in at .. at + n - 1 : u < fl
    BY <2>1, <2>5
  <2> HIDE DEF fl
  <2>8. InPlace(disk')
    <3> SUFFICES ASSUME NEW d \in DOMAIN Devices, NEW u \in Units(d)
                 PROVE  \/ disk'[d][u] = Old
                        \/ disk'[d][u][2] = u /\ u < floor_to(Devices[d].size, Super)
      BY DEF InPlace
    <3>1. CASE d = it.dev /\ u \in at .. at + n - 1
      <4>1. disk'[d][u] = <<cfg.seed, u>>
        BY <2>2, <3>1
      <4> QED BY <2>7, <3>1, <4>1 DEF fl
    <3>2. CASE ~(d = it.dev /\ u \in at .. at + n - 1)
      <4>1. disk'[d][u] = disk[d][u]
        BY <2>2, <3>2
      <4> QED BY <2>6, <4>1 DEF InPlace
    <3> QED BY <3>1, <3>2
  <2>9. InPlace(medium')
    BY <1>2, <2>1, <2>3, <2>6, <2>8
  <2> QED BY <2>1, <2>3, <2>8, <2>9 DEF StorageInv, IsStore, InPlace
<1>6. ASSUME NEW g, WorkerStep(g) PROVE StorageInv'
  <2>1. mpc = "run" /\ g \in DOMAIN w
    BY <1>6, WorkerFrame
  <2>2. ASSUME NEW n \in 1 .. w[g].stage, WriteSome(g, n) PROVE StorageInv'
    <3>1. n \in Nat
      BY <2>1, WorkerNumbers DEF WorkersInv, WorkerInv
    <3> QED BY <1>5, <2>1, <2>2, <3>1
  <2> QED BY <1>1, <1>4, <1>6, <2>1, <2>2, WorkerStorage
<1>7. ASSUME NEW c, BeginRun(c) PROVE UNCHANGED storage
  BY <1>7 DEF BeginRun
<1>8. ASSUME NEW ndev, Inventory(ndev) PROVE UNCHANGED storage
  BY <1>8 DEF Inventory
<1>9. ASSUME NEW b, CheckDisk(b) \/ OpenDisk(b) \/ VerifyNext(b) PROVE UNCHANGED storage
  BY <1>9 DEF CheckDisk, OpenDisk, VerifyNext
<1>10. ASSUME \/ Plan \/ JoinWorkers \/ Report \/ VerifySample \/ VerifyDone \/ Exit
              \/ FinalFrame \/ Crash \/ UNCHANGED vars
       PROVE  UNCHANGED storage
  BY <1>10 DEF Plan, JoinWorkers, Report, VerifySample, VerifyDone, Exit, FinalFrame, Crash,
               vars, storage
<1>11. ASSUME NEW d, NEW h, Release(d) \/ Hold(d, h) PROVE UNCHANGED storage
  BY <1>11 DEF Release, Hold
<1> QED BY <1>1, <1>3, <1>6, <1>7, <1>8, <1>9, <1>10, <1>11 DEF Next, MainStep

----------------------------------------------------------------------------
(* What the workers have written.                                           *)

\* The labels of this run that the disks hold stay, and so do those of them that
\* the media hold.
Keeps(dk, md, dk2, md2) ==
  \A d \in DOMAIN Devices : \A u \in Units(d) :
    dk[d][u] = <<cfg.seed, u>> =>
      /\ dk2[d][u] = <<cfg.seed, u>>
      /\ md[d][u] = <<cfg.seed, u>> => md2[d][u] = <<cfg.seed, u>>

\* The items of a worker are inside their devices.
ItemsInside(h) ==
  \A k \in DOMAIN h.items :
    /\ h.items[k].dev \in DOMAIN Devices /\ Devices[h.items[k].dev].size \in Nat
    /\ h.items[k].off \in Nat /\ h.items[k].len \in Nat
    /\ h.items[k].off + h.items[k].len <= Devices[h.items[k].dev].size

LEMMA WipedKept ==
  ASSUME NEW dk, NEW md, NEW dk2, NEW md2, Keeps(dk, md, dk2, md2),
         NEW d \in DOMAIN Devices, NEW a \in Nat, NEW b \in Nat,
         Devices[d].size \in Nat, b <= Devices[d].size, Wiped(dk, d, a, b)
  PROVE  Wiped(dk2, d, a, b) /\ (Wiped(md, d, a, b) => Wiped(md2, d, a, b))
<1>1. \A u \in a .. b - 1 : u \in Units(d)
  BY DEF Units
<1> QED BY <1>1 DEF Keeps, Wiped

\* The number of units written so far is never more than the item has.
LEMMA FrontierRange ==
  ASSUME NEW h, WorkerInv(h), h.pc \in {"label", "slice", "write"}
  PROVE  Frontier(h) \in Nat /\ Frontier(h) <= h.items[h.i].len
<1> DEFINE len == h.items[h.i].len
<1>1. WorkerTypes(h) /\ h.i \in DOMAIN h.items /\ h.pos <= len
  BY DEF WorkerInv
<1>2. len \in Nat
  BY <1>1, ItemInProgress
<1>3. h.pos \in Nat /\ h.s \in Nat /\ h.done \in Nat /\ h.win \in Nat
  BY <1>1, WorkerNumbers
<1>4. CASE h.pc = "label"
  <2>1. Frontier(h) = h.pos + 0
    BY <1>4 DEF Frontier
  <2> QED BY <1>1, <1>2, <1>3, <2>1
<1>5. CASE h.pc = "slice"
  <2>1. Frontier(h) = h.pos + (IF h.s < h.win THEN h.s ELSE h.win)
    BY <1>5 DEF Frontier
  <2>2. h.pos + h.win <= len
    BY <1>5 DEF WorkerInv
  <2> HIDE DEF len
  <2>3. Frontier(h) \in Nat /\ Frontier(h) <= len
    BY <1>2, <1>3, <2>1, <2>2
  <2> QED BY <2>3 DEF len
<1>6. CASE h.pc = "write"
  <2>1. Frontier(h) = h.pos + (h.s + h.done)
    BY <1>6 DEF Frontier
  <2>2. h.pos + h.win <= len /\ h.s < h.win /\ h.stage > 0 /\ h.done < SliceLen(h)
    BY <1>6 DEF WorkerInv
  <2>3. SliceLen(h) \in Nat /\ SliceLen(h) <= h.win - h.s
    BY <1>1, <2>2, SliceLenRange
  <2> DEFINE sl == SliceLen(h)
  <2>4. h.done < sl /\ sl \in Nat /\ sl <= h.win - h.s
    BY <2>2, <2>3
  <2> HIDE DEF len, sl
  <2>5. Frontier(h) \in Nat /\ Frontier(h) <= len
    BY <1>2, <1>3, <2>1, <2>2, <2>4
  <2> QED BY <2>5 DEF len
<1> QED BY <1>4, <1>5, <1>6

\* A worker that takes no step keeps its progress.
LEMMA ProgressKept ==
  ASSUME NEW h, WorkerInv(h), ItemsInside(h), NEW dk, NEW md, NEW dk2, NEW md2,
         Keeps(dk, md, dk2, md2), Progress(h, dk, md)
  PROVE  Progress(h, dk2, md2)
<1> SUFFICES ASSUME h.ok, ~cfg.dry PROVE Progress(h, dk2, md2)
  BY DEF Progress
<1>1. ASSUME NEW k \in DOMAIN h.items, ItemWiped(dk, h.items[k])
      PROVE  /\ ItemWiped(dk2, h.items[k])
             /\ ItemWiped(md, h.items[k]) => ItemWiped(md2, h.items[k])
  <2> DEFINE it == h.items[k]
             e  == it.off + it.len
  <2>1. /\ it.dev \in DOMAIN Devices /\ Devices[it.dev].size \in Nat
        /\ it.off \in Nat /\ e \in Nat /\ e <= Devices[it.dev].size
    BY DEF ItemsInside
  <2>2. Wiped(dk, it.dev, it.off, e)
    BY <1>1 DEF ItemWiped
  <2> HIDE DEF it, e
  <2>3. Wiped(dk2, it.dev, it.off, e)
        /\ (Wiped(md, it.dev, it.off, e) => Wiped(md2, it.dev, it.off, e))
    BY <2>1, <2>2, WipedKept
  <2> QED BY <2>3 DEF ItemWiped, it, e
<1>2. \A k \in DOMAIN h.items : k < h.i => ItemWiped(dk2, h.items[k])
  BY <1>1 DEF Progress
<1>3. h.synced => \A k \in DOMAIN h.items : k < h.i => ItemWiped(md2, h.items[k])
  BY <1>1 DEF Progress
<1>4. h.pc = "flush" => ItemWiped(dk2, h.items[h.i])
  BY <1>1 DEF Progress, WorkerInv
<1>5. ASSUME h.pc \in {"label", "slice", "write"}
      PROVE  Wiped(dk2, h.items[h.i].dev, h.items[h.i].off, h.items[h.i].off + Frontier(h))
  <2> DEFINE it == h.items[h.i]
             f  == Frontier(h)
  <2>1. h.i \in DOMAIN h.items
    BY <1>5 DEF WorkerInv
  <2>2. /\ it.dev \in DOMAIN Devices /\ Devices[it.dev].size \in Nat
        /\ it.off \in Nat /\ it.len \in Nat /\ it.off + it.len <= Devices[it.dev].size
    BY <2>1 DEF ItemsInside
  <2>3. f \in Nat /\ f <= it.len
    BY <1>5, FrontierRange
  <2>4. Wiped(dk, it.dev, it.off, it.off + f)
    BY <1>5 DEF Progress
  <2> HIDE DEF it, f
  <2>5. it.off + f \in Nat /\ it.off + f <= Devices[it.dev].size
    BY <2>2, <2>3
  <2>6. Wiped(dk2, it.dev, it.off, it.off + f)
    BY <2>2, <2>4, <2>5, WipedKept
  <2> QED BY <2>6 DEF it, f
<1> QED BY <1>2, <1>3, <1>4, <1>5 DEF Progress

\* Starting an item: none of it is written.
LEMMA NextItemProgress ==
  ASSUME NEW g, g \in DOMAIN w, WorkerInv(w[g]), NextItem(g), NEW dk, NEW md,
         Progress(w[g], dk, md)
  PROVE  Progress(w'[g], dk, md)
<1> DEFINE h == w[g]
           k == w'[g]
<1>1. WorkerTypes(h) /\ DOMAIN h = WorkerFields
  BY DEF WorkerInv, WorkerTypes
<1>2. WorkerInv(k)
  BY NextItemWorker
<1>3. /\ k.items = h.items /\ k.i = h.i /\ k.ok = h.ok /\ k.synced = h.synced
      /\ k.pc = "done" \/ (k.pc = "label" /\ k.pos = 0)
  BY <1>1 DEF NextItem, Goto, WorkerFields
<1> HIDE DEF h, k
<1>4. k.pc = "label" => Wiped(dk, k.items[k.i].dev, k.items[k.i].off, k.items[k.i].off + Frontier(k))
  <2> SUFFICES ASSUME k.pc = "label"
               PROVE  Wiped(dk, k.items[k.i].dev, k.items[k.i].off, k.items[k.i].off + Frontier(k))
    OBVIOUS
  <2>1. k.items[k.i].off \in Nat /\ Frontier(k) = 0
    BY <1>2, <1>3, ItemInProgress DEF WorkerInv, Frontier
  <2> QED BY <2>1 DEF Wiped
<1>5. Progress(h, dk, md)
  BY DEF h
<1>6. Progress(k, dk, md)
  BY <1>3, <1>4, <1>5 DEF Progress
<1> QED BY <1>6 DEF k

\* The item has been written to its end when no window is left.
LEMMA LabelProgress ==
  ASSUME NEW g, g \in DOMAIN w, WorkerInv(w[g]), NEW ok \in BOOLEAN, LabelWindow(g, ok),
         NEW dk, NEW md, Progress(w[g], dk, md)
  PROVE  Progress(w'[g], dk, md)
<1> DEFINE h  == w[g]
           k  == w'[g]
           it == h.items[h.i]
<1>1. WorkerTypes(h) /\ DOMAIN h = WorkerFields /\ h.pc = "label" /\ Progress(h, dk, md)
  BY LabelWindowEffect DEF WorkerInv, WorkerTypes
<1>2. h.pos \in Nat
  BY <1>1, WorkerNumbers
<1>3. Frontier(h) = h.pos
  BY <1>1, <1>2 DEF Frontier
<1>4. CASE h.pos = it.len /\ h.ok /\ ~cfg.dry /\ k = [h EXCEPT !.pc = "flush"]
  <2>1. /\ k.items = h.items /\ k.i = h.i /\ k.ok = h.ok /\ k.synced = h.synced
        /\ k.pc = "flush"
    BY <1>1, <1>4 DEF WorkerFields
  <2>2. ItemWiped(dk, it)
    BY <1>1, <1>3, <1>4 DEF Progress, ItemWiped
  <2> HIDE DEF h, k
  <2>3. Progress(k, dk, md)
    BY <1>1, <2>1, <2>2 DEF Progress
  <2> QED BY <2>3 DEF k
<1>5. CASE ~(h.ok /\ ~cfg.dry) /\ k = [h EXCEPT !.pc = "item", !.i = @ + 1]
  BY <1>1, <1>5 DEF WorkerFields, Progress
<1>6. ASSUME NEW win \in Aligned, win > 0,
             k = [h EXCEPT !.pc = "slice", !.win = win, !.s = 0,
                    !.buf = [u \in 0 .. win - 1 |-> <<cfg.seed, it.off + h.pos + u>>]]
      PROVE  Progress(k, dk, md)
  <2>1. /\ k.items = h.items /\ k.i = h.i /\ k.ok = h.ok /\ k.synced = h.synced
        /\ k.pc = "slice" /\ k.s = 0 /\ k.win = win /\ k.pos = h.pos
    BY <1>1, <1>6 DEF WorkerFields
  <2> HIDE DEF h, k
  <2>2. Frontier(k) = h.pos
    BY <1>2, <1>6, <2>1 DEF Frontier
  <2>3. Progress(k, dk, md)
    BY <1>1, <1>3, <2>1, <2>2 DEF Progress
  <2> QED BY <2>3 DEF k
<1>7. CASE k = [h EXCEPT !.pc = "item", !.i = @ + 1, !.ok = FALSE]
  BY <1>1, <1>7 DEF WorkerFields, Progress
<1> QED BY <1>4, <1>5, <1>6, <1>7, LabelWindowEffect

\* The window has been written to its end when no slice is left.
LEMMA CopyProgress ==
  ASSUME NEW g, g \in DOMAIN w, WorkerInv(w[g]), NEW ok \in BOOLEAN, CopySlice(g, ok),
         NEW dk, NEW md, Progress(w[g], dk, md)
  PROVE  Progress(w'[g], dk, md)
<1> DEFINE h == w[g]
           k == w'[g]
<1>1. WorkerTypes(h) /\ DOMAIN h = WorkerFields /\ h.pc = "slice" /\ Progress(h, dk, md)
  BY CopySliceEffect DEF WorkerInv, WorkerTypes
<1>2. h.pos \in Nat /\ h.s \in Nat /\ h.win \in Nat
  BY <1>1, WorkerNumbers
<1>3. Frontier(h) = h.pos + (IF h.s < h.win THEN h.s ELSE h.win)
  BY <1>1 DEF Frontier
<1>4. CASE (h.s >= h.win \/ ~h.ok) /\ k = [h EXCEPT !.pc = "label", !.pos = @ + h.win]
  <2>1. /\ k.items = h.items /\ k.i = h.i /\ k.ok = h.ok /\ k.synced = h.synced
        /\ k.pc = "label" /\ k.pos = h.pos + h.win
    BY <1>1, <1>4 DEF WorkerFields
  <2> HIDE DEF h, k
  <2>2. h.ok => Frontier(k) = Frontier(h)
    BY <1>2, <1>3, <1>4, <2>1 DEF Frontier
  <2>3. Progress(k, dk, md)
    BY <1>1, <2>1, <2>2 DEF Progress
  <2> QED BY <2>3 DEF k
<1>5. CASE k = [h EXCEPT !.ok = FALSE]
  BY <1>1, <1>5 DEF WorkerFields, Progress
<1>6. CASE cfg.dry
  BY <1>6 DEF Progress
<1>7. CASE /\ h.s < h.win
           /\ k = [h EXCEPT !.pc = "write", !.done = 0, !.slice = SliceLabels(h)]
  <2>1. /\ k.items = h.items /\ k.i = h.i /\ k.ok = h.ok /\ k.synced = h.synced
        /\ k.pc = "write" /\ k.pos = h.pos /\ k.s = h.s /\ k.done = 0
    BY <1>1, <1>7 DEF WorkerFields
  <2> HIDE DEF h, k
  <2>2. Frontier(k) = Frontier(h)
    BY <1>2, <1>3, <1>7, <2>1 DEF Frontier
  <2>3. Progress(k, dk, md)
    BY <1>1, <2>1, <2>2 DEF Progress
  <2> QED BY <2>3 DEF k
<1>8. \/ (h.s >= h.win \/ ~h.ok) /\ k = [h EXCEPT !.pc = "label", !.pos = @ + h.win]
      \/ k = [h EXCEPT !.ok = FALSE]
      \/ cfg.dry
      \/ /\ h.s < h.win
         /\ k = [h EXCEPT !.pc = "write", !.done = 0, !.slice = SliceLabels(h)]
  BY CopySliceEffect
<1> HIDE DEF h, k
<1> QED BY <1>4, <1>5, <1>6, <1>7, <1>8 DEF k

\* A pwrite overwrites labels of this run with the same labels.
LEMMA WriteKeeps ==
  ASSUME MainInv, ItemsInv, WorkersInv, StorageInv, NEW g \in DOMAIN w, mpc = "run",
         NEW n \in Nat, WriteSome(g, n)
  PROVE  Keeps(disk, medium, disk', medium')
<1> SUFFICES ASSUME NEW d \in DOMAIN Devices, NEW u \in Units(d),
                    disk[d][u] = <<cfg.seed, u>>
             PROVE  /\ disk'[d][u] = <<cfg.seed, u>>
                    /\ medium[d][u] = <<cfg.seed, u>> => medium'[d][u] = <<cfg.seed, u>>
  BY DEF Keeps
<1>1. disk'[d][u] = <<cfg.seed, u>> \/ disk'[d][u] = disk[d][u]
  <2> DEFINE it == w[g].items[w[g].i]
             at == it.off + w[g].pos + w[g].s + w[g].done
  <2>1. \A e \in DOMAIN Devices : \A v \in Units(e) :
          disk'[e][v] = IF e = it.dev /\ v \in at .. at + n - 1
                        THEN <<cfg.seed, v>> ELSE disk[e][v]
    BY WriteEffect
  <2> HIDE DEF it, at
  <2> QED BY <2>1
<1>2. medium'[d] = IF d \in Volatile THEN medium[d] ELSE disk'[d]
  BY WriteEffect
<1> QED BY <1>1, <1>2

LEMMA FlushKeeps ==
  ASSUME WorkersInv, StorageInv, NEW g \in DOMAIN w, NEW ok \in BOOLEAN, Flush(g, ok)
  PROVE  Keeps(disk, medium, disk', medium')
<1>1. disk' = disk
  BY FlushEffect
<1>2. \A d \in DOMAIN Devices : medium'[d] = disk[d] \/ medium'[d] = medium[d]
  BY FlushEffect
<1> QED BY <1>1, <1>2 DEF Keeps

\* A pwrite carries on where the last one ended.
LEMMA WriteProgress ==
  ASSUME MainInv, ItemsInv, WorkersInv, StorageInv, NEW g \in DOMAIN w, mpc = "run",
         ItemsInside(w[g]), Progress(w[g], disk, medium), NEW n \in Nat, WriteSome(g, n)
  PROVE  Progress(w'[g], disk', medium')
<1> DEFINE h  == w[g]
           k  == w'[g]
           it == h.items[h.i]
           f  == Frontier(h)
<1>1. WorkerInv(h) /\ WorkerTypes(h) /\ DOMAIN h = WorkerFields
  BY DEF WorkersInv, WorkerInv, WorkerTypes
<1>2. /\ h.pc = "write" /\ h.done + n <= SliceLen(h)
      /\ \/ h.done + n < SliceLen(h) /\ k = [h EXCEPT !.done = @ + n]
         \/ h.done + n = SliceLen(h) /\ k = [h EXCEPT !.pc = "slice", !.s = @ + h.stage]
  BY <1>1, WriteSomeEffect
<1>3. h.i \in DOMAIN h.items /\ h.s < h.win /\ h.stage > 0
  BY <1>1, <1>2 DEF WorkerInv
<1>4. h.pos \in Nat /\ h.s \in Nat /\ h.done \in Nat /\ h.win \in Nat /\ h.stage \in Nat
  BY <1>1, WorkerNumbers
<1>5. SliceLen(h) \in Nat /\ SliceLen(h) <= h.win - h.s /\ SliceLen(h) <= h.stage
      /\ SliceLen(h) \in {h.stage, h.win - h.s}
  BY <1>1, <1>3, SliceLenRange
<1>6. Progress(h, disk', medium')
  BY <1>1, WriteKeeps, ProgressKept
<1>7. f = h.pos + (h.s + h.done)
  BY <1>2 DEF Frontier
<1>8. /\ k.items = h.items /\ k.i = h.i /\ k.ok = h.ok /\ k.synced = h.synced
      /\ k.pos = h.pos /\ k.win = h.win /\ k.pc \in {"slice", "write"}
      /\ k.pc = "write" => k.s = h.s /\ k.done = h.done + n
      /\ k.pc = "slice" => k.s = h.s + h.stage /\ h.done + n = SliceLen(h)
  BY <1>1, <1>2 DEF WorkerFields
<1>9. /\ it.off \in Nat /\ it.len \in Nat /\ it.dev \in DOMAIN Devices
      /\ Devices[it.dev].size \in Nat /\ it.off + it.len <= Devices[it.dev].size
  BY <1>3 DEF ItemsInside
<1> DEFINE at == it.off + h.pos + h.s + h.done
<1>10. /\ at + n <= it.off + it.len
       /\ \A d \in DOMAIN Devices : \A u \in Units(d) :
            disk'[d][u] = IF d = it.dev /\ u \in at .. at + n - 1
                          THEN <<cfg.seed, u>> ELSE disk[d][u]
  BY WriteEffect
<1> HIDE DEF h, k, it
<1>11. Frontier(k) = f + n
  <2> DEFINE sl == SliceLen(h)
  <2>1. /\ sl \in Nat /\ sl <= h.win - h.s /\ sl <= h.stage /\ sl \in {h.stage, h.win - h.s}
        /\ k.pc = "slice" => h.done + n = sl
    BY <1>5, <1>8
  <2> HIDE DEF sl
  <2>2. CASE k.pc = "write"
    <3>1. Frontier(k) = k.pos + (k.s + k.done)
      BY <2>2 DEF Frontier
    <3> QED BY <1>4, <1>7, <1>8, <2>2, <3>1
  <2>3. CASE k.pc = "slice"
    <3>1. Frontier(k) = k.pos + (IF k.s < k.win THEN k.s ELSE k.win)
      BY <2>3 DEF Frontier
    <3>2. (IF k.s < k.win THEN k.s ELSE k.win) = h.s + sl
      BY <1>4, <1>8, <2>1, <2>3
    <3> QED BY <1>4, <1>7, <1>8, <2>1, <2>3, <3>1, <3>2
  <2> QED BY <1>8, <2>2, <2>3
<1>12. at = it.off + f /\ f \in Nat
  BY <1>4, <1>7, <1>9
<1> HIDE DEF f, at
<1>13. ASSUME h.ok, ~cfg.dry PROVE Wiped(disk', it.dev, it.off, it.off + Frontier(k))
  <2>1. Wiped(disk', it.dev, it.off, it.off + f)
    BY <1>2, <1>6, <1>13 DEF Progress, f, it
  <2> SUFFICES ASSUME NEW u \in it.off .. (it.off + Frontier(k)) - 1
               PROVE  disk'[it.dev][u] = <<cfg.seed, u>>
    BY DEF Wiped
  <2>2. CASE u < at
    <3>1. u \in it.off .. (it.off + f) - 1
      BY <1>9, <1>11, <1>12, <2>2
    <3> QED BY <2>1, <3>1 DEF Wiped
  <2>3. CASE ~(u < at)
    <3>1. u \in at .. at + n - 1
      BY <1>9, <1>11, <1>12, <2>3
    <3>2. u \in Units(it.dev)
      BY <1>9, <1>10, <1>12, <3>1 DEF Units
    <3> QED BY <1>9, <1>10, <3>1, <3>2
  <2> QED BY <2>2, <2>3
<1>14. Progress(k, disk', medium')
  BY <1>6, <1>8, <1>13 DEF Progress, it
<1> QED BY <1>14 DEF k

\* fsync puts the item it ends, and whatever of others is on the disk, on the medium.
LEMMA FlushProgress ==
  ASSUME WorkersInv, StorageInv, NEW g \in DOMAIN w, ItemsInside(w[g]),
         Progress(w[g], disk, medium), NEW ok \in BOOLEAN, Flush(g, ok)
  PROVE  Progress(w'[g], disk', medium')
<1> DEFINE h  == w[g]
           k  == w'[g]
           it == h.items[h.i]
<1>1. WorkerInv(h) /\ DOMAIN h = WorkerFields
  BY DEF WorkersInv, WorkerInv, WorkerTypes
<1>2. h.pc = "flush" /\ k = [h EXCEPT !.pc = "item", !.i = @ + 1, !.synced = @ /\ ok]
  BY <1>1, FlushWorker
<1>3. h.i \in Nat /\ h.i \in DOMAIN h.items /\ h.items \in Seq(ItemType)
  BY <1>1, <1>2 DEF WorkerInv, WorkerTypes
<1>4. /\ k.items = h.items /\ k.i = h.i + 1 /\ k.ok = h.ok /\ k.synced = (h.synced /\ ok)
      /\ k.pc = "item"
  BY <1>1, <1>2 DEF WorkerFields
<1>5. Progress(h, disk', medium')
  BY <1>1, FlushKeeps, ProgressKept
<1>6. /\ it.dev \in DOMAIN Devices /\ disk' = disk
      /\ ok => medium'[it.dev] = disk[it.dev]
  BY <1>3, FlushEffect DEF ItemsInside
<1> HIDE DEF h, k
<1>7. \A j \in DOMAIN h.items : j < h.i + 1 => j < h.i \/ j = h.i
  BY <1>3
<1>8. ASSUME h.ok, ~cfg.dry
      PROVE  ItemWiped(disk', it) /\ (ok => ItemWiped(medium', it))
  <2>1. ItemWiped(disk', it)
    BY <1>2, <1>5, <1>8 DEF Progress
  <2> QED BY <1>6, <2>1 DEF ItemWiped, Wiped
<1>9. ASSUME h.ok, ~cfg.dry
      PROVE  /\ \A j \in DOMAIN h.items : j < h.i + 1 => ItemWiped(disk', h.items[j])
             /\ h.synced /\ ok =>
                  \A j \in DOMAIN h.items : j < h.i + 1 => ItemWiped(medium', h.items[j])
  BY <1>5, <1>7, <1>8, <1>9 DEF Progress
<1>10. Progress(k, disk', medium')
  BY <1>4, <1>9 DEF Progress
<1> QED BY <1>10 DEF k

LEMMA AllItemsInside ==
  ASSUME MainInv, ItemsInv, WorkersInv, mpc = "run", NEW g \in DOMAIN w
  PROVE  ItemsInside(w[g])
<1> SUFFICES ASSUME NEW k \in DOMAIN w[g].items
             PROVE  LET it == w[g].items[k]
                    IN  /\ it.dev \in DOMAIN Devices /\ Devices[it.dev].size \in Nat
                        /\ it.off \in Nat /\ it.len \in Nat
                        /\ it.off + it.len <= Devices[it.dev].size
  BY DEF ItemsInside
<1> DEFINE it == w[g].items[k]
           fl == floor_to(Devices[it.dev].size, Super)
<1>1. /\ it.dev \in DOMAIN Devices /\ it.off \in Nat /\ it.len \in Nat
      /\ fl \in Nat /\ fl <= Devices[it.dev].size /\ Devices[it.dev].size \in Nat
      /\ it.off + it.len <= fl
  BY ItemFitsDevice
<1> HIDE DEF it, fl
<1>2. it.off + it.len <= Devices[it.dev].size
  BY <1>1
<1> QED BY <1>1, <1>2 DEF it

LEMMA SetupProgress ==
  ASSUME MainInv, NEW g, g \in DOMAIN w, WorkerInv(w[g]), NEW avail \in Nat,
         NEW ok \in BOOLEAN, WorkerSetup(g, avail, ok), NEW dk, NEW md
  PROVE  Progress(w'[g], dk, md)
<1> DEFINE k == w'[g]
<1>1. WorkerInv(k) /\ k.pc \in {"done", "item"} /\ (k.ok => k.i = 1)
  BY SetupWorker
<1>2. k.items \in Seq(ItemType)
  BY <1>1 DEF WorkerInv, WorkerTypes
<1> HIDE DEF k
<1>3. \A j \in DOMAIN k.items : ~(j < 1)
  BY <1>2
<1>4. Progress(k, dk, md)
  BY <1>1, <1>3 DEF Progress
<1> QED BY <1>4 DEF k

\* Every step keeps what the workers have written, also the steps of other workers.
LEMMA WrittenStep ==
  ASSUME MainInv, ItemsInv, WorkersInv, StorageInv, WrittenInv, [Next]_vars
  PROVE  WrittenInv'
<1>1. ASSUME cfg' = cfg, \A f \in DOMAIN w' : Progress(w'[f], disk', medium') PROVE WrittenInv'
  BY <1>1 DEF WrittenInv, Progress, ItemWiped, Wiped
<1>2. ASSUME w' = <<>> PROVE WrittenInv'
  BY <1>2 DEF WrittenInv
<1>3. ASSUME cfg' = cfg, w' = w, UNCHANGED storage PROVE WrittenInv'
  <2>1. \A f \in DOMAIN w' : Progress(w'[f], disk', medium')
    BY <1>3 DEF WrittenInv, storage
  <2> QED BY <1>1, <1>3, <2>1
<1>4. ASSUME NEW g, WorkerStep(g) PROVE WrittenInv'
  <2>1. /\ mpc = "run" /\ g \in DOMAIN w /\ DOMAIN w' = DOMAIN w /\ cfg' = cfg
        /\ \A f \in DOMAIN w : f # g => w'[f] = w[f]
    BY <1>4, WorkerFrame
  <2>2. \A f \in DOMAIN w : WorkerInv(w[f]) /\ ItemsInside(w[f]) /\ Progress(w[f], disk, medium)
    BY <2>1, AllItemsInside DEF WorkersInv, WrittenInv
  <2>3. ASSUME NEW n \in 1 .. w[g].stage, WriteSome(g, n)
        PROVE  Keeps(disk, medium, disk', medium') /\ Progress(w'[g], disk', medium')
    <3>1. n \in Nat
      BY <2>1, <2>2, WorkerNumbers DEF WorkerInv
    <3>2. Keeps(disk, medium, disk', medium')
      BY <2>1, <2>3, <3>1, WriteKeeps
    <3>3. Progress(w'[g], disk', medium')
      BY <2>1, <2>2, <2>3, <3>1, WriteProgress
    <3> QED BY <3>2, <3>3
  <2>4. ASSUME NEW ok \in BOOLEAN, Flush(g, ok)
        PROVE  Keeps(disk, medium, disk', medium') /\ Progress(w'[g], disk', medium')
    BY <2>1, <2>2, <2>4, FlushKeeps, FlushProgress
  <2>5. ASSUME UNCHANGED storage PROVE Keeps(disk, medium, disk', medium')
    BY <2>5 DEF Keeps, storage
  <2>6. ASSUME NEW ok \in BOOLEAN, NEW avail \in 0 .. MaxAvail, WorkerSetup(g, avail, ok)
        PROVE  Keeps(disk, medium, disk', medium') /\ Progress(w'[g], disk', medium')
    <3>1. avail \in Nat
      BY DiskAssumption
    <3>2. Progress(w'[g], disk', medium')
      BY <2>1, <2>2, <2>6, <3>1, SetupProgress
    <3> QED BY <2>5, <2>6, <3>2 DEF WorkerSetup
  <2>7. ASSUME NEW ok \in BOOLEAN, LabelWindow(g, ok) \/ CopySlice(g, ok) \/ NextItem(g)
        PROVE  Keeps(disk, medium, disk', medium') /\ Progress(w'[g], disk', medium')
    <3>1. UNCHANGED storage
      BY <2>7 DEF LabelWindow, CopySlice, NextItem
    <3>2. Progress(w'[g], disk, medium)
      BY <2>1, <2>2, <2>7, LabelProgress, CopyProgress, NextItemProgress
    <3> QED BY <2>5, <3>1, <3>2 DEF storage
  <2>8. ASSUME WriteFails(g)
        PROVE  Keeps(disk, medium, disk', medium') /\ Progress(w'[g], disk', medium')
    <3>1. ~w'[g].ok
      BY <2>1, <2>2, <2>8, WriteFailsWorker
    <3> QED BY <2>5, <2>8, <3>1 DEF WriteFails, Progress
  <2>9. Keeps(disk, medium, disk', medium') /\ Progress(w'[g], disk', medium')
    BY <1>4, <2>3, <2>4, <2>6, <2>7, <2>8 DEF WorkerStep
  <2>10. \A f \in DOMAIN w : f # g => Progress(w'[f], disk', medium')
    BY <2>1, <2>2, <2>9, ProgressKept
  <2>11. \A f \in DOMAIN w' : Progress(w'[f], disk', medium')
    BY <2>1, <2>9, <2>10
  <2> QED BY <1>1, <2>1, <2>11
<1>5. ASSUME NEW c \in Configs, BeginRun(c) PROVE WrittenInv'
  BY <1>2, <1>5 DEF BeginRun, MainInv
<1>6. CASE Plan
  <2>1. CASE mpc' = "run"
    <3>1. cfg' = cfg /\ \A g \in DOMAIN w' : WorkerInv(w'[g]) /\ w'[g] = NewWorker(w'[g].items)
      BY <1>6, <2>1, PlanWorkers
    <3>2. ASSUME NEW g \in DOMAIN w' PROVE Progress(w'[g], disk', medium')
      <4> DEFINE k == w'[g]
      <4>1. k.items \in Seq(ItemType) /\ k.i = 1 /\ k.pc = "setup"
        <5>1. WorkerInv(k) /\ k = NewWorker(k.items)
          BY <3>1
        <5> HIDE DEF k
        <5>2. k.i = 1 /\ k.pc = "setup"
          BY <5>1 DEF NewWorker
        <5> QED BY <5>1, <5>2 DEF WorkerInv, WorkerTypes
      <4> HIDE DEF k
      <4>2. \A j \in DOMAIN k.items : ~(j < k.i)
        BY <4>1
      <4>3. Progress(k, disk', medium')
        BY <4>1, <4>2 DEF Progress
      <4> QED BY <4>3 DEF k
    <3> QED BY <1>1, <3>1, <3>2
  <2>2. CASE mpc' # "run"
    BY <1>3, <1>6, <2>2 DEF Plan, Fail
  <2> QED BY <2>1, <2>2
<1>7. CASE Exit \/ Crash \/ PowerLoss
  BY <1>2, <1>7 DEF Exit, Crash, PowerLoss, Gone
<1>8. ASSUME NEW ndev, Inventory(ndev) PROVE cfg' = cfg /\ w' = w /\ UNCHANGED storage
  BY <1>8 DEF Inventory
<1>9. ASSUME NEW b \in BOOLEAN, CheckDisk(b) \/ VerifyNext(b) \/ OpenDisk(b)
      PROVE  cfg' = cfg /\ w' = w /\ UNCHANGED storage
  BY <1>9 DEF CheckDisk, VerifyNext, OpenDisk
<1>10. ASSUME JoinWorkers \/ FinalFrame \/ VerifyDone \/ Report \/ VerifySample \/ UNCHANGED vars
       PROVE  cfg' = cfg /\ w' = w /\ UNCHANGED storage
  BY <1>10 DEF JoinWorkers, FinalFrame, VerifyDone, Report, VerifySample, vars, storage
<1>11. ASSUME NEW d, NEW h, Release(d) \/ Hold(d, h)
       PROVE  cfg' = cfg /\ w' = w /\ UNCHANGED storage
  BY <1>11 DEF Release, Hold
<1> QED BY <1>3, <1>4, <1>5, <1>6, <1>7, <1>8, <1>9, <1>10, <1>11 DEF Next, MainStep

----------------------------------------------------------------------------
(* The result of the run.                                                   *)

\* Every worker has ended without an error: together they have written everything.
LEMMA AllWritten ==
  ASSUME MainInv, ItemsInv, WorkersInv, WrittenInv, mpc = "join", ~cfg.dry,
         \A g \in DOMAIN w : w[g].pc = "done" /\ w[g].ok,
         NEW d \in DOMAIN targets
  PROVE  /\ TargetWiped(disk, d)
         /\ (\A g \in DOMAIN w : w[g].synced) => TargetWiped(medium, d)
<1> SUFFICES ASSUME NEW u \in 0 .. targets[d].wipe_len - 1
             PROVE  LET dev == targets[d].dev
                    IN  /\ disk[dev][u] = <<cfg.seed, u>>
                        /\ (\A g \in DOMAIN w : w[g].synced) => medium[dev][u] = <<cfg.seed, u>>
  BY DEF TargetWiped, Wiped
<1>1. PICK g \in DOMAIN w : \E k \in DOMAIN w[g].items :
        w[g].items[k].dev = targets[d].dev /\ Holds(w[g].items[k], u)
  BY DEF ItemsInv
<1>2. PICK k \in DOMAIN w[g].items :
        w[g].items[k].dev = targets[d].dev /\ Holds(w[g].items[k], u)
  BY <1>1
<1> DEFINE h  == w[g]
           it == h.items[k]
<1>3. WorkerInv(h) /\ Progress(h, disk, medium) /\ h.pc = "done" /\ h.ok
  BY DEF WorkersInv, WrittenInv
<1>4. h.items \in Seq(ItemType) /\ h.i \in Nat /\ h.i > Len(h.items)
  BY <1>3 DEF WorkerInv, WorkerTypes
<1> HIDE DEF h
<1>5. k \in DOMAIN h.items /\ it.dev = targets[d].dev /\ Holds(it, u)
  BY <1>2 DEF h
<1>6. k < h.i /\ it \in ItemType
  BY <1>4, <1>5
<1>7. ItemWiped(disk, it) /\ (h.synced => ItemWiped(medium, it))
  BY <1>3, <1>5, <1>6 DEF Progress
<1> HIDE DEF it
<1>8. u \in it.off .. (it.off + it.len) - 1
  <2>1. it.off \in Nat /\ it.len \in Nat
    BY <1>6, AlignedUnits DEF ItemType
  <2> QED BY <1>5, <2>1 DEF Holds
<1>9. disk[it.dev][u] = <<cfg.seed, u>> /\ (h.synced => medium[it.dev][u] = <<cfg.seed, u>>)
  BY <1>7, <1>8 DEF ItemWiped, Wiped
<1> QED BY <1>5, <1>9 DEF h

LEMMA ResultStep ==
  ASSUME MainInv, ItemsInv, WorkersInv, WrittenInv, ResultInv, [Next]_vars
  PROVE  ResultInv'
<1>1. ASSUME mpc' \notin {"join", "verify", "exit"} PROVE ResultInv'
  BY <1>1 DEF ResultInv
<1>2. ASSUME mpc' = "exit", rc' # 0 PROVE ResultInv'
  BY <1>2 DEF ResultInv
<1>3. ASSUME mpc' \in {"verify", "exit"}, mpc \in {"verify", "exit"}, rc' = 0 => rc = 0,
             UNCHANGED <<disk, medium, cfg, targets, w>>
      PROVE  ResultInv'
  BY <1>3 DEF ResultInv, TargetWiped, Wiped
<1>4. ASSUME mpc' = mpc, rc' = rc, UNCHANGED <<disk, medium, cfg, targets, w>>
      PROVE  ResultInv'
  BY <1>4 DEF ResultInv, TargetWiped, Wiped
<1>5. ASSUME NEW c \in Configs, BeginRun(c) PROVE ResultInv'
  BY <1>1, <1>2, <1>5 DEF BeginRun, Fail
<1>6. ASSUME NEW ndev \in 0 .. MaxDevs, Inventory(ndev) PROVE ResultInv'
  <2>1. (mpc' = "exit" /\ rc' # 0) \/ mpc' = "check"
    <3>1. CASE ndev < 1
      BY <1>6, <3>1 DEF Inventory, Fail
    <3>2. CASE ndev >= 1 /\ (\E i \in DOMAIN gpus' : gpus'[i] >= ndev)
      BY <1>6, <3>2 DEF Inventory, Fail
    <3>3. CASE ~(ndev < 1) /\ ~(ndev >= 1 /\ (\E i \in DOMAIN gpus' : gpus'[i] >= ndev))
      BY <1>6, <3>3 DEF Inventory, Fail
    <3> QED BY <3>1, <3>2, <3>3
  <2> QED BY <1>1, <1>2, <2>1
<1>7. ASSUME NEW b \in BOOLEAN, CheckDisk(b) PROVE ResultInv'
  <2>1. (mpc' = "exit" /\ rc' # 0) \/ mpc' = "open"
    BY <1>7 DEF CheckDisk, Fail
  <2> QED BY <1>1, <1>2, <2>1
<1>8. ASSUME NEW b \in BOOLEAN, OpenDisk(b) PROVE ResultInv'
  <2>1. (mpc' = "exit" /\ rc' # 0) \/ mpc' \in {"check", "plan"} \/ (mpc' = "verify" /\ cfg'.only)
    BY <1>8 DEF OpenDisk, Fail
  <2> QED BY <1>1, <1>2, <2>1 DEF ResultInv
<1>9. CASE Plan
  <2>1. (mpc' = "exit" /\ rc' # 0) \/ mpc' = "run"
    BY <1>9 DEF Plan, Fail
  <2> QED BY <1>1, <1>2, <2>1
<1>10. CASE JoinWorkers
  BY <1>10 DEF JoinWorkers, ResultInv
<1>11. CASE Report
  <2>1. /\ mpc = "join" /\ mpc' \in {"verify", "exit"} /\ UNCHANGED <<storage, cfg, targets, w>>
        /\ rc' = 0 => \A g \in DOMAIN w : w[g].ok
    BY <1>11 DEF Report
  <2>2. \A g \in DOMAIN w : w[g].pc = "done"
    BY <2>1 DEF ResultInv
  <2>3. ASSUME rc' = 0, ~cfg.dry, NEW d \in DOMAIN targets
        PROVE  /\ TargetWiped(disk, d)
               /\ (\A g \in DOMAIN w : w[g].synced) => TargetWiped(medium, d)
    BY <2>1, <2>2, <2>3, AllWritten
  <2> QED BY <2>1, <2>3 DEF ResultInv, TargetWiped, Wiped, storage
<1>12. ASSUME (\E b \in BOOLEAN : VerifyNext(b)) \/ VerifyDone \/ VerifySample PROVE ResultInv'
  <2>1. /\ mpc' \in {"verify", "exit"} /\ mpc = "verify" /\ UNCHANGED <<disk, medium, cfg, targets, w>>
        /\ rc' = 0 => rc = 0
    BY <1>12 DEF VerifyNext, VerifyDone, VerifySample, storage
  <2> QED BY <1>3, <2>1
<1>13. CASE FinalFrame \/ UNCHANGED vars
  BY <1>4, <1>13 DEF FinalFrame, vars, storage
<1>14. CASE Exit \/ Crash \/ PowerLoss
  BY <1>1, <1>14 DEF Exit, Crash, PowerLoss, Gone
<1>15. ASSUME NEW d, NEW h, Release(d) \/ Hold(d, h) PROVE ResultInv'
  BY <1>4, <1>15 DEF Release, Hold, storage
<1>16. ASSUME NEW g, WorkerStep(g) PROVE ResultInv'
  BY <1>1, <1>16, WorkerFrame
<1> QED BY <1>5, <1>6, <1>7, <1>8, <1>9, <1>10, <1>11, <1>12, <1>13, <1>14, <1>15, <1>16
        DEF Next, MainStep

----------------------------------------------------------------------------
(* verify_disk.                                                             *)

\* Super-chunks of a length, and samples of them.
LEMMA SampleCount ==
  ASSUME NEW n \in Nat, NEW len \in Aligned \ {0}
  PROVE  /\ len \div Super \in Nat \ {0} /\ len = (len \div Super) * Super
         /\ Min({n, len \div Super}) \in Nat /\ Min({n, len \div Super}) <= len \div Super
         /\ n * Super >= len => Min({n, len \div Super}) = len \div Super
<1> DEFINE c == len \div Super
           m == Min({n, c})
<1>1. c \in Nat /\ len = c * Super /\ len \in Nat
  BY AlignedIsMultiple, AlignedUnits
<1>2. Super \in Nat \ {0}
  BY DiskAssumption
<1> HIDE DEF c
<1>3. c # 0
  <2> SUFFICES ASSUME c = 0 PROVE FALSE
    OBVIOUS
  <2> QED BY <1>1, <1>2
<1>4. n \in Int /\ c \in Int
  BY <1>1
<1>5. m \in {n, c} /\ m <= n /\ m <= c
  BY <1>4, MinOfTwo
<1> HIDE DEF m
<1>6. m \in Nat
  BY <1>1, <1>5
<1>7. ASSUME n * Super >= len PROVE m = c
  <2> SUFFICES ASSUME m # c PROVE FALSE
    OBVIOUS
  <2>1. m = n /\ n + 1 <= c
    BY <1>1, <1>4, <1>5
  <2>2. n + 1 \in Int
    OBVIOUS
  <2>3. (n + 1) * Super <= c * Super
    BY ONLY <1>2, <1>4, <2>1, <2>2, MulMono
  <2>4. (n + 1) * Super = n * Super + Super /\ n * Super \in Nat
    BY <1>2
  <2> QED BY <1>1, <1>2, <1>7, <2>3, <2>4
<1> QED BY <1>1, <1>3, <1>5, <1>6, <1>7 DEF c, m

\* At the start of a disk nothing has been read.
LEMMA VerifyStarts ==
  ASSUME MainInv', (vdisk \in Nat \ {0})', vk' = 0
  PROVE  (vdisk <= Len(targets) =>
            /\ vk <= Samples
            /\ mism = 0 /\ Full(vdisk) => Wiped(disk, targets[vdisk].dev, 0, vk * Super))'
<1> DEFINE t == targets'[vdisk']
<1> SUFFICES ASSUME vdisk' <= Len(targets')
             PROVE  /\ 0 <= Samples'
                    /\ Wiped(disk, targets[vdisk].dev, 0, vk * Super)'
  OBVIOUS
<1>1. targets' \in Seq(TargetType) /\ cfg'.verify_n \in Nat
  BY DEF MainInv, CommandLines
<1>2. t \in TargetType
  BY <1>1
<1> HIDE DEF t
<1>3. t.wipe_len \in Aligned \ {0}
  BY <1>2 DEF TargetType
<1>4. Min({cfg'.verify_n, t.wipe_len \div Super}) \in Nat
  BY <1>1, <1>3, SampleCount
<1>5. Samples' = Min({cfg'.verify_n, t.wipe_len \div Super})
  BY DEF Samples, NSuper, t
<1>6. vk' * Super = 0
  BY DiskAssumption
<1>7. Wiped(disk, targets[vdisk].dev, 0, vk * Super)'
  BY <1>6 DEF Wiped
<1> QED BY <1>4, <1>5, <1>7

\* With as many samples as super-chunks, sample k is super-chunk k.
LEMMA FullSample ==
  ASSUME MainInv, vdisk \in Nat \ {0}, vdisk <= Len(targets)
  PROVE  /\ NSuper \in Nat \ {0} /\ targets[vdisk].wipe_len = NSuper * Super
         /\ Samples \in Nat
         /\ Full(vdisk) => Samples = NSuper
         /\ Full(vdisk) => \A k \in Nat : k < Samples => SampleIndex(k) = k
<1> DEFINE t == targets[vdisk]
<1>1. targets \in Seq(TargetType) /\ cfg.verify_n \in Nat
  BY DEF MainInv, CommandLines
<1>2. t \in TargetType
  BY <1>1
<1> HIDE DEF t
<1>3. t.wipe_len \in Aligned \ {0}
  BY <1>2 DEF TargetType
<1>4. NSuper = t.wipe_len \div Super /\ Samples = Min({cfg.verify_n, NSuper})
      /\ (Full(vdisk) <=> cfg.verify_n * Super >= t.wipe_len)
  BY DEF NSuper, Samples, Full, t
<1>5. /\ NSuper \in Nat \ {0} /\ t.wipe_len = NSuper * Super /\ Samples \in Nat
      /\ cfg.verify_n * Super >= t.wipe_len => Samples = NSuper
  BY <1>1, <1>3, <1>4, SampleCount
<1>6. Full(vdisk) => Samples = NSuper
  BY <1>4, <1>5
<1>7. ASSUME Full(vdisk), NEW k \in Nat, k < Samples PROVE SampleIndex(k) = k
  <2>1. CASE Samples = 1
    BY <1>7, <2>1 DEF SampleIndex
  <2>2. CASE Samples # 1
    <3> DEFINE b == NSuper - 1
    <3>1. SampleIndex(k) = (k * b) \div b
      BY <1>6, <1>7, <2>2 DEF SampleIndex
    <3>2. b \in Nat \ {0} /\ 0 \in 0 .. b - 1 /\ k \in Int
      BY <1>5, <1>6, <1>7, <2>2
    <3> HIDE DEF b
    <3>3. (k * b + 0) \div b = k
      BY <3>2, DivInChunk
    <3>4. k * b + 0 = k * b
      BY <3>2
    <3> QED BY <3>1, <3>3, <3>4
  <2> QED BY <2>1, <2>2
<1> QED BY <1>5, <1>6, <1>7 DEF t

\* The invariant by its parts.
VerifyTypes == vdisk \in Nat \ {0} /\ vk \in Nat /\ mism \in Nat
NotStarted  == mpc \notin {"off", "verify", "exit"} => vdisk = 1 /\ vk = 0 /\ mism = 0
SeenDisks   ==
  mpc \in {"verify", "exit"} /\ rc = 0 /\ cfg.only =>
    \A d \in DOMAIN targets : (mpc = "verify" => d < vdisk) /\ Full(d) => TargetWiped(disk, d)
SeenSamples ==
  mpc = "verify" /\ vdisk <= Len(targets) =>
    /\ vk <= Samples
    /\ mism = 0 /\ Full(vdisk) => Wiped(disk, targets[vdisk].dev, 0, vk * Super)

LEMMA VerifyParts == VerifyInv <=> VerifyTypes /\ NotStarted /\ SeenDisks /\ SeenSamples
BY DEF VerifyInv, VerifyTypes, NotStarted, SeenDisks, SeenSamples

\* A sample that is right extends what is known to be labelled.
LEMMA SampleStep ==
  ASSUME MainInv, VerifyInv, VerifySample
  PROVE  VerifyInv'
<1>1. /\ mpc = "verify" /\ vdisk <= Len(targets) /\ vk < Samples /\ vk' = vk + 1
      /\ UNCHANGED <<disk, mpc, cfg, rc, targets, vdisk>>
  BY DEF VerifySample, storage
<1>2. vdisk \in Nat \ {0} /\ vk \in Nat /\ mism \in Nat
  BY DEF VerifyInv
<1>3. /\ NSuper \in Nat \ {0} /\ Samples \in Nat
      /\ Full(vdisk) => SampleIndex(vk) = vk
  BY <1>1, <1>2, FullSample
<1> DEFINE J == SampleIndex(vk)
           Right == \A u \in J * Super .. J * Super + Super - 1 :
                      disk[targets[vdisk].dev][u] = <<cfg.seed, u>>
<1>4. mism' = IF Right THEN mism ELSE mism + 1
  BY DEF VerifySample
<1>5. mism' \in Nat /\ (mism' = 0 => mism = 0 /\ Right)
  <2> HIDE DEF Right
  <2> QED BY <1>2, <1>4
<1>6. VerifyTypes' /\ NotStarted'
  BY <1>1, <1>2, <1>5 DEF VerifyTypes, NotStarted
<1>7. SeenDisks'
  <2>1. SeenDisks
    BY VerifyParts
  <2> QED BY <1>1, <2>1 DEF SeenDisks, Full, TargetWiped, Wiped
<1>8. Samples' = Samples /\ Full(vdisk)' = Full(vdisk)
  BY <1>1 DEF Samples, NSuper, Full
<1>9. vk' <= Samples'
  BY <1>1, <1>2, <1>3, <1>8
<1>10. ASSUME mism' = 0, Full(vdisk)
       PROVE  \A u \in 0 .. vk' * Super - 1 : disk[targets[vdisk].dev][u] = <<cfg.seed, u>>
  <2> DEFINE a == vk * Super
  <2>1. \A u \in 0 .. a - 1 : disk[targets[vdisk].dev][u] = <<cfg.seed, u>>
    BY <1>1, <1>5, <1>10 DEF VerifyInv, Wiped
  <2>2. \A u \in a .. a + Super - 1 : disk[targets[vdisk].dev][u] = <<cfg.seed, u>>
    BY <1>3, <1>5, <1>10
  <2>3. vk' * Super = a + Super /\ a \in Nat /\ Super \in Nat
    BY <1>1, <1>2, DiskAssumption
  <2> HIDE DEF a
  <2>4. \A u \in 0 .. vk' * Super - 1 : u \in 0 .. a - 1 \/ u \in a .. a + Super - 1
    BY <2>3
  <2> QED BY <2>1, <2>2, <2>4
<1>11. SeenSamples'
  BY <1>1, <1>8, <1>9, <1>10 DEF SeenSamples, Wiped
<1> QED BY <1>6, <1>7, <1>11 DEF VerifyInv, VerifyTypes, NotStarted, SeenDisks, SeenSamples

\* The end of a disk: without a mismatch all of it is known to be labelled.
LEMMA NextDiskStep ==
  ASSUME MainInv, MainInv', VerifyInv, NEW err \in BOOLEAN, VerifyNext(err)
  PROVE  VerifyInv'
<1>1. /\ mpc = "verify" /\ vdisk <= Len(targets) /\ (err \/ vk = Samples)
      /\ rc' = IF err \/ mism > 0 THEN 1 ELSE rc
      /\ vdisk' = vdisk + 1 /\ vk' = 0 /\ mism' = 0
      /\ UNCHANGED <<disk, mpc, cfg, targets>>
  BY DEF VerifyNext, storage
<1>2. vdisk \in Nat \ {0} /\ vk \in Nat /\ mism \in Nat
  BY DEF VerifyInv
<1>3. VerifyTypes' /\ NotStarted'
  BY <1>1, <1>2 DEF VerifyTypes, NotStarted
<1>4. SeenSamples'
  BY <1>1, <1>2, VerifyStarts DEF SeenSamples
<1>5. ASSUME rc' = 0, cfg.only, NEW d \in DOMAIN targets, d < vdisk + 1, Full(d)
      PROVE  TargetWiped(disk, d)
  <2>1. ~err /\ mism = 0 /\ vk = Samples /\ rc = 0
    BY <1>1, <1>2, <1>5
  <2>2. CASE d < vdisk
    BY <1>1, <1>5, <2>1, <2>2 DEF VerifyInv
  <2>3. CASE ~(d < vdisk)
    <3>1. d = vdisk
      <4>1. d \in Nat
        BY DEF MainInv
      <4> QED BY <1>2, <1>5, <2>3, <4>1
    <3>2. Wiped(disk, targets[vdisk].dev, 0, vk * Super)
      BY <1>1, <1>5, <2>1, <3>1 DEF VerifyInv
    <3>3. targets[vdisk].wipe_len = vk * Super
      BY <1>1, <1>2, <1>5, <2>1, <3>1, FullSample
    <3> QED BY <3>1, <3>2, <3>3 DEF TargetWiped
  <2> QED BY <2>2, <2>3
<1>6. SeenDisks'
  BY <1>1, <1>5 DEF SeenDisks, Full, TargetWiped, Wiped
<1> QED BY <1>3, <1>4, <1>6 DEF VerifyInv, VerifyTypes, NotStarted, SeenDisks, SeenSamples

LEMMA VerifyStep ==
  ASSUME MainInv, MainInv', WorkersInv, VerifyInv, [Next]_vars
  PROVE  VerifyInv'
<1>1. ASSUME UNCHANGED <<disk, mpc, cfg, rc, targets, vdisk, vk, mism>> PROVE VerifyInv'
  BY <1>1 DEF VerifyInv, Full, TargetWiped, Wiped, Samples, NSuper
<1>2. ASSUME mpc' \notin {"verify", "exit"}, vdisk' = 1, vk' = 0, mism' = 0 PROVE VerifyInv'
  BY <1>2 DEF VerifyInv
<1>3. ASSUME mpc' = "exit", rc' # 0, vdisk' = 1, vk' = 0, mism' = 0 PROVE VerifyInv'
  BY <1>3 DEF VerifyInv
<1>4. ASSUME mpc' = "verify", vdisk' = 1, vk' = 0, mism' = 0 PROVE VerifyInv'
  <2>1. VerifyTypes' /\ NotStarted'
    BY <1>4 DEF VerifyTypes, NotStarted
  <2>2. SeenSamples'
    BY <1>4, VerifyStarts DEF SeenSamples
  <2>3. \A d \in DOMAIN targets' : ~(d < 1)
    BY DEF MainInv
  <2>4. SeenDisks'
    BY <1>4, <2>3 DEF SeenDisks
  <2> QED BY <2>1, <2>2, <2>4 DEF VerifyInv, VerifyTypes, NotStarted, SeenDisks, SeenSamples
<1>5. ASSUME mpc \notin {"off", "verify", "exit"} PROVE vdisk = 1 /\ vk = 0 /\ mism = 0
  BY <1>5 DEF VerifyInv
<1>6. ASSUME NEW c \in Configs, BeginRun(c) PROVE VerifyInv'
  BY <1>2, <1>3, <1>6 DEF BeginRun, Fail
<1>7. ASSUME NEW ndev \in 0 .. MaxDevs, Inventory(ndev) PROVE VerifyInv'
  <2>1. UNCHANGED <<vdisk, vk, mism>> /\ mpc = "gpus"
    BY <1>7 DEF Inventory, reporting
  <2>2. (mpc' = "exit" /\ rc' # 0) \/ mpc' = "check"
    <3>1. CASE ndev < 1
      BY <1>7, <3>1 DEF Inventory, Fail
    <3>2. CASE ndev >= 1 /\ (\E i \in DOMAIN gpus' : gpus'[i] >= ndev)
      BY <1>7, <3>2 DEF Inventory, Fail
    <3>3. CASE ~(ndev < 1) /\ ~(ndev >= 1 /\ (\E i \in DOMAIN gpus' : gpus'[i] >= ndev))
      BY <1>7, <3>3 DEF Inventory, Fail
    <3> QED BY <3>1, <3>2, <3>3
  <2> QED BY <1>2, <1>3, <1>5, <2>1, <2>2
<1>8. ASSUME NEW b \in BOOLEAN, CheckDisk(b) \/ OpenDisk(b) PROVE VerifyInv'
  <2>1. UNCHANGED <<vdisk, vk, mism>> /\ mpc \in {"check", "open"}
    BY <1>8 DEF CheckDisk, OpenDisk, reporting
  <2>2. (mpc' = "exit" /\ rc' # 0) \/ mpc' \in {"open", "check", "plan", "verify"}
    BY <1>8 DEF CheckDisk, OpenDisk, Fail
  <2> QED BY <1>2, <1>3, <1>4, <1>5, <2>1, <2>2
<1>9. CASE Plan
  <2>1. UNCHANGED <<vdisk, vk, mism>> /\ mpc = "plan"
    BY <1>9 DEF Plan
  <2>2. (mpc' = "exit" /\ rc' # 0) \/ mpc' = "run"
    BY <1>9 DEF Plan, Fail
  <2> QED BY <1>2, <1>3, <1>5, <2>1, <2>2
<1>10. CASE JoinWorkers
  BY <1>2, <1>5, <1>10 DEF JoinWorkers, reporting
<1>11. CASE Report
  <2>1. UNCHANGED <<vdisk, vk, mism, cfg>> /\ mpc = "join" /\ mpc' \in {"verify", "exit"}
    BY <1>11 DEF Report, reporting
  <2>2. ~cfg.only
    BY <2>1 DEF MainInv
  <2>3. CASE mpc' = "verify"
    BY <1>4, <1>5, <2>1, <2>3
  <2>4. CASE mpc' = "exit"
    BY <1>5, <2>1, <2>2, <2>4 DEF VerifyInv
  <2> QED BY <2>1, <2>3, <2>4
<1>12. CASE VerifySample
  BY <1>12, SampleStep
<1>13. ASSUME NEW b \in BOOLEAN, VerifyNext(b) PROVE VerifyInv'
  BY <1>13, NextDiskStep
<1>14. CASE VerifyDone
  <2>1. /\ mpc = "verify" /\ vdisk > Len(targets) /\ mpc' = "exit"
        /\ UNCHANGED <<disk, cfg, rc, targets, vdisk, vk, mism>>
    BY <1>14 DEF VerifyDone, reporting, storage
  <2>2. \A d \in DOMAIN targets : d < vdisk
    BY <2>1 DEF MainInv, VerifyInv
  <2>3. VerifyTypes' /\ NotStarted' /\ SeenSamples'
    BY <2>1 DEF VerifyTypes, NotStarted, SeenSamples, VerifyInv
  <2>4. SeenDisks
    BY VerifyParts
  <2>5. SeenDisks'
    BY <2>1, <2>2, <2>4 DEF SeenDisks, Full, TargetWiped, Wiped
  <2> QED BY <2>3, <2>5 DEF VerifyInv, VerifyTypes, NotStarted, SeenDisks, SeenSamples
<1>15. CASE FinalFrame \/ UNCHANGED vars
  BY <1>1, <1>15 DEF FinalFrame, vars, storage
<1>16. CASE Exit \/ Crash \/ PowerLoss
  BY <1>2, <1>16 DEF Exit, Crash, PowerLoss, Gone
<1>17. ASSUME NEW d, NEW h, Release(d) \/ Hold(d, h) PROVE VerifyInv'
  BY <1>1, <1>17 DEF Release, Hold, storage, reporting
<1>18. ASSUME NEW g, WorkerStep(g) PROVE VerifyInv'
  <2>1. mpc = "run" /\ UNCHANGED <<mpc, reporting>>
    BY <1>18, WorkerFrame
  <2> QED BY <1>2, <1>5, <2>1 DEF reporting
<1> QED BY <1>6, <1>7, <1>8, <1>9, <1>10, <1>11, <1>12, <1>13, <1>14, <1>15, <1>16, <1>17, <1>18
        DEF Next, MainStep

----------------------------------------------------------------------------
(* The theorems.                                                            *)

LEMMA DiskStep ==
  ASSUME DiskInv, [Next]_vars
  PROVE  DiskInv'
<1>1. MainInv /\ Exclusive /\ ItemsInv /\ WorkersInv /\ StorageInv /\ WrittenInv
      /\ ResultInv /\ VerifyInv
  BY DEF DiskInv, MainParts, DataParts
<1>2. MainInv'
  BY <1>1, MainStepInv
<1>3. Exclusive'
  BY <1>1, ExclusiveStep
<1>4. ItemsInv'
  BY <1>1, ItemsStep
<1>5. WorkersInv'
  BY <1>1, WorkersStep
<1>6. StorageInv'
  BY <1>1, StorageStep
<1>7. WrittenInv'
  BY <1>1, WrittenStep
<1>8. ResultInv'
  BY <1>1, ResultStep
<1>9. VerifyInv'
  BY <1>1, <1>2, VerifyStep
<1> QED BY <1>2, <1>3, <1>4, <1>5, <1>6, <1>7, <1>8, <1>9 DEF DiskInv, MainParts, DataParts

\* main, the workers, the disks and their media agree with one another at every
\* moment of every run, of the process and of the machine.
THEOREM DiskInvariant == Spec => []DiskInv
<1>1. Init => DiskInv
  BY InitInv
<1>2. DiskInv /\ [Next]_vars => DiskInv'
  BY DiskStep
<1> QED BY <1>1, <1>2, PTL DEF Spec

\* The variables have their types, and every position a worker hands to pwrite_all
\* starts on a super-chunk.
THEOREM Typing == Spec => []TypeOK
<1>1. DiskInv => TypeOK
  <2> SUFFICES ASSUME DiskInv PROVE TypeOK
    OBVIOUS
  <2>1. MainInv /\ WorkersInv
    BY DEF DiskInv, MainParts, DataParts
  <2>2. ASSUME NEW g \in DOMAIN w
        PROVE  /\ w[g].pos % Super = 0 /\ w[g].s % Super = 0
               /\ w[g].pc = "write" => w[g].done < Cardinality(DOMAIN w[g].slice)
    <3> DEFINE h == w[g]
    <3>1. WorkerInv(h) /\ WorkerTypes(h)
      BY <2>1 DEF WorkersInv, WorkerInv
    <3> HIDE DEF h
    <3>2. h.pos \in Aligned /\ h.s \in Aligned
      BY <3>1 DEF WorkerTypes
    <3>3. h.pos % Super = 0 /\ h.s % Super = 0
      BY <3>2 DEF Aligned
    <3>4. ASSUME h.pc = "write" PROVE h.done < Cardinality(DOMAIN h.slice)
      <4> DEFINE len == SliceLen(h)
      <4>1. h.stage > 0 /\ h.s < h.win /\ h.done < len /\ DOMAIN h.slice = 0 .. len - 1
        BY <3>1, <3>4 DEF WorkerInv
      <4>2. len \in Nat \ {0}
        BY <3>1, <4>1, SliceLenRange
      <4> HIDE DEF len
      <4>3. len - 1 \in Int /\ 0 \in Int /\ ~(0 > len - 1)
        BY <4>2
      <4>4. Cardinality(0 .. len - 1) = IF 0 > len - 1 THEN 0 ELSE (len - 1) - 0 + 1
        BY ONLY <4>3, FS_Interval
      <4> QED BY <4>1, <4>2, <4>3, <4>4
    <3> QED BY <3>3, <3>4 DEF h
  <2> QED BY <2>1, <2>2 DEF TypeOK, MainInv
<1> QED BY <1>1, DiskInvariant, PTL

\* From the open of a target until the run is over nobody else uses it, its parent
\* disk or a partition of it.
THEOREM TargetsAreExclusive == Spec => []Exclusive
<1>1. DiskInv => Exclusive
  BY DEF DiskInv, MainParts
<1> QED BY <1>1, DiskInvariant, PTL

\* Whatever was killed, failed or lost with the power, a unit of a disk is what it
\* was or the label of its own position, and the tail is never written.
THEOREM LabelsAreInPlace == Spec => []LabelsInPlace
<1>1. DiskInv => LabelsInPlace
  BY DEF DiskInv, DataParts, StorageInv, IsStore, InPlace, LabelsInPlace
<1> QED BY <1>1, DiskInvariant, PTL

\* Exit code 0 of a run that writes: every super-chunk of every target holds the
\* labels of this run's seed, whatever the schedule and whatever was there.
THEOREM ExitZeroWiped == Spec => []ExitZeroMeansWiped
<1>1. DiskInv => ExitZeroMeansWiped
  BY DEF DiskInv, DataParts, ResultInv, TargetWiped, Wiped, ExitZeroMeansWiped
<1> QED BY <1>1, DiskInvariant, PTL

\* Exit code 0 and no fsync that failed unnoticed: the labels are on the media.
THEOREM ExitZeroDurable == Spec => []ExitZeroMeansDurable
<1>1. DiskInv => ExitZeroMeansDurable
  BY DEF DiskInv, DataParts, ResultInv, TargetWiped, Wiped, ExitZeroMeansDurable
<1> QED BY <1>1, DiskInvariant, PTL

\* VERIFY OK with as many samples as super-chunks: the disks are labelled completely.
THEOREM VerifyOkWiped == Spec => []VerifyOkMeansWiped
<1>1. DiskInv => VerifyOkMeansWiped
  BY DEF DiskInv, VerifyInv, Full, TargetWiped, Wiped, VerifyOkMeansWiped
<1> QED BY <1>1, DiskInvariant, PTL

\* A disk gets new contents only when every target was opened and validated and
\* writing was confirmed; otherwise it can only fall back to its medium.
THEOREM WritesAreValidated == Spec => ValidatedBeforeWrite
<1> DEFINE New == \E d \in DOMAIN disk : \E u \in DOMAIN disk[d] :
                    disk'[d][u] \notin {disk[d][u], medium[d][u]}
           Fit == Len(targets) = Len(cfg.disks) /\ cfg.confirm /\ ~cfg.dry /\ ~cfg.only
<1>1. ASSUME DiskInv, [Next]_vars, New PROVE Fit
  <2>1. MainInv /\ WorkersInv /\ StorageInv
    BY <1>1 DEF DiskInv, MainParts, DataParts
  <2>2. disk' # disk
    BY <1>1
  <2>3. ~PowerLoss
    <3>1. DOMAIN disk = DOMAIN Devices /\ \A d \in DOMAIN Devices : DOMAIN disk[d] = Units(d)
      BY <2>1 DEF StorageInv, IsStore
    <3> QED BY <1>1, <2>1, <3>1, PowerLossEffect
  <2>4. PICK g : WorkerStep(g)
    <3>1. ASSUME NEW c, BeginRun(c) PROVE FALSE
      BY <2>2, <3>1 DEF BeginRun, storage
    <3>2. ASSUME NEW ndev, Inventory(ndev) PROVE FALSE
      BY <2>2, <3>2 DEF Inventory, storage
    <3>3. ASSUME NEW b, CheckDisk(b) \/ OpenDisk(b) \/ VerifyNext(b) PROVE FALSE
      BY <2>2, <3>3 DEF CheckDisk, OpenDisk, VerifyNext, storage
    <3>4. ASSUME \/ Plan \/ JoinWorkers \/ Report \/ VerifySample \/ VerifyDone \/ Exit
                 \/ FinalFrame \/ Crash \/ UNCHANGED vars
          PROVE  FALSE
      BY <2>2, <3>4 DEF Plan, JoinWorkers, Report, VerifySample, VerifyDone, Exit, FinalFrame,
                        Crash, vars, storage
    <3>5. ASSUME NEW d, NEW h, Release(d) \/ Hold(d, h) PROVE FALSE
      BY <2>2, <3>5 DEF Release, Hold, storage
    <3> QED BY <1>1, <2>3, <3>1, <3>2, <3>3, <3>4, <3>5 DEF Next, MainStep
  <2>5. mpc = "run" /\ g \in DOMAIN w
    BY <2>1, <2>4, WorkerFrame
  <2>6. w[g].pc = "write"
    BY <2>2, <2>4, WorkerStorage DEF storage, Flush, At
  <2>7. ~cfg.dry
    BY <2>1, <2>5, <2>6 DEF WorkersInv, WorkerInv
  <2> QED BY <2>1, <2>5, <2>7 DEF MainInv
<1>2. DiskInv /\ [Next]_vars => [New => Fit]_vars
  BY <1>1
<1> QED BY <1>2, DiskInvariant, PTL DEF Spec, ValidatedBeforeWrite

\* While the workers run their items partition the super-chunks of every target,
\* whatever the numbers of disks and GPUs, the team size and the order of the disks.
THEOREM RangesArePartition == Spec => []RangesPartition
<1>1. DiskInv => RangesPartition
  <2> SUFFICES ASSUME DiskInv, mpc = "run", NEW i \in DOMAIN targets,
                      NEW u \in 0 .. Devices[targets[i].dev].size - 1
               PROVE  LET items == {<<g, k>> : g \in DOMAIN w, k \in 1 .. Len(targets)}
                          Of(x) == IF x[2] \in DOMAIN w[x[1]].items
                                      /\ w[x[1]].items[x[2]].dev = targets[i].dev
                                   THEN {w[x[1]].items[x[2]]} ELSE {}
                      IN  Cardinality({x \in items : \E it \in Of(x) :
                                         u \in it.off .. it.off + it.len - 1})
                            = (IF u < targets[i].wipe_len THEN 1 ELSE 0)
    BY DEF RangesPartition
  <2> DEFINE items == {<<g, k>> : g \in DOMAIN w, k \in 1 .. Len(targets)}
             Of(x) == IF x[2] \in DOMAIN w[x[1]].items
                         /\ w[x[1]].items[x[2]].dev = targets[i].dev
                      THEN {w[x[1]].items[x[2]]} ELSE {}
             S == {x \in items : \E it \in Of(x) : u \in it.off .. it.off + it.len - 1}
             Has(g, k) == /\ k \in DOMAIN w[g].items
                          /\ w[g].items[k].dev = targets[i].dev
                          /\ Holds(w[g].items[k], u)
  <2>1. MainInv /\ Exclusive /\ ItemsInv /\ WorkersInv
    BY DEF DiskInv, MainParts, DataParts
  <2>2. u \in Nat /\ targets \in Seq(TargetType) /\ ~cfg.only
    BY <2>1 DEF MainInv
  <2>3. ASSUME NEW g \in DOMAIN w
        PROVE  w[g].items \in Seq(ItemType) /\ Len(w[g].items) <= Len(targets)
    BY <2>1 DEF WorkersInv, WorkerInv, WorkerTypes, ItemsInv
  <2>4. ASSUME NEW g \in DOMAIN w, NEW k \in DOMAIN w[g].items
        PROVE  /\ k \in 1 .. Len(targets)
               /\ w[g].items[k].off \in Nat /\ w[g].items[k].len \in Nat
    <3>1. w[g].items[k] \in ItemType /\ k \in 1 .. Len(targets)
      BY <2>2, <2>3
    <3> QED BY <3>1, AlignedUnits DEF ItemType
  <2>5. ASSUME NEW g \in DOMAIN w, NEW k \in 1 .. Len(targets)
        PROVE  <<g, k>> \in S <=> Has(g, k)
    <3>1. <<g, k>> \in items
      OBVIOUS
    <3>2. <<g, k>> \in S <=> /\ k \in DOMAIN w[g].items
                             /\ w[g].items[k].dev = targets[i].dev
                             /\ u \in w[g].items[k].off .. w[g].items[k].off + w[g].items[k].len - 1
      BY <3>1
    <3>3. CASE k \in DOMAIN w[g].items
      <4> DEFINE a == w[g].items[k].off
                 n == w[g].items[k].len
      <4>1. a \in Nat /\ n \in Nat
        BY <2>4, <3>3
      <4> HIDE DEF a, n
      <4>2. u \in a .. a + n - 1 <=> (a <= u /\ u < a + n)
        BY <2>2, <4>1
      <4> QED BY <3>2, <4>2 DEF a, n, Holds
    <3> QED BY <3>2, <3>3
  <2> HIDE DEF S
  <2>6. \A x \in S : \E g \in DOMAIN w, k \in 1 .. Len(targets) : x = <<g, k>>
    BY DEF S
  <2>7. ASSUME u < targets[i].wipe_len PROVE Cardinality(S) = 1
    <3>1. u \in 0 .. targets[i].wipe_len - 1
      <4>1. targets[i] \in TargetType
        BY <2>2
      <4>2. targets[i].wipe_len \in Nat
        BY <4>1, AlignedUnits DEF TargetType
      <4> QED BY <2>2, <2>7, <4>2
    <3>2. PICK g \in DOMAIN w : \E k \in DOMAIN w[g].items :
            w[g].items[k].dev = targets[i].dev /\ Holds(w[g].items[k], u)
      BY <2>1, <3>1 DEF ItemsInv
    <3>3. PICK k \in DOMAIN w[g].items :
            w[g].items[k].dev = targets[i].dev /\ Holds(w[g].items[k], u)
      BY <3>2
    <3>4. <<g, k>> \in S
      BY <2>4, <2>5, <3>3
    <3>5. ASSUME NEW x \in S PROVE x = <<g, k>>
      <4>1. PICK f \in DOMAIN w, m \in 1 .. Len(targets) : x = <<f, m>>
        BY <2>6
      <4>2. Has(f, m)
        BY <2>5, <3>5, <4>1
      <4>3. f = g /\ m = k
        BY <2>1, <2>2, <3>3, <4>2 DEF ItemsInv
      <4> QED BY <4>1, <4>3
    <3>6. S = {<<g, k>>}
      BY <3>4, <3>5
    <3> QED BY <3>6, FS_Singleton
  <2>8. ASSUME ~(u < targets[i].wipe_len) PROVE Cardinality(S) = 0
    <3>1. ASSUME NEW x \in S PROVE FALSE
      <4>1. PICK g \in DOMAIN w, k \in 1 .. Len(targets) : x = <<g, k>>
        BY <2>6
      <4>2. Has(g, k)
        BY <2>5, <3>1, <4>1
      <4>3. PICK d \in DOMAIN targets :
              /\ w[g].items[k].dev = targets[d].dev
              /\ w[g].items[k].off + w[g].items[k].len <= targets[d].wipe_len
        BY <2>1, <4>2 DEF ItemsInv
      <4>4. d = i
        BY <2>1, <2>2, <4>2, <4>3 DEF Exclusive, Overlaps
      <4>5. targets[i].wipe_len \in Nat
        <5>1. targets[i] \in TargetType
          BY <2>2
        <5> QED BY <5>1, AlignedUnits DEF TargetType
      <4> QED BY <2>2, <2>4, <2>8, <4>2, <4>3, <4>4, <4>5 DEF Holds
    <3>2. S = {}
      BY <3>1
    <3> QED BY <3>2, FS_EmptySet
  <2>9. Cardinality(S) = (IF u < targets[i].wipe_len THEN 1 ELSE 0)
    BY <2>7, <2>8
  <2> QED BY <2>9 DEF S
<1> QED BY <1>1, DiskInvariant, PTL
============================================================================
