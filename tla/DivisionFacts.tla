--------------------------- MODULE DivisionFacts ---------------------------
(***************************************************************************)
(* Facts about \div and % by a positive number: the chunk arithmetic of the *)
(* library divides block numbers by chunk_blocks, which the provers cannot  *)
(* do by themselves when the divisor is a parameter.  Then facts about      *)
(* loops, that a body which leads from the states T[i - 1] to the states    *)
(* T[i] gives the loop's recursive function a table, about functions on the *)
(* naturals defined by recursion, and about sequences.                      *)
(***************************************************************************)
EXTENDS Integers, FiniteSetsExt, SequenceTheorems, WellFoundedInduction, TLAPS

\* Quotient and remainder.
LEMMA DivMod ==
  ASSUME NEW a \in Int, NEW b \in Nat \ {0}
  PROVE  /\ a \div b \in Int
         /\ a % b \in 0 .. b - 1
         /\ a = b * (a \div b) + (a % b)
OBVIOUS

\* They are the only ones.
LEMMA DivUnique ==
  ASSUME NEW b \in Nat \ {0}, NEW q \in Int, NEW r \in 0 .. b - 1
  PROVE  (b * q + r) \div b = q /\ (b * q + r) % b = r
OBVIOUS

\* Whole multiples of the divisor pass through.
LEMMA DivAdd ==
  ASSUME NEW a \in Int, NEW b \in Nat \ {0}, NEW j \in Int
  PROVE  (a + j * b) \div b = (a \div b) + j /\ (a + j * b) % b = a % b
<1> DEFINE q == a \div b
           r == a % b
<1>1. q \in Int /\ r \in 0 .. b - 1 /\ a = b * q + r
  BY DivMod
<1> HIDE DEF q, r
<1>2. a + j * b = b * (q + j) + r
  BY <1>1
<1>3. q + j \in Int
  BY <1>1
<1>4. (b * (q + j) + r) \div b = q + j /\ (b * (q + j) + r) % b = r
  BY <1>1, <1>3, DivUnique
<1> QED BY <1>2, <1>4 DEF q, r

\* A block of a chunk that starts at a multiple of the chunk size.
LEMMA DivInChunk ==
  ASSUME NEW b \in Nat \ {0}, NEW q \in Int, NEW r \in 0 .. b - 1
  PROVE  (q * b + r) \div b = q /\ (q * b + r) % b = r
<1>1. q * b + r = b * q + r
  OBVIOUS
<1> QED BY <1>1, DivUnique

\* Dividing a natural number gives one.
LEMMA DivNat ==
  ASSUME NEW a \in Nat, NEW b \in Nat \ {0}
  PROVE  a \div b \in Nat /\ (a \div b) * b <= a /\ a < (a \div b) * b + b
<1> DEFINE q == a \div b
           r == a % b
<1>1. q \in Int /\ r \in 0 .. b - 1 /\ a = b * q + r
  BY DivMod
<1> HIDE DEF q, r
<1>2. q >= 0
  <2> SUFFICES ASSUME q <= -1 PROVE FALSE
    BY <1>1
  <2>1. b * q <= b * (-1)
    BY <1>1
  <2> QED BY <1>1, <2>1
<1> QED BY <1>1, <1>2 DEF q

\* Multiplication by a positive number keeps the order.
LEMMA MulMono ==
  ASSUME NEW x \in Int, NEW y \in Int, NEW b \in Nat, x <= y
  PROVE  x * b <= y * b
<1>1. (y - x) * b >= 0
  OBVIOUS
<1>2. (y - x) * b = y * b - x * b
  OBVIOUS
<1> QED BY <1>1, <1>2

\* Min of a pair is one of the two, and no larger than either.
LEMMA MinOfTwo ==
  ASSUME NEW x \in Int, NEW y \in Int
  PROVE  /\ Min({x, y}) \in {x, y}
         /\ Min({x, y}) <= x
         /\ Min({x, y}) <= y
<1>1. \E z \in {x, y} : \A v \in {x, y} : z <= v
  <2>1. CASE x <= y BY <2>1
  <2>2. CASE y < x BY <2>2
  <2> QED BY <2>1, <2>2
<1> QED BY <1>1 DEF Min

\* The same for three.
LEMMA MinOfThree ==
  ASSUME NEW x \in Int, NEW y \in Int, NEW z \in Int
  PROVE  /\ Min({x, y, z}) \in {x, y, z}
         /\ Min({x, y, z}) <= x
         /\ Min({x, y, z}) <= y
         /\ Min({x, y, z}) <= z
<1>1. \E w \in {x, y, z} : \A v \in {x, y, z} : w <= v
  <2>1. CASE x <= y /\ x <= z BY <2>1
  <2>2. CASE y < x /\ y <= z BY <2>2
  <2>3. CASE z < x /\ z < y BY <2>3
  <2> QED BY <2>1, <2>2, <2>3
<1> QED BY <1>1 DEF Min

\* Max of a pair is one of the two, and no smaller than either.
LEMMA MaxOfTwo ==
  ASSUME NEW x \in Int, NEW y \in Int
  PROVE  /\ Max({x, y}) \in {x, y}
         /\ Max({x, y}) >= x
         /\ Max({x, y}) >= y
<1>1. \E z \in {x, y} : \A v \in {x, y} : z >= v
  <2>1. CASE x >= y BY <2>1
  <2>2. CASE y > x BY <2>2
  <2> QED BY <2>1, <2>2
<1> QED BY <1>1 DEF Max

\* A block of the whole chunks of a region: its chunk is one of them, and full.
LEMMA BlockOfWholeChunk ==
  ASSUME NEW cb \in Nat \ {0}, NEW len \in Nat,
         NEW b \in 0 .. (len \div cb) * cb - 1
  PROVE  /\ b \in Nat /\ b < len
         /\ b \div cb \in 0 .. (len \div cb) - 1
         /\ b % cb \in 0 .. cb - 1
         /\ Min({cb, len - (b - (b % cb))}) = cb
<1> DEFINE num == len \div cb
           q == b \div cb
           r == b % cb
<1>1. num \in Nat /\ num * cb <= len /\ num * cb \in Int
  BY DivNat
<1>2. b \in Nat /\ b < len /\ b < num * cb
  BY <1>1
<1>3. q \in Nat /\ r \in 0 .. cb - 1 /\ b = cb * q + r
  <2>1. b \in Int
    BY <1>2
  <2>2. r \in 0 .. cb - 1 /\ b = cb * q + r
    BY ONLY <2>1, DivMod, cb \in Nat \ {0}
  <2>3. q \in Nat
    BY ONLY <1>2, DivNat, cb \in Nat \ {0}
  <2> QED BY <2>2, <2>3
<1> HIDE DEF num, q, r
<1>4. q * cb \in Int /\ b - r = q * cb
  BY <1>3
<1>5. q < num
  <2> SUFFICES ASSUME num <= q PROVE FALSE
    BY <1>1, <1>3
  <2>1. num * cb <= q * cb
    BY <1>1, <1>3, MulMono
  <2> QED BY <1>1, <1>2, <1>3, <1>4, <2>1
<1>6. cb <= len - (b - r) /\ len - (b - r) \in Int
  <2>1. (q + 1) * cb <= num * cb
    BY <1>1, <1>3, <1>5, MulMono
  <2>2. (q + 1) * cb = q * cb + cb
    BY <1>3
  <2> QED BY <1>1, <1>2, <1>4, <2>1, <2>2
<1>7. Min({cb, len - (b - r)}) = cb
  <2> DEFINE x == len - (b - r)
  <2> HIDE DEF x
  <2>1. x \in Int /\ cb <= x
    BY <1>6 DEF x
  <2>2. Min({cb, x}) \in {cb, x} /\ Min({cb, x}) <= cb
    BY <2>1, MinOfTwo
  <2> QED BY <2>1, <2>2 DEF x
<1> QED BY <1>1, <1>2, <1>3, <1>5, <1>7 DEF num, q, r

\* And conversely.
LEMMA BlockOfChunkIsCovered ==
  ASSUME NEW cb \in Nat \ {0}, NEW num \in Nat, NEW b \in Nat, b \div cb < num
  PROVE  b \in 0 .. num * cb - 1
<1> DEFINE q == b \div cb
<1>1. q \in Nat /\ b < q * cb + cb
  BY DivNat
<1> HIDE DEF q
<1>2. q + 1 <= num
  BY <1>1 DEF q
<1>3. (q + 1) * cb <= num * cb
  BY <1>1, <1>2, MulMono
<1> QED BY <1>1, <1>3

\* Block x is in chunk k exactly if it lies between the chunk's ends.
LEMMA ChunkOfBlock ==
  ASSUME NEW cb \in Nat \ {0}, NEW k \in Int, NEW x \in Int
  PROVE  /\ x \div cb = k <=> (k * cb <= x /\ x < k * cb + cb)
         /\ x \div cb = k => x % cb = x - k * cb
<1>1. k * cb \in Int
  OBVIOUS
<1>2. ASSUME k * cb <= x, x < k * cb + cb
      PROVE  x \div cb = k /\ x % cb = x - k * cb
  <2> DEFINE r == x - k * cb
  <2>1. r \in 0 .. cb - 1 /\ x = k * cb + r
    BY <1>1, <1>2
  <2> HIDE DEF r
  <2>2. (k * cb + r) \div cb = k /\ (k * cb + r) % cb = r
    BY <2>1, DivInChunk
  <2> QED BY <2>1, <2>2 DEF r
<1>3. ASSUME x \div cb = k
      PROVE  k * cb <= x /\ x < k * cb + cb
  <2> DEFINE r == x % cb
  <2>1. r \in 0 .. cb - 1 /\ x = cb * k + r
    BY <1>3, DivMod
  <2> HIDE DEF r
  <2>2. cb * k = k * cb
    OBVIOUS
  <2> QED BY <1>1, <2>1, <2>2
<1> QED BY <1>2, <1>3

\* Starts of chunks are in the order of their numbers.
LEMMA ChunkOrder ==
  ASSUME NEW cb \in Nat \ {0}, NEW j \in Int, NEW k \in Int
  PROVE  /\ j * cb \in Int /\ k * cb \in Int
         /\ (j + k) * cb = j * cb + k * cb
         /\ j < k => j * cb + cb <= k * cb
         /\ j * cb < k * cb + cb => j <= k
<1>1. j * cb \in Int /\ k * cb \in Int /\ (j + k) * cb = j * cb + k * cb
  OBVIOUS
<1>2. ASSUME j < k PROVE j * cb + cb <= k * cb
  <2>1. (j + 1) * cb <= k * cb
    BY <1>2, MulMono
  <2>2. (j + 1) * cb = j * cb + cb
    OBVIOUS
  <2> QED BY <2>1, <2>2
<1>3. ASSUME j * cb < k * cb + cb, k < j PROVE FALSE
  <2>1. (k + 1) * cb <= j * cb
    BY <1>3, MulMono
  <2>2. (k + 1) * cb = k * cb + cb
    OBVIOUS
  <2> QED BY <1>1, <1>3, <2>1, <2>2
<1> QED BY <1>1, <1>2, <1>3

\* A nonempty set of naturals has a least element.
LEMMA LeastElement ==
  ASSUME NEW S \in SUBSET Nat, S # {}
  PROVE  Min(S) \in S /\ \A y \in S : Min(S) <= y
<1> DEFINE R == OpToRel(<, Nat)
<1>1. IsWellFoundedOn(R, Nat)
  BY NatLessThanWellFounded
<1>2. \A x, y \in Nat : x < y => <<x, y>> \in R
  BY DEF OpToRel
<1> HIDE DEF R
<1>3. \E x \in S : \A y \in S : ~(<<y, x>> \in R)
  BY <1>1, WFMin
<1>4. \E x \in S : \A y \in S : x <= y
  <2>1. PICK x \in S : \A y \in S : ~(<<y, x>> \in R)
    BY <1>3
  <2>2. ASSUME NEW y \in S PROVE x <= y
    <3>1. x \in Nat /\ y \in Nat /\ ~(y < x)
      BY <1>2, <2>1
    <3> QED BY <3>1
  <2> QED BY <2>2
<1> QED BY <1>4 DEF Min

\* Induction, as a fact about sets of naturals.
LEMMA InductiveSet ==
  ASSUME NEW S \in SUBSET Nat, 0 \in S, \A n \in S : n + 1 \in S
  PROVE  S = Nat
<1> DEFINE C == Nat \ S
           m == Min(C)
<1> SUFFICES ASSUME C # {} PROVE FALSE
  OBVIOUS
<1>1. C \in SUBSET Nat
  OBVIOUS
<1>2. m \in C /\ \A y \in C : m <= y
  BY <1>1, LeastElement
<1> HIDE DEF m
<1>3. m \in Nat /\ m # 0
  BY <1>2
<1>4. m - 1 \in Nat /\ m - 1 \notin C
  BY <1>2, <1>3
<1>5. (m - 1) + 1 \in S
  BY <1>4
<1> QED BY <1>2, <1>3, <1>5

\* Products of positive numbers are positive.
LEMMA PositiveProduct ==
  ASSUME NEW b \in Nat \ {0}, NEW c \in Nat \ {0}
  PROVE  b * c \in Nat \ {0}
OBVIOUS

\* A number below the divisor.
LEMMA SmallQuotient ==
  ASSUME NEW b \in Nat \ {0}, NEW a \in 0 .. b - 1
  PROVE  a \div b = 0 /\ a % b = a
<1>1. a = b * 0 + a
  OBVIOUS
<1>2. (b * 0 + a) \div b = 0 /\ (b * 0 + a) % b = a
  BY DivUnique
<1> QED BY <1>1, <1>2

\* Dividing twice is dividing by the product.
LEMMA DivOfDiv ==
  ASSUME NEW a \in Nat, NEW b \in Nat \ {0}, NEW c \in Nat \ {0}
  PROVE  (a \div b) \div c = a \div (b * c)
<1> DEFINE q == a \div b
           r == a % b
           p == q \div c
           s == q % c
<1>1. q \in Int /\ r \in 0 .. b - 1 /\ a = b * q + r
  BY DivMod
<1> HIDE DEF q, r
<1>2. p \in Int /\ s \in 0 .. c - 1 /\ q = c * p + s
  BY <1>1, DivMod
<1> HIDE DEF p, s
<1>3. b * c \in Nat \ {0}
  BY PositiveProduct
<1>4. b * s \in Nat /\ b * s <= b * c - b
  <2>1. s \in Nat /\ s <= c - 1
    BY <1>2
  <2>2. s * b <= (c - 1) * b
    BY <2>1, MulMono
  <2>3. (c - 1) * b = b * c - b /\ s * b = b * s /\ b * s \in Nat
    BY <2>1
  <2> QED BY <2>2, <2>3
<1>5. a = (b * c) * p + (b * s + r)
  <2>1. b * q = b * (c * p) + b * s
    BY <1>2
  <2>2. b * (c * p) = (b * c) * p
    BY <1>2
  <2> QED BY <1>1, <1>2, <1>4, <2>1, <2>2
<1> DEFINE m == b * c
           n == b * s + r
<1>6. n \in 0 .. m - 1
  BY <1>1, <1>3, <1>4
<1>7. a = m * p + n /\ m \in Nat \ {0}
  BY <1>3, <1>5
<1> HIDE DEF m, n
<1>8. a \div m = p
  BY <1>2, <1>6, <1>7, DivUnique
<1> QED BY <1>8 DEF m, p, q

----------------------------------------------------------------------------
(* Loops.                                                                   *)

\* f is the table of the states a loop of n rounds goes through.
IsRun(f, n, T, base, body) ==
  /\ f = [i \in 0 .. n |-> f[i]]
  /\ f[0] = base
  /\ \A i \in 1 .. n : f[i] = body[<<f[i - 1], i>>]
  /\ \A i \in 0 .. n : f[i] \in T[i]

\* A loop whose body leads from the states T[i - 1] to the states T[i] has a run.
LEMMA LoopRun ==
  ASSUME NEW n \in Nat, NEW T, NEW base \in T[0], NEW body,
         \A i \in 1 .. n : \A x \in T[i - 1] : body[<<x, i>>] \in T[i]
  PROVE  \E f : IsRun(f, n, T, base, body)
<1> DEFINE Table(k, f) == /\ f = [i \in 0 .. k |-> f[i]]
                          /\ f[0] = base
                          /\ \A i \in 1 .. k : f[i] = body[<<f[i - 1], i>>]
                          /\ \A i \in 0 .. k : f[i] \in T[i]
           S == {k \in Nat : k <= n => \E f : Table(k, f)}
<1>1. 0 \in S
  <2>1. Table(0, [i \in 0 .. 0 |-> base])
    OBVIOUS
  <2> QED BY <2>1
<1>2. ASSUME NEW k \in S PROVE k + 1 \in S
  <2> SUFFICES ASSUME k + 1 <= n PROVE \E f : Table(k + 1, f)
    OBVIOUS
  <2>1. k \in Nat /\ k <= n /\ k + 1 \in 1 .. n /\ (k + 1) - 1 = k /\ k \in 0 .. k
    OBVIOUS
  <2>2. PICK f : Table(k, f)
    BY <2>1
  <2> DEFINE v == body[<<f[k], k + 1>>]
             g == [i \in 0 .. k + 1 |-> IF i = k + 1 THEN v ELSE f[i]]
  <2>3. v \in T[k + 1]
    BY <2>1, <2>2
  <2>4. g = [i \in 0 .. k + 1 |-> g[i]]
    OBVIOUS
  <2>5. \A i \in 0 .. k : g[i] = f[i]
    BY <2>1
  <2>6. g[k + 1] = v
    BY <2>1
  <2> HIDE DEF v, g
  <2>7. Table(k + 1, g)
    <3>1. g[0] = base
      BY <2>1, <2>2, <2>5
    <3>2. ASSUME NEW i \in 1 .. k + 1 PROVE g[i] = body[<<g[i - 1], i>>]
      <4>1. CASE i = k + 1
        <5>1. i - 1 = k
          BY <2>1, <4>1
        <5> QED BY <2>1, <2>5, <2>6, <4>1, <5>1 DEF v
      <4>2. CASE i # k + 1
        <5>1. i \in 1 .. k /\ i - 1 \in 0 .. k /\ i \in 0 .. k
          BY <2>1, <4>2
        <5> QED BY <2>2, <2>5, <5>1
      <4> QED BY <4>1, <4>2
    <3>3. ASSUME NEW i \in 0 .. k + 1 PROVE g[i] \in T[i]
      <4>1. CASE i = k + 1 BY <2>3, <2>6, <4>1
      <4>2. CASE i # k + 1
        <5>1. i \in 0 .. k
          BY <2>1, <4>2
        <5> QED BY <2>2, <2>5, <5>1
      <4> QED BY <4>1, <4>2
    <3> QED BY <2>4, <3>1, <3>2, <3>3
  <2> QED BY <2>7
<1>3. S = Nat
  <2> HIDE DEF S
  <2>1. S \in SUBSET Nat
    BY DEF S
  <2> QED BY <1>1, <1>2, <2>1, InductiveSet
<1>4. n \in S
  BY <1>3
<1> QED BY <1>4 DEF IsRun

\* The states of a loop, by induction over its rounds.
LEMMA LoopStates ==
  ASSUME NEW n \in Nat, NEW T, NEW f, f[0] \in T[0],
         \A i \in 1 .. n : f[i - 1] \in T[i - 1] => f[i] \in T[i]
  PROVE  \A i \in 0 .. n : f[i] \in T[i]
<1> DEFINE S == {k \in Nat : k <= n => f[k] \in T[k]}
<1>1. 0 \in S
  OBVIOUS
<1>2. ASSUME NEW k \in S PROVE k + 1 \in S
  <2>1. k \in Nat /\ (k + 1) - 1 = k
    OBVIOUS
  <2> QED BY <2>1
<1>3. S = Nat
  <2> HIDE DEF S
  <2>1. S \in SUBSET Nat
    BY DEF S
  <2> QED BY <1>1, <1>2, <2>1, InductiveSet
<1> QED BY <1>3

\* f is the function on the naturals that a recursive definition describes.
IsRecursion(f, T, base, body) ==
  /\ f \in [Nat -> T] /\ f[0] = base
  /\ \A i \in Nat \ {0} : f[i] = body[<<f[i - 1], i>>]

\* There is one.
LEMMA NatRecursion ==
  ASSUME NEW T, NEW base \in T, NEW body,
         \A i \in Nat \ {0} : \A x \in T : body[<<x, i>>] \in T
  PROVE  \E f : IsRecursion(f, T, base, body)
<1> DEFINE TT == [i \in Nat |-> T]
           Run(f, n) == IsRun(f, n, TT, base, body)
           F == [n \in Nat |-> CHOOSE f : Run(f, n)]
           g == [n \in Nat |-> F[n][n]]
<1>1. ASSUME NEW n \in Nat PROVE Run(F[n], n)
  <2>1. \A i \in 1 .. n : i - 1 \in Nat /\ i \in Nat \ {0}
    OBVIOUS
  <2>2. \A i \in 1 .. n : \A x \in TT[i - 1] : body[<<x, i>>] \in TT[i]
    BY <2>1
  <2>3. base \in TT[0]
    OBVIOUS
  <2>4. \E f : Run(f, n)
    <3> HIDE DEF TT
    <3> QED BY <2>2, <2>3, LoopRun
  <2> HIDE DEF Run
  <2> QED BY <2>4
<1>2. ASSUME NEW n \in Nat PROVE F[n + 1][n] = F[n][n]
  <2> DEFINE a == F[n]
             b == F[n + 1]
             T2 == [i \in 0 .. n |-> {a[i]}]
  <2>1. n + 1 \in Nat
    OBVIOUS
  <2>2. Run(a, n) /\ Run(b, n + 1)
    BY <1>1, <2>1
  <2> HIDE DEF a, b, F
  <2>3. a[0] = base /\ b[0] = base
    BY <2>2 DEF IsRun
  <2>4. \A i \in 1 .. n : i \in 1 .. n + 1 /\ i - 1 \in 0 .. n /\ i \in 0 .. n
    OBVIOUS
  <2>5. \A i \in 1 .. n : a[i] = body[<<a[i - 1], i>>] /\ b[i] = body[<<b[i - 1], i>>]
    BY <2>2, <2>4 DEF IsRun
  <2>6. b[0] \in T2[0]
    BY <2>3
  <2>7. ASSUME NEW i \in 1 .. n, b[i - 1] \in T2[i - 1] PROVE b[i] \in T2[i]
    <3>1. b[i - 1] = a[i - 1]
      BY <2>4, <2>7
    <3>2. b[i] = a[i]
      BY <2>5, <3>1
    <3> QED BY <2>4, <3>2
  <2>8. \A i \in 0 .. n : b[i] \in T2[i]
    <3> HIDE DEF T2
    <3> QED BY <2>6, <2>7, LoopStates
  <2>9. n \in 0 .. n
    OBVIOUS
  <2>10. b[n] = a[n]
    BY <2>8, <2>9
  <2> QED BY <2>10 DEF a, b
<1>3. g \in [Nat -> T]
  <2>1. ASSUME NEW n \in Nat PROVE F[n][n] \in T
    <3>1. Run(F[n], n)
      BY <1>1
    <3>2. n \in 0 .. n
      OBVIOUS
    <3> HIDE DEF F
    <3>3. F[n][n] \in TT[n]
      BY <3>1, <3>2 DEF IsRun
    <3> QED BY <3>3
  <2> HIDE DEF F
  <2> QED BY <2>1
<1>4. g[0] = base
  <2>1. Run(F[0], 0)
    BY <1>1
  <2> HIDE DEF F
  <2> QED BY <2>1 DEF IsRun
<1>5. ASSUME NEW i \in Nat \ {0} PROVE g[i] = body[<<g[i - 1], i>>]
  <2>1. i - 1 \in Nat /\ (i - 1) + 1 = i /\ i \in 1 .. i
    OBVIOUS
  <2>2. Run(F[i], i)
    BY <1>1
  <2>3. F[i][i - 1] = F[i - 1][i - 1]
    BY <1>2, <2>1
  <2> HIDE DEF F
  <2>4. F[i][i] = body[<<F[i][i - 1], i>>]
    BY <2>1, <2>2 DEF IsRun
  <2> QED BY <2>1, <2>3, <2>4
<1> HIDE DEF g
<1> QED BY <1>3, <1>4, <1>5 DEF IsRecursion

----------------------------------------------------------------------------
(* Sequences, of whatever elements.                                         *)

IsSeq(s) == Len(s) \in Nat /\ s = [j \in 1 .. Len(s) |-> s[j]]

\* One sequence behind another.
LEMMA Appended ==
  ASSUME NEW s, NEW t, IsSeq(s), IsSeq(t)
  PROVE  /\ IsSeq(s \o t) /\ Len(s \o t) = Len(s) + Len(t)
         /\ \A j \in 1 .. Len(s) : (s \o t)[j] = s[j]
         /\ \A j \in 1 .. Len(t) : (s \o t)[Len(s) + j] = t[j]
<1> DEFINE S == {s[j] : j \in 1 .. Len(s)} \cup {t[j] : j \in 1 .. Len(t)}
           r == s \o t
<1>1. s \in Seq(S) /\ t \in Seq(S)
  <2>1. ASSUME NEW u, IsSeq(u), \A j \in 1 .. Len(u) : u[j] \in S PROVE u \in Seq(S)
    <3> HIDE DEF S
    <3> QED BY <2>1 DEF IsSeq
  <2>2. /\ \A j \in 1 .. Len(s) : s[j] \in S
        /\ \A j \in 1 .. Len(t) : t[j] \in S
    OBVIOUS
  <2> HIDE DEF S
  <2> QED BY <2>1, <2>2
<1> HIDE DEF S
<1>2. /\ r \in Seq(S) /\ Len(r) = Len(s) + Len(t)
      /\ \A j \in 1 .. Len(s) + Len(t) : r[j] = IF j <= Len(s) THEN s[j] ELSE t[j - Len(s)]
  BY <1>1, ConcatProperties
<1>3. Len(s) \in Nat /\ Len(t) \in Nat
  BY DEF IsSeq
<1> HIDE DEF r
<1>4. IsSeq(r)
  BY <1>2 DEF IsSeq
<1>5. \A j \in 1 .. Len(s) : r[j] = s[j]
  BY <1>2, <1>3
<1>6. ASSUME NEW j \in 1 .. Len(t) PROVE r[Len(s) + j] = t[j]
  <2>1. /\ Len(s) + j \in 1 .. Len(s) + Len(t) /\ ~(Len(s) + j <= Len(s))
        /\ (Len(s) + j) - Len(s) = j
    BY <1>3
  <2> QED BY <1>2, <2>1
<1> QED BY <1>2, <1>4, <1>5, <1>6 DEF r

LEMMA NoElements == IsSeq(<<>>) /\ Len(<<>>) = 0
BY DEF IsSeq

LEMMA SeqOfElements ==
  ASSUME NEW s, IsSeq(s)
  PROVE  s \in Seq({s[j] : j \in 1 .. Len(s)})
<1> DEFINE S == {s[j] : j \in 1 .. Len(s)}
<1>1. \A j \in 1 .. Len(s) : s[j] \in S
  OBVIOUS
<1> HIDE DEF S
<1>2. s \in Seq(S)
  BY <1>1 DEF IsSeq
<1> QED BY <1>2 DEF S

\* A sequence that is not empty is its head and its tail.
LEMMA HeadAndTail ==
  ASSUME NEW s, IsSeq(s), s # <<>>
  PROVE  /\ Len(s) \in Nat \ {0} /\ Head(s) = s[1]
         /\ IsSeq(Tail(s)) /\ Len(Tail(s)) = Len(s) - 1
         /\ \A j \in 1 .. Len(s) - 1 : Tail(s)[j] = s[j + 1]
<1> DEFINE S == {s[j] : j \in 1 .. Len(s)}
<1>1. s \in Seq(S)
  BY SeqOfElements
<1> HIDE DEF S
<1>2. Len(s) \in Nat \ {0}
  BY <1>1, EmptySeq
<1>3. /\ Tail(s) \in Seq(S) /\ Len(Tail(s)) = Len(s) - 1
      /\ \A j \in 1 .. Len(Tail(s)) : Tail(s)[j] = s[j + 1]
  BY <1>1, HeadTailProperties
<1>4. Head(s) = s[1]
  BY <1>1, <1>2
<1>5. IsSeq(Tail(s))
  <2> DEFINE u == Tail(s)
  <2>1. u \in Seq(S)
    BY <1>3
  <2> HIDE DEF u
  <2>2. IsSeq(u)
    BY <2>1 DEF IsSeq
  <2> QED BY <2>2 DEF u
<1> QED BY <1>2, <1>3, <1>4, <1>5

\* Sequences with the same elements are the same.
LEMMA SameElements ==
  ASSUME NEW s, NEW t, IsSeq(s), IsSeq(t), Len(s) = Len(t),
         \A j \in 1 .. Len(s) : s[j] = t[j]
  PROVE  s = t
BY DEF IsSeq

\* A pair of steps can be grouped either way.
LEMMA AppendedThrice ==
  ASSUME NEW s, NEW t, NEW u, IsSeq(s), IsSeq(t), IsSeq(u)
  PROVE  (s \o t) \o u = s \o (t \o u)
<1> DEFINE S == {s[j] : j \in 1 .. Len(s)}
           T == {t[j] : j \in 1 .. Len(t)}
           U == {u[j] : j \in 1 .. Len(u)}
           A == (S \cup T) \cup U
<1>1. s \in Seq(S) /\ t \in Seq(T) /\ u \in Seq(U)
  BY SeqOfElements
<1>2. S \subseteq A /\ T \subseteq A /\ U \subseteq A
  OBVIOUS
<1> HIDE DEF S, T, U, A
<1>3. s \in Seq(A) /\ t \in Seq(A) /\ u \in Seq(A)
  BY <1>1, <1>2, SeqMonotonic
<1> QED BY <1>3, ConcatAssociative

\* What comes first in a concatenation.
LEMMA HeadOfAppended ==
  ASSUME NEW s, NEW t, IsSeq(s), IsSeq(t), s # <<>>
  PROVE  s \o t # <<>> /\ Head(s \o t) = Head(s) /\ Tail(s \o t) = Tail(s) \o t
<1> DEFINE r == s \o t
           h == Tail(s)
<1>1. /\ IsSeq(r) /\ Len(r) = Len(s) + Len(t)
      /\ \A j \in 1 .. Len(s) : r[j] = s[j]
      /\ \A j \in 1 .. Len(t) : r[Len(s) + j] = t[j]
  BY Appended
<1>2. /\ Len(s) \in Nat \ {0} /\ Head(s) = s[1]
      /\ IsSeq(h) /\ Len(h) = Len(s) - 1
      /\ \A j \in 1 .. Len(s) - 1 : h[j] = s[j + 1]
  BY HeadAndTail
<1>3. /\ IsSeq(h \o t) /\ Len(h \o t) = Len(h) + Len(t)
      /\ \A j \in 1 .. Len(h) : (h \o t)[j] = h[j]
      /\ \A j \in 1 .. Len(t) : (h \o t)[Len(h) + j] = t[j]
  BY <1>2, Appended
<1>4. Len(t) \in Nat
  BY DEF IsSeq
<1> DEFINE v == h \o t
<1> HIDE DEF r, h, v
<1>5. r # <<>>
  <2>1. Len(r) # 0
    BY <1>1, <1>2, <1>4
  <2> QED BY <2>1, NoElements
<1>6. /\ Len(r) \in Nat \ {0} /\ Head(r) = r[1]
      /\ IsSeq(Tail(r)) /\ Len(Tail(r)) = Len(r) - 1
      /\ \A j \in 1 .. Len(r) - 1 : Tail(r)[j] = r[j + 1]
  BY <1>1, <1>5, HeadAndTail
<1>7. Head(r) = Head(s)
  BY <1>1, <1>2, <1>6
<1>8. IsSeq(v) /\ Len(v) = Len(Tail(r))
  BY <1>1, <1>2, <1>3, <1>4, <1>6 DEF v
<1>9. ASSUME NEW j \in 1 .. Len(v) PROVE v[j] = Tail(r)[j]
  <2>1. j \in 1 .. Len(r) - 1 /\ Tail(r)[j] = r[j + 1]
    BY <1>6, <1>8, <1>9
  <2>2. CASE j <= Len(h)
    <3>1. j \in 1 .. Len(h) /\ j + 1 \in 1 .. Len(s) /\ j \in 1 .. Len(s) - 1
      BY <1>2, <2>2
    <3> QED BY <1>1, <1>2, <1>3, <2>1, <3>1 DEF v
  <2>3. CASE j > Len(h)
    <3> DEFINE i == j - Len(h)
    <3>1. i \in 1 .. Len(t) /\ Len(h) + i = j /\ Len(s) + i = j + 1
      BY <1>2, <1>3, <1>4, <2>3 DEF v
    <3> HIDE DEF i
    <3> QED BY <1>1, <1>3, <2>1, <3>1 DEF v
  <2>4. j <= Len(h) \/ j > Len(h)
    <3>1. j \in Int /\ Len(h) \in Int
      BY <1>2
    <3> QED BY <3>1
  <2> QED BY <2>2, <2>3, <2>4
<1>10. v = Tail(r)
  BY <1>6, <1>8, <1>9, SameElements
<1> QED BY <1>5, <1>7, <1>10 DEF r, h, v
============================================================================
