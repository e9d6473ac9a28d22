--------------------------- MODULE EdgeList_proofs ---------------------------
(***************************************************************************)
(* Proofs about the two sides of EdgeList: LabelEmit, which delivers the    *)
(* edge list of a chunk's graph, and GpuKernel, which relies on it.         *)
(*                                                                          *)
(* Part 1, for every block count and batch size: what the emitters deliver  *)
(* (RecorderDelivers), and that their arena is large enough (ArenaSuffices).*)
(* Every pending C call is a promise about the memory it leaves (Leads);    *)
(* the invariant says that the work on todo, one promise after the other,   *)
(* ends where the call in progress has to end.                              *)
(*                                                                          *)
(* Part 2, for every set of chunk sizes, any number of lanes and all        *)
(* strategies: what the kernels do with an edge list.  The loops of SlotMap *)
(* (levels, buckets, the slots of a level, the levels of the graph) are     *)
(* walked with LoopRun of DivisionFacts.  TopologySound says what comes     *)
(* out: a schedule, slots no two live nodes share, and a pool as large as   *)
(* the greatest number of nodes alive at once.                              *)
(***************************************************************************)
EXTENDS LabelEmit, GpuKernel, DivisionFacts, SequenceTheorems,
        FunctionTheorems, FiniteSetTheorems, TLAPS

----------------------------------------------------------------------------
(* PART 1: the emitters.                                                    *)
----------------------------------------------------------------------------
(* Powers of two and node counts.                                           *)

\* Powers of two are positive and double.
LEMMA Pow2Facts ==
  /\ Pow2 \in [Nat -> Nat \ {0}] /\ Pow2[0] = 1
  /\ \A n \in Nat \ {0} : Pow2[n] = 2 * Pow2[n - 1]
<1> DEFINE Rec(f) == [n \in Nat |-> IF n = 0 THEN 1 ELSE 2 * f[n - 1]]
           P == Nat \ {0}
           body == [x \in P \X P |-> 2 * x[1]]
<1>1. \A i \in Nat \ {0} : \A x \in P : body[<<x, i>>] = 2 * x /\ 2 * x \in P
  OBVIOUS
<1>2. 1 \in P
  OBVIOUS
<1> HIDE DEF P, body
<1>3. PICK f : IsRecursion(f, P, 1, body)
  BY <1>1, <1>2, NatRecursion
<1>4. f \in [Nat -> P] /\ f[0] = 1 /\ \A i \in Nat \ {0} : f[i] = 2 * f[i - 1]
  <2>1. \A i \in Nat \ {0} : i - 1 \in Nat
    OBVIOUS
  <2>2. \A i \in Nat \ {0} : f[i - 1] \in P
    BY <1>3, <2>1 DEF IsRecursion
  <2> QED BY <1>1, <1>3, <2>2 DEF IsRecursion
<1>5. f = Rec(f)
  BY <1>4
<1>6. Pow2 = Rec(Pow2)
  <2> HIDE DEF Rec
  <2>1. Pow2 = CHOOSE g : g = Rec(g)
    BY DEF Pow2, Rec
  <2> QED BY <1>5, <2>1
<1>7. Pow2[0] = 1 /\ \A n \in Nat \ {0} : Pow2[n] = 2 * Pow2[n - 1]
  BY <1>6
<1>8. ASSUME NEW n \in Nat PROVE Pow2[n] \in P
  <2> DEFINE TT == [i \in 0 .. n |-> P]
  <2>1. Pow2[0] \in TT[0]
    BY <1>2, <1>7
  <2>2. ASSUME NEW i \in 1 .. n, Pow2[i - 1] \in TT[i - 1] PROVE Pow2[i] \in TT[i]
    <3>1. i \in Nat \ {0} /\ i - 1 \in 0 .. n /\ i \in 0 .. n
      OBVIOUS
    <3> QED BY <1>1, <1>7, <2>2, <3>1
  <2>3. n \in 0 .. n
    OBVIOUS
  <2> HIDE DEF TT
  <2>4. Pow2[n] \in TT[n]
    BY <2>1, <2>2, <2>3, LoopStates
  <2> QED BY <2>3, <2>4 DEF TT
<1>9. Pow2 \in [Nat -> P]
  <2>1. Pow2 = [n \in Nat |-> Pow2[n]]
    BY <1>6
  <2> QED BY <1>8, <2>1
<1> QED BY <1>7, <1>9 DEF P

\* Node counts are positive and add up as the components do.
LEMMA ButterflyFacts ==
  /\ \A dim \in Nat : ButterflyNodeCount(dim) \in Nat \ {0}
  /\ \A dim \in Nat : ButterflyNodeCount(dim) = Pow2[dim] + dim * Pow2[dim]
<1> SUFFICES ASSUME NEW dim \in Nat
             PROVE  /\ ButterflyNodeCount(dim) \in Nat \ {0}
                    /\ ButterflyNodeCount(dim) = Pow2[dim] + dim * Pow2[dim]
  OBVIOUS
<1>1. Pow2[dim] \in Nat \ {0} /\ dim + 1 \in Nat \ {0}
  BY Pow2Facts
<1>2. (dim + 1) * Pow2[dim] \in Nat \ {0}
  BY <1>1, PositiveProduct
<1>3. (dim + 1) * Pow2[dim] = Pow2[dim] + dim * Pow2[dim]
  <2> DEFINE p == Pow2[dim]
  <2>1. p \in Int /\ dim \in Int
    BY <1>1
  <2> HIDE DEF p
  <2>2. (dim + 1) * p = p + dim * p
    BY <2>1
  <2> QED BY <2>2 DEF p
<1> QED BY <1>2, <1>3 DEF ButterflyNodeCount

LEMMA ConnectedFacts ==
  /\ ConnectedNodeCount \in [Nat -> Nat \ {0}] /\ ConnectedNodeCount[0] = 1
  /\ \A n \in Nat \ {0} :
       ConnectedNodeCount[n]
         = 2 * ConnectedNodeCount[n - 1] + 2 * ButterflyNodeCount(n - 1)
<1> DEFINE B(d) == ButterflyNodeCount(d)
           C == ConnectedNodeCount
           Rec(f) == [n \in Nat |-> IF n = 0 THEN 1 ELSE 2 * f[n - 1] + 2 * B(n - 1)]
           P == Nat \ {0}
           body == [x \in P \X P |-> 2 * x[1] + 2 * B(x[2] - 1)]
<1>1. \A i \in P : i - 1 \in Nat /\ B(i - 1) \in P
  BY ButterflyFacts
<1>2. C = CHOOSE g : g = Rec(g)
  BY DEF ConnectedNodeCount
<1> HIDE DEF B, C
<1>3. \A i \in P : \A x \in P :
        body[<<x, i>>] = 2 * x + 2 * B(i - 1) /\ 2 * x + 2 * B(i - 1) \in P
  BY <1>1
<1>4. 1 \in P
  OBVIOUS
<1> HIDE DEF body
<1>5. PICK f : IsRecursion(f, P, 1, body)
  <2> DEFINE Q == P
  <2>1. \A i \in Nat \ {0} : \A x \in Q : body[<<x, i>>] \in Q
    BY <1>3
  <2>2. 1 \in Q
    OBVIOUS
  <2> HIDE DEF Q
  <2>3. \E f : IsRecursion(f, Q, 1, body)
    BY <2>1, <2>2, NatRecursion
  <2> QED BY <2>3 DEF Q
<1>6. /\ f \in [Nat -> P] /\ f[0] = 1
      /\ \A i \in Nat \ {0} : f[i] = 2 * f[i - 1] + 2 * B(i - 1)
  <2>1. \A i \in Nat \ {0} : f[i - 1] \in P
    BY <1>1, <1>5 DEF IsRecursion
  <2> QED BY <1>3, <1>5, <2>1 DEF IsRecursion
<1>7. f = Rec(f)
  BY <1>6
<1>8. C = Rec(C)
  <2> HIDE DEF Rec
  <2> QED BY <1>2, <1>7
<1>9. C[0] = 1 /\ \A n \in Nat \ {0} : C[n] = 2 * C[n - 1] + 2 * B(n - 1)
  BY <1>8
<1>10. ASSUME NEW n \in Nat PROVE C[n] \in P
  <2> DEFINE TT == [i \in 0 .. n |-> P]
  <2>1. C[0] \in TT[0]
    BY <1>4, <1>9
  <2>2. ASSUME NEW i \in 1 .. n, C[i - 1] \in TT[i - 1] PROVE C[i] \in TT[i]
    <3>1. i \in Nat \ {0} /\ i - 1 \in 0 .. n /\ i \in 0 .. n
      OBVIOUS
    <3> QED BY <1>3, <1>9, <2>2, <3>1
  <2>3. n \in 0 .. n
    OBVIOUS
  <2> HIDE DEF TT
  <2>4. C[n] \in TT[n]
    BY <2>1, <2>2, <2>3, LoopStates
  <2> QED BY <2>3, <2>4 DEF TT
<1>11. C \in [Nat -> P]
  <2>1. C = [n \in Nat |-> C[n]]
    BY <1>8
  <2> QED BY <1>10, <2>1
<1> QED BY <1>9, <1>11 DEF C, B

LEMMA StandaloneFacts ==
  /\ StandaloneNodeCount \in [Nat -> Nat \ {0}] /\ StandaloneNodeCount[0] = 1
  /\ \A n \in Nat \ {0} :
       StandaloneNodeCount[n]
         = StandaloneNodeCount[n - 1] + ButterflyNodeCount(n - 1)
           + ConnectedNodeCount[n - 1]
<1> DEFINE C == StandaloneNodeCount
           Rec(f) == [n \in Nat |-> IF n = 0 THEN 1
                                    ELSE (f[n - 1] + ButterflyNodeCount(n - 1))
                                         + ConnectedNodeCount[n - 1]]
           P == Nat \ {0}
           body == [x \in P \X P |-> (x[1] + ButterflyNodeCount(x[2] - 1))
                                     + ConnectedNodeCount[x[2] - 1]]
<1>1. \A i \in P : i - 1 \in Nat /\ ButterflyNodeCount(i - 1) \in P
                   /\ ConnectedNodeCount[i - 1] \in P
  BY ButterflyFacts, ConnectedFacts
<1>2. C = CHOOSE g : g = Rec(g)
  BY DEF StandaloneNodeCount
<1> HIDE DEF C
<1>3. \A i \in P : \A x \in P :
        /\ body[<<x, i>>] = (x + ButterflyNodeCount(i - 1)) + ConnectedNodeCount[i - 1]
        /\ (x + ButterflyNodeCount(i - 1)) + ConnectedNodeCount[i - 1] \in P
  BY <1>1
<1>4. 1 \in P
  OBVIOUS
<1> HIDE DEF body
<1>5. PICK f : IsRecursion(f, P, 1, body)
  <2> DEFINE Q == P
  <2>1. \A i \in Nat \ {0} : \A x \in Q : body[<<x, i>>] \in Q
    BY <1>3
  <2>2. 1 \in Q
    OBVIOUS
  <2> HIDE DEF Q
  <2>3. \E f : IsRecursion(f, Q, 1, body)
    BY <2>1, <2>2, NatRecursion
  <2> QED BY <2>3 DEF Q
<1>6. /\ f \in [Nat -> P] /\ f[0] = 1
      /\ \A i \in Nat \ {0} : f[i] = (f[i - 1] + ButterflyNodeCount(i - 1))
                                     + ConnectedNodeCount[i - 1]
  <2>1. \A i \in Nat \ {0} : f[i - 1] \in P
    BY <1>1, <1>5 DEF IsRecursion
  <2> QED BY <1>3, <1>5, <2>1 DEF IsRecursion
<1>7. f = Rec(f)
  BY <1>6
<1>8. C = Rec(C)
  <2> HIDE DEF Rec
  <2> QED BY <1>2, <1>7
<1>9. /\ C[0] = 1
      /\ \A n \in Nat \ {0} : C[n] = (C[n - 1] + ButterflyNodeCount(n - 1))
                                     + ConnectedNodeCount[n - 1]
  BY <1>8
<1>10. ASSUME NEW n \in Nat PROVE C[n] \in P
  <2> DEFINE TT == [i \in 0 .. n |-> P]
  <2>1. C[0] \in TT[0]
    BY <1>4, <1>9
  <2>2. ASSUME NEW i \in 1 .. n, C[i - 1] \in TT[i - 1] PROVE C[i] \in TT[i]
    <3>1. i \in Nat \ {0} /\ i - 1 \in 0 .. n /\ i \in 0 .. n
      OBVIOUS
    <3> QED BY <1>3, <1>9, <2>2, <3>1
  <2>3. n \in 0 .. n
    OBVIOUS
  <2> HIDE DEF TT
  <2>4. C[n] \in TT[n]
    BY <2>1, <2>2, <2>3, LoopStates
  <2> QED BY <2>3, <2>4 DEF TT
<1>11. C \in [Nat -> P]
  <2>1. C = [n \in Nat |-> C[n]]
    BY <1>8
  <2> QED BY <1>10, <2>1
<1> QED BY <1>9, <1>11 DEF C

\* BitLength halves until nothing is left.
LEMMA BitLengthFacts ==
  /\ BitLength \in [Nat -> Nat] /\ BitLength[0] = 0
  /\ \A v \in Nat \ {0} : BitLength[v] = 1 + BitLength[v \div 2]
<1> DEFINE Rec(f) == [v \in Nat |-> IF v = 0 THEN 0 ELSE 1 + f[v \div 2]]
           T == {s \in [Nat -> Nat] : s[0] = 0}
           base == [j \in Nat |-> 0]
           body == [x \in T \X (Nat \ {0}) |->
                      [j \in Nat |-> IF j = x[2] THEN 1 + x[1][j \div 2] ELSE x[1][j]]]
<1>1. \A v \in Nat \ {0} : v \div 2 \in Nat /\ v \div 2 < v
  OBVIOUS
<1>2. base \in T
  OBVIOUS
<1>3. \A i \in Nat \ {0} : \A x \in T : body[<<x, i>>] \in T
  <2> SUFFICES ASSUME NEW i \in Nat \ {0}, NEW x \in T PROVE body[<<x, i>>] \in T
    OBVIOUS
  <2>1. body[<<x, i>>] = [j \in Nat |-> IF j = i THEN 1 + x[j \div 2] ELSE x[j]]
    OBVIOUS
  <2>2. \A j \in Nat : j \div 2 \in Nat
    OBVIOUS
  <2> QED BY <2>1, <2>2
<1>4. PICK f : IsRecursion(f, T, base, body)
  <2> HIDE DEF T, base, body
  <2> QED BY <1>2, <1>3, NatRecursion
<1>5. \A i \in Nat : f[i] \in T
  BY <1>4 DEF IsRecursion
<1>6. ASSUME NEW i \in Nat \ {0}
      PROVE  \A j \in Nat : f[i][j] = IF j = i THEN 1 + f[i - 1][j \div 2] ELSE f[i - 1][j]
  <2> DEFINE x == f[i - 1]
  <2>1. x \in T /\ f[i] = body[<<x, i>>]
    <3> HIDE DEF T, base, body
    <3>1. i - 1 \in Nat
      OBVIOUS
    <3> QED BY <1>4, <1>5, <3>1 DEF IsRecursion
  <2> HIDE DEF x
  <2>2. body[<<x, i>>] = [j \in Nat |-> IF j = i THEN 1 + x[j \div 2] ELSE x[j]]
    BY <2>1
  <2> QED BY <2>1, <2>2 DEF x
<1>7. \A j \in Nat, n \in Nat : f[j + n][j] = f[j][j]
  <2> SUFFICES ASSUME NEW j \in Nat, NEW n \in Nat PROVE f[j + n][j] = f[j][j]
    OBVIOUS
  <2> DEFINE g == [k \in 0 .. n |-> f[j + k][j]]
             U == [k \in 0 .. n |-> {f[j][j]}]
  <2>1. g[0] \in U[0]
    OBVIOUS
  <2>2. ASSUME NEW k \in 1 .. n, g[k - 1] \in U[k - 1] PROVE g[k] \in U[k]
    <3>1. /\ k \in 0 .. n /\ k - 1 \in 0 .. n /\ j + k \in Nat \ {0} /\ j # j + k
          /\ (j + k) - 1 = j + (k - 1)
      OBVIOUS
    <3>2. f[j + k][j] = f[(j + k) - 1][j]
      BY <1>6, <3>1
    <3>3. g[k - 1] = f[j + (k - 1)][j] /\ g[k - 1] = f[j][j]
      BY <2>2, <3>1
    <3> QED BY <3>1, <3>2, <3>3
  <2>3. n \in 0 .. n
    OBVIOUS
  <2> HIDE DEF g, U
  <2>4. g[n] \in U[n]
    BY <2>1, <2>2, <2>3, LoopStates
  <2> QED BY <2>3, <2>4 DEF g, U
<1> DEFINE b == [v \in Nat |-> f[v][v]]
<1>8. b = Rec(b)
  <2>1. f[0][0] = 0
    BY <1>4 DEF IsRecursion
  <2>2. ASSUME NEW v \in Nat \ {0} PROVE f[v][v] = 1 + f[v \div 2][v \div 2]
    <3> DEFINE h == v \div 2
               n == (v - 1) - h
    <3>1. h \in Nat /\ n \in Nat /\ h + n = v - 1
      BY <1>1
    <3>2. f[v][v] = 1 + f[v - 1][h]
      BY <1>6
    <3> HIDE DEF h, n
    <3>3. f[v - 1][h] = f[h][h]
      BY <1>7, <3>1
    <3> QED BY <3>2, <3>3 DEF h
  <2> QED BY <1>1, <2>1, <2>2
<1>9. BitLength = Rec(BitLength)
  <2>1. BitLength = CHOOSE g : g = Rec(g)
    BY DEF BitLength
  <2> HIDE DEF Rec, b
  <2> QED BY <1>8, <2>1
<1>10. BitLength[0] = 0 /\ \A v \in Nat \ {0} : BitLength[v] = 1 + BitLength[v \div 2]
  BY <1>9
<1>11. ASSUME NEW n \in Nat PROVE \A v \in 0 .. n : BitLength[v] \in Nat
  <2> DEFINE TT == [i \in 0 .. n |-> {s \in {BitLength} : \A v \in 0 .. i : s[v] \in Nat}]
             g == [i \in 0 .. n |-> BitLength]
  <2>1. g[0] \in TT[0]
    BY <1>10
  <2>2. ASSUME NEW i \in 1 .. n, g[i - 1] \in TT[i - 1] PROVE g[i] \in TT[i]
    <3>1. i - 1 \in 0 .. n /\ i \in 0 .. n /\ i \in Nat \ {0}
      OBVIOUS
    <3>2. \A v \in 0 .. i - 1 : BitLength[v] \in Nat
      BY <2>2, <3>1
    <3>3. i \div 2 \in 0 .. i - 1
      BY <1>1, <3>1
    <3>4. BitLength[i] \in Nat
      BY <1>10, <3>1, <3>2, <3>3
    <3>5. \A v \in 0 .. i : v \in 0 .. i - 1 \/ v = i
      OBVIOUS
    <3> QED BY <3>1, <3>2, <3>4, <3>5
  <2>3. n \in 0 .. n
    OBVIOUS
  <2>4. g[n] \in TT[n]
    <3> HIDE DEF g, TT
    <3> QED BY <2>1, <2>2, <2>3, LoopStates
  <2> QED BY <2>3, <2>4
<1>12. \A v \in Nat : BitLength[v] \in Nat
  <2>1. \A v \in Nat : v \in 0 .. v
    OBVIOUS
  <2> QED BY <1>11, <2>1
<1>13. BitLength = [v \in Nat |-> BitLength[v]]
  BY <1>9
<1> QED BY <1>10, <1>12, <1>13

\* A number has as many bits as it needs.
LEMMA BitLengthBound ==
  \A v \in Nat : v < Pow2[BitLength[v]]
<1> DEFINE Small(v) == v < Pow2[BitLength[v]]
<1>1. ASSUME NEW n \in Nat PROVE \A v \in 0 .. n : Small(v)
  <2> DEFINE TT == [i \in 0 .. n |-> {s \in {0} : \A v \in 0 .. i : Small(v)}]
             g == [i \in 0 .. n |-> 0]
  <2>1. g[0] \in TT[0]
    <3>1. Small(0)
      BY Pow2Facts, BitLengthFacts
    <3> QED BY <3>1
  <2>2. ASSUME NEW i \in 1 .. n, g[i - 1] \in TT[i - 1] PROVE g[i] \in TT[i]
    <3>1. i - 1 \in 0 .. n /\ i \in 0 .. n /\ i \in Nat \ {0}
      OBVIOUS
    <3>2. \A v \in 0 .. i - 1 : Small(v)
      BY <2>2, <3>1
    <3>3. i \div 2 \in 0 .. i - 1 /\ i \div 2 \in Nat /\ i <= 2 * (i \div 2) + 1
      BY <3>1
    <3>4. Small(i)
      <4> DEFINE h == i \div 2
                 b == BitLength[h]
      <4>1. h < Pow2[b]
        BY <3>2, <3>3
      <4>2. b \in Nat /\ BitLength[i] = 1 + b
        BY <3>1, <3>3, BitLengthFacts
      <4>3. (1 + b) - 1 = b /\ 1 + b \in Nat \ {0}
        BY <4>2
      <4>4. Pow2[1 + b] = 2 * Pow2[b] /\ Pow2[b] \in Nat
        BY <4>2, <4>3, Pow2Facts
      <4>5. h \in Nat /\ i <= 2 * h + 1
        BY <3>3
      <4> HIDE DEF h, b
      <4>6. i < Pow2[1 + b]
        BY <3>1, <4>1, <4>4, <4>5
      <4> QED BY <4>2, <4>6
    <3>5. \A v \in 0 .. i : v \in 0 .. i - 1 \/ v = i
      OBVIOUS
    <3> HIDE DEF Small
    <3> QED BY <3>1, <3>2, <3>4, <3>5
  <2>3. n \in 0 .. n
    OBVIOUS
  <2>4. g[n] \in TT[n]
    <3> HIDE DEF g, TT
    <3> QED BY <2>1, <2>2, <2>3, LoopStates
  <2> HIDE DEF Small
  <2> QED BY <2>3, <2>4
<1>2. \A v \in Nat : v \in 0 .. v
  OBVIOUS
<1> HIDE DEF Small
<1>3. \A v \in Nat : Small(v)
  BY <1>1, <1>2
<1> QED BY <1>3 DEF Small

\* Both copies together have room for the outputs.
LEMMA ParameterFacts ==
  ASSUME NEW k \in Nat \ {0}
  PROVE  /\ ParameterN(k) \in Nat
         /\ k <= 2 * Pow2[ParameterN(k)]
<1>1. CASE k = 1
  BY <1>1, Pow2Facts DEF ParameterN
<1>2. CASE k # 1
  <2> DEFINE b == BitLength[k - 1]
  <2>1. k - 1 \in Nat \ {0} /\ ParameterN(k) = b - 1
    BY <1>2 DEF ParameterN
  <2>2. b = 1 + BitLength[(k - 1) \div 2] /\ (k - 1) \div 2 \in Nat
    BY <2>1, BitLengthFacts
  <2>3. b \in Nat \ {0}
    BY <2>2, BitLengthFacts
  <2>4. k - 1 < Pow2[b]
    BY <2>1, BitLengthBound
  <2> HIDE DEF b
  <2>5. Pow2[b] = 2 * Pow2[b - 1] /\ b - 1 \in Nat
    BY <2>3, Pow2Facts
  <2>6. Pow2[b - 1] \in Nat
    BY <2>5, Pow2Facts
  <2> QED BY <2>1, <2>4, <2>5, <2>6
<1> QED BY <1>1, <1>2

----------------------------------------------------------------------------
(* What a call of the emitter promises.                                     *)

\* The words a .. a + w - 1 hold ids from lo on and below hi, in ascending order.
Array(mu, a, w, lo, hi) ==
  /\ \A i \in 0 .. w - 1 : mu[a + i] \in lo .. hi - 1
  /\ \A i, j \in 0 .. w - 1 : i < j => mu[a + i] < mu[a + j]

\* The words b .. b + w - 1 hold the ids c, c + 1, ...
Numbered(mu, b, w, c) == \A i \in 0 .. w - 1 : mu[b + i] = c + i

\* Below top, only the words a .. a + w - 1 differ.
Keeps(mu, mu2, a, w, top) ==
  \A q \in 0 .. top - 1 : q \in a .. a + w - 1 \/ mu2[q] = mu[q]

\* A machine has its arena at word arena, which may take limit / 4 words of the
\* words there are.
Machine(K) ==
  /\ K.arena \in Nat /\ K.limit \in Nat /\ K.words \in Nat
  /\ 4 * K.arena + K.limit <= 4 * K.words

Mems(K) == [0 .. K.words - 1 -> Int]

\* A state of a machine: the next id, the top of the arena, and what the memory
\* can be.
Point(K, x) ==
  /\ x.ids \in Nat /\ x.off \in Nat /\ 4 * x.off <= K.limit
  /\ x.mems \subseteq Mems(K)

Within(x, y) == x.ids = y.ids /\ x.off = y.off /\ x.mems \subseteq y.mems

Region(K, x, a, w) == a \in Nat /\ w \in Nat /\ a + w <= K.arena + x.off

\* A function reads an array of w labels that exist.
Input(K, x, a, w) ==
  Region(K, x, a, w) /\ \A mu \in x.mems : Array(mu, a, w, 0, x.ids)

\* A function that takes at most peak / 4 words emits n nodes, leaves w of them
\* in ascending order at b, and spoils nothing else that was allocated.
Call(K, x, y, b, w, n, peak) ==
  /\ Region(K, x, b, w) /\ 4 * x.off + peak <= K.limit
  /\ y.ids = x.ids + n /\ y.off = x.off
  /\ \A mu \in x.mems, mu2 \in Mems(K) :
       Keeps(mu, mu2, b, w, K.arena + x.off) /\ Array(mu2, b, w, x.ids, y.ids)
       => mu2 \in y.mems

\* A loop reads an array that it does not write to.
Source(K, x, t, a, c) ==
  /\ Region(K, x, a, t.width)
  /\ a + t.width <= t.dst \/ t.dst + t.width <= a
  /\ \A mu \in x.mems : Array(mu, a, t.width, 0, c)

\* A butterfly of w columns has partners at distance bit.
Paired(w, bit) ==
  /\ w \in Nat /\ bit \in Nat \ {0}
  /\ \A i \in 0 .. w - 1 :
       /\ BitFlip(i, bit) \in 0 .. w - 1 /\ BitFlip(i, bit) # i
       /\ BitClear(i, bit) \in 0 .. w - 1 /\ BitSet(i, bit) \in 0 .. w - 1
       /\ BitClear(i, bit) < BitSet(i, bit)

LayerFields == {"fn", "rule", "width", "bit", "a", "b", "dst", "i"}

\* A loop in its i-th round.
Rounds(K, t, x, y) ==
  LET c == x.ids - t.i
  IN  /\ DOMAIN t = LayerFields
      /\ t.width \in Nat \ {0} /\ t.i \in 0 .. t.width - 1 /\ c \in Nat
      /\ y.ids = c + t.width /\ y.off = x.off
      /\ t.rule \in {"one", "pair", "merge"}
      /\ Region(K, x, t.dst, t.width) /\ Source(K, x, t, t.a, c)
      /\ t.rule = "pair" => Paired(t.width, t.bit)
      /\ t.rule = "merge" =>
           /\ Source(K, x, t, t.b, c)
           /\ \A mu \in x.mems : \A i \in 0 .. t.width - 1 : mu[t.a + i] < mu[t.b + i]
      /\ \A mu \in x.mems : Numbered(mu, t.dst, t.i, c)
      /\ \A mu \in x.mems, mu2 \in Mems(K) :
           Keeps(mu, mu2, t.dst, t.width, K.arena + x.off)
           /\ Numbered(mu2, t.dst, t.width, c)
           => mu2 \in y.mems

\* What Copied makes of a memory.
CopyOf(mu, copies) ==
  [w \in DOMAIN mu |->
     IF \E c \in copies : w \in c[2] .. c[2] + c[3] - 1
     THEN LET c == CHOOSE d \in copies : w \in d[2] .. d[2] + d[3] - 1
          IN  mu[c[1] + w - c[2]]
     ELSE mu[w]]

\* Only words of the machine are copied.
FromMemory(K, copies) ==
  \A cp \in copies : /\ cp[1] \in Nat /\ cp[2] \in Nat /\ cp[3] \in Nat
                     /\ cp[1] + cp[3] <= K.words

Leaves(K, t, x, y) ==
  /\ y.ids = x.ids /\ y.off = t.saved /\ FromMemory(K, t.copies)
  /\ \A mu \in x.mems : CopyOf(mu, t.copies) \in y.mems

\* From x, the pending call or loop t leads to y.
Leads(K, t, x, y) ==
  /\ Point(K, x) /\ Point(K, y)
  /\ t.fn \in {"standalone", "connector", "connected", "merged", "layer", "leave"}
  /\ t.fn = "standalone" =>
       /\ t.level \in Nat
       /\ Call(K, x, y, t.out, Pow2[t.level], StandaloneNodeCount[t.level],
               13 * Pow2[t.level])
  /\ t.fn = "connector" =>
       /\ t.dim \in Nat /\ Input(K, x, t.in, Pow2[t.dim])
       /\ Call(K, x, y, t.out, Pow2[t.dim], ButterflyNodeCount(t.dim), 8 * Pow2[t.dim])
  /\ t.fn = "connected" =>
       /\ t.level \in Nat /\ t.width = Pow2[t.level] /\ Input(K, x, t.in, t.width)
       /\ Call(K, x, y, t.out, t.width, ConnectedNodeCount[t.level], 14 * t.width)
  /\ t.fn = "merged" =>
       /\ t.dim \in Nat
       /\ Input(K, x, t.primary, Pow2[t.dim]) /\ Input(K, x, t.ingress, Pow2[t.dim])
       /\ Call(K, x, y, t.out, Pow2[t.dim], 2 * ButterflyNodeCount(t.dim),
               16 * Pow2[t.dim])
  /\ t.fn = "layer" => Rounds(K, t, x, y)
  /\ t.fn = "leave" => Leaves(K, t, x, y)

\* From x, the pending work s leads to y, along the points z.
Chain(K, s, x, y, z) ==
  /\ z[0] = x /\ Within(z[Len(s)], y)
  /\ \A j \in 1 .. Len(s) : Leads(K, s[j], z[j - 1], z[j])

Runs(K, s, x, y) == IsSeq(s) /\ \E z : Chain(K, s, x, y, z)

\* Less is known of the memory.
LEMMA LeadsFrom ==
  ASSUME NEW K, NEW t, NEW x, NEW u, NEW y, Leads(K, t, u, y), Within(x, u)
  PROVE  Leads(K, t, x, y)
<1>1. x.ids = u.ids /\ x.off = u.off /\ x.mems \subseteq u.mems
  BY DEF Within
<1>2. Point(K, x) /\ Point(K, y)
  BY <1>1 DEF Leads, Point
<1>3. ASSUME NEW a, NEW w, Input(K, u, a, w) PROVE Input(K, x, a, w)
  BY <1>1, <1>3 DEF Input, Region
<1>4. ASSUME NEW b, NEW w, NEW n, NEW peak, Call(K, u, y, b, w, n, peak)
      PROVE  Call(K, x, y, b, w, n, peak)
  BY <1>1, <1>4 DEF Call, Region
<1>5. ASSUME NEW a, NEW c, Source(K, u, t, a, c) PROVE Source(K, x, t, a, c)
  BY <1>1, <1>5 DEF Source, Region
<1>6. ASSUME Rounds(K, t, u, y) PROVE Rounds(K, t, x, y)
  <2> DEFINE c == u.ids - t.i
  <2>1. /\ Source(K, x, t, t.a, c)
        /\ t.rule = "merge" => Source(K, x, t, t.b, c)
    BY <1>5, <1>6 DEF Rounds
  <2>2. Region(K, x, t.dst, t.width)
    BY <1>1, <1>6 DEF Rounds, Region
  <2>3. x.ids - t.i = c
    BY <1>1
  <2>4. /\ DOMAIN t = LayerFields
        /\ t.width \in Nat \ {0} /\ t.i \in 0 .. t.width - 1 /\ c \in Nat
        /\ y.ids = c + t.width /\ y.off = u.off
        /\ t.rule \in {"one", "pair", "merge"}
        /\ t.rule = "pair" => Paired(t.width, t.bit)
        /\ t.rule = "merge" =>
             \A mu \in u.mems : \A i \in 0 .. t.width - 1 : mu[t.a + i] < mu[t.b + i]
        /\ \A mu \in u.mems : Numbered(mu, t.dst, t.i, c)
        /\ \A mu \in u.mems, mu2 \in Mems(K) :
             Keeps(mu, mu2, t.dst, t.width, K.arena + u.off)
             /\ Numbered(mu2, t.dst, t.width, c)
             => mu2 \in y.mems
    BY <1>6 DEF Rounds
  <2> HIDE DEF c
  <2> QED BY <1>1, <2>1, <2>2, <2>3, <2>4 DEF Rounds
<1>7. ASSUME Leaves(K, t, u, y) PROVE Leaves(K, t, x, y)
  BY <1>1, <1>7 DEF Leaves
<1> QED BY <1>2, <1>3, <1>4, <1>6, <1>7 DEF Leads

\* Nothing to do.
LEMMA RunsNone ==
  ASSUME NEW K, NEW x, NEW y, Within(x, y)
  PROVE  Runs(K, <<>>, x, y)
<1> DEFINE z == [j \in {0} |-> x]
<1>1. z[0] = x
  OBVIOUS
<1> HIDE DEF z
<1>2. Len(<<>>) = 0 /\ IsSeq(<<>>)
  BY NoElements
<1>3. Chain(K, <<>>, x, y, z)
  BY <1>1, <1>2 DEF Chain
<1> QED BY <1>2, <1>3 DEF Runs

LEMMA OneElement ==
  ASSUME NEW t
  PROVE  IsSeq(<<t>>) /\ Len(<<t>>) = 1 /\ <<t>>[1] = t
BY DEF IsSeq

\* One thing to do.
LEMMA RunsOne ==
  ASSUME NEW K, NEW t, NEW x, NEW y, Leads(K, t, x, y)
  PROVE  Runs(K, <<t>>, x, y)
<1> DEFINE z == [j \in 0 .. 1 |-> IF j = 0 THEN x ELSE y]
           s == <<t>>
<1>1. z[0] = x /\ z[1] = y
  OBVIOUS
<1>2. IsSeq(s) /\ Len(s) = 1 /\ s[1] = t
  BY OneElement
<1> HIDE DEF z, s
<1>3. Within(y, y)
  BY DEF Within
<1>4. \A j \in 1 .. Len(s) : j = 1 /\ j - 1 = 0
  BY <1>2
<1>5. Chain(K, s, x, y, z)
  BY <1>1, <1>2, <1>3, <1>4 DEF Chain
<1> QED BY <1>2, <1>5 DEF Runs, s

\* One thing after another.
LEMMA RunsThen ==
  ASSUME NEW K, NEW s, NEW t, NEW x, NEW y, NEW w,
         Runs(K, s, x, y), Runs(K, t, y, w)
  PROVE  Runs(K, s \o t, x, w)
<1>1. PICK p : Chain(K, s, x, y, p)
  BY DEF Runs
<1>2. PICK q : Chain(K, t, y, w, q)
  BY DEF Runs
<1> DEFINE n == Len(s)
           r == s \o t
           z == [j \in 0 .. Len(r) |-> IF j <= n THEN p[j] ELSE q[j - n]]
<1>3. IsSeq(s) /\ IsSeq(t) /\ n \in Nat /\ Len(t) \in Nat
  BY DEF Runs, IsSeq
<1>4. /\ IsSeq(r) /\ Len(r) = n + Len(t)
      /\ \A j \in 1 .. n : r[j] = s[j]
      /\ \A j \in 1 .. Len(t) : r[n + j] = t[j]
  BY <1>3, Appended
<1>5. /\ p[0] = x /\ Within(p[n], y)
      /\ \A j \in 1 .. n : Leads(K, s[j], p[j - 1], p[j])
  BY <1>1 DEF Chain
<1>6. /\ q[0] = y /\ Within(q[Len(t)], w)
      /\ \A j \in 1 .. Len(t) : Leads(K, t[j], q[j - 1], q[j])
  BY <1>2 DEF Chain
<1>7. /\ \A j \in 0 .. n : z[j] = p[j]
      /\ \A j \in 1 .. Len(t) : z[n + j] = q[j]
  <2> HIDE DEF n, r
  <2>1. ASSUME NEW j \in 1 .. Len(t) PROVE z[n + j] = q[j]
    <3>1. n + j \in 0 .. Len(r) /\ ~(n + j <= n) /\ (n + j) - n = j
      BY <1>3, <1>4
    <3> QED BY <3>1
  <2> QED BY <1>3, <1>4, <2>1
<1> HIDE DEF n, r, z
<1>8. z[0] = x
  BY <1>3, <1>5, <1>7
<1>9. Within(z[Len(r)], w)
  <2>1. CASE Len(t) = 0
    <3>1. Len(r) = n /\ n \in 0 .. n
      BY <1>3, <1>4, <2>1
    <3>2. z[Len(r)] = p[n]
      BY <1>7, <3>1
    <3>3. Within(y, w)
      BY <1>6, <2>1
    <3> QED BY <1>5, <3>2, <3>3 DEF Within
  <2>2. CASE Len(t) # 0
    <3>1. Len(t) \in 1 .. Len(t)
      BY <1>3, <2>2
    <3>2. z[Len(r)] = q[Len(t)]
      BY <1>4, <1>7, <3>1
    <3> QED BY <1>6, <3>2
  <2> QED BY <2>1, <2>2
<1>10. ASSUME NEW j \in 1 .. Len(r) PROVE Leads(K, r[j], z[j - 1], z[j])
  <2>1. CASE j <= n
    <3>1. j \in 1 .. n /\ j - 1 \in 0 .. n /\ j \in 0 .. n
      BY <1>3, <2>1
    <3> QED BY <1>4, <1>5, <1>7, <3>1
  <2>2. CASE j = n + 1
    <3>1. 1 \in 1 .. Len(t) /\ j - 1 = n /\ n \in 0 .. n /\ 1 - 1 = 0
      BY <1>3, <1>4, <2>2
    <3>2. Leads(K, t[1], y, q[1])
      BY <1>6, <3>1
    <3>3. Leads(K, t[1], p[n], q[1])
      BY <1>5, <3>2, LeadsFrom
    <3>4. r[j] = t[1] /\ z[j] = q[1] /\ z[j - 1] = p[n]
      BY <1>4, <1>7, <2>2, <3>1
    <3> QED BY <3>3, <3>4
  <2>3. CASE j > n + 1
    <3> DEFINE i == j - n
               h == i - 1
    <3>1. i \in 1 .. Len(t) /\ h \in 1 .. Len(t) /\ n + i = j /\ n + h = j - 1
      BY <1>3, <1>4, <2>3
    <3>2. Leads(K, t[i], q[h], q[i])
      BY <1>6, <3>1
    <3> HIDE DEF i, h
    <3>3. r[n + i] = t[i] /\ z[n + i] = q[i] /\ z[n + h] = q[h]
      BY <1>4, <1>7, <3>1
    <3> QED BY <3>1, <3>2, <3>3
  <2>4. j <= n \/ j = n + 1 \/ j > n + 1
    <3>1. j \in Int
      OBVIOUS
    <3> QED BY <1>3, <3>1
  <2> QED BY <2>1, <2>2, <2>3, <2>4
<1>11. Chain(K, r, x, w, z)
  BY <1>8, <1>9, <1>10 DEF Chain
<1> QED BY <1>4, <1>11 DEF Runs, r

\* Less is known of the memory to begin with.
LEMMA RunsFrom ==
  ASSUME NEW K, NEW s, NEW x, NEW u, NEW y, Runs(K, s, u, y), Within(x, u)
  PROVE  Runs(K, s, x, y)
<1>1. Runs(K, <<>>, x, u)
  BY RunsNone
<1>2. Runs(K, <<>> \o s, x, y)
  BY <1>1, RunsThen
<1>3. IsSeq(s)
  BY DEF Runs
<1>4. <<>> \o s = s
  BY <1>3, SeqOfElements, ConcatEmptySeq
<1> QED BY <1>2, <1>4

\* The first thing to do, and the others.
LEMMA RunsFirst ==
  ASSUME NEW K, NEW s, NEW x, NEW y, Runs(K, s, x, y), s # <<>>
  PROVE  \E u : Leads(K, Head(s), x, u) /\ Runs(K, Tail(s), u, y)
<1>1. PICK z : Chain(K, s, x, y, z)
  BY DEF Runs
<1> DEFINE h == Tail(s)
           n == Len(s)
           v == [j \in 0 .. n - 1 |-> z[j + 1]]
<1>2. /\ n \in Nat \ {0} /\ Head(s) = s[1]
      /\ IsSeq(h) /\ Len(h) = n - 1
      /\ \A j \in 1 .. n - 1 : h[j] = s[j + 1]
  BY HeadAndTail DEF Runs
<1>3. /\ z[0] = x /\ Within(z[n], y)
      /\ \A j \in 1 .. n : Leads(K, s[j], z[j - 1], z[j])
  BY <1>1 DEF Chain
<1>4. \A j \in 0 .. n - 1 : v[j] = z[j + 1]
  OBVIOUS
<1> HIDE DEF h, n, v
<1>5. Leads(K, Head(s), x, z[1])
  <2>1. 1 \in 1 .. n /\ 1 - 1 = 0
    BY <1>2
  <2> QED BY <1>2, <1>3, <2>1
<1>6. Chain(K, h, z[1], y, v)
  <2>1. v[0] = z[1] /\ v[Len(h)] = z[n]
    <3>1. 0 \in 0 .. n - 1 /\ n - 1 \in 0 .. n - 1 /\ (n - 1) + 1 = n /\ 0 + 1 = 1
      BY <1>2
    <3> QED BY <1>2, <1>4, <3>1
  <2>2. ASSUME NEW j \in 1 .. Len(h) PROVE Leads(K, h[j], v[j - 1], v[j])
    <3>1. /\ j \in 1 .. n - 1 /\ j - 1 \in 0 .. n - 1 /\ j \in 0 .. n - 1
          /\ j + 1 \in 1 .. n /\ (j + 1) - 1 = j /\ (j - 1) + 1 = j
      BY <1>2
    <3>2. Leads(K, s[j + 1], z[j], z[j + 1])
      BY <1>3, <3>1
    <3> QED BY <1>2, <1>4, <3>1, <3>2
  <2> QED BY <1>3, <2>1, <2>2 DEF Chain
<1>7. Runs(K, h, z[1], y)
  BY <1>2, <1>6 DEF Runs
<1> QED BY <1>5, <1>7 DEF h

\* Nothing left to do.
LEMMA RunsEnd ==
  ASSUME NEW K, NEW x, NEW y, Runs(K, <<>>, x, y)
  PROVE  Within(x, y)
<1>1. PICK z : Chain(K, <<>>, x, y, z)
  BY DEF Runs
<1> QED BY <1>1, NoElements DEF Chain

\* A function body of four parts.
LEMMA RunsFour ==
  ASSUME NEW K, NEW a, NEW b, NEW c, NEW d, NEW x0, NEW x1, NEW x2, NEW x3, NEW x4,
         Leads(K, a, x0, x1), Leads(K, b, x1, x2), Leads(K, c, x2, x3), Leads(K, d, x3, x4)
  PROVE  Runs(K, <<a, b, c, d>>, x0, x4)
<1> DEFINE s == <<a, b, c, d>>
           z == [j \in 0 .. 4 |-> <<x0, x1, x2, x3, x4>>[j + 1]]
<1>1. z[0] = x0 /\ z[1] = x1 /\ z[2] = x2 /\ z[3] = x3 /\ z[4] = x4
  OBVIOUS
<1>2. IsSeq(s) /\ Len(s) = 4 /\ s[1] = a /\ s[2] = b /\ s[3] = c /\ s[4] = d
  BY DEF IsSeq
<1> HIDE DEF s, z
<1>3. Within(x4, x4)
  BY DEF Within
<1>4. ASSUME NEW j \in 1 .. Len(s) PROVE Leads(K, s[j], z[j - 1], z[j])
  <2>1. \/ j = 1 /\ j - 1 = 0
        \/ j = 2 /\ j - 1 = 1
        \/ j = 3 /\ j - 1 = 2
        \/ j = 4 /\ j - 1 = 3
    BY <1>2
  <2> QED BY <1>1, <1>2, <2>1
<1>5. Chain(K, s, x0, x4, z)
  BY <1>1, <1>2, <1>3, <1>4 DEF Chain
<1> QED BY <1>2, <1>5 DEF Runs, s

\* The id counter only counts up.
LEMMA LeadsUp ==
  ASSUME NEW K, NEW t, NEW x, NEW y, Leads(K, t, x, y)
  PROVE  x.ids \in Nat /\ y.ids \in Nat /\ x.ids <= y.ids
<1>1. x.ids \in Nat /\ y.ids \in Nat
  BY DEF Leads, Point
<1>2. CASE t.fn = "standalone"
  <2>1. t.level \in Nat /\ y.ids = x.ids + StandaloneNodeCount[t.level]
    BY <1>2 DEF Leads, Call
  <2> QED BY <1>1, <2>1, StandaloneFacts
<1>3. CASE t.fn = "connector"
  <2>1. t.dim \in Nat /\ y.ids = x.ids + ButterflyNodeCount(t.dim)
    BY <1>3 DEF Leads, Call
  <2> QED BY <1>1, <2>1, ButterflyFacts
<1>4. CASE t.fn = "connected"
  <2>1. t.level \in Nat /\ y.ids = x.ids + ConnectedNodeCount[t.level]
    BY <1>4 DEF Leads, Call
  <2> QED BY <1>1, <2>1, ConnectedFacts
<1>5. CASE t.fn = "merged"
  <2>1. t.dim \in Nat /\ y.ids = x.ids + 2 * ButterflyNodeCount(t.dim)
    BY <1>5 DEF Leads, Call
  <2>2. ButterflyNodeCount(t.dim) \in Nat
    BY <2>1, ButterflyFacts
  <2> QED BY <1>1, <2>1, <2>2
<1>6. CASE t.fn = "layer"
  <2>1. /\ t.width \in Nat \ {0} /\ t.i \in 0 .. t.width - 1
        /\ y.ids = (x.ids - t.i) + t.width
    BY <1>6 DEF Leads, Rounds
  <2> QED BY <1>1, <2>1
<1>7. CASE t.fn = "leave"
  BY <1>1, <1>7 DEF Leads, Leaves
<1> QED BY <1>2, <1>3, <1>4, <1>5, <1>6, <1>7 DEF Leads

LEMMA RunsUp ==
  ASSUME NEW K, NEW s, NEW x, NEW y, Runs(K, s, x, y), x.ids \in Nat
  PROVE  y.ids \in Nat /\ x.ids <= y.ids
<1>1. PICK z : Chain(K, s, x, y, z)
  BY DEF Runs
<1> DEFINE n == Len(s)
           U == {v \in Nat : x.ids <= v}
           T == [j \in 0 .. n |-> U]
           f == [j \in 0 .. n |-> z[j].ids]
<1>2. n \in Nat
  BY DEF Runs, IsSeq
<1>3. /\ z[0] = x /\ Within(z[n], y)
      /\ \A j \in 1 .. n : Leads(K, s[j], z[j - 1], z[j])
  BY <1>1 DEF Chain
<1> HIDE DEF n
<1>4. f[0] \in T[0]
  <2>1. 0 \in 0 .. n
    BY <1>2
  <2> QED BY <1>3, <2>1
<1>5. ASSUME NEW j \in 1 .. n, f[j - 1] \in T[j - 1] PROVE f[j] \in T[j]
  <2>1. j \in 0 .. n /\ j - 1 \in 0 .. n
    BY <1>2
  <2>2. z[j - 1].ids \in U
    BY <1>5, <2>1
  <2>3. z[j].ids \in Nat /\ z[j - 1].ids <= z[j].ids
    BY <1>3, LeadsUp
  <2>4. z[j].ids \in U
    BY <2>2, <2>3
  <2> HIDE DEF U
  <2> QED BY <2>1, <2>4
<1>6. n \in 0 .. n
  BY <1>2
<1>7. f[n] \in T[n]
  <2> HIDE DEF f, T
  <2> QED BY <1>2, <1>4, <1>5, <1>6, LoopStates
<1>8. z[n].ids \in U
  <2> HIDE DEF U
  <2> QED BY <1>6, <1>7
<1> QED BY <1>3, <1>8 DEF Within

----------------------------------------------------------------------------
(* Partners in a butterfly.                                                 *)

LEMMA Pow2Sum ==
  \A a \in Nat, b \in Nat : Pow2[a + b] = Pow2[a] * Pow2[b]
<1> SUFFICES ASSUME NEW a \in Nat, NEW b \in Nat
             PROVE  Pow2[a + b] = Pow2[a] * Pow2[b]
  OBVIOUS
<1> DEFINE f == [j \in 0 .. b |-> Pow2[a + j]]
           T == [j \in 0 .. b |-> {Pow2[a] * Pow2[j]}]
<1>1. f[0] \in T[0]
  BY Pow2Facts
<1>2. ASSUME NEW j \in 1 .. b, f[j - 1] \in T[j - 1] PROVE f[j] \in T[j]
  <2>1. /\ j \in 0 .. b /\ j - 1 \in 0 .. b /\ j - 1 \in Nat /\ j \in Nat \ {0}
        /\ a + j \in Nat \ {0} /\ (a + j) - 1 = a + (j - 1)
    OBVIOUS
  <2>2. Pow2[a + (j - 1)] = Pow2[a] * Pow2[j - 1]
    BY <1>2, <2>1
  <2>3. Pow2[a + j] = 2 * Pow2[a + (j - 1)] /\ Pow2[j] = 2 * Pow2[j - 1]
    BY <2>1, Pow2Facts
  <2> DEFINE p == Pow2[a]
             q == Pow2[j - 1]
  <2>4. p \in Nat /\ q \in Nat
    BY <2>1, Pow2Facts
  <2> HIDE DEF p, q
  <2>5. 2 * (p * q) = p * (2 * q)
    BY <2>4
  <2>6. Pow2[a + j] = Pow2[a] * Pow2[j]
    BY <2>2, <2>3, <2>5 DEF p, q
  <2> QED BY <2>1, <2>6
<1>3. b \in 0 .. b
  OBVIOUS
<1>4. f[b] \in T[b]
  <2> HIDE DEF f, T
  <2> QED BY <1>1, <1>2, <1>3, LoopStates
<1> QED BY <1>3, <1>4

\* The distance of a layer is half of a divisor of the width.
LEMMA Partners ==
  ASSUME NEW bit \in Nat \ {0}, NEW c \in Nat \ {0}, NEW w, w = (2 * c) * bit
  PROVE  Paired(w, bit)
<1>1. w \in Nat
  <2> DEFINE e == 2 * c
  <2>1. e \in Nat
    OBVIOUS
  <2> HIDE DEF e
  <2>2. e * bit \in Nat
    BY <2>1
  <2> QED BY <2>2 DEF e
<1>2. ASSUME NEW i \in 0 .. w - 1
      PROVE  /\ (i \div bit) % 2 = 1 => i - bit \in 0 .. w - 1
             /\ (i \div bit) % 2 # 1 => i + bit \in 0 .. w - 1
  <2> DEFINE q == i \div bit
             e == 2 * c
  <2>1. i \in Nat /\ i < w
    BY <1>1
  <2>2. q \in Nat /\ q * bit <= i /\ i < q * bit + bit
    BY <2>1, DivNat
  <2>3. e \in Nat /\ e = 2 * c /\ w = e * bit
    OBVIOUS
  <2> HIDE DEF q, e
  <2>4. q * bit \in Nat
    BY <2>2
  <2>5. CASE q % 2 = 1
    <3>1. 1 <= q
      BY <2>2, <2>5
    <3>2. 1 * bit <= q * bit
      BY <2>2, <3>1, MulMono
    <3>3. bit <= i
      BY <2>1, <2>2, <2>4, <3>2
    <3>4. i - bit \in 0 .. w - 1
      BY <1>1, <2>1, <3>3
    <3> QED BY <2>5, <3>4 DEF q
  <2>6. CASE q % 2 # 1
    <3>1. q < e
      <4> SUFFICES ASSUME e <= q PROVE FALSE
        BY <2>2, <2>3
      <4>1. e * bit <= q * bit
        BY <2>2, <2>3, MulMono
      <4> QED BY <1>1, <2>1, <2>2, <2>3, <2>4, <4>1
    <3>2. q + 2 <= e
      BY <2>2, <2>3, <2>6, <3>1
    <3>3. (q + 2) * bit <= e * bit
      BY <2>2, <2>3, <3>2, MulMono
    <3>4. (q + 2) * bit = q * bit + 2 * bit
      BY <2>2
    <3>5. i + bit \in 0 .. w - 1
      BY <1>1, <2>1, <2>2, <2>3, <2>4, <3>3, <3>4
    <3> QED BY <2>6, <3>5 DEF q
  <2> QED BY <2>5, <2>6
<1>3. ASSUME NEW i \in 0 .. w - 1
      PROVE  /\ BitFlip(i, bit) \in 0 .. w - 1 /\ BitFlip(i, bit) # i
             /\ BitClear(i, bit) \in 0 .. w - 1 /\ BitSet(i, bit) \in 0 .. w - 1
             /\ BitClear(i, bit) < BitSet(i, bit)
  <2>1. CASE (i \div bit) % 2 = 1
    BY <1>1, <1>2, <2>1 DEF BitFlip, BitClear, BitSet
  <2>2. CASE (i \div bit) % 2 # 1
    BY <1>1, <1>2, <2>2 DEF BitFlip, BitClear, BitSet
  <2> QED BY <2>1, <2>2
<1> QED BY <1>1, <1>3 DEF Paired

\* Layer k of a butterfly.
LEMMA LayerPartners ==
  ASSUME NEW dim \in Nat, NEW k \in 1 .. dim
  PROVE  Paired(Pow2[dim], Pow2[dim - k])
<1>1. /\ dim - k \in Nat /\ k - 1 \in Nat /\ k \in Nat \ {0}
      /\ dim = k + (dim - k)
  OBVIOUS
<1>2. Pow2[k + (dim - k)] = Pow2[k] * Pow2[dim - k]
  BY <1>1, Pow2Sum
<1>3. Pow2[k] = 2 * Pow2[k - 1]
  BY <1>1, Pow2Facts
<1>4. Pow2[k - 1] \in Nat \ {0} /\ Pow2[dim - k] \in Nat \ {0}
  BY <1>1, Pow2Facts
<1>5. Pow2[dim] = (2 * Pow2[k - 1]) * Pow2[dim - k]
  BY <1>1, <1>2, <1>3
<1> QED BY <1>4, <1>5, Partners

----------------------------------------------------------------------------
(* Memories.                                                                *)

LEMMA ArrayWider ==
  ASSUME NEW mu, NEW a, NEW w, NEW lo \in Int, NEW hi \in Int, NEW lo2 \in Int,
         NEW hi2 \in Int, Array(mu, a, w, lo, hi), lo2 <= lo, hi <= hi2
  PROVE  Array(mu, a, w, lo2, hi2)
<1>1. \A v \in lo .. hi - 1 : v \in lo2 .. hi2 - 1
  OBVIOUS
<1> QED BY <1>1 DEF Array

LEMMA NumberedArray ==
  ASSUME NEW mu, NEW a, NEW w \in Nat, NEW c \in Nat, Numbered(mu, a, w, c)
  PROVE  Array(mu, a, w, c, c + w)
<1>1. \A i \in 0 .. w - 1 : mu[a + i] = c + i
  BY DEF Numbered
<1>2. \A i \in 0 .. w - 1 : mu[a + i] \in c .. (c + w) - 1
  BY <1>1
<1>3. \A i, j \in 0 .. w - 1 : i < j => mu[a + i] < mu[a + j]
  BY <1>1
<1> QED BY <1>2, <1>3 DEF Array

\* An array that a call does not write to.
LEMMA ArrayKept ==
  ASSUME NEW mu, NEW mu2, NEW a \in Nat, NEW w \in Nat, NEW lo, NEW hi,
         NEW b \in Nat, NEW v \in Nat, NEW top \in Nat,
         Array(mu, a, w, lo, hi), Keeps(mu, mu2, b, v, top), a + w <= top,
         a + w <= b \/ b + v <= a
  PROVE  Array(mu2, a, w, lo, hi)
<1>1. ASSUME NEW i \in 0 .. w - 1 PROVE mu2[a + i] = mu[a + i]
  <2>1. a + i \in 0 .. top - 1 /\ a + i \notin b .. b + v - 1
    OBVIOUS
  <2> QED BY <2>1 DEF Keeps
<1> QED BY <1>1 DEF Array

\* What was written before, or is out of reach.
LEMMA KeepsMore ==
  ASSUME NEW mu, NEW mu2, NEW mu3, NEW a \in Nat, NEW w \in Nat, NEW low \in Nat,
         NEW b \in Nat, NEW v \in Nat, NEW top \in Nat,
         Keeps(mu, mu2, a, w, low), Keeps(mu2, mu3, b, v, top), low <= top,
         b >= low \/ (b = a /\ v = w)
  PROVE  Keeps(mu, mu3, a, w, low)
<1> SUFFICES ASSUME NEW q \in 0 .. low - 1, q \notin a .. a + w - 1
             PROVE  mu3[q] = mu[q]
  BY DEF Keeps
<1>1. mu2[q] = mu[q]
  BY DEF Keeps
<1>2. q \in 0 .. top - 1 /\ q \notin b .. b + v - 1
  OBVIOUS
<1> QED BY <1>1, <1>2 DEF Keeps

\* The words of a region are words of the machine.
LEMMA RegionInside ==
  ASSUME NEW K, Machine(K), NEW x, Point(K, x), NEW a, NEW w, Region(K, x, a, w)
  PROVE  /\ a \in Nat /\ w \in Nat /\ a + w <= K.words
         /\ K.arena + x.off \in Nat /\ K.arena + x.off <= K.words
  BY DEF Machine, Point, Region

\* Where a layer leads: w new nodes, from id first on, are at b.
Stage(K, mu0, low, a, w, off, first, b) ==
  [ids |-> first + w, off |-> off,
   mems |-> {mu \in Mems(K) : Keeps(mu0, mu, a, w, low) /\ Numbered(mu, b, w, first)}]

LEMMA LayerLeads ==
  ASSUME NEW K, Machine(K), NEW x, Point(K, x), NEW rule \in {"one", "pair", "merge"},
         NEW w \in Nat \ {0}, NEW bit, NEW a, NEW b, NEW dst,
         Region(K, x, dst, w), Input(K, x, a, w), a + w <= dst \/ dst + w <= a,
         rule = "pair" => Paired(w, bit),
         rule = "merge" =>
           /\ Input(K, x, b, w) /\ (b + w <= dst \/ dst + w <= b)
           /\ \A mu \in x.mems : \A i \in 0 .. w - 1 : mu[a + i] < mu[b + i],
         NEW mu0, NEW low \in Nat, NEW last \in Nat, low <= K.arena + x.off,
         dst >= low \/ dst = last,
         \A mu \in x.mems : Keeps(mu0, mu, last, w, low)
  PROVE  /\ Leads(K, Layer(rule, w, bit, a, b, dst), x,
                  Stage(K, mu0, low, last, w, x.off, x.ids, dst))
         /\ Point(K, Stage(K, mu0, low, last, w, x.off, x.ids, dst))
<1> DEFINE t == Layer(rule, w, bit, a, b, dst)
           y == Stage(K, mu0, low, last, w, x.off, x.ids, dst)
           top == K.arena + x.off
<1>1. /\ t.fn = "layer" /\ t.rule = rule /\ t.width = w /\ t.bit = bit
      /\ t.a = a /\ t.b = b /\ t.dst = dst /\ t.i = 0
      /\ DOMAIN t = LayerFields
  BY DEF Layer, LayerFields
<1>2. /\ y.ids = x.ids + w /\ y.off = x.off
      /\ y.mems = {mu \in Mems(K) : Keeps(mu0, mu, last, w, low)
                                    /\ Numbered(mu, dst, w, x.ids)}
  BY DEF Stage
<1>3. x.ids \in Nat /\ dst \in Nat /\ top \in Nat /\ low <= top
  BY RegionInside DEF Point
<1> HIDE DEF t, y
<1>4. Point(K, y)
  BY <1>2, <1>3 DEF Point
<1>5. x.ids - t.i = x.ids
  BY <1>1, <1>3
<1>6. Source(K, x, t, t.a, x.ids) /\ (t.rule = "merge" => Source(K, x, t, t.b, x.ids))
  BY <1>1 DEF Source, Input
<1>7. ASSUME NEW mu \in x.mems, NEW mu2 \in Mems(K), Keeps(mu, mu2, dst, w, top),
             Numbered(mu2, dst, w, x.ids)
      PROVE  mu2 \in y.mems
  <2>1. Keeps(mu0, mu, last, w, low)
    OBVIOUS
  <2> HIDE DEF top
  <2>2. Keeps(mu0, mu2, last, w, low)
    BY <1>3, <1>7, <2>1, KeepsMore
  <2> QED BY <1>2, <1>7, <2>2
<1>8. \A mu \in x.mems : Numbered(mu, dst, 0, x.ids)
  BY DEF Numbered
<1>9. t.width \in Nat \ {0} /\ t.i \in 0 .. t.width - 1
  BY <1>1
<1>10. Rounds(K, t, x, y)
  BY <1>1, <1>2, <1>3, <1>5, <1>6, <1>7, <1>8, <1>9 DEF Rounds
<1>11. Leads(K, t, x, y)
  BY <1>1, <1>4, <1>10 DEF Leads
<1> QED BY <1>4, <1>11 DEF t, y

\* The layers 1 .. dim of a butterfly, over layer 0 in buf0.
LEMMA ButterflyRuns ==
  ASSUME NEW K, Machine(K), NEW mu0, NEW low \in Nat, NEW off \in Nat, NEW c \in Nat,
         NEW dim \in Nat, NEW buf0 \in Nat, NEW buf1 \in Nat, NEW last \in Nat,
         4 * off <= K.limit, low <= K.arena + off,
         low <= buf0, buf0 + Pow2[dim] <= buf1, buf1 + Pow2[dim] <= K.arena + off,
         \/ last = LastBuf(dim, buf0, buf1)
         \/ dim # 0 /\ last + Pow2[dim] <= low
  PROVE  LET w == Pow2[dim]
         IN  Runs(K, Butterfly(dim, buf0, buf1, last),
                  Stage(K, mu0, low, last, w, off, c, buf0),
                  Stage(K, mu0, low, last, w, off, c + dim * w, last))
<1> DEFINE w == Pow2[dim]
           B(k) == IF k = dim THEN last ELSE IF k % 2 = 0 THEN buf0 ELSE buf1
           first(k) == c + k * w
           S(k) == Stage(K, mu0, low, last, w, off, first(k), B(k))
           s == Butterfly(dim, buf0, buf1, last)
           z == [k \in 0 .. dim |-> S(k)]
           top == K.arena + off
<1>1. w \in Nat \ {0} /\ top \in Nat
  BY Pow2Facts DEF Machine
<1>2. /\ \/ last = (IF dim % 2 = 0 THEN buf0 ELSE buf1)
         \/ dim # 0 /\ last + w <= low
      /\ low <= buf0 /\ buf0 + w <= buf1 /\ buf1 + w <= top /\ low <= top
  BY DEF LastBuf
<1>3. s = [k \in 1 .. dim |->
             Layer("pair", w, Pow2[dim - k], IF k % 2 = 1 THEN buf0 ELSE buf1, 0,
                   IF k = dim THEN last ELSE IF k % 2 = 1 THEN buf1 ELSE buf0)]
  BY DEF Butterfly
<1> HIDE DEF s, w, top
<1>4. Len(s) = dim /\ IsSeq(s)
  <2>1. Len(s) = dim
    BY <1>3
  <2> QED BY <1>3, <2>1 DEF IsSeq
<1>5. ASSUME NEW k \in 0 .. dim PROVE first(k) \in Nat
  <2>1. k * w \in Nat
    BY <1>1
  <2> QED BY <2>1
<1>6. ASSUME NEW k \in 1 .. dim
      PROVE  k - 1 \in 0 .. dim /\ k \in 0 .. dim /\ first(k) = first(k - 1) + w
  <2> DEFINE p == k * w
             q == (k - 1) * w
  <2>1. p = q + w /\ q \in Nat
    BY <1>1
  <2> HIDE DEF p, q
  <2>2. c + p = (c + q) + w
    BY <1>1, <2>1
  <2>3. first(k) = first(k - 1) + w
    BY <2>2 DEF p, q
  <2> QED BY <2>3
<1> HIDE DEF first
<1>7. ASSUME NEW k \in 0 .. dim
      PROVE  /\ B(k) \in Nat /\ B(k) + w <= top
             /\ B(k) >= low \/ B(k) = last
  BY <1>1, <1>2
<1>8. ASSUME NEW k \in 1 .. dim
      PROVE  /\ B(k - 1) = (IF k % 2 = 1 THEN buf0 ELSE buf1)
             /\ B(k) = (IF k = dim THEN last ELSE IF k % 2 = 1 THEN buf1 ELSE buf0)
             /\ B(k - 1) + w <= B(k) \/ B(k) + w <= B(k - 1)
  <2>1. /\ k - 1 # dim /\ (k % 2 = 1 <=> (k - 1) % 2 = 0)
        /\ k % 2 = 0 \/ k % 2 = 1
    OBVIOUS
  <2>2. B(k - 1) = (IF k % 2 = 1 THEN buf0 ELSE buf1)
    BY <2>1
  <2>3. B(k) = (IF k = dim THEN last ELSE IF k % 2 = 1 THEN buf1 ELSE buf0)
    BY <2>1
  <2>4. B(k - 1) + w <= B(k) \/ B(k) + w <= B(k - 1)
    <3> HIDE DEF B
    <3>1. CASE k = dim
      BY <1>1, <1>2, <2>1, <2>2, <2>3, <3>1
    <3>2. CASE k # dim
      BY <1>1, <1>2, <2>1, <2>2, <2>3, <3>2
    <3> QED BY <3>1, <3>2
  <2> QED BY <2>2, <2>3, <2>4
<1> HIDE DEF B
<1>9. ASSUME NEW k \in 0 .. dim
      PROVE  /\ S(k).ids = first(k) + w /\ S(k).off = off
             /\ Point(K, S(k))
             /\ \A mu \in S(k).mems : /\ Keeps(mu0, mu, last, w, low)
                                      /\ Numbered(mu, B(k), w, first(k))
  <2>1. first(k) \in Nat
    BY <1>5
  <2> QED BY <1>1, <2>1 DEF Stage, Point
<1>10. ASSUME NEW k \in 1 .. dim PROVE Leads(K, s[k], S(k - 1), S(k))
  <2> DEFINE x == S(k - 1)
             a == B(k - 1)
             dst == B(k)
             bit == Pow2[dim - k]
             f == first(k - 1)
  <2>1. k - 1 \in 0 .. dim /\ k \in 0 .. dim /\ first(k) = f + w
    BY <1>6
  <2>2. /\ x.ids = first(k) /\ x.off = off /\ Point(K, x)
        /\ \A mu \in x.mems : Keeps(mu0, mu, last, w, low) /\ Numbered(mu, a, w, f)
    BY <1>9, <2>1
  <2>3. f \in Nat /\ first(k) \in Nat
    BY <1>5, <2>1
  <2>4. /\ a \in Nat /\ a + w <= top
        /\ dst \in Nat /\ dst + w <= top /\ (dst >= low \/ dst = last)
        /\ (a + w <= dst \/ dst + w <= a)
    BY <1>7, <1>8, <2>1
  <2>5. s[k] = Layer("pair", w, bit, a, 0, dst)
    BY <1>3, <1>8
  <2>6. Paired(w, bit)
    BY LayerPartners DEF w
  <2> HIDE DEF S, a, dst, bit, f, x
  <2>7. Input(K, x, a, w)
    <3>1. ASSUME NEW mu \in x.mems PROVE Array(mu, a, w, 0, x.ids)
      <4>1. Array(mu, a, w, f, f + w)
        BY <1>1, <2>2, <2>3, NumberedArray
      <4> QED BY <1>1, <2>1, <2>2, <2>3, <4>1, ArrayWider
    <3>2. Region(K, x, a, w)
      BY <1>1, <2>2, <2>4 DEF Region, top
    <3> QED BY <3>1, <3>2 DEF Input
  <2>8. Region(K, x, dst, w) /\ low <= K.arena + x.off
    BY <1>1, <1>2, <2>2, <2>4 DEF Region, top
  <2>9. Leads(K, Layer("pair", w, bit, a, 0, dst), x,
              Stage(K, mu0, low, last, w, x.off, x.ids, dst))
    BY <1>1, <2>2, <2>4, <2>6, <2>7, <2>8, LayerLeads
  <2> QED BY <2>2, <2>5, <2>9 DEF S, x, dst
<1>11. \A k \in 0 .. dim : z[k] = S(k)
  OBVIOUS
<1> HIDE DEF z, S
<1>12. Within(S(dim), S(dim))
  BY DEF Within
<1>13. Chain(K, s, S(0), S(dim), z)
  <2>1. 0 \in 0 .. dim /\ dim \in 0 .. dim
    OBVIOUS
  <2>2. ASSUME NEW k \in 1 .. dim PROVE Leads(K, s[k], z[k - 1], z[k])
    BY <1>6, <1>10, <1>11
  <2> QED BY <1>4, <1>11, <1>12, <2>1, <2>2 DEF Chain
<1>14. Runs(K, s, S(0), S(dim))
  BY <1>4, <1>13 DEF Runs
<1>15. first(0) = c /\ first(dim) = c + dim * w /\ B(0) = buf0 /\ B(dim) = last
  <2>1. 0 * w = 0
    BY <1>1
  <2>2. dim = 0 => last = buf0
    BY <1>2
  <2> QED BY <2>1, <2>2 DEF first, B
<1> QED BY <1>14, <1>15 DEF S, s, w

\* The memcpys at the end of a function.
Moved(mu, mu2, a, b, w) == \A i \in 0 .. w - 1 : mu2[b + i] = mu[a + i]

LEMMA CopyNone ==
  ASSUME NEW K, NEW mu \in Mems(K)
  PROVE  CopyOf(mu, {}) = mu
BY DEF CopyOf, Mems

LEMMA CopyOne ==
  ASSUME NEW K, Machine(K), NEW mu \in Mems(K), NEW a \in Nat, NEW b \in Nat, NEW w \in Nat,
         a + w <= K.words, b + w <= K.words, NEW r, r = CopyOf(mu, {<<a, b, w>>})
  PROVE  r \in Mems(K) /\ Moved(mu, r, a, b, w) /\ Keeps(mu, r, b, w, K.words)
<1> DEFINE s == <<a, b, w>>
           At(d, q) == q \in d[2] .. d[2] + d[3] - 1
           c(q) == CHOOSE d \in {s} : At(d, q)
<1>1. K.words \in Nat /\ DOMAIN mu = 0 .. K.words - 1
  BY DEF Machine, Mems
<1>2. \A q \in 0 .. K.words - 1 :
        r[q] = IF \E d \in {s} : At(d, q) THEN mu[c(q)[1] + q - c(q)[2]] ELSE mu[q]
  BY <1>1 DEF CopyOf
<1>3. \A q : At(s, q) <=> q \in b .. b + w - 1
  OBVIOUS
<1>4. ASSUME NEW q \in b .. b + w - 1 PROVE r[q] = mu[a + q - b]
  <2>1. q \in 0 .. K.words - 1 /\ At(s, q)
    BY <1>1, <1>3
  <2>2. c(q) = s
    BY <2>1
  <2>3. s[1] = a /\ s[2] = b
    OBVIOUS
  <2> HIDE DEF c, s, At
  <2>4. r[q] = mu[c(q)[1] + q - c(q)[2]]
    BY <1>2, <2>1
  <2> QED BY <2>2, <2>3, <2>4
<1>5. ASSUME NEW q \in 0 .. K.words - 1, q \notin b .. b + w - 1 PROVE r[q] = mu[q]
  <2>1. ~At(s, q)
    BY <1>3, <1>5
  <2> HIDE DEF c, At, s
  <2> QED BY <1>2, <2>1
<1>6. ASSUME NEW i \in 0 .. w - 1 PROVE r[b + i] = mu[a + i]
  <2>1. b + i \in b .. b + w - 1 /\ a + (b + i) - b = a + i
    OBVIOUS
  <2> QED BY <1>4, <2>1
<1>7. r \in Mems(K)
  <2>1. r = [q \in 0 .. K.words - 1 |-> r[q]]
    BY <1>1 DEF CopyOf
  <2>2. ASSUME NEW q \in 0 .. K.words - 1 PROVE r[q] \in Int
    <3>1. CASE q \in b .. b + w - 1
      <4>1. a + q - b \in 0 .. K.words - 1
        BY <1>1, <3>1
      <4>2. mu[a + q - b] \in Int
        BY <4>1 DEF Mems
      <4> QED BY <1>4, <3>1, <4>2
    <3>2. CASE q \notin b .. b + w - 1
      BY <1>5, <3>2 DEF Mems
    <3> QED BY <3>1, <3>2
  <2> QED BY <2>1, <2>2 DEF Mems
<1> QED BY <1>5, <1>6, <1>7 DEF Moved, Keeps

\* Two arrays side by side.
LEMMA CopyTwo ==
  ASSUME NEW K, Machine(K), NEW mu \in Mems(K), NEW a \in Nat, NEW b \in Nat,
         NEW out1 \in Nat, NEW w \in Nat,
         a + w <= K.words, b + w <= K.words, (out1 + w) + w <= K.words,
         NEW r, r = CopyOf(mu, {<<a, out1, w>>, <<b, out1 + w, w>>})
  PROVE  /\ r \in Mems(K)
         /\ Moved(mu, r, a, out1, w) /\ Moved(mu, r, b, out1 + w, w)
         /\ Keeps(mu, r, out1, w + w, K.words)
<1> DEFINE out2 == out1 + w
           s1 == <<a, out1, w>>
           s2 == <<b, out2, w>>
           At(d, q) == q \in d[2] .. d[2] + d[3] - 1
           c(q) == CHOOSE d \in {s1, s2} : At(d, q)
<1>1. /\ K.words \in Nat /\ DOMAIN mu = 0 .. K.words - 1
      /\ out2 \in Nat /\ out2 = out1 + w
  BY DEF Machine, Mems
<1>2. \A q \in 0 .. K.words - 1 :
        r[q] = IF \E d \in {s1, s2} : At(d, q) THEN mu[c(q)[1] + q - c(q)[2]] ELSE mu[q]
  BY <1>1 DEF CopyOf
<1> HIDE DEF out2
<1>3. /\ \A q : At(s1, q) <=> q \in out1 .. out1 + w - 1
      /\ \A q : At(s2, q) <=> q \in out2 .. out2 + w - 1
  OBVIOUS
<1>4. /\ s1[1] = a /\ s1[2] = out1 /\ s2[1] = b /\ s2[2] = out2
  OBVIOUS
<1>5. ASSUME NEW q \in out1 .. out1 + w - 1 PROVE r[q] = mu[a + q - out1]
  <2>1. q \in 0 .. K.words - 1 /\ At(s1, q) /\ ~At(s2, q)
    BY <1>1, <1>3
  <2> HIDE DEF s1, s2, At
  <2>2. c(q) = s1
    BY <2>1
  <2> HIDE DEF c
  <2>3. r[q] = mu[c(q)[1] + q - c(q)[2]]
    BY <1>2, <2>1
  <2> QED BY <1>4, <2>2, <2>3
<1>6. ASSUME NEW q \in out2 .. out2 + w - 1 PROVE r[q] = mu[b + q - out2]
  <2>1. q \in 0 .. K.words - 1 /\ At(s2, q) /\ ~At(s1, q)
    BY <1>1, <1>3
  <2> HIDE DEF s1, s2, At
  <2>2. c(q) = s2
    BY <2>1
  <2> HIDE DEF c
  <2>3. r[q] = mu[c(q)[1] + q - c(q)[2]]
    BY <1>2, <2>1
  <2> QED BY <1>4, <2>2, <2>3
<1>7. ASSUME NEW q \in 0 .. K.words - 1,
             q \notin out1 .. out1 + w - 1, q \notin out2 .. out2 + w - 1
      PROVE  r[q] = mu[q]
  <2>1. ~At(s1, q) /\ ~At(s2, q)
    BY <1>3, <1>7
  <2> HIDE DEF c, At, s1, s2
  <2> QED BY <1>2, <2>1
<1>8. /\ \A i \in 0 .. w - 1 : r[out1 + i] = mu[a + i]
      /\ \A i \in 0 .. w - 1 : r[out2 + i] = mu[b + i]
  <2>1. ASSUME NEW i \in 0 .. w - 1 PROVE r[out1 + i] = mu[a + i]
    <3>1. out1 + i \in out1 .. out1 + w - 1 /\ a + (out1 + i) - out1 = a + i
      OBVIOUS
    <3> QED BY <1>5, <3>1
  <2>2. ASSUME NEW i \in 0 .. w - 1 PROVE r[out2 + i] = mu[b + i]
    <3>1. out2 + i \in out2 .. out2 + w - 1 /\ b + (out2 + i) - out2 = b + i
      BY <1>1
    <3> QED BY <1>6, <3>1
  <2> QED BY <2>1, <2>2
<1>9. r \in Mems(K)
  <2>1. r = [q \in 0 .. K.words - 1 |-> r[q]]
    BY <1>1 DEF CopyOf
  <2>2. ASSUME NEW q \in 0 .. K.words - 1 PROVE r[q] \in Int
    <3>1. CASE q \in out1 .. out1 + w - 1
      <4>1. a + q - out1 \in 0 .. K.words - 1
        BY <1>1, <3>1
      <4>2. mu[a + q - out1] \in Int
        BY <4>1 DEF Mems
      <4> QED BY <1>5, <3>1, <4>2
    <3>2. CASE q \in out2 .. out2 + w - 1
      <4>1. b + q - out2 \in 0 .. K.words - 1
        BY <1>1, <3>2
      <4>2. mu[b + q - out2] \in Int
        BY <4>1 DEF Mems
      <4> QED BY <1>6, <3>2, <4>2
    <3>3. CASE q \notin out1 .. out1 + w - 1 /\ q \notin out2 .. out2 + w - 1
      BY <1>7, <3>3 DEF Mems
    <3> QED BY <3>1, <3>2, <3>3
  <2> QED BY <2>1, <2>2 DEF Mems
<1>10. ASSUME NEW q \in 0 .. K.words - 1, q \notin out1 .. out1 + (w + w) - 1
       PROVE  r[q] = mu[q]
  <2>1. q \notin out1 .. out1 + w - 1 /\ q \notin out2 .. out2 + w - 1
    BY <1>1, <1>10
  <2> QED BY <1>7, <2>1
<1> QED BY <1>8, <1>9, <1>10 DEF out2, Moved, Keeps

----------------------------------------------------------------------------
(* The bodies of the functions do what their calls promise.                 *)

\* The memory is known.
Now(c, o, mu) == [ids |-> c, off |-> o, mems |-> {mu}]

LEMMA NowFacts ==
  ASSUME NEW K, NEW c, NEW o, NEW mu
  PROVE  /\ Now(c, o, mu).ids = c /\ Now(c, o, mu).off = o /\ Now(c, o, mu).mems = {mu}
         /\ Point(K, Now(c, o, mu))
            <=> c \in Nat /\ o \in Nat /\ 4 * o <= K.limit /\ mu \in Mems(K)
BY DEF Now, Point

LEMMA KeepsAll ==
  ASSUME NEW mu, NEW a, NEW w, NEW top
  PROVE  Keeps(mu, mu, a, w, top)
BY DEF Keeps

LEMMA ConnectorRuns ==
  ASSUME NEW K, Machine(K), NEW t, t.fn = "connector", NEW mu0, NEW c, NEW o, NEW y,
         Leads(K, t, Now(c, o, mu0), y),
         NEW w, w = Pow2[t.dim], NEW prev, prev = K.arena + o, NEW curr, curr = prev + w,
         NEW last, last = LastBuf(t.dim, prev, curr)
  PROVE  /\ w \in Nat \ {0} /\ 4 * (o + 2 * w) <= K.limit
         /\ Runs(K, <<Layer("one", w, 0, t.in, 0, prev)>>
                      \o Butterfly(t.dim, prev, curr, last)
                      \o <<Leave({<<last, t.out, w>>}, o)>>,
                 Now(c, o + 2 * w, mu0), y)
<1> DEFINE dim == t.dim
           off == o + 2 * w
           low == K.arena + o
           x == Now(c, o, mu0)
           x0 == Now(c, off, mu0)
           n == dim * w
           x1 == Stage(K, mu0, low, last, w, off, c, prev)
           x2 == Stage(K, mu0, low, last, w, off, c + n, last)
           leave == Leave({<<last, t.out, w>>}, o)
<1>1. /\ Point(K, x) /\ Point(K, y) /\ dim \in Nat /\ Input(K, x, t.in, w)
      /\ Call(K, x, y, t.out, w, ButterflyNodeCount(dim), 8 * w)
  BY DEF Leads
<1>2. /\ c \in Nat /\ o \in Nat /\ mu0 \in Mems(K)
      /\ x.ids = c /\ x.off = o /\ x.mems = {mu0}
  BY <1>1, NowFacts
<1>3. /\ x0.ids = c /\ x0.off = off /\ x0.mems = {mu0}
  BY DEF Now
<1>4. /\ w \in Nat \ {0} /\ ButterflyNodeCount(dim) = w + n
  BY <1>1, Pow2Facts, ButterflyFacts
<1>5. n \in Nat
  BY <1>1, <1>4
<1>6. /\ K.arena \in Nat /\ K.limit \in Nat /\ K.words \in Nat
      /\ 4 * K.arena + K.limit <= 4 * K.words
  BY DEF Machine
<1>7. 4 * off <= K.limit /\ off \in Nat /\ low \in Nat
  BY <1>1, <1>2, <1>4, <1>6 DEF Call
<1>8. /\ prev = low /\ curr = low + w /\ K.arena + off = (low + w) + w
      /\ prev \in Nat /\ curr \in Nat
  BY <1>2, <1>4, <1>6
<1>9. last \in {prev, curr} /\ last \in Nat /\ last + w <= K.arena + off /\ low <= last
  BY <1>4, <1>7, <1>8 DEF LastBuf
<1>10. Region(K, x, t.out, w) /\ t.out \in Nat /\ t.out + w <= low
  BY <1>1, <1>2 DEF Call, Region
<1>11. t.in \in Nat /\ t.in + w <= low /\ Array(mu0, t.in, w, 0, c)
  BY <1>1, <1>2 DEF Input, Region
<1>12. Point(K, x0)
  BY <1>2, <1>7, NowFacts
<1> HIDE DEF x, x0, off, low, dim, n
<1>13. Leads(K, Layer("one", w, 0, t.in, 0, prev), x0, x1)
  <2>1. Input(K, x0, t.in, w) /\ Region(K, x0, prev, w)
    BY <1>3, <1>4, <1>7, <1>8, <1>11 DEF Input, Region
  <2>2. t.in + w <= prev /\ low <= K.arena + x0.off /\ prev >= low
    BY <1>3, <1>4, <1>7, <1>8, <1>11
  <2>3. \A mu \in x0.mems : Keeps(mu0, mu, last, w, low)
    BY <1>3, KeepsAll
  <2>4. "one" \in {"one", "pair", "merge"} /\ "one" # "pair" /\ "one" # "merge"
    OBVIOUS
  <2>5. Leads(K, Layer("one", w, 0, t.in, 0, prev), x0,
              Stage(K, mu0, low, last, w, x0.off, x0.ids, prev))
    BY <1>4, <1>7, <1>9, <1>12, <2>1, <2>2, <2>3, <2>4, LayerLeads
  <2> QED BY <1>3, <2>5
<1>14. Runs(K, Butterfly(dim, prev, curr, last), x1, x2)
  <2>1. low <= K.arena + off /\ low <= prev /\ prev + w <= curr /\ curr + w <= K.arena + off
    BY <1>4, <1>7, <1>8
  <2>2. w = Pow2[dim] /\ last = LastBuf(dim, prev, curr)
    BY DEF dim
  <2> QED BY <1>1, <1>2, <1>7, <1>8, <1>9, <2>1, <2>2, ButterflyRuns DEF n
<1>15. Leads(K, leave, x2, y)
  <2>1. leave.fn = "leave" /\ leave.saved = o /\ leave.copies = {<<last, t.out, w>>}
    BY DEF Leave
  <2>2. /\ x2.ids = (c + n) + w /\ x2.off = off
        /\ x2.mems = {mu \in Mems(K) : Keeps(mu0, mu, last, w, low)
                                       /\ Numbered(mu, last, w, c + n)}
    BY DEF Stage
  <2>3. Point(K, x2)
    BY <1>2, <1>4, <1>5, <1>7, <2>2 DEF Point
  <2>4. y.off = o /\ y.ids = c + (w + n)
    BY <1>1, <1>2, <1>4 DEF Call
  <2>5. ASSUME NEW mu \in x2.mems PROVE CopyOf(mu, leave.copies) \in y.mems
    <3> DEFINE r == CopyOf(mu, {<<last, t.out, w>>})
               b == t.out
    <3>1. mu \in Mems(K) /\ Keeps(mu0, mu, last, w, low) /\ Numbered(mu, last, w, c + n)
      BY <2>2
    <3>2. last + w <= K.words /\ b + w <= K.words
      BY <1>4, <1>6, <1>7, <1>8, <1>9, <1>10
    <3>3. r \in Mems(K) /\ Moved(mu, r, last, b, w) /\ Keeps(mu, r, b, w, K.words)
      <4>1. r = CopyOf(mu, {<<last, b, w>>}) /\ b \in Nat /\ w \in Nat
        BY <1>4, <1>10
      <4>2. last \in Nat /\ last + w <= K.words /\ b + w <= K.words /\ mu \in Mems(K)
        BY <1>9, <3>1, <3>2
      <4> HIDE DEF r, b
      <4> QED BY <4>1, <4>2, CopyOne
    <3> HIDE DEF r, b
    <3>4. Array(r, b, w, c, y.ids)
      <4>1. Numbered(r, b, w, c + n)
        BY <3>1, <3>3 DEF Numbered, Moved
      <4>2. Array(r, b, w, c + n, (c + n) + w)
        BY <1>2, <1>4, <1>5, <4>1, NumberedArray
      <4> QED BY <1>2, <1>4, <1>5, <2>4, <4>2, ArrayWider
    <3>5. Keeps(mu0, r, b, w, low)
      <4> SUFFICES ASSUME NEW q \in 0 .. low - 1, q \notin b .. b + w - 1
                   PROVE  r[q] = mu0[q]
        BY DEF Keeps
      <4>1. q \in 0 .. K.words - 1 /\ q \notin last .. last + w - 1
        BY <1>4, <1>6, <1>7, <1>8, <1>9
      <4> QED BY <3>1, <3>3, <4>1 DEF Keeps
    <3>6. r \in y.mems
      BY <1>1, <1>2, <3>3, <3>4, <3>5 DEF Call, low, b
    <3> QED BY <2>1, <3>6 DEF r
  <2>6. Leaves(K, leave, x2, y)
    <3>1. (c + n) + w = c + (w + n)
      BY <1>2, <1>4, <1>5
    <3>2. FromMemory(K, {<<last, t.out, w>>})
      <4> DEFINE b == t.out
      <4>1. last \in Nat /\ b \in Nat /\ w \in Nat /\ last + w <= K.words
        BY <1>4, <1>6, <1>7, <1>8, <1>9, <1>10
      <4> HIDE DEF b
      <4>2. FromMemory(K, {<<last, b, w>>})
        BY <4>1 DEF FromMemory
      <4> QED BY <4>2 DEF b
    <3> HIDE DEF leave, x2
    <3> QED BY <2>1, <2>2, <2>4, <2>5, <3>1, <3>2 DEF Leaves
  <2> QED BY <1>1, <2>1, <2>3, <2>6 DEF Leads
<1>16. Runs(K, <<Layer("one", w, 0, t.in, 0, prev)>> \o Butterfly(dim, prev, curr, last)
                  \o <<leave>>, x0, y)
  <2> HIDE DEF leave, x1, x2
  <2>1. Runs(K, <<Layer("one", w, 0, t.in, 0, prev)>>, x0, x1) /\ Runs(K, <<leave>>, x2, y)
    BY <1>13, <1>15, RunsOne
  <2>2. Runs(K, <<Layer("one", w, 0, t.in, 0, prev)>> \o Butterfly(dim, prev, curr, last),
             x0, x2)
    BY <1>14, <2>1, RunsThen
  <2> QED BY <2>1, <2>2, RunsThen
<1> QED BY <1>4, <1>7, <1>16 DEF x0, off, dim

LEMMA KeepsOther ==
  ASSUME NEW mu, NEW mu2, NEW a \in Nat, NEW w \in Nat, NEW low \in Nat, NEW b, NEW v,
         Keeps(mu, mu2, a, w, low), low <= a
  PROVE  Keeps(mu, mu2, b, v, low)
<1>1. \A q \in 0 .. low - 1 : q \notin a .. a + w - 1
  OBVIOUS
<1> QED BY <1>1 DEF Keeps

LEMMA MergedRuns ==
  ASSUME NEW K, Machine(K), NEW t, t.fn = "merged", NEW mu0, NEW c, NEW o, NEW y,
         Leads(K, t, Now(c, o, mu0), y), t.dim # 0,
         NEW w, w = Pow2[t.dim], NEW ing0, ing0 = K.arena + o,
         NEW ing1, ing1 = ing0 + w, NEW ctr0, ctr0 = ing0 + 2 * w,
         NEW ctr1, ctr1 = ing0 + 3 * w, NEW ing, ing = LastBuf(t.dim, ing0, ing1)
  PROVE  /\ w \in Nat \ {0} /\ 4 * (o + 4 * w) <= K.limit
         /\ Runs(K, <<Layer("one", w, 0, t.ingress, 0, ing0)>>
                      \o Butterfly(t.dim, ing0, ing1, ing)
                      \o <<Layer("merge", w, 0, t.primary, ing, ctr0)>>
                      \o Butterfly(t.dim, ctr0, ctr1, t.out)
                      \o <<Leave({}, o)>>,
                 Now(c, o + 4 * w, mu0), y)
<1> DEFINE dim == t.dim
           off == o + 4 * w
           low == K.arena + o
           x == Now(c, o, mu0)
           x0 == Now(c, off, mu0)
           n == dim * w
           c1 == c + n
           c2 == c1 + w
           c3 == c2 + n
           x1 == Stage(K, mu0, low, ing, w, off, c, ing0)
           x2 == Stage(K, mu0, low, ing, w, off, c1, ing)
           x3 == Stage(K, mu0, low, t.out, w, off, c2, ctr0)
           x4 == Stage(K, mu0, low, t.out, w, off, c3, t.out)
           one == Layer("one", w, 0, t.ingress, 0, ing0)
           merge == Layer("merge", w, 0, t.primary, ing, ctr0)
           leave == Leave({}, o)
<1>1. /\ Point(K, x) /\ Point(K, y) /\ dim \in Nat
      /\ Input(K, x, t.ingress, w) /\ Input(K, x, t.primary, w)
      /\ Call(K, x, y, t.out, w, 2 * ButterflyNodeCount(dim), 16 * w)
  BY DEF Leads
<1>2. /\ c \in Nat /\ o \in Nat /\ mu0 \in Mems(K)
      /\ x.ids = c /\ x.off = o /\ x.mems = {mu0}
  BY <1>1, NowFacts
<1>3. /\ x0.ids = c /\ x0.off = off /\ x0.mems = {mu0}
  BY DEF Now
<1>4. /\ w \in Nat \ {0} /\ ButterflyNodeCount(dim) = w + n
  BY <1>1, Pow2Facts, ButterflyFacts
<1>5. n \in Nat
  BY <1>1, <1>4
<1>6. /\ K.arena \in Nat /\ K.limit \in Nat /\ K.words \in Nat
      /\ 4 * K.arena + K.limit <= 4 * K.words
  BY DEF Machine
<1>7. 4 * off <= K.limit /\ off \in Nat /\ low \in Nat
  BY <1>1, <1>2, <1>4, <1>6 DEF Call
<1>8. /\ ing0 = low /\ ing1 = low + w /\ ctr0 = low + 2 * w /\ ctr1 = low + 3 * w
      /\ K.arena + off = low + 4 * w
      /\ ing0 \in Nat /\ ing1 \in Nat /\ ctr0 \in Nat /\ ctr1 \in Nat
  BY <1>2, <1>4, <1>6
<1>9. ing \in {ing0, ing1} /\ ing \in Nat /\ ing + w <= ctr0 /\ low <= ing
  BY <1>4, <1>7, <1>8 DEF LastBuf
<1>10. t.out \in Nat /\ t.out + w <= low
  BY <1>1, <1>2 DEF Call, Region
<1>11. /\ t.ingress \in Nat /\ t.ingress + w <= low /\ Array(mu0, t.ingress, w, 0, c)
       /\ t.primary \in Nat /\ t.primary + w <= low /\ Array(mu0, t.primary, w, 0, c)
  BY <1>1, <1>2 DEF Input, Region
<1>12. Point(K, x0)
  BY <1>2, <1>7, NowFacts
<1> HIDE DEF x, x0, off, low, dim, n
<1>13. c1 \in Nat /\ c2 \in Nat /\ c3 \in Nat /\ c3 + w = c + 2 * (w + n) /\ w \in Nat
  BY <1>2, <1>4, <1>5
<1>14. Leads(K, one, x0, x1)
  <2>1. Input(K, x0, t.ingress, w) /\ Region(K, x0, ing0, w)
    BY <1>3, <1>4, <1>7, <1>8, <1>11 DEF Input, Region
  <2>2. t.ingress + w <= ing0 /\ low <= K.arena + x0.off /\ ing0 >= low
    BY <1>3, <1>4, <1>7, <1>8, <1>11
  <2>3. \A mu \in x0.mems : Keeps(mu0, mu, ing, w, low)
    BY <1>3, KeepsAll
  <2>4. "one" \in {"one", "pair", "merge"} /\ "one" # "pair" /\ "one" # "merge"
    OBVIOUS
  <2>5. Leads(K, one, x0, Stage(K, mu0, low, ing, w, x0.off, x0.ids, ing0))
    BY <1>4, <1>7, <1>9, <1>12, <2>1, <2>2, <2>3, <2>4, LayerLeads
  <2> QED BY <1>3, <2>5
<1>15. Runs(K, Butterfly(dim, ing0, ing1, ing), x1, x2)
  <2>1. /\ low <= K.arena + off /\ low <= ing0 /\ ing0 + w <= ing1
        /\ ing1 + w <= K.arena + off
    BY <1>4, <1>7, <1>8
  <2>2. w = Pow2[dim] /\ ing = LastBuf(dim, ing0, ing1)
    BY DEF dim
  <2> QED BY <1>1, <1>2, <1>7, <1>8, <1>9, <2>1, <2>2, ButterflyRuns DEF n
<1>16. /\ x2.ids = c2 /\ x2.off = off
       /\ x2.mems = {mu \in Mems(K) : Keeps(mu0, mu, ing, w, low)
                                      /\ Numbered(mu, ing, w, c1)}
       /\ x4.ids = c3 + w /\ x4.off = off
       /\ x4.mems = {mu \in Mems(K) : Keeps(mu0, mu, t.out, w, low)
                                      /\ Numbered(mu, t.out, w, c3)}
  BY DEF Stage
<1> HIDE DEF x1, x2, x4, c1, c2, c3
<1>17. Point(K, x2) /\ Point(K, x4)
  <2>1. c3 + w \in Nat
    BY <1>13
  <2> QED BY <1>7, <1>13, <1>16, <2>1 DEF Point
<1>18. Leads(K, merge, x2, x3)
  <2>1. ASSUME NEW mu \in x2.mems
        PROVE  /\ Array(mu, t.primary, w, 0, x2.ids) /\ Array(mu, ing, w, 0, x2.ids)
               /\ \A i \in 0 .. w - 1 : mu[t.primary + i] < mu[ing + i]
               /\ Keeps(mu0, mu, t.out, w, low)
    <3>1. Keeps(mu0, mu, ing, w, low) /\ Numbered(mu, ing, w, c1)
      BY <1>16
    <3>2. Array(mu, t.primary, w, 0, c)
      <4>1. t.primary + w <= ing
        BY <1>4, <1>7, <1>9, <1>11
      <4> QED BY <1>7, <1>9, <1>11, <1>13, <3>1, <4>1, ArrayKept
    <3>3. Array(mu, ing, w, c1, c1 + w)
      BY <1>13, <3>1, NumberedArray
    <3>4. c <= c1 /\ c1 <= c2 /\ c2 = c1 + w
      BY <1>2, <1>4, <1>5 DEF c1, c2
    <3>5. Array(mu, t.primary, w, 0, c2)
      BY <1>2, <1>13, <3>2, <3>4, ArrayWider
    <3>6. Array(mu, ing, w, 0, c2)
      BY <1>13, <3>3, <3>4, ArrayWider
    <3>7. ASSUME NEW i \in 0 .. w - 1 PROVE mu[t.primary + i] < mu[ing + i]
      <4>1. mu[t.primary + i] \in 0 .. c - 1 /\ mu[ing + i] = c1 + i
        BY <3>1, <3>2 DEF Array, Numbered
      <4> QED BY <1>2, <1>13, <3>4, <4>1
    <3>8. Keeps(mu0, mu, t.out, w, low)
      BY <1>7, <1>9, <1>13, <3>1, KeepsOther
    <3> QED BY <1>16, <3>5, <3>6, <3>7, <3>8
  <2>2. /\ Input(K, x2, t.primary, w) /\ Input(K, x2, ing, w)
        /\ Region(K, x2, ctr0, w)
    <3>1. /\ Region(K, x2, t.primary, w) /\ Region(K, x2, ing, w)
          /\ Region(K, x2, ctr0, w)
      BY <1>4, <1>7, <1>8, <1>9, <1>11, <1>16 DEF Region
    <3> QED BY <2>1, <3>1 DEF Input
  <2>3. /\ t.primary + w <= ctr0 /\ ing + w <= ctr0 /\ low <= K.arena + x2.off
        /\ ctr0 >= low
    BY <1>4, <1>7, <1>8, <1>9, <1>11, <1>16
  <2>4. "merge" \in {"one", "pair", "merge"} /\ "merge" # "pair"
    OBVIOUS
  <2>5. Leads(K, merge, x2, Stage(K, mu0, low, t.out, w, x2.off, x2.ids, ctr0))
    BY <1>4, <1>7, <1>10, <1>17, <2>1, <2>2, <2>3, <2>4, LayerLeads
  <2> QED BY <1>16, <2>5
<1>19. Runs(K, Butterfly(dim, ctr0, ctr1, t.out), x3, x4)
  <2>1. /\ low <= K.arena + off /\ low <= ctr0 /\ ctr0 + w <= ctr1
        /\ ctr1 + w <= K.arena + off
    BY <1>4, <1>7, <1>8
  <2>2. w = Pow2[dim] /\ dim # 0
    BY DEF dim
  <2>3. c2 + dim * Pow2[dim] = c3
    BY <2>2 DEF c3, n
  <2> QED BY <1>1, <1>7, <1>8, <1>10, <1>13, <2>1, <2>2, <2>3, ButterflyRuns DEF x4
<1>20. Leads(K, leave, x4, y)
  <2>1. leave.fn = "leave" /\ leave.saved = o /\ leave.copies = {}
    BY DEF Leave
  <2>2. y.off = o /\ y.ids = c3 + w
    BY <1>1, <1>2, <1>4, <1>13 DEF Call
  <2>3. ASSUME NEW mu \in x4.mems PROVE CopyOf(mu, leave.copies) \in y.mems
    <3>1. mu \in Mems(K) /\ Keeps(mu0, mu, t.out, w, low) /\ Numbered(mu, t.out, w, c3)
      BY <1>16
    <3>2. CopyOf(mu, leave.copies) = mu
      BY <2>1, <3>1, CopyNone
    <3>3. Array(mu, t.out, w, c3, c3 + w)
      BY <1>13, <3>1, NumberedArray
    <3>4. c <= c3 /\ c3 + w = y.ids
      BY <1>2, <1>4, <1>5, <2>2 DEF c1, c2, c3
    <3>5. Array(mu, t.out, w, c, y.ids)
      BY <1>2, <1>13, <3>3, <3>4, ArrayWider
    <3>6. mu \in y.mems
      BY <1>1, <1>2, <3>1, <3>5 DEF Call, low
    <3> QED BY <3>2, <3>6
  <2>4. Leaves(K, leave, x4, y)
    <3>1. FromMemory(K, {})
      BY DEF FromMemory
    <3> QED BY <1>16, <2>1, <2>2, <2>3, <3>1 DEF Leaves
  <2> QED BY <1>1, <1>17, <2>1, <2>4 DEF Leads
<1>21. Runs(K, <<one>> \o Butterfly(dim, ing0, ing1, ing) \o <<merge>>
                 \o Butterfly(dim, ctr0, ctr1, t.out) \o <<leave>>, x0, y)
  <2> HIDE DEF one, merge, leave, x3
  <2>1. Runs(K, <<one>>, x0, x1) /\ Runs(K, <<merge>>, x2, x3) /\ Runs(K, <<leave>>, x4, y)
    BY <1>14, <1>18, <1>20, RunsOne
  <2>2. Runs(K, <<one>> \o Butterfly(dim, ing0, ing1, ing), x0, x2)
    BY <1>15, <2>1, RunsThen
  <2>3. Runs(K, <<one>> \o Butterfly(dim, ing0, ing1, ing) \o <<merge>>, x0, x3)
    BY <2>1, <2>2, RunsThen
  <2>4. Runs(K, <<one>> \o Butterfly(dim, ing0, ing1, ing) \o <<merge>>
                 \o Butterfly(dim, ctr0, ctr1, t.out), x0, x4)
    BY <1>19, <2>3, RunsThen
  <2> QED BY <2>1, <2>4, RunsThen
<1> QED BY <1>4, <1>7, <1>21 DEF x0, off, dim

\* A function that fills three buffers of h words, of which the first and the last
\* are its result: each of the three calls may count on what it reads.
Halves(K, c, o, mu0, h, y, t, n1, n2, n3, p1, p2, p3, x1, x2, x3) ==
  LET low == K.arena + o
      x0  == Now(c, o + 3 * h, mu0)
  IN  /\ Point(K, x0) /\ Point(K, x1) /\ Point(K, x2) /\ Point(K, x3)
      /\ Call(K, x0, x1, low, h, n1, p1)
      /\ Call(K, x1, x2, low + h, h, n2, p2)
      /\ Call(K, x2, x3, low + 2 * h, h, n3, p3)
      /\ \A a \in Nat : a + h <= low /\ Array(mu0, a, h, 0, c) =>
           Input(K, x0, a, h) /\ Input(K, x1, a, h)
      /\ Input(K, x1, low, h) /\ Input(K, x2, low + h, h)
      /\ Leads(K, Leave({<<low, t, h>>, <<low + 2 * h, t + h, h>>}, o), x3, y)

LEMMA HalvesCalls ==
  ASSUME NEW K, Machine(K), NEW mu0, NEW c, NEW o, NEW y, NEW t, NEW h \in Nat \ {0},
         NEW n1 \in Nat, NEW n2 \in Nat, NEW n3 \in Nat, NEW n, n = (n1 + n2) + n3,
         NEW p1 \in Nat, NEW p2 \in Nat, NEW p3 \in Nat, NEW peak \in Nat,
         Point(K, Now(c, o, mu0)), Point(K, y),
         Call(K, Now(c, o, mu0), y, t, 2 * h, n, peak),
         12 * h + p1 <= peak, 12 * h + p2 <= peak, 12 * h + p3 <= peak
  PROVE  \E x1, x2, x3 :
           Halves(K, c, o, mu0, h, y, t, n1, n2, n3, p1, p2, p3, x1, x2, x3)
<1> DEFINE low == K.arena + o
           off == o + 3 * h
           mid == low + h
           right == low + 2 * h
           x == Now(c, o, mu0)
           x0 == Now(c, off, mu0)
           c1 == c + n1
           c2 == c1 + n2
           c3 == c2 + n3
           M1 == {mu \in Mems(K) : Keeps(mu0, mu, low, h, low) /\ Array(mu, low, h, c, c1)}
           M2 == {mu \in M1 : Array(mu, mid, h, c1, c2)}
           M3 == {mu \in M1 : Array(mu, right, h, c2, c3)}
           x1 == [ids |-> c1, off |-> off, mems |-> M1]
           x2 == [ids |-> c2, off |-> off, mems |-> M2]
           x3 == [ids |-> c3, off |-> off, mems |-> M3]
           leave == Leave({<<low, t, h>>, <<right, t + h, h>>}, o)
<1>1. /\ c \in Nat /\ o \in Nat /\ mu0 \in Mems(K)
      /\ x.ids = c /\ x.off = o /\ x.mems = {mu0}
  BY NowFacts
<1>2. /\ x0.ids = c /\ x0.off = off /\ x0.mems = {mu0}
      /\ x1.ids = c1 /\ x1.off = off /\ x1.mems = M1
      /\ x2.ids = c2 /\ x2.off = off /\ x2.mems = M2
      /\ x3.ids = c3 /\ x3.off = off /\ x3.mems = M3
  BY DEF Now
<1>3. /\ K.arena \in Nat /\ K.limit \in Nat /\ K.words \in Nat
      /\ 4 * K.arena + K.limit <= 4 * K.words
  BY DEF Machine
<1>4. /\ 4 * o + peak <= K.limit
      /\ t \in Nat /\ t + 2 * h <= low
      /\ y.ids = c + n /\ y.off = o
      /\ \A mu2 \in Mems(K) :
           Keeps(mu0, mu2, t, 2 * h, low) /\ Array(mu2, t, 2 * h, c, y.ids) => mu2 \in y.mems
  BY <1>1 DEF Call, Region
<1>5. /\ off \in Nat /\ low \in Nat /\ mid \in Nat /\ right \in Nat /\ h \in Nat
      /\ 4 * off + p1 <= K.limit /\ 4 * off + p2 <= K.limit /\ 4 * off + p3 <= K.limit
      /\ 4 * off <= K.limit
      /\ mid = low + h /\ right = mid + h /\ K.arena + off = right + h
      /\ K.arena + off <= K.words
  BY <1>1, <1>3, <1>4
<1>6. /\ c1 \in Nat /\ c2 \in Nat /\ c3 \in Nat /\ c3 = c + n /\ 0 \in Nat
      /\ c1 = c + n1 /\ c2 = c1 + n2 /\ c3 = c2 + n3
      /\ c <= c1 /\ c1 <= c2 /\ c2 <= c3
  BY <1>1
<1>7. Point(K, x0)
  BY <1>1, <1>5, NowFacts
<1> HIDE DEF x, x0, off, low, mid, right, c1, c2, c3, x1, x2, x3, leave
<1>8. Point(K, x1) /\ Point(K, x2) /\ Point(K, x3)
  BY <1>2, <1>5, <1>6 DEF Point
<1>9. Call(K, x0, x1, low, h, n1, p1)
  <2>1. ASSUME NEW mu2 \in Mems(K), Keeps(mu0, mu2, low, h, K.arena + off),
               Array(mu2, low, h, c, c1)
        PROVE  mu2 \in M1
    <3>1. Keeps(mu0, mu2, low, h, low)
      BY <1>5, <2>1, KeepsAll, KeepsMore
    <3> QED BY <2>1, <3>1
  <2>2. Region(K, x0, low, h)
    BY <1>2, <1>5 DEF Region
  <2> HIDE DEF M1, M2, M3
  <2> QED BY <1>2, <1>5, <1>6, <2>1, <2>2 DEF Call
<1>10. Call(K, x1, x2, mid, h, n2, p2)
  <2>1. ASSUME NEW mu \in M1, NEW mu2 \in Mems(K), Keeps(mu, mu2, mid, h, K.arena + off),
               Array(mu2, mid, h, c1, c2)
        PROVE  mu2 \in M2
    <3>1. Keeps(mu0, mu, low, h, low) /\ Array(mu, low, h, c, c1)
      OBVIOUS
    <3>2. Keeps(mu0, mu2, low, h, low)
      <4>1. low <= K.arena + off /\ mid >= low /\ K.arena + off \in Nat
        BY <1>5
      <4> QED BY <1>5, <2>1, <3>1, <4>1, KeepsMore
    <3>3. Array(mu2, low, h, c, c1)
      <4>1. low + h <= mid /\ low + h <= K.arena + off /\ K.arena + off \in Nat
        BY <1>5
      <4> QED BY <1>1, <1>5, <1>6, <2>1, <3>1, <4>1, ArrayKept
    <3> QED BY <2>1, <3>2, <3>3
  <2>2. Region(K, x1, mid, h)
    BY <1>2, <1>5 DEF Region
  <2> HIDE DEF M1, M2, M3
  <2> QED BY <1>2, <1>5, <1>6, <2>1, <2>2 DEF Call
<1>11. Call(K, x2, x3, right, h, n3, p3)
  <2>1. ASSUME NEW mu \in M2, NEW mu2 \in Mems(K), Keeps(mu, mu2, right, h, K.arena + off),
               Array(mu2, right, h, c2, c3)
        PROVE  mu2 \in M3
    <3>1. Keeps(mu0, mu, low, h, low) /\ Array(mu, low, h, c, c1)
      OBVIOUS
    <3>2. Keeps(mu0, mu2, low, h, low)
      <4>1. low <= K.arena + off /\ right >= low /\ K.arena + off \in Nat
        BY <1>5
      <4> QED BY <1>5, <2>1, <3>1, <4>1, KeepsMore
    <3>3. Array(mu2, low, h, c, c1)
      <4>1. low + h <= right /\ low + h <= K.arena + off /\ K.arena + off \in Nat
        BY <1>5
      <4> QED BY <1>1, <1>5, <1>6, <2>1, <3>1, <4>1, ArrayKept
    <3> QED BY <2>1, <3>2, <3>3
  <2>2. Region(K, x2, right, h)
    BY <1>2, <1>5 DEF Region
  <2> HIDE DEF M1, M2, M3
  <2> QED BY <1>2, <1>5, <1>6, <2>1, <2>2 DEF Call
<1>12. ASSUME NEW a \in Nat, a + h <= low, Array(mu0, a, h, 0, c)
       PROVE  Input(K, x0, a, h) /\ Input(K, x1, a, h)
  <2>1. Input(K, x0, a, h)
    BY <1>2, <1>5, <1>12 DEF Input, Region
  <2>2. ASSUME NEW mu \in M1 PROVE Array(mu, a, h, 0, c1)
    <3>1. Array(mu, a, h, 0, c)
      <4>1. Keeps(mu0, mu, low, h, low)
        OBVIOUS
      <4> QED BY <1>5, <1>12, <4>1, ArrayKept
    <3> QED BY <1>1, <1>6, <3>1, ArrayWider
  <2> HIDE DEF M1
  <2>3. Input(K, x1, a, h)
    BY <1>2, <1>5, <1>12, <2>2 DEF Input, Region
  <2> QED BY <2>1, <2>3
<1>13. Input(K, x1, low, h) /\ Input(K, x2, mid, h)
  <2>1. ASSUME NEW mu \in M1 PROVE Array(mu, low, h, 0, c1)
    <3>1. Array(mu, low, h, c, c1)
      OBVIOUS
    <3> QED BY <1>1, <1>6, <3>1, ArrayWider
  <2>2. ASSUME NEW mu \in M2 PROVE Array(mu, mid, h, 0, c2)
    <3>1. Array(mu, mid, h, c1, c2)
      OBVIOUS
    <3> QED BY <1>6, <3>1, ArrayWider
  <2> HIDE DEF M1, M2, M3
  <2> QED BY <1>2, <1>5, <2>1, <2>2 DEF Input, Region
<1>14. Leads(K, leave, x3, y)
  <2>1. /\ leave.fn = "leave" /\ leave.saved = o
        /\ leave.copies = {<<low, t, h>>, <<right, t + h, h>>}
    BY DEF Leave, leave
  <2>2. ASSUME NEW mu \in M3 PROVE CopyOf(mu, leave.copies) \in y.mems
    <3> DEFINE r == CopyOf(mu, leave.copies)
               b == t + h
    <3>1. /\ mu \in Mems(K) /\ Keeps(mu0, mu, low, h, low)
          /\ Array(mu, low, h, c, c1) /\ Array(mu, right, h, c2, c3)
      OBVIOUS
    <3>2. /\ b \in Nat /\ b = t + h /\ low + h <= K.words /\ right + h <= K.words
          /\ (t + h) + h <= K.words /\ 2 * h = h + h /\ t \in Nat
      <4>1. t \in Nat /\ t + 2 * h <= low
        BY <1>4
      <4> QED BY <1>3, <1>5, <4>1
    <3>3. r = CopyOf(mu, {<<low, t, h>>, <<right, t + h, h>>})
      BY <2>1
    <3> HIDE DEF r
    <3>4. /\ r \in Mems(K) /\ Moved(mu, r, low, t, h) /\ Moved(mu, r, right, b, h)
          /\ Keeps(mu, r, t, h + h, K.words)
      BY <1>4, <1>5, <3>1, <3>2, <3>3, CopyTwo
    <3>5. Keeps(mu0, r, t, 2 * h, low)
      <4> SUFFICES ASSUME NEW q \in 0 .. low - 1, q \notin t .. t + 2 * h - 1
                   PROVE  r[q] = mu0[q]
        BY DEF Keeps
      <4>1. mu[q] = mu0[q]
        <5>1. q \notin low .. low + h - 1
          BY <1>5
        <5> QED BY <3>1, <5>1 DEF Keeps
      <4>2. q \in 0 .. K.words - 1 /\ q \notin t .. t + (h + h) - 1
        BY <1>3, <1>5, <3>2
      <4> QED BY <3>4, <4>1, <4>2 DEF Keeps
    <3>6. Array(r, t, 2 * h, c, y.ids)
      <4>1. \A i \in 0 .. h - 1 : r[t + i] = mu[low + i]
        BY <3>4 DEF Moved
      <4>2. \A i \in 0 .. h - 1 : r[t + (h + i)] = mu[right + i]
        <5>1. \A i \in 0 .. h - 1 : b + i = t + (h + i)
          BY <1>4, <3>2
        <5> QED BY <3>4, <5>1 DEF Moved
      <4>3. ASSUME NEW i \in 0 .. 2 * h - 1
            PROVE  i \in 0 .. h - 1 \/ (i - h \in 0 .. h - 1 /\ h + (i - h) = i)
        BY <1>5
      <4>4. /\ \A i \in 0 .. h - 1 : mu[low + i] \in c .. c1 - 1
            /\ \A i \in 0 .. h - 1 : mu[right + i] \in c2 .. c3 - 1
            /\ \A i, j \in 0 .. h - 1 : i < j => mu[low + i] < mu[low + j]
            /\ \A i, j \in 0 .. h - 1 : i < j => mu[right + i] < mu[right + j]
        BY <3>1 DEF Array
      <4>5. y.ids = c3
        BY <1>4, <1>6
      <4>6. ASSUME NEW i \in 0 .. 2 * h - 1 PROVE r[t + i] \in c .. c3 - 1
        <5>1. CASE i \in 0 .. h - 1
          BY <1>1, <1>6, <4>1, <4>4, <5>1
        <5>2. CASE i - h \in 0 .. h - 1 /\ h + (i - h) = i
          <6>1. r[t + i] = mu[right + (i - h)]
            BY <4>2, <5>2
          <6>2. mu[right + (i - h)] \in c2 .. c3 - 1
            BY <4>4, <5>2
          <6> QED BY <1>1, <1>6, <6>1, <6>2
        <5> QED BY <4>3, <5>1, <5>2
      <4>7. ASSUME NEW i \in 0 .. 2 * h - 1, NEW j \in 0 .. 2 * h - 1, i < j
            PROVE  r[t + i] < r[t + j]
        <5>1. CASE j \in 0 .. h - 1
          <6>1. i \in 0 .. h - 1
            BY <4>7, <5>1
          <6> QED BY <4>1, <4>4, <4>7, <5>1, <6>1
        <5>2. CASE i \in 0 .. h - 1 /\ j - h \in 0 .. h - 1 /\ h + (j - h) = j
          <6>1. r[t + i] = mu[low + i] /\ r[t + j] = mu[right + (j - h)]
            BY <4>1, <4>2, <5>2
          <6>2. mu[low + i] \in c .. c1 - 1 /\ mu[right + (j - h)] \in c2 .. c3 - 1
            BY <4>4, <5>2
          <6> QED BY <1>1, <1>6, <6>1, <6>2
        <5>3. CASE /\ i - h \in 0 .. h - 1 /\ h + (i - h) = i
                   /\ j - h \in 0 .. h - 1 /\ h + (j - h) = j
          <6>1. r[t + i] = mu[right + (i - h)] /\ r[t + j] = mu[right + (j - h)]
            BY <4>2, <5>3
          <6>2. i - h < j - h
            BY <4>7
          <6>3. mu[right + (i - h)] < mu[right + (j - h)]
            BY <4>4, <5>3, <6>2
          <6> QED BY <6>1, <6>3
        <5> QED BY <4>3, <5>1, <5>2, <5>3
      <4> QED BY <4>5, <4>6, <4>7 DEF Array
    <3>7. r \in y.mems
      BY <1>4, <3>4, <3>5, <3>6
    <3> QED BY <3>7 DEF r
  <2> HIDE DEF M3
  <2>3. FromMemory(K, {<<low, t, h>>, <<right, t + h, h>>})
    <3>1. /\ low + h <= K.words /\ right + h <= K.words
          /\ low \in Nat /\ right \in Nat /\ t \in Nat /\ t + h \in Nat /\ h \in Nat
      BY <1>3, <1>4, <1>5
    <3> DEFINE b == t + h
    <3> HIDE DEF b, low, right
    <3>2. FromMemory(K, {<<low, t, h>>, <<right, b, h>>})
      BY <3>1 DEF FromMemory, b
    <3> QED BY <3>2 DEF b
  <2>4. Leaves(K, leave, x3, y)
    BY <1>2, <1>4, <1>6, <2>1, <2>2, <2>3 DEF Leaves
  <2> QED BY <1>8, <2>1, <2>4 DEF Leads
<1>15. Halves(K, c, o, mu0, h, y, t, n1, n2, n3, p1, p2, p3, x1, x2, x3)
  <2> HIDE DEF M1, M2, M3
  <2> QED BY <1>7, <1>8, <1>9, <1>10, <1>11, <1>12, <1>13, <1>14
          DEF Halves, x0, low, off, mid, right, leave
<1> QED BY <1>15

LEMMA StandaloneRuns ==
  ASSUME NEW K, Machine(K), NEW t, t.fn = "standalone", NEW mu0, NEW c, NEW o, NEW y,
         Leads(K, t, Now(c, o, mu0), y), t.level # 0,
         NEW h, h = Pow2[t.level - 1], NEW left, left = K.arena + o,
         NEW center, center = left + h, NEW right, right = left + 2 * h
  PROVE  /\ h \in Nat \ {0} /\ 4 * (o + 3 * h) <= K.limit
         /\ Runs(K, <<Standalone(t.level - 1, left),
                      Connector(t.level - 1, left, center),
                      Connected(t.level - 1, h, center, right),
                      Leave({<<left, t.out, h>>, <<right, t.out + h, h>>}, o)>>,
                 Now(c, o + 3 * h, mu0), y)
<1> DEFINE l == t.level - 1
           n1 == StandaloneNodeCount[l]
           n2 == ButterflyNodeCount(l)
           n3 == ConnectedNodeCount[l]
           p1 == 13 * h
           p2 == 8 * h
           p3 == 14 * h
           x == Now(c, o, mu0)
           x0 == Now(c, o + 3 * h, mu0)
           ta == Standalone(l, left)
           tb == Connector(l, left, center)
           tc == Connected(l, h, center, right)
           td == Leave({<<left, t.out, h>>, <<right, t.out + h, h>>}, o)
<1>1. /\ Point(K, x) /\ Point(K, y) /\ t.level \in Nat
      /\ Call(K, x, y, t.out, Pow2[t.level], StandaloneNodeCount[t.level],
              13 * Pow2[t.level])
  BY DEF Leads
<1>2. l \in Nat /\ t.level \in Nat \ {0}
  BY <1>1
<1>3. h \in Nat \ {0} /\ Pow2[t.level] = 2 * h
  BY <1>2, Pow2Facts
<1>4. /\ n1 \in Nat /\ n2 \in Nat /\ n3 \in Nat
      /\ StandaloneNodeCount[t.level] = (n1 + n2) + n3
  BY <1>2, StandaloneFacts, ButterflyFacts, ConnectedFacts
<1> HIDE DEF l, n1, n2, n3, x, x0
<1>5. 13 * (2 * h) = 26 * h /\ 26 * h \in Nat /\ p1 \in Nat /\ p2 \in Nat /\ p3 \in Nat
      /\ 12 * h + p1 <= 26 * h /\ 12 * h + p2 <= 26 * h /\ 12 * h + p3 <= 26 * h
  BY <1>3
<1> HIDE DEF p1, p2, p3
<1>6. Call(K, x, y, t.out, 2 * h, (n1 + n2) + n3, 26 * h)
  BY <1>1, <1>3, <1>4, <1>5
<1>7. PICK x1, x2, x3 :
        Halves(K, c, o, mu0, h, y, t.out, n1, n2, n3, p1, p2, p3, x1, x2, x3)
  <2> DEFINE peak == 26 * h
             n == (n1 + n2) + n3
  <2>1. /\ peak \in Nat /\ n = (n1 + n2) + n3
        /\ 12 * h + p1 <= peak /\ 12 * h + p2 <= peak /\ 12 * h + p3 <= peak
        /\ Call(K, Now(c, o, mu0), y, t.out, 2 * h, n, peak)
        /\ Point(K, Now(c, o, mu0)) /\ Point(K, y)
    BY <1>1, <1>5, <1>6 DEF x
  <2> HIDE DEF peak, n
  <2> QED BY <1>3, <1>4, <1>5, <2>1, HalvesCalls
<1>8. /\ Point(K, x0) /\ Point(K, x1) /\ Point(K, x2) /\ Point(K, x3)
      /\ Call(K, x0, x1, left, h, n1, p1)
      /\ Call(K, x1, x2, center, h, n2, p2)
      /\ Call(K, x2, x3, right, h, n3, p3)
      /\ Input(K, x1, left, h) /\ Input(K, x2, center, h)
      /\ Leads(K, td, x3, y)
  BY <1>7 DEF Halves, x0
<1>9. Leads(K, ta, x0, x1)
  <2>1. ta.fn = "standalone" /\ ta.level = l /\ ta.out = left
    BY DEF Standalone
  <2> HIDE DEF ta
  <2> QED BY <1>2, <1>8, <2>1 DEF Leads, n1, p1, l
<1>10. Leads(K, tb, x1, x2)
  <2>1. tb.fn = "connector" /\ tb.dim = l /\ tb.in = left /\ tb.out = center
    BY DEF Connector
  <2> HIDE DEF tb
  <2> QED BY <1>2, <1>8, <2>1 DEF Leads, n2, p2, l
<1>11. Leads(K, tc, x2, x3)
  <2>1. tc.fn = "connected" /\ tc.level = l /\ tc.width = h /\ tc.in = center /\ tc.out = right
    BY DEF Connected
  <2> HIDE DEF tc
  <2> QED BY <1>2, <1>8, <2>1 DEF Leads, n3, p3, l
<1>12. Runs(K, <<ta, tb, tc, td>>, x0, y)
  <2> HIDE DEF ta, tb, tc, td
  <2> QED BY <1>8, <1>9, <1>10, <1>11, RunsFour
<1>13. 4 * (o + 3 * h) <= K.limit
  BY <1>8, NowFacts DEF x0
<1> QED BY <1>3, <1>12, <1>13 DEF x0, l

LEMMA ConnectedRuns ==
  ASSUME NEW K, Machine(K), NEW t, t.fn = "connected", NEW mu0, NEW c, NEW o, NEW y,
         Leads(K, t, Now(c, o, mu0), y), t.level # 0,
         NEW h, h = t.width \div 2, NEW left, left = K.arena + o,
         NEW center, center = left + h, NEW right, right = left + 2 * h
  PROVE  /\ h \in Nat \ {0} /\ 4 * (o + 3 * h) <= K.limit
         /\ Runs(K, <<Connected(t.level - 1, h, t.in, left),
                      Merged(t.level - 1, left, t.in + h, center),
                      Connected(t.level - 1, h, center, right),
                      Leave({<<left, t.out, h>>, <<right, t.out + h, h>>}, o)>>,
                 Now(c, o + 3 * h, mu0), y)
<1> DEFINE l == t.level - 1
           n1 == ConnectedNodeCount[l]
           n2 == 2 * ButterflyNodeCount(l)
           p1 == 14 * h
           p2 == 16 * h
           x == Now(c, o, mu0)
           x0 == Now(c, o + 3 * h, mu0)
           in2 == t.in + h
           ta == Connected(l, h, t.in, left)
           tb == Merged(l, left, t.in + h, center)
           tc == Connected(l, h, center, right)
           td == Leave({<<left, t.out, h>>, <<right, t.out + h, h>>}, o)
<1>1. /\ Point(K, x) /\ Point(K, y) /\ t.level \in Nat /\ t.width = Pow2[t.level]
      /\ Input(K, x, t.in, t.width)
      /\ Call(K, x, y, t.out, t.width, ConnectedNodeCount[t.level], 14 * t.width)
  BY DEF Leads
<1>2. l \in Nat /\ t.level \in Nat \ {0}
  BY <1>1
<1>3. h \in Nat \ {0} /\ h = Pow2[l] /\ t.width = 2 * h
  <2>1. Pow2[t.level] = 2 * Pow2[l] /\ Pow2[l] \in Nat \ {0}
    BY <1>2, Pow2Facts
  <2> DEFINE g == Pow2[l]
  <2> HIDE DEF g
  <2>2. g \in Nat \ {0} /\ t.width = 2 * g
    BY <1>1, <2>1 DEF g
  <2>3. (2 * g) \div 2 = g
    BY <2>2
  <2> QED BY <2>2, <2>3 DEF g
<1>4. /\ n1 \in Nat /\ n2 \in Nat /\ ConnectedNodeCount[t.level] = (n1 + n2) + n1
  <2>1. /\ ConnectedNodeCount[l] \in Nat /\ ButterflyNodeCount(l) \in Nat
        /\ ConnectedNodeCount[t.level]
             = 2 * ConnectedNodeCount[l] + 2 * ButterflyNodeCount(l)
    BY <1>2, ButterflyFacts, ConnectedFacts
  <2> QED BY <2>1
<1>5. /\ x.ids = c /\ x.off = o /\ x.mems = {mu0} /\ c \in Nat
      /\ o \in Nat /\ mu0 \in Mems(K)
  BY <1>1, NowFacts
<1>6. /\ t.in \in Nat /\ t.in + 2 * h <= left /\ Array(mu0, t.in, 2 * h, 0, c)
  BY <1>1, <1>3, <1>5 DEF Input, Region
<1> HIDE DEF l, n1, n2, x, x0
<1>7. left \in Nat /\ in2 \in Nat /\ t.in + h <= left /\ in2 + h <= left
  <2>1. K.arena \in Nat
    BY DEF Machine
  <2> QED BY <1>3, <1>5, <1>6, <2>1
<1>8. Array(mu0, t.in, h, 0, c) /\ Array(mu0, in2, h, 0, c)
  <2>1. \A i \in 0 .. h - 1 : i \in 0 .. 2 * h - 1 /\ h + i \in 0 .. 2 * h - 1
                              /\ in2 + i = t.in + (h + i)
    BY <1>3, <1>6
  <2>2. \A i, j \in 0 .. h - 1 : i < j => h + i < h + j
    BY <1>3
  <2> HIDE DEF in2
  <2> QED BY <1>6, <2>1, <2>2 DEF Array
<1> HIDE DEF in2
<1>9. 14 * (2 * h) = 28 * h /\ 28 * h \in Nat /\ p1 \in Nat /\ p2 \in Nat
      /\ 12 * h + p1 <= 28 * h /\ 12 * h + p2 <= 28 * h
  BY <1>3
<1> HIDE DEF p1, p2
<1>10. Call(K, x, y, t.out, 2 * h, (n1 + n2) + n1, 28 * h)
  BY <1>1, <1>3, <1>4, <1>9
<1>11. PICK x1, x2, x3 :
        Halves(K, c, o, mu0, h, y, t.out, n1, n2, n1, p1, p2, p1, x1, x2, x3)
  <2> DEFINE peak == 28 * h
             n == (n1 + n2) + n1
  <2>1. /\ peak \in Nat /\ n = (n1 + n2) + n1
        /\ 12 * h + p1 <= peak /\ 12 * h + p2 <= peak
        /\ Call(K, Now(c, o, mu0), y, t.out, 2 * h, n, peak)
        /\ Point(K, Now(c, o, mu0)) /\ Point(K, y)
    BY <1>1, <1>9, <1>10 DEF x
  <2> HIDE DEF peak, n
  <2> QED BY <1>3, <1>4, <1>9, <2>1, HalvesCalls
<1>12. /\ Point(K, x0) /\ Point(K, x1) /\ Point(K, x2) /\ Point(K, x3)
       /\ Call(K, x0, x1, left, h, n1, p1)
       /\ Call(K, x1, x2, center, h, n2, p2)
       /\ Call(K, x2, x3, right, h, n1, p1)
       /\ Input(K, x1, left, h) /\ Input(K, x2, center, h)
       /\ Leads(K, td, x3, y)
       /\ \A a \in Nat : a + h <= left /\ Array(mu0, a, h, 0, c) =>
            Input(K, x0, a, h) /\ Input(K, x1, a, h)
  BY <1>11 DEF Halves, x0
<1>13. Input(K, x0, t.in, h) /\ Input(K, x1, in2, h)
  BY <1>6, <1>7, <1>8, <1>12
<1>14. Leads(K, ta, x0, x1)
  <2>1. ta.fn = "connected" /\ ta.level = l /\ ta.width = h /\ ta.in = t.in /\ ta.out = left
    BY DEF Connected
  <2> HIDE DEF ta
  <2> QED BY <1>2, <1>3, <1>12, <1>13, <2>1 DEF Leads, n1, p1
<1>15. Leads(K, tb, x1, x2)
  <2>1. tb.fn = "merged" /\ tb.dim = l /\ tb.primary = left /\ tb.ingress = in2
        /\ tb.out = center
    BY DEF Merged, in2
  <2> HIDE DEF tb
  <2> QED BY <1>2, <1>3, <1>12, <1>13, <2>1 DEF Leads, n2, p2
<1>16. Leads(K, tc, x2, x3)
  <2>1. tc.fn = "connected" /\ tc.level = l /\ tc.width = h /\ tc.in = center /\ tc.out = right
    BY DEF Connected
  <2> HIDE DEF tc
  <2> QED BY <1>2, <1>3, <1>12, <2>1 DEF Leads, n1, p1
<1>17. Runs(K, <<ta, tb, tc, td>>, x0, y)
  <2> HIDE DEF ta, tb, tc, td
  <2> QED BY <1>12, <1>14, <1>15, <1>16, RunsFour
<1>18. 4 * (o + 3 * h) <= K.limit
  BY <1>12, NowFacts DEF x0
<1> QED BY <1>3, <1>17, <1>18 DEF x0, l

----------------------------------------------------------------------------
(* A step of the emitter keeps the promise of the pending work.             *)

\* What the hash of node id is given: earlier nodes, a pair in ascending order.
Canonical(ps, id) == ps \in Seq(0 .. id - 1) /\ (Len(ps) = 2 => ps[1] < ps[2])

\* The nodes below c, and only they, have been emitted.
Emitting(nd, c) ==
  /\ DOMAIN nd \subseteq Nat
  /\ \A id \in DOMAIN nd : /\ id < c => Canonical(nd[id], id)
                           /\ id >= c => nd[id] = <<Unset>>

Held(mu, c) == \A w \in DOMAIN mu : mu[w] \in {Unset} \cup 0 .. c - 1

Common(K) ==
  /\ path \in Paths /\ rc = 0
  /\ next_id \in Nat /\ arena_off \in Nat /\ mem \in Mems(K)
  /\ Held(mem, next_id) /\ Emitting(node, next_id)
  /\ arena_hi \in Nat /\ 4 * arena_hi <= K.limit

\* The work before rest leads to y.
InProgress(K, rest, y) ==
  /\ Common(K)
  /\ \E s : todo = s \o rest /\ Runs(K, s, Now(next_id, arena_off, mem), y)

\* What is left when one copy is finished, and when both are.
Remainder(rest) ==
  IsSeq(rest) /\ rest # <<>> /\ Head(rest).fn \in {"second_half", "outputs"}

EmitCalls == {"standalone", "connector", "connected", "merged", "layer", "leave"}

LEMMA TopTask ==
  ASSUME NEW K, NEW rest, Remainder(rest), NEW y, InProgress(K, rest, y),
         NEW fn \in EmitCalls, Top(fn)
  PROVE  \E s, u : /\ Tail(todo) = s \o rest /\ Runs(K, s, u, y)
                   /\ Leads(K, Head(todo), Now(next_id, arena_off, mem), u)
<1>1. PICK s : todo = s \o rest /\ Runs(K, s, Now(next_id, arena_off, mem), y)
  BY DEF InProgress
<1>2. IsSeq(s) /\ IsSeq(rest)
  BY <1>1 DEF Runs, Remainder
<1>3. s # <<>>
  <2> SUFFICES ASSUME s = <<>> PROVE FALSE
    OBVIOUS
  <2>1. <<>> \o rest = rest
    BY <1>2, SeqOfElements, ConcatEmptySeq
  <2>2. Head(rest).fn = fn
    BY <1>1, <2>1 DEF Top
  <2> QED BY <2>2 DEF Remainder, EmitCalls
<1>4. Head(todo) = Head(s) /\ Tail(todo) = Tail(s) \o rest
  BY <1>1, <1>2, <1>3, HeadOfAppended
<1>5. PICK u : Leads(K, Head(s), Now(next_id, arena_off, mem), u) /\ Runs(K, Tail(s), u, y)
  BY <1>1, <1>3, RunsFirst
<1> QED BY <1>4, <1>5

LEMMA Resume ==
  ASSUME NEW K, NEW rest, Remainder(rest), NEW y, NEW u, NEW tasks, NEW s, Common(K)',
         Tail(todo) = s \o rest, todo' = tasks \o Tail(todo),
         Runs(K, tasks, Now(next_id', arena_off', mem'), u), Runs(K, s, u, y)
  PROVE  InProgress(K, rest, y)'
<1>1. IsSeq(tasks) /\ IsSeq(s) /\ IsSeq(rest)
  BY DEF Runs, Remainder
<1>2. todo' = (tasks \o s) \o rest
  <2>1. (tasks \o s) \o rest = tasks \o (s \o rest)
    BY <1>1, AppendedThrice
  <2> QED BY <2>1
<1>3. Runs(K, tasks \o s, Now(next_id', arena_off', mem'), y)
  BY RunsThen
<1> QED BY <1>2, <1>3 DEF InProgress

\* A call or a loop ends.
LEMMA ResumeAfter ==
  ASSUME NEW K, NEW rest, Remainder(rest), NEW y, NEW u, NEW s, Common(K)',
         Tail(todo) = s \o rest, todo' = Tail(todo),
         Within(Now(next_id', arena_off', mem'), u), Runs(K, s, u, y)
  PROVE  InProgress(K, rest, y)'
<1>1. Runs(K, <<>>, Now(next_id', arena_off', mem'), u)
  BY RunsNone
<1>2. IsSeq(Tail(todo))
  <2>1. IsSeq(s) /\ IsSeq(rest)
    BY DEF Runs, Remainder
  <2> QED BY <2>1, Appended
<1>3. todo' = <<>> \o Tail(todo)
  BY <1>2, SeqOfElements, ConcatEmptySeq
<1> QED BY <1>1, <1>3, Resume

\* A function takes its buffers from the arena and starts.
LEMMA Pushed ==
  ASSUME NEW K, K.limit \in Nat, NEW rest, Remainder(rest), NEW y, NEW u, NEW s, NEW tasks,
         Common(K), NEW k \in Nat, NEW w \in Nat, Push(k, w, tasks),
         Tail(todo) = s \o rest, Runs(K, s, u, y),
         4 * (arena_off + k * w) <= K.limit,
         Runs(K, tasks, Now(next_id, arena_off + k * w, mem), u)
  PROVE  InProgress(K, rest, y)'
<1> DEFINE off == arena_off + k * w
<1>1. /\ arena_off' = off /\ arena_hi' = Max({arena_hi, arena_off'})
      /\ todo' = tasks \o Tail(todo)
      /\ UNCHANGED <<path, m, next_id, arena, mem, node, out, rc>>
  BY DEF Push
<1>2. off \in Nat
  <2>1. k * w \in Nat
    OBVIOUS
  <2>2. arena_off \in Nat
    BY DEF Common
  <2> QED BY <2>1, <2>2
<1> HIDE DEF off
<1>3. 4 * off <= K.limit
  BY DEF off
<1>4. arena_hi' \in {arena_hi, off} /\ arena_hi \in Nat /\ 4 * arena_hi <= K.limit
  <2>1. arena_hi \in Nat /\ 4 * arena_hi <= K.limit
    BY DEF Common
  <2>2. Max({arena_hi, off}) \in {arena_hi, off}
    <3>1. arena_hi \in Int /\ off \in Int
      BY <1>2, <2>1
    <3> QED BY <3>1, MaxOfTwo
  <2>3. arena_hi' = Max({arena_hi, off})
    BY <1>1
  <2> QED BY <2>1, <2>2, <2>3
<1>5. Common(K)'
  BY <1>1, <1>2, <1>3, <1>4 DEF Common
<1>6. Runs(K, tasks, Now(next_id', arena_off', mem'), u)
  BY <1>1 DEF off
<1> QED BY <1>1, <1>5, <1>6, Resume

\* More nodes.
LEMMA EmittingMore ==
  ASSUME NEW nd, NEW nd2, NEW c \in Nat, NEW k \in Nat, Emitting(nd, c),
         DOMAIN nd2 = DOMAIN nd,
         \A id \in DOMAIN nd : id \in c .. c + k - 1 => Canonical(nd2[id], id),
         \A id \in DOMAIN nd : id \notin c .. c + k - 1 => nd2[id] = nd[id]
  PROVE  Emitting(nd2, c + k)
<1> SUFFICES ASSUME NEW id \in DOMAIN nd
             PROVE  /\ id < c + k => Canonical(nd2[id], id)
                    /\ id >= c + k => nd2[id] = <<Unset>>
  BY DEF Emitting
<1>1. id \in Nat /\ (id < c => Canonical(nd[id], id)) /\ (id >= c => nd[id] = <<Unset>>)
  BY DEF Emitting
<1>2. CASE id < c
  <2>1. id \notin c .. c + k - 1 /\ id < c + k
    BY <1>1, <1>2
  <2> QED BY <1>1, <1>2, <2>1
<1>3. CASE id \in c .. c + k - 1
  BY <1>1, <1>3
<1>4. CASE id >= c + k
  <2>1. id \notin c .. c + k - 1 /\ id >= c /\ ~(id < c + k)
    BY <1>1, <1>4
  <2> QED BY <1>1, <2>1
<1> QED BY <1>1, <1>2, <1>3, <1>4

\* The calls that take buffers from the arena.
LEMMA ConnectorKeeps ==
  ASSUME NEW K, Machine(K), K.arena = arena, NEW rest, Remainder(rest), NEW y,
         InProgress(K, rest, y), EmitConnector
  PROVE  InProgress(K, rest, y)'
<1> DEFINE t    == Head(todo)
           w    == Pow2[t.dim]
           prev == K.arena + arena_off
           curr == prev + w
           last == LastBuf(t.dim, prev, curr)
           body == <<Layer("one", w, 0, t.in, 0, prev)>>
                     \o Butterfly(t.dim, prev, curr, last)
                     \o <<Leave({<<last, t.out, w>>}, arena_off)>>
<1>1. Top("connector") /\ t.fn = "connector"
  BY DEF EmitConnector, Top
<1>2. "connector" \in EmitCalls
  BY DEF EmitCalls
<1>3. PICK s, u : /\ Tail(todo) = s \o rest /\ Runs(K, s, u, y)
                  /\ Leads(K, t, Now(next_id, arena_off, mem), u)
  BY <1>1, <1>2, TopTask
<1>4. Common(K) /\ K.limit \in Nat /\ K.arena \in Nat /\ arena_off \in Nat
  BY DEF InProgress, Common, Machine
<1>5. /\ w \in Nat \ {0} /\ 4 * (arena_off + 2 * w) <= K.limit
      /\ Runs(K, body, Now(next_id, arena_off + 2 * w, mem), u)
  <2> HIDE DEF t
  <2> QED BY <1>1, <1>3, ConnectorRuns
<1>6. Push(2, w, body)
  <2>1. Alloc(0, w) = prev /\ Alloc(1, w) = curr
    <3> DEFINE v == w
    <3>1. v \in Int
      BY <1>5
    <3> HIDE DEF v
    <3>2. arena + arena_off + 0 * v = K.arena + arena_off
          /\ arena + arena_off + 1 * v = (K.arena + arena_off) + v
      BY <1>4, <3>1
    <3> QED BY <3>2 DEF v, Alloc
  <2> QED BY <2>1 DEF EmitConnector
<1> HIDE DEF body, w
<1> QED BY <1>3, <1>4, <1>5, <1>6, Pushed

LEMMA MergedKeeps ==
  ASSUME NEW K, Machine(K), K.arena = arena, NEW rest, Remainder(rest), NEW y,
         InProgress(K, rest, y), EmitMerged
  PROVE  InProgress(K, rest, y)'
<1> DEFINE t    == Head(todo)
           w    == Pow2[t.dim]
           ing0 == K.arena + arena_off
           ing1 == ing0 + w
           ctr0 == ing0 + 2 * w
           ctr1 == ing0 + 3 * w
           ing  == LastBuf(t.dim, ing0, ing1)
           body == <<Layer("one", w, 0, t.ingress, 0, ing0)>>
                     \o Butterfly(t.dim, ing0, ing1, ing)
                     \o <<Layer("merge", w, 0, t.primary, ing, ctr0)>>
                     \o Butterfly(t.dim, ctr0, ctr1, t.out)
                     \o <<Leave({}, arena_off)>>
<1>1. Top("merged") /\ t.fn = "merged" /\ t.dim > 0
  BY DEF EmitMerged, Top
<1>2. "merged" \in EmitCalls
  BY DEF EmitCalls
<1>3. PICK s, u : /\ Tail(todo) = s \o rest /\ Runs(K, s, u, y)
                  /\ Leads(K, t, Now(next_id, arena_off, mem), u)
  BY <1>1, <1>2, TopTask
<1>4. Common(K) /\ K.limit \in Nat /\ K.arena \in Nat /\ arena_off \in Nat
  BY DEF InProgress, Common, Machine
<1>5. t.dim # 0
  <2>1. t.dim \in Nat
    BY <1>1, <1>3 DEF Leads
  <2> HIDE DEF t
  <2> QED BY <1>1, <2>1
<1>6. /\ w \in Nat \ {0} /\ 4 * (arena_off + 4 * w) <= K.limit
      /\ Runs(K, body, Now(next_id, arena_off + 4 * w, mem), u)
  <2> HIDE DEF t
  <2> QED BY <1>1, <1>3, <1>5, MergedRuns
<1>7. Push(4, w, body)
  <2>1. /\ Alloc(0, w) = ing0 /\ Alloc(1, w) = ing1
        /\ Alloc(2, w) = ctr0 /\ Alloc(3, w) = ctr1
    <3> DEFINE v == w
    <3>1. v \in Int
      BY <1>6
    <3> HIDE DEF v
    <3>2. /\ arena + arena_off + 0 * v = K.arena + arena_off
          /\ arena + arena_off + 1 * v = (K.arena + arena_off) + v
          /\ arena + arena_off + 2 * v = (K.arena + arena_off) + 2 * v
          /\ arena + arena_off + 3 * v = (K.arena + arena_off) + 3 * v
      BY <1>4, <3>1
    <3> QED BY <3>2 DEF v, Alloc
  <2> QED BY <2>1 DEF EmitMerged
<1> HIDE DEF body, w
<1> QED BY <1>3, <1>4, <1>6, <1>7, Pushed

LEMMA StandaloneKeeps ==
  ASSUME NEW K, Machine(K), K.arena = arena, NEW rest, Remainder(rest), NEW y,
         InProgress(K, rest, y), EmitStandalone
  PROVE  InProgress(K, rest, y)'
<1> DEFINE t      == Head(todo)
           h      == Pow2[t.level - 1]
           left   == K.arena + arena_off
           center == left + h
           right  == left + 2 * h
           body   == <<Standalone(t.level - 1, left),
                       Connector(t.level - 1, left, center),
                       Connected(t.level - 1, h, center, right),
                       Leave({<<left, t.out, h>>, <<right, t.out + h, h>>}, arena_off)>>
<1>1. Top("standalone") /\ t.fn = "standalone" /\ t.level > 0
  BY DEF EmitStandalone, Top
<1>2. "standalone" \in EmitCalls
  BY DEF EmitCalls
<1>3. PICK s, u : /\ Tail(todo) = s \o rest /\ Runs(K, s, u, y)
                  /\ Leads(K, t, Now(next_id, arena_off, mem), u)
  BY <1>1, <1>2, TopTask
<1>4. Common(K) /\ K.limit \in Nat /\ K.arena \in Nat /\ arena_off \in Nat
  BY DEF InProgress, Common, Machine
<1>5. t.level # 0
  <2>1. t.level \in Nat
    BY <1>1, <1>3 DEF Leads
  <2> HIDE DEF t
  <2> QED BY <1>1, <2>1
<1>6. /\ h \in Nat \ {0} /\ 4 * (arena_off + 3 * h) <= K.limit
      /\ Runs(K, body, Now(next_id, arena_off + 3 * h, mem), u)
  <2> HIDE DEF t
  <2> QED BY <1>1, <1>3, <1>5, StandaloneRuns
<1>7. Push(3, h, body)
  <2>1. Alloc(0, h) = left /\ Alloc(1, h) = center /\ Alloc(2, h) = right
    <3> DEFINE v == h
    <3>1. v \in Int
      BY <1>6
    <3> HIDE DEF v
    <3>2. /\ arena + arena_off + 0 * v = K.arena + arena_off
          /\ arena + arena_off + 1 * v = (K.arena + arena_off) + v
          /\ arena + arena_off + 2 * v = (K.arena + arena_off) + 2 * v
      BY <1>4, <3>1
    <3> QED BY <3>2 DEF v, Alloc
  <2> QED BY <2>1 DEF EmitStandalone
<1> HIDE DEF body, h
<1> QED BY <1>3, <1>4, <1>6, <1>7, Pushed

LEMMA ConnectedKeeps ==
  ASSUME NEW K, Machine(K), K.arena = arena, NEW rest, Remainder(rest), NEW y,
         InProgress(K, rest, y), EmitConnected
  PROVE  InProgress(K, rest, y)'
<1> DEFINE t      == Head(todo)
           h      == t.width \div 2
           left   == K.arena + arena_off
           center == left + h
           right  == left + 2 * h
           body   == <<Connected(t.level - 1, h, t.in, left),
                       Merged(t.level - 1, left, t.in + h, center),
                       Connected(t.level - 1, h, center, right),
                       Leave({<<left, t.out, h>>, <<right, t.out + h, h>>}, arena_off)>>
<1>1. Top("connected") /\ t.fn = "connected" /\ t.level > 0
  BY DEF EmitConnected, Top
<1>2. "connected" \in EmitCalls
  BY DEF EmitCalls
<1>3. PICK s, u : /\ Tail(todo) = s \o rest /\ Runs(K, s, u, y)
                  /\ Leads(K, t, Now(next_id, arena_off, mem), u)
  BY <1>1, <1>2, TopTask
<1>4. Common(K) /\ K.limit \in Nat /\ K.arena \in Nat /\ arena_off \in Nat
  BY DEF InProgress, Common, Machine
<1>5. t.level # 0
  <2>1. t.level \in Nat
    BY <1>1, <1>3 DEF Leads
  <2> HIDE DEF t
  <2> QED BY <1>1, <2>1
<1>6. /\ h \in Nat \ {0} /\ 4 * (arena_off + 3 * h) <= K.limit
      /\ Runs(K, body, Now(next_id, arena_off + 3 * h, mem), u)
  <2> HIDE DEF t
  <2> QED BY <1>1, <1>3, <1>5, ConnectedRuns
<1>7. Push(3, h, body)
  <2>1. Alloc(0, h) = left /\ Alloc(1, h) = center /\ Alloc(2, h) = right
    <3> DEFINE v == h
    <3>1. v \in Int
      BY <1>6
    <3> HIDE DEF v
    <3>2. /\ arena + arena_off + 0 * v = K.arena + arena_off
          /\ arena + arena_off + 1 * v = (K.arena + arena_off) + v
          /\ arena + arena_off + 2 * v = (K.arena + arena_off) + 2 * v
      BY <1>4, <3>1
    <3> QED BY <3>2 DEF v, Alloc
  <2> QED BY <2>1 DEF EmitConnected
<1> HIDE DEF body, h
<1> QED BY <1>3, <1>4, <1>6, <1>7, Pushed

\* A call that emits one or two nodes and is done.
LEMMA OneKeeps ==
  ASSUME NEW K, Machine(K), NEW rest, Remainder(rest), NEW y, NEW s, NEW u,
         Common(K), Tail(todo) = s \o rest, Runs(K, s, u, y),
         NEW preds, NEW k \in {1, 2}, Len(preds) = k,
         \A j \in 1 .. k : Canonical(preds[j], next_id + j - 1),
         NEW dst, EmitOne(preds, dst), NEW peak, Point(K, u),
         Call(K, Now(next_id, arena_off, mem), u, dst, 1, k, peak)
  PROVE  InProgress(K, rest, y)'
<1> DEFINE x == Now(next_id, arena_off, mem)
           c == next_id
           top == K.arena + arena_off
<1>1. /\ c \in Nat /\ arena_off \in Nat /\ mem \in Mems(K) /\ Held(mem, c)
      /\ Emitting(node, c) /\ K.words \in Nat
  BY DEF Common, Machine
<1>2. /\ next_id' = c + k
      /\ node' = [id \in DOMAIN node |->
                    IF id \in c .. c + k - 1 THEN preds[id - c + 1] ELSE node[id]]
      /\ mem' = [mem EXCEPT ![dst] = c + k - 1]
      /\ todo' = Tail(todo)
      /\ UNCHANGED <<path, m, arena, arena_off, arena_hi, out, challenge, rc>>
  BY DEF EmitOne
<1>3. x.ids = c /\ x.off = arena_off /\ x.mems = {mem}
  BY DEF Now
<1>4. Region(K, x, dst, 1) /\ u.ids = c + k /\ u.off = arena_off
  BY <1>3 DEF Call
<1>5. dst \in 0 .. K.words - 1 /\ top \in Nat /\ top <= K.words
  <2>1. Point(K, x)
    <3>1. 4 * arena_off <= K.limit
      BY <1>4 DEF Point
    <3> QED BY <1>1, <3>1, NowFacts
  <2>2. dst \in Nat /\ dst + 1 <= K.words /\ top \in Nat /\ top <= K.words
    <3>1. /\ dst \in Nat /\ dst + 1 <= K.words
          /\ K.arena + x.off \in Nat /\ K.arena + x.off <= K.words
      BY <1>4, <2>1, RegionInside
    <3> QED BY <1>3, <3>1
  <2> QED BY <1>1, <2>2
<1>6. mem' \in Mems(K) /\ mem'[dst] = c + k - 1
      /\ \A q \in 0 .. K.words - 1 : q # dst => mem'[q] = mem[q]
  <2>1. c + k - 1 \in Int
    BY <1>1
  <2> QED BY <1>1, <1>2, <1>5, <2>1 DEF Mems
<1>7. mem' \in u.mems
  <2>1. Keeps(mem, mem', dst, 1, top)
    <3> SUFFICES ASSUME NEW q \in 0 .. top - 1, q \notin dst .. dst + 1 - 1
                 PROVE  mem'[q] = mem[q]
      BY DEF Keeps
    <3>1. q # dst /\ q \in 0 .. K.words - 1
      BY <1>1, <1>5
    <3> QED BY <1>6, <3>1
  <2>2. Array(mem', dst, 1, c, c + k)
    <3>1. \A i \in 0 .. 1 - 1 : i = 0
      OBVIOUS
    <3>2. dst + 0 = dst /\ c + k - 1 \in c .. (c + k) - 1
      BY <1>1, <1>5
    <3>3. \A i \in 0 .. 1 - 1 : mem'[dst + i] \in c .. (c + k) - 1
      BY <1>6, <3>1, <3>2
    <3>4. \A i, j \in 0 .. 1 - 1 : ~(i < j)
      OBVIOUS
    <3> QED BY <3>3, <3>4 DEF Array
  <2>3. \A mu \in x.mems, mu2 \in Mems(K) :
          Keeps(mu, mu2, dst, 1, K.arena + x.off) /\ Array(mu2, dst, 1, x.ids, u.ids)
          => mu2 \in u.mems
    BY DEF Call
  <2>4. \A mu2 \in Mems(K) :
          Keeps(mem, mu2, dst, 1, top) /\ Array(mu2, dst, 1, c, c + k) => mu2 \in u.mems
    BY <1>3, <1>4, <2>3
  <2> QED BY <1>6, <2>1, <2>2, <2>4
<1>8. Within(Now(next_id', arena_off', mem'), u)
  BY <1>2, <1>4, <1>7 DEF Now, Within
<1>9. Common(K)'
  <2>1. Held(mem', c + k)
    <3> SUFFICES ASSUME NEW q \in DOMAIN mem' PROVE mem'[q] \in {Unset} \cup 0 .. (c + k) - 1
      BY DEF Held
    <3>1. q \in 0 .. K.words - 1 /\ DOMAIN mem = 0 .. K.words - 1
      BY <1>1, <1>6 DEF Mems
    <3>2. CASE q = dst
      <4>1. c + k - 1 \in 0 .. (c + k) - 1
        BY <1>1
      <4> QED BY <1>6, <3>2, <4>1
    <3>3. CASE q # dst
      <4>1. mem'[q] = mem[q] /\ mem[q] \in {Unset} \cup 0 .. c - 1
        BY <1>1, <1>6, <3>1, <3>3 DEF Held
      <4>2. 0 .. c - 1 \subseteq 0 .. (c + k) - 1
        BY <1>1
      <4> QED BY <4>1, <4>2
    <3> QED BY <3>2, <3>3
  <2>2. Emitting(node', c + k)
    <3>1. DOMAIN node' = DOMAIN node
      BY <1>2
    <3>2. ASSUME NEW id \in DOMAIN node, id \in c .. c + k - 1
          PROVE  Canonical(node'[id], id)
      <4>1. id - c + 1 \in 1 .. k /\ c + (id - c + 1) - 1 = id
        BY <1>1, <3>2
      <4>2. node'[id] = preds[id - c + 1]
        BY <1>2, <3>2
      <4> QED BY <4>1, <4>2
    <3>3. ASSUME NEW id \in DOMAIN node, id \notin c .. c + k - 1
          PROVE  node'[id] = node[id]
      BY <1>2, <3>3
    <3> QED BY <1>1, <3>1, <3>2, <3>3, EmittingMore
  <2>3. next_id' \in Nat
    BY <1>1, <1>2
  <2> QED BY <1>2, <1>6, <2>1, <2>2, <2>3 DEF Common
<1> QED BY <1>2, <1>8, <1>9, ResumeAfter

LEMMA SourceKeeps ==
  ASSUME NEW K, Machine(K), NEW rest, Remainder(rest), NEW y,
         InProgress(K, rest, y), EmitSource
  PROVE  InProgress(K, rest, y)'
<1> DEFINE t == Head(todo)
           x == Now(next_id, arena_off, mem)
           preds == << <<>> >>
<1>1. /\ Top("standalone") /\ t.fn = "standalone" /\ t.level = 0
      /\ EmitOne(preds, t.out)
  BY DEF EmitSource, Top
<1>2. "standalone" \in EmitCalls
  BY DEF EmitCalls
<1>3. PICK s, u : /\ Tail(todo) = s \o rest /\ Runs(K, s, u, y)
                  /\ Leads(K, t, x, u)
  BY <1>1, <1>2, TopTask
<1>4. Common(K) /\ next_id \in Nat
  BY DEF InProgress, Common
<1>5. Point(K, u) /\ Call(K, x, u, t.out, 1, 1, 13 * 1)
  <2> HIDE DEF t, x
  <2> QED BY <1>1, <1>3, Pow2Facts, StandaloneFacts DEF Leads
<1>6. Len(preds) = 1 /\ \A j \in 1 .. 1 : Canonical(preds[j], next_id + j - 1)
  <2>1. \A j \in 1 .. 1 : j = 1
    OBVIOUS
  <2>2. Len(preds) = 1 /\ preds[1] = <<>>
    OBVIOUS
  <2>3. <<>> \in Seq(0 .. (next_id + 1 - 1) - 1) /\ Len(<<>>) = 0
    OBVIOUS
  <2>4. Canonical(<<>>, next_id + 1 - 1)
    BY <2>3 DEF Canonical
  <2> HIDE DEF preds
  <2> QED BY <2>1, <2>2, <2>4
<1> HIDE DEF t, x, preds
<1> QED BY <1>1, <1>3, <1>4, <1>5, <1>6, OneKeeps DEF x

LEMMA ConnectedLeafKeeps ==
  ASSUME NEW K, Machine(K), NEW rest, Remainder(rest), NEW y,
         InProgress(K, rest, y), EmitConnectedLeaf
  PROVE  InProgress(K, rest, y)'
<1> DEFINE t == Head(todo)
           x == Now(next_id, arena_off, mem)
           preds == << <<mem[t.in]>> >>
<1>1. /\ Top("connected") /\ t.fn = "connected" /\ t.level = 0
      /\ EmitOne(preds, t.out)
  BY DEF EmitConnectedLeaf, Top
<1>2. "connected" \in EmitCalls
  BY DEF EmitCalls
<1>3. PICK s, u : /\ Tail(todo) = s \o rest /\ Runs(K, s, u, y)
                  /\ Leads(K, t, x, u)
  BY <1>1, <1>2, TopTask
<1>4. Common(K) /\ next_id \in Nat
  BY DEF InProgress, Common
<1>5. Point(K, u) /\ Call(K, x, u, t.out, 1, 1, 14 * 1) /\ Input(K, x, t.in, 1)
  <2> HIDE DEF t, x
  <2> QED BY <1>1, <1>3, Pow2Facts, ConnectedFacts DEF Leads
<1>6. mem[t.in] \in 0 .. next_id - 1
  <2>1. Array(mem, t.in, 1, 0, next_id) /\ t.in \in Nat
    <3>1. x.mems = {mem} /\ x.ids = next_id
      BY DEF Now
    <3> HIDE DEF t, x
    <3> QED BY <1>5, <3>1 DEF Input, Region
  <2>2. 0 \in 0 .. 1 - 1 /\ t.in + 0 = t.in
    BY <2>1
  <2> HIDE DEF t
  <2> QED BY <2>1, <2>2 DEF Array
<1>7. Len(preds) = 1 /\ \A j \in 1 .. 1 : Canonical(preds[j], next_id + j - 1)
  <2> DEFINE p == mem[t.in]
             l == <<p>>
  <2>1. \A j \in 1 .. 1 : j = 1
    OBVIOUS
  <2>2. Len(preds) = 1 /\ preds[1] = l
    OBVIOUS
  <2>3. Canonical(l, next_id + 1 - 1)
    <3> HIDE DEF p
    <3>1. p \in 0 .. (next_id + 1 - 1) - 1
      BY <1>4, <1>6 DEF p
    <3>2. l \in Seq(0 .. (next_id + 1 - 1) - 1) /\ Len(l) = 1
      BY <3>1
    <3> QED BY <3>2 DEF Canonical
  <2> HIDE DEF preds, l
  <2> QED BY <2>1, <2>2, <2>3
<1> HIDE DEF t, x, preds
<1> QED BY <1>1, <1>3, <1>4, <1>5, <1>7, OneKeeps DEF x

LEMMA MergedLeafKeeps ==
  ASSUME NEW K, Machine(K), NEW rest, Remainder(rest), NEW y,
         InProgress(K, rest, y), EmitMergedLeaf
  PROVE  InProgress(K, rest, y)'
<1> DEFINE t == Head(todo)
           x == Now(next_id, arena_off, mem)
           preds == << <<mem[t.ingress]>>, MergePreds(mem[t.primary], next_id) >>
<1>1. /\ Top("merged") /\ t.fn = "merged" /\ t.dim = 0
      /\ EmitOne(preds, t.out)
  BY DEF EmitMergedLeaf, Top
<1>2. "merged" \in EmitCalls
  BY DEF EmitCalls
<1>3. PICK s, u : /\ Tail(todo) = s \o rest /\ Runs(K, s, u, y)
                  /\ Leads(K, t, x, u)
  BY <1>1, <1>2, TopTask
<1>4. Common(K) /\ next_id \in Nat
  BY DEF InProgress, Common
<1>5. /\ Point(K, u) /\ Call(K, x, u, t.out, 1, 2, 16 * 1)
      /\ Input(K, x, t.primary, 1) /\ Input(K, x, t.ingress, 1)
  <2>1. Pow2[0] = 1 /\ 2 * ButterflyNodeCount(0) = 2
    BY Pow2Facts DEF ButterflyNodeCount
  <2> HIDE DEF t, x
  <2> QED BY <1>1, <1>3, <2>1 DEF Leads
<1>6. ASSUME NEW a, Input(K, x, a, 1) PROVE mem[a] \in 0 .. next_id - 1
  <2>1. Array(mem, a, 1, 0, next_id) /\ a \in Nat
    <3>1. x.mems = {mem} /\ x.ids = next_id
      BY DEF Now
    <3> HIDE DEF t, x
    <3> QED BY <1>6, <3>1 DEF Input, Region
  <2>2. 0 \in 0 .. 1 - 1 /\ a + 0 = a
    BY <2>1
  <2> QED BY <2>1, <2>2 DEF Array
<1>7. Len(preds) = 2 /\ \A j \in 1 .. 2 : Canonical(preds[j], next_id + j - 1)
  <2> DEFINE p == mem[t.ingress]
             q == mem[t.primary]
             l1 == <<p>>
             l2 == <<q, next_id>>
  <2>1. \A j \in 1 .. 2 : j = 1 \/ j = 2
    OBVIOUS
  <2>2. p \in 0 .. next_id - 1 /\ q \in 0 .. next_id - 1
    <3> HIDE DEF t, x
    <3> QED BY <1>5, <1>6
  <2> HIDE DEF p, q
  <2>3. MergePreds(q, next_id) = l2
    <3>1. ~(q > next_id)
      BY <1>4, <2>2
    <3> QED BY <3>1 DEF MergePreds, Sorted
  <2>4. Len(preds) = 2 /\ preds[1] = l1 /\ preds[2] = l2
    BY <2>3 DEF p, q
  <2>5. Canonical(l1, next_id + 1 - 1)
    <3>1. p \in 0 .. (next_id + 1 - 1) - 1
      BY <1>4, <2>2
    <3>2. l1 \in Seq(0 .. (next_id + 1 - 1) - 1) /\ Len(l1) = 1
      BY <3>1
    <3> QED BY <3>2 DEF Canonical
  <2>6. Canonical(l2, next_id + 2 - 1)
    <3>1. /\ q \in 0 .. (next_id + 2 - 1) - 1 /\ next_id \in 0 .. (next_id + 2 - 1) - 1
          /\ q < next_id
      BY <1>4, <2>2
    <3>2. l2 \in Seq(0 .. (next_id + 2 - 1) - 1) /\ l2[1] = q /\ l2[2] = next_id
      BY <3>1
    <3> QED BY <3>1, <3>2 DEF Canonical
  <2> HIDE DEF preds, l1, l2
  <2> QED BY <2>1, <2>4, <2>5, <2>6
<1> HIDE DEF t, x, preds
<1> QED BY <1>1, <1>3, <1>4, <1>5, <1>7, OneKeeps DEF x

LEMMA NextRound ==
  ASSUME NEW t, DOMAIN t = LayerFields, NEW v, NEW t2, t2 = [t EXCEPT !.i = v]
  PROVE  /\ DOMAIN t2 = LayerFields /\ t2.i = v
         /\ t2.fn = t.fn /\ t2.rule = t.rule /\ t2.width = t.width /\ t2.bit = t.bit
         /\ t2.a = t.a /\ t2.b = t.b /\ t2.dst = t.dst
BY DEF LayerFields

\* Each column of a layer reads nodes that exist, a pair in ascending order: by id
\* where the code compares ids, by position where it relies on it.
LEMMA ColumnPreds ==
  ASSUME NEW K, NEW t, NEW c, NEW o, NEW u, Rounds(K, t, Now(c, o, mem), u), c \in Nat,
         NEW i \in 0 .. t.width - 1, NEW id \in Nat, id >= c
  PROVE  Canonical(LayerPreds(t, i), id)
<1> DEFINE x == Now(c, o, mem)
           d == c - t.i
           w == t.width
<1>1. x.ids = c /\ x.mems = {mem}
  BY DEF Now
<1>2. /\ w \in Nat \ {0} /\ t.i \in 0 .. w - 1 /\ d \in Nat
      /\ t.rule \in {"one", "pair", "merge"}
      /\ Source(K, x, t, t.a, d)
      /\ t.rule = "pair" => Paired(w, t.bit)
      /\ t.rule = "merge" => Source(K, x, t, t.b, d) /\ mem[t.a + i] < mem[t.b + i]
  BY <1>1 DEF Rounds
<1>3. d <= id /\ d \in Nat
  BY <1>2
<1> HIDE DEF x, d, w
<1>4. ASSUME NEW a, Source(K, x, t, a, d)
      PROVE  /\ \A j \in 0 .. w - 1 : mem[a + j] \in 0 .. id - 1
             /\ \A j, k \in 0 .. w - 1 : j < k => mem[a + j] < mem[a + k]
  <2>1. Array(mem, a, w, 0, d)
    BY <1>1, <1>4 DEF Source, w
  <2>2. 0 .. d - 1 \subseteq 0 .. id - 1
    BY <1>3
  <2> QED BY <2>1, <2>2 DEF Array
<1>5. ASSUME NEW p \in 0 .. id - 1 PROVE Canonical(<<p>>, id)
  <2>1. <<p>> \in Seq(0 .. id - 1) /\ Len(<<p>>) = 1
    OBVIOUS
  <2> QED BY <2>1 DEF Canonical
<1>6. ASSUME NEW p \in 0 .. id - 1, NEW q \in 0 .. id - 1, p < q
      PROVE  Canonical(<<p, q>>, id)
  <2>1. <<p, q>> \in Seq(0 .. id - 1) /\ <<p, q>>[1] = p /\ <<p, q>>[2] = q
    OBVIOUS
  <2> QED BY <1>6, <2>1 DEF Canonical
<1>7. ASSUME NEW p \in 0 .. id - 1, NEW q \in 0 .. id - 1, p # q
      PROVE  Canonical(Sorted(p, q), id)
  <2>1. CASE p > q
    <3>1. Sorted(p, q) = <<q, p>> /\ q < p
      BY <2>1 DEF Sorted
    <3> QED BY <1>6, <3>1
  <2>2. CASE ~(p > q)
    <3>1. Sorted(p, q) = <<p, q>> /\ p < q
      BY <1>7, <2>2 DEF Sorted
    <3> QED BY <1>6, <3>1
  <2> QED BY <2>1, <2>2
<1>8. i \in 0 .. w - 1
  BY DEF w
<1>9. CASE t.rule = "one"
  <2>1. LayerPreds(t, i) = <<mem[t.a + i]>>
    BY <1>9 DEF LayerPreds
  <2> QED BY <1>2, <1>4, <1>5, <1>8, <2>1
<1>10. CASE t.rule = "pair"
  <2> DEFINE f == BitFlip(i, t.bit)
             g == BitClear(i, t.bit)
             h == BitSet(i, t.bit)
  <2>1. LayerPreds(t, i) = PairPreds(t, i)
    BY <1>10 DEF LayerPreds
  <2>2. /\ f \in 0 .. w - 1 /\ f # i
        /\ g \in 0 .. w - 1 /\ h \in 0 .. w - 1 /\ g < h
    BY <1>2, <1>8, <1>10 DEF Paired
  <2>3. PairPreds(t, i) = IF path = "inplace" THEN <<mem[t.a + g], mem[t.a + h]>>
                          ELSE Sorted(mem[t.a + i], mem[t.a + f])
    BY DEF PairPreds
  <2> HIDE DEF f, g, h
  <2>4. CASE path = "inplace"
    <3>1. /\ mem[t.a + g] \in 0 .. id - 1 /\ mem[t.a + h] \in 0 .. id - 1
          /\ mem[t.a + g] < mem[t.a + h]
      BY <1>2, <1>4, <2>2
    <3> QED BY <1>6, <2>1, <2>3, <2>4, <3>1
  <2>5. CASE path # "inplace"
    <3>1. i < f \/ f < i
      BY <1>2, <1>8, <2>2
    <3>2. /\ mem[t.a + i] \in 0 .. id - 1 /\ mem[t.a + f] \in 0 .. id - 1
          /\ mem[t.a + i] < mem[t.a + f] \/ mem[t.a + f] < mem[t.a + i]
      BY <1>2, <1>4, <1>8, <2>2, <3>1
    <3>3. mem[t.a + i] # mem[t.a + f]
      BY <3>2
    <3> QED BY <1>7, <2>1, <2>3, <2>5, <3>2, <3>3
  <2> QED BY <2>4, <2>5
<1>11. CASE t.rule = "merge"
  <2> DEFINE p == mem[t.a + i]
             q == mem[t.b + i]
  <2>1. LayerPreds(t, i) = MergePreds(p, q)
    BY <1>11 DEF LayerPreds
  <2>2. p \in 0 .. id - 1 /\ q \in 0 .. id - 1 /\ p < q
    BY <1>2, <1>4, <1>8, <1>11
  <2> HIDE DEF p, q
  <2>3. p # q
    BY <2>2
  <2>4. MergePreds(p, q) = <<p, q>> \/ MergePreds(p, q) = Sorted(p, q)
    BY DEF MergePreds
  <2> QED BY <1>6, <1>7, <2>1, <2>2, <2>3, <2>4
<1> QED BY <1>2, <1>9, <1>10, <1>11

\* The next labels of a layer.
Labelled(mu, mu2, b, k, c, top) ==
  /\ \A q \in 0 .. k - 1 : mu2[b + q] = c + q
  /\ \A q \in 0 .. top - 1 : q \notin b .. b + k - 1 => mu2[q] = mu[q]

\* What a loop has to do still, when batch more columns are done.
LEMMA RoundsMore ==
  ASSUME NEW K, Machine(K), NEW t, t.fn = "layer", NEW c \in Nat, NEW o, NEW mu, NEW u,
         Leads(K, t, Now(c, o, mu), u), mu \in Mems(K), NEW batch \in Nat \ {0},
         t.i + batch <= t.width, NEW mu2 \in Mems(K),
         Labelled(mu, mu2, t.dst + t.i, batch, c, K.words)
  PROVE  /\ t.i + batch < t.width =>
              Leads(K, [t EXCEPT !.i = t.i + batch], Now(c + batch, o, mu2), u)
         /\ t.i + batch = t.width => Within(Now(c + batch, o, mu2), u)
<1> DEFINE x == Now(c, o, mu)
           x2 == Now(c + batch, o, mu2)
           d == c - t.i
           w == t.width
           top == K.arena + o
           dst == t.dst
           e == t.i + batch
<1>1. x.ids = c /\ x.off = o /\ x.mems = {mu}
  BY DEF Now
<1>2. x2.ids = c + batch /\ x2.off = o /\ x2.mems = {mu2}
  BY DEF Now
<1>3. Rounds(K, t, x, u) /\ Point(K, x) /\ Point(K, u)
  BY DEF Leads
<1>4. /\ DOMAIN t = LayerFields
      /\ w \in Nat \ {0} /\ t.i \in 0 .. w - 1 /\ d \in Nat
      /\ u.ids = d + w /\ u.off = o
      /\ t.rule \in {"one", "pair", "merge"}
      /\ Region(K, x, dst, w) /\ Source(K, x, t, t.a, d)
      /\ t.rule = "pair" => Paired(w, t.bit)
      /\ t.rule = "merge" =>
           Source(K, x, t, t.b, d) /\ \A i \in 0 .. w - 1 : mu[t.a + i] < mu[t.b + i]
      /\ Numbered(mu, dst, t.i, d)
  BY <1>1, <1>3 DEF Rounds
<1>5. \A mu3 \in Mems(K) :
        Keeps(mu, mu3, dst, w, top) /\ Numbered(mu3, dst, w, d) => mu3 \in u.mems
  BY <1>1, <1>3 DEF Rounds
<1>6. dst \in Nat /\ dst + w <= top /\ top \in Nat /\ top <= K.words /\ K.words \in Nat
  <2>1. dst \in Nat /\ dst + w <= K.arena + x.off
    BY <1>4 DEF Region
  <2>2. K.arena + x.off \in Nat /\ K.arena + x.off <= K.words
    BY <1>3, <1>4, RegionInside
  <2> QED BY <1>1, <2>1, <2>2 DEF Machine
<1>7. e \in Nat /\ e <= w /\ c + batch = d + e /\ (c + batch) - e = d
  BY <1>4
<1>8. Keeps(mu, mu2, dst, w, top)
  <2> SUFFICES ASSUME NEW q \in 0 .. top - 1, q \notin dst .. dst + w - 1
               PROVE  mu2[q] = mu[q]
    BY DEF Keeps
  <2>1. q \in 0 .. K.words - 1 /\ q \notin dst + t.i .. dst + t.i + batch - 1
    BY <1>4, <1>6
  <2> QED BY <2>1 DEF Labelled
<1>9. Numbered(mu2, dst, e, d)
  <2> SUFFICES ASSUME NEW j \in 0 .. e - 1 PROVE mu2[dst + j] = d + j
    BY DEF Numbered
  <2>1. CASE j < t.i
    <3>1. j \in 0 .. t.i - 1 /\ dst + j \in 0 .. K.words - 1
          /\ dst + j \notin dst + t.i .. dst + t.i + batch - 1
      BY <1>4, <1>6, <1>7, <2>1
    <3> QED BY <1>4, <3>1 DEF Numbered, Labelled
  <2>2. CASE ~(j < t.i)
    <3>1. /\ j - t.i \in 0 .. batch - 1
          /\ dst + t.i + (j - t.i) = dst + j /\ c + (j - t.i) = d + j
      BY <1>4, <1>6, <1>7, <2>2
    <3>2. mu2[dst + t.i + (j - t.i)] = c + (j - t.i)
      BY <3>1 DEF Labelled
    <3> QED BY <3>1, <3>2
  <2> QED BY <2>1, <2>2
<1>10. ASSUME e = w PROVE Within(x2, u)
  <2>1. mu2 \in u.mems
    BY <1>5, <1>8, <1>9, <1>10
  <2> QED BY <1>2, <1>4, <1>7, <1>10, <2>1 DEF Within
<1>11. ASSUME NEW t2, t2 = [t EXCEPT !.i = e], e < w PROVE Leads(K, t2, x2, u)
  <2>1. /\ DOMAIN t2 = LayerFields /\ t2.i = e
        /\ t2.fn = "layer" /\ t2.rule = t.rule /\ t2.width = w /\ t2.bit = t.bit
        /\ t2.a = t.a /\ t2.b = t.b /\ t2.dst = dst
    BY <1>4, <1>11, NextRound
  <2> HIDE DEF x, x2, d, w, top, dst, e
  <2>2. Region(K, x2, dst, w)
    BY <1>1, <1>2, <1>4 DEF Region
  <2>3. ASSUME NEW a, Source(K, x, t, a, d)
        PROVE  /\ Source(K, x2, t2, a, d)
               /\ \A i \in 0 .. w - 1 : mu2[a + i] = mu[a + i]
    <3>1. /\ a \in Nat /\ a + w <= top /\ (a + w <= dst \/ dst + w <= a)
          /\ Array(mu, a, w, 0, d)
      BY <1>1, <2>3 DEF Source, Region, w, top, dst
    <3>2. Array(mu2, a, w, 0, d)
      BY <1>4, <1>6, <1>8, <3>1, ArrayKept
    <3>3. \A i \in 0 .. w - 1 : mu2[a + i] = mu[a + i]
      <4> SUFFICES ASSUME NEW i \in 0 .. w - 1 PROVE mu2[a + i] = mu[a + i]
        OBVIOUS
      <4>1. a + i \in 0 .. top - 1 /\ a + i \notin dst .. dst + w - 1
        BY <1>4, <1>6, <3>1
      <4> QED BY <1>8, <4>1 DEF Keeps
    <3>4. Region(K, x2, a, w)
      BY <1>2, <1>4, <3>1 DEF Region, top
    <3> QED BY <1>2, <2>1, <3>1, <3>2, <3>3, <3>4 DEF Source
  <2>4. ASSUME NEW mu3 \in Mems(K), Keeps(mu2, mu3, dst, w, top), Numbered(mu3, dst, w, d)
        PROVE  mu3 \in u.mems
    <3>1. Keeps(mu, mu3, dst, w, top)
      BY <1>4, <1>6, <1>8, <2>4, KeepsMore
    <3> QED BY <1>5, <2>4, <3>1
  <2>5. x2.ids - t2.i = d /\ t2.i \in 0 .. w - 1
    BY <1>2, <1>7, <1>4, <1>11, <2>1
  <2>6. K.arena + x2.off = top
    BY <1>2 DEF top
  <2>7. Rounds(K, t2, x2, u)
    <3>1. Source(K, x2, t2, t2.a, d)
      BY <1>4, <2>1, <2>3
    <3>2. ASSUME t2.rule = "merge"
          PROVE  /\ Source(K, x2, t2, t2.b, d)
                 /\ \A i \in 0 .. w - 1 : mu2[t2.a + i] < mu2[t2.b + i]
      <4>1. Source(K, x, t, t.a, d) /\ Source(K, x, t, t.b, d)
            /\ \A i \in 0 .. w - 1 : mu[t.a + i] < mu[t.b + i]
        BY <1>4, <2>1, <3>2
      <4> QED BY <2>1, <2>3, <4>1
    <3>3. Numbered(mu2, t2.dst, t2.i, d)
      BY <1>9, <2>1
    <3>4. t2.rule = "pair" => Paired(w, t2.bit)
      BY <1>4, <2>1
    <3> QED BY <1>2, <1>4, <2>1, <2>2, <2>4, <2>5, <2>6, <3>1, <3>2, <3>3, <3>4 DEF Rounds
  <2>8. Point(K, x2)
    <3>1. c + batch \in Nat /\ o \in Nat /\ 4 * o <= K.limit
      BY <1>1, <1>3 DEF Point
    <3> QED BY <1>2, <3>1 DEF Point
  <2> QED BY <1>3, <2>1, <2>7, <2>8 DEF Leads
<1> QED BY <1>7, <1>10, <1>11

LEMMA BatchKeeps ==
  ASSUME NEW K, Machine(K), NEW rest, Remainder(rest), NEW y,
         InProgress(K, rest, y), EmitBatch
  PROVE  InProgress(K, rest, y)'
<1> DEFINE t == Head(todo)
           x == Now(next_id, arena_off, mem)
           c == next_id
           batch == Min({BatchLimit, t.width - t.i})
           e == t.i + batch
           b == t.dst + t.i
           t2 == [t EXCEPT !.i = e]
<1>1. /\ Top("layer") /\ t.fn = "layer"
      /\ next_id' = c + batch
      /\ node' = [id \in DOMAIN node |->
                    IF id \in c .. c + batch - 1
                    THEN LayerPreds(t, t.i + id - c) ELSE node[id]]
      /\ mem' = [q \in DOMAIN mem |->
                   IF q \in b .. b + batch - 1 THEN c + q - b ELSE mem[q]]
      /\ todo' = (IF e < t.width THEN <<t2>> ELSE <<>>) \o Tail(todo)
      /\ UNCHANGED <<path, m, arena, arena_off, arena_hi, out, challenge, rc>>
  BY DEF EmitBatch, Top
<1>2. "layer" \in EmitCalls
  BY DEF EmitCalls
<1>3. PICK s, u : /\ Tail(todo) = s \o rest /\ Runs(K, s, u, y)
                  /\ Leads(K, t, x, u)
  BY <1>1, <1>2, TopTask
<1>4. /\ Common(K) /\ c \in Nat /\ mem \in Mems(K) /\ arena_off \in Nat
      /\ Held(mem, c) /\ Emitting(node, c) /\ K.words \in Nat
  BY DEF InProgress, Common, Machine
<1> HIDE DEF t, c, batch
<1>5. Rounds(K, t, x, u)
  BY <1>1, <1>3 DEF Leads
<1>6. t.width \in Nat \ {0} /\ t.i \in 0 .. t.width - 1
  BY <1>5 DEF Rounds
<1>7. batch \in Nat \ {0} /\ e <= t.width
  <2>1. BatchLimit \in Nat \ {0}
    BY EmitAssumption DEF BatchLimit
  <2>2. BatchLimit \in Int /\ t.width - t.i \in Nat \ {0} /\ t.width - t.i \in Int
    BY <1>6, <2>1
  <2>3. batch \in {BatchLimit, t.width - t.i} /\ batch <= t.width - t.i
    <3> HIDE DEF x
    <3> QED BY <2>2, MinOfTwo DEF batch
  <2> QED BY <1>6, <2>1, <2>2, <2>3
<1>8. /\ t.dst \in Nat /\ b \in Nat /\ b + batch <= K.words
  <2>1. Region(K, x, t.dst, t.width) /\ Point(K, x)
    BY <1>3, <1>5 DEF Rounds, Leads
  <2>2. t.dst \in Nat /\ t.dst + t.width <= K.words
    BY <2>1, RegionInside
  <2> QED BY <1>4, <1>6, <1>7, <2>2
<1> HIDE DEF b
<1>9. mem' \in Mems(K) /\ Labelled(mem, mem', b, batch, c, K.words)
  <2>1. DOMAIN mem = 0 .. K.words - 1 /\ \A q \in 0 .. K.words - 1 : mem[q] \in Int
    BY <1>4 DEF Mems
  <2>2. \A q \in b .. b + batch - 1 : c + q - b \in Int /\ q \in 0 .. K.words - 1
    BY <1>4, <1>7, <1>8
  <2>3. mem' \in Mems(K)
    BY <1>1, <2>1, <2>2 DEF Mems
  <2>4. ASSUME NEW q \in 0 .. batch - 1 PROVE mem'[b + q] = c + q
    <3>1. b + q \in b .. b + batch - 1 /\ c + (b + q) - b = c + q
      BY <1>4, <1>7, <1>8
    <3> QED BY <1>1, <2>1, <2>2, <3>1
  <2>5. ASSUME NEW q \in 0 .. K.words - 1, q \notin b .. b + batch - 1
        PROVE  mem'[q] = mem[q]
    BY <1>1, <2>1, <2>5
  <2> QED BY <2>3, <2>4, <2>5 DEF Labelled
<1>10. /\ e < t.width => Leads(K, t2, Now(c + batch, arena_off, mem'), u)
       /\ e = t.width => Within(Now(c + batch, arena_off, mem'), u)
  BY <1>1, <1>3, <1>4, <1>7, <1>9, RoundsMore DEF b, c
<1>11. Common(K)'
  <2>1. Held(mem', c + batch)
    <3> SUFFICES ASSUME NEW q \in DOMAIN mem'
                 PROVE  mem'[q] \in {Unset} \cup 0 .. (c + batch) - 1
      BY DEF Held
    <3>1. q \in DOMAIN mem
      BY <1>1
    <3>2. CASE q \in b .. b + batch - 1
      <4>1. mem'[q] = c + q - b
        BY <1>1, <3>1, <3>2
      <4>2. c + q - b \in 0 .. (c + batch) - 1
        BY <1>4, <1>7, <1>8, <3>2
      <4> QED BY <4>1, <4>2
    <3>3. CASE q \notin b .. b + batch - 1
      <4>1. mem'[q] = mem[q] /\ mem[q] \in {Unset} \cup 0 .. c - 1
        BY <1>1, <1>4, <3>1, <3>3 DEF Held
      <4>2. 0 .. c - 1 \subseteq 0 .. (c + batch) - 1
        BY <1>4, <1>7
      <4> QED BY <4>1, <4>2
    <3> QED BY <3>2, <3>3
  <2>2. Emitting(node', c + batch)
    <3>1. DOMAIN node' = DOMAIN node
      BY <1>1
    <3>2. ASSUME NEW id \in DOMAIN node, id \in c .. c + batch - 1
          PROVE  Canonical(node'[id], id)
      <4>1. /\ id \in Nat /\ id >= c
            /\ t.i + id - c \in 0 .. t.width - 1
        BY <1>4, <1>6, <1>7, <3>2
      <4>2. node'[id] = LayerPreds(t, t.i + id - c)
        BY <1>1, <3>2
      <4> HIDE DEF e, t2
      <4>3. Canonical(LayerPreds(t, t.i + id - c), id)
        BY <1>4, <1>5, <4>1, ColumnPreds DEF c
      <4> QED BY <4>2, <4>3
    <3>3. ASSUME NEW id \in DOMAIN node, id \notin c .. c + batch - 1
          PROVE  node'[id] = node[id]
      BY <1>1, <3>3
    <3> QED BY <1>4, <1>7, <3>1, <3>2, <3>3, EmittingMore
  <2>3. next_id' \in Nat
    BY <1>1, <1>4, <1>7
  <2> QED BY <1>1, <1>4, <1>9, <2>1, <2>2, <2>3 DEF Common
<1> HIDE DEF x, t2
<1>12. CASE e < t.width
  <2>1. todo' = <<t2>> \o Tail(todo)
    BY <1>1, <1>12
  <2>2. Runs(K, <<t2>>, Now(next_id', arena_off', mem'), u)
    BY <1>1, <1>10, <1>12, RunsOne
  <2> QED BY <1>3, <1>11, <2>1, <2>2, Resume
<1>13. CASE ~(e < t.width)
  <2>1. todo' = <<>> \o Tail(todo)
    BY <1>1, <1>13
  <2>2. Within(Now(next_id', arena_off', mem'), u)
    <3>1. e = t.width
      BY <1>6, <1>7, <1>13
    <3> QED BY <1>1, <1>10, <3>1
  <2>3. Runs(K, <<>>, Now(next_id', arena_off', mem'), u)
    BY <2>2, RunsNone
  <2> QED BY <1>3, <1>11, <2>1, <2>3, Resume
<1> QED BY <1>12, <1>13

LEMMA HeldCopy ==
  ASSUME NEW K, K.words \in Nat, NEW mu \in Mems(K), NEW c, Held(mu, c), NEW copies,
         FromMemory(K, copies)
  PROVE  Held(CopyOf(mu, copies), c)
<1> DEFINE r == CopyOf(mu, copies)
           D == 0 .. K.words - 1
<1>1. DOMAIN mu = D /\ DOMAIN r = D
  BY DEF Mems, CopyOf
<1>2. ASSUME NEW w \in D PROVE r[w] \in {Unset} \cup 0 .. c - 1
  <2> DEFINE Hit(d) == w \in d[2] .. d[2] + d[3] - 1
  <2>1. CASE \E d \in copies : Hit(d)
    <3> DEFINE cp == CHOOSE d \in copies : Hit(d)
    <3>1. cp \in copies /\ Hit(cp)
      BY <2>1
    <3>2. r[w] = mu[cp[1] + w - cp[2]]
      BY <1>1, <2>1 DEF CopyOf
    <3> HIDE DEF cp, r
    <3>3. cp[1] + w - cp[2] \in D
      BY <3>1 DEF FromMemory
    <3> QED BY <1>1, <3>2, <3>3 DEF Held
  <2>2. CASE ~ \E d \in copies : Hit(d)
    <3>1. r[w] = mu[w]
      BY <1>1, <2>2 DEF CopyOf
    <3> QED BY <1>1, <3>1 DEF Held
  <2> QED BY <2>1, <2>2
<1> QED BY <1>1, <1>2 DEF Held

LEMMA LeaveKeeps ==
  ASSUME NEW K, Machine(K), NEW rest, Remainder(rest), NEW y,
         InProgress(K, rest, y), LeaveFunction
  PROVE  InProgress(K, rest, y)'
<1> DEFINE t == Head(todo)
           x == Now(next_id, arena_off, mem)
<1>1. /\ Top("leave") /\ t.fn = "leave"
      /\ mem' = Copied(t.copies) /\ arena_off' = t.saved /\ todo' = Tail(todo)
      /\ UNCHANGED <<path, m, next_id, arena, arena_hi, node, out, challenge, rc>>
  BY DEF LeaveFunction, Top
<1>2. "leave" \in EmitCalls
  BY DEF EmitCalls
<1>3. PICK s, u : /\ Tail(todo) = s \o rest /\ Runs(K, s, u, y)
                  /\ Leads(K, t, x, u)
  BY <1>1, <1>2, TopTask
<1>4. /\ Common(K) /\ mem \in Mems(K) /\ Held(mem, next_id)
  BY DEF InProgress, Common
<1>5. x.ids = next_id /\ x.mems = {mem}
  BY DEF Now
<1> HIDE DEF t, x
<1>6. /\ Point(K, u) /\ u.ids = next_id /\ u.off = t.saved
      /\ CopyOf(mem, t.copies) \in u.mems /\ FromMemory(K, t.copies)
  BY <1>1, <1>3, <1>5 DEF Leads, Leaves
<1>7. mem' = CopyOf(mem, t.copies)
  BY <1>1 DEF Copied, CopyOf
<1>8. Within(Now(next_id', arena_off', mem'), u)
  BY <1>1, <1>6, <1>7 DEF Now, Within
<1>9. Common(K)'
  <2>1. mem' \in Mems(K) /\ arena_off' \in Nat
    BY <1>1, <1>6, <1>7 DEF Point
  <2>2. Held(mem', next_id)
    BY <1>4, <1>6, <1>7, HeldCopy DEF Machine
  <2> QED BY <1>1, <1>4, <2>1, <2>2 DEF Common
<1> QED BY <1>1, <1>3, <1>8, <1>9, ResumeAfter

\* A C call, a loop round or a function's end.
LEMMA EmitKeeps ==
  ASSUME NEW K, Machine(K), K.arena = arena, NEW rest, Remainder(rest), NEW y,
         InProgress(K, rest, y), Emit
  PROVE  InProgress(K, rest, y)'
BY BatchKeeps, ConnectorKeeps, MergedLeafKeeps, MergedKeeps, SourceKeeps, StandaloneKeeps,
   ConnectedLeafKeeps, ConnectedKeeps, LeaveKeeps DEF Emit

LEMMA EmitLeavesAlone ==
  ASSUME Emit
  PROVE  UNCHANGED <<path, m, arena, out, rc>> /\ DOMAIN node' = DOMAIN node
<1>1. CASE EmitBatch
  BY <1>1 DEF EmitBatch
<1>2. CASE \E k, w, tasks : Push(k, w, tasks)
  BY <1>2 DEF Push
<1>3. CASE \E preds, dst : EmitOne(preds, dst)
  BY <1>3 DEF EmitOne
<1>4. CASE LeaveFunction
  BY <1>4 DEF LeaveFunction
<1>5. EmitConnector \/ EmitMerged \/ EmitStandalone \/ EmitConnected
      => \E k, w, tasks : Push(k, w, tasks)
  BY Zenon DEF EmitConnector, EmitMerged, EmitStandalone, EmitConnected
<1>6. EmitMergedLeaf \/ EmitSource \/ EmitConnectedLeaf
      => \E preds, dst : EmitOne(preds, dst)
  BY Zenon DEF EmitMergedLeaf, EmitSource, EmitConnectedLeaf
<1> QED BY <1>1, <1>2, <1>3, <1>4, <1>5, <1>6 DEF Emit

\* A task that is not the emitter's comes up when a copy is finished.
LEMMA CopyFinished ==
  ASSUME NEW K, NEW rest, Remainder(rest), NEW y, InProgress(K, rest, y),
         NEW fn, fn \notin EmitCalls, Top(fn)
  PROVE  todo = rest /\ Within(Now(next_id, arena_off, mem), y)
<1>1. PICK s : todo = s \o rest /\ Runs(K, s, Now(next_id, arena_off, mem), y)
  BY DEF InProgress
<1>2. IsSeq(s) /\ IsSeq(rest)
  BY <1>1 DEF Runs, Remainder
<1>3. s = <<>>
  <2> SUFFICES ASSUME s # <<>> PROVE FALSE
    OBVIOUS
  <2>1. Head(todo) = Head(s)
    BY <1>1, <1>2, HeadOfAppended
  <2>2. PICK u : Leads(K, Head(s), Now(next_id, arena_off, mem), u)
    BY <1>1, RunsFirst
  <2>3. Head(s).fn \in EmitCalls
    BY <2>2 DEF Leads, EmitCalls
  <2> QED BY <2>1, <2>3 DEF Top
<1>4. <<>> \o rest = rest
  BY <1>2, SeqOfElements, ConcatEmptySeq
<1> QED BY <1>1, <1>3, <1>4, RunsEnd

LEMMA WorkLeft ==
  ASSUME NEW K, NEW rest, Remainder(rest), NEW y, InProgress(K, rest, y)
  PROVE  /\ todo # <<>> /\ Common(K)
         /\ next_id <= y.ids
<1>1. PICK s : todo = s \o rest /\ Runs(K, s, Now(next_id, arena_off, mem), y)
  BY DEF InProgress
<1>2. IsSeq(s) /\ IsSeq(rest) /\ rest # <<>>
  BY <1>1 DEF Runs, Remainder
<1>3. todo # <<>>
  <2>1. Len(todo) = Len(s) + Len(rest) /\ Len(s) \in Nat /\ Len(rest) \in Nat
    BY <1>1, <1>2, Appended DEF IsSeq
  <2>2. Len(rest) # 0
    BY <1>2, HeadAndTail
  <2> QED BY <2>1, <2>2, NoElements
<1>4. Common(K)
  BY DEF InProgress
<1>5. next_id <= y.ids
  <2> DEFINE x == Now(next_id, arena_off, mem)
  <2>1. x.ids = next_id /\ next_id \in Nat
    BY <1>4 DEF Now, Common
  <2> HIDE DEF x
  <2>2. x.ids <= y.ids
    BY <1>1, <2>1, RunsUp DEF x
  <2> QED BY <2>1, <2>2
<1> QED BY <1>3, <1>4, <1>5

----------------------------------------------------------------------------
(* The whole call.                                                          *)

CopyNodes(k) == StandaloneNodeCount[ParameterN(k) + 1]
BaseWords(k) == 2 * Pow2[ParameterN(k)]

\* The machine a call runs on, and the work that is left for the other copy.
Chunk(ar, p, k) ==
  [arena |-> ar, limit |-> 26 * Pow2[ParameterN(k)], words |-> ScratchWords(p, k)]

\* do_label has an arena for either copy.
ArenaOf(ar, p, k) ==
  LET h == Pow2[ParameterN(k)]
  IN  ar = 4 * h \/ (p = "label" /\ ar = 4 * h + ArenaFactor * h)

Context == Chunk(arena, path, m)
SecondCopy(k) == Standalone(ParameterN(k) + 1, BaseWords(k))
AfterLeft(k)  == <<SecondHalf, SecondCopy(k), Outputs>>
AfterRight    == <<Outputs>>

\* A base array holds the labels of its copy.
LeftBaseDone(mu, k)  == Array(mu, 0, BaseWords(k), 0, CopyNodes(k))
RightBaseDone(mu, k) == Array(mu, BaseWords(k), BaseWords(k), CopyNodes(k), 2 * CopyNodes(k))

LeftDone(K, k) ==
  [ids |-> CopyNodes(k), off |-> 0, mems |-> {mu \in Mems(K) : LeftBaseDone(mu, k)}]
RightDone(K, k) ==
  [ids |-> 2 * CopyNodes(k), off |-> 0,
   mems |-> {mu \in Mems(K) : LeftBaseDone(mu, k) /\ RightBaseDone(mu, k)}]

NoCall ==
  /\ path = "none" /\ todo = <<>> /\ rc = 0
  /\ next_id = 0 /\ arena_off = 0 /\ arena_hi = 0
  /\ mem = <<>> /\ node = <<>> /\ out = <<>>

Refused ==
  /\ path \in Paths /\ todo = <<>> /\ rc = -1
  /\ next_id = 0 /\ arena_off = 0 /\ arena_hi = 0
  /\ mem = <<>> /\ node = <<>> /\ out = <<>>

InLeft ==
  /\ arena = ArenaAddr
  /\ \E K, rest, y : /\ K = Context /\ rest = AfterLeft(m) /\ y = LeftDone(K, m)
                     /\ InProgress(K, rest, y)

InRight ==
  \E K, rest, y : /\ K = Context /\ rest = AfterRight /\ y = RightDone(K, m)
                  /\ InProgress(K, rest, y)

\* The outputs have been copied out of the base arrays.
Finished ==
  /\ todo = <<>>
  /\ \E K : K = Context /\ Common(K)
            /\ Within(Now(next_id, arena_off, mem), RightDone(K, m))
  /\ \A r \in 0 .. m - 1 :
       out[r] = IF r < HalfW THEN mem[LeftBase + HalfW + r]
                             ELSE mem[RightBase + HalfW + (r - HalfW)]

Accepted ==
  /\ path \in Paths /\ rc = 0 /\ m \in Nat \ {0}
  /\ ArenaOf(arena, path, m)
  /\ DOMAIN node = 0 .. ScratchNodeCount(m) - 1
  /\ DOMAIN out = 0 .. m - 1
  /\ \A r \in 0 .. m - 1 : out[r] \in {Unset} \cup 0 .. ScratchNodeCount(m) - 1

EmitInv == NoCall \/ Refused \/ (Accepted /\ (InLeft \/ InRight \/ Finished))

\* The sizes of a call: 6.5 * half_w words fit into its arena.
LEMMA CallSizes ==
  ASSUME NEW k \in Nat \ {0}
  PROVE  /\ ParameterN(k) + 1 \in Nat \ {0} /\ (ParameterN(k) + 1) - 1 = ParameterN(k)
         /\ Pow2[ParameterN(k)] \in Nat \ {0}
         /\ Pow2[ParameterN(k) + 1] = BaseWords(k) /\ BaseWords(k) \in Nat \ {0}
         /\ k <= BaseWords(k)
         /\ CopyNodes(k) \in Nat \ {0} /\ ScratchNodeCount(k) = 2 * CopyNodes(k)
<1> DEFINE n == ParameterN(k)
<1>1. n \in Nat /\ k <= 2 * Pow2[n]
  BY ParameterFacts
<1> HIDE DEF n
<1>2. n + 1 \in Nat \ {0} /\ (n + 1) - 1 = n
  BY <1>1
<1>3. Pow2[n] \in Nat \ {0} /\ Pow2[n + 1] = 2 * Pow2[n]
  BY <1>1, <1>2, Pow2Facts
<1>4. StandaloneNodeCount[n + 1] \in Nat \ {0}
  BY <1>2, StandaloneFacts
<1> QED BY <1>1, <1>2, <1>3, <1>4 DEF n, BaseWords, CopyNodes, ScratchNodeCount

LEMMA ChunkFacts ==
  ASSUME NEW p \in Paths, NEW k \in Nat \ {0}, NEW ar, ArenaOf(ar, p, k),
         NEW K, K = Chunk(ar, p, k), NEW h, h = Pow2[ParameterN(k)]
  PROVE  /\ Machine(K) /\ K.arena = ar
         /\ K.limit = 26 * h /\ h \in Nat \ {0}
         /\ 4 * h <= K.words /\ 4 * h <= K.arena
<1> DEFINE q == ArenaFactor * h
<1>1. K.arena = ar /\ K.limit = 26 * h /\ K.words = ScratchWords(p, k)
  BY DEF Chunk
<1>2. h \in Nat \ {0}
  BY CallSizes
<1>3. q \in Nat /\ 13 * h <= 2 * q
  <2>1. ArenaFactor \in Nat /\ 2 * ArenaFactor >= 13
    BY EmitAssumption
  <2>2. q \in Nat
    BY <1>2, <2>1
  <2>3. 13 * h <= (2 * ArenaFactor) * h
    BY <1>2, <2>1, MulMono
  <2>4. (2 * ArenaFactor) * h = 2 * q
    BY <1>2, <2>1
  <2> QED BY <2>2, <2>3, <2>4
<1>4. K.words = 4 * h + (IF p = "label" THEN 2 * q ELSE q)
  <2>1. K.words = 4 * h + (IF p = "label" THEN 2 ELSE 1) * ArenaFactor * h
    BY <1>1 DEF ScratchWords
  <2>2. ArenaFactor \in Nat
    BY EmitAssumption
  <2>3. 2 * ArenaFactor * h = 2 * (ArenaFactor * h) /\ 1 * ArenaFactor * h = ArenaFactor * h
    BY <1>2, <2>2
  <2> QED BY <2>1, <2>3
<1>5. ar = 4 * h \/ (p = "label" /\ ar = 4 * h + q)
  BY DEF ArenaOf
<1> HIDE DEF q
<1>6. Machine(K) /\ 4 * h <= K.words /\ 4 * h <= K.arena
  BY <1>1, <1>2, <1>3, <1>4, <1>5 DEF Machine
<1> QED BY <1>1, <1>2, <1>6

\* One more standalone copy, in an empty arena.
LEMMA CopyLeads ==
  ASSUME NEW K, Machine(K), NEW k \in Nat \ {0}, NEW n, n = ParameterN(k) + 1,
         K.limit = 26 * Pow2[ParameterN(k)], NEW c \in Nat, NEW mu \in Mems(K),
         NEW b \in Nat, b + BaseWords(k) <= K.arena, NEW y, y.ids = c + CopyNodes(k),
         y.off = 0, y.mems \subseteq Mems(K),
         \A mu2 \in Mems(K) :
           Keeps(mu, mu2, b, BaseWords(k), K.arena)
           /\ Array(mu2, b, BaseWords(k), c, c + CopyNodes(k)) => mu2 \in y.mems
  PROVE  Leads(K, Standalone(n, b), Now(c, 0, mu), y)
<1> DEFINE x == Now(c, 0, mu)
           t == Standalone(n, b)
           w == BaseWords(k)
<1>1. x.ids = c /\ x.off = 0 /\ x.mems = {mu}
  BY DEF Now
<1>2. t.fn = "standalone" /\ t.level = n /\ t.out = b
  BY DEF Standalone
<1> HIDE DEF x, t
<1>3. /\ n \in Nat /\ Pow2[n] = w /\ w \in Nat /\ StandaloneNodeCount[n] = CopyNodes(k)
      /\ CopyNodes(k) \in Nat /\ K.limit = 13 * w
  <2>1. K.limit = 13 * w
    BY CallSizes DEF BaseWords
  <2> QED BY <2>1, CallSizes DEF CopyNodes
<1> HIDE DEF w
<1>4. K.arena \in Nat /\ K.limit \in Nat
  BY DEF Machine
<1>5. Point(K, x) /\ Point(K, y)
  BY <1>1, <1>3, <1>4 DEF Point
<1>6. Call(K, x, y, b, w, CopyNodes(k), 13 * w)
  <2>1. Region(K, x, b, w)
    BY <1>1, <1>3, <1>4 DEF Region, w
  <2>2. K.arena + x.off = K.arena /\ 4 * x.off + 13 * w <= K.limit
    BY <1>1, <1>3, <1>4
  <2>3. \A mu1 \in x.mems, mu2 \in Mems(K) :
          Keeps(mu1, mu2, b, w, K.arena + x.off) /\ Array(mu2, b, w, x.ids, y.ids)
          => mu2 \in y.mems
    BY <1>1, <2>2 DEF w
  <2> QED BY <1>1, <2>1, <2>2, <2>3 DEF Call
<1>7. Leads(K, t, x, y)
  BY <1>2, <1>3, <1>5, <1>6 DEF Leads
<1> QED BY <1>7 DEF x, t

LEMMA Remainders ==
  ASSUME NEW k
  PROVE  /\ Remainder(AfterLeft(k)) /\ Head(AfterLeft(k)).fn = "second_half"
         /\ Remainder(AfterRight) /\ Head(AfterRight).fn = "outputs"
         /\ Tail(AfterLeft(k)) = <<SecondCopy(k), Outputs>>
         /\ Tail(AfterRight) = <<>>
<1> DEFINE a == SecondHalf
           b == SecondCopy(k)
           c == Outputs
<1>1. a.fn = "second_half" /\ c.fn = "outputs"
  BY DEF SecondHalf, Outputs
<1> HIDE DEF a, b, c
<1>2. /\ IsSeq(<<a, b, c>>) /\ <<a, b, c>> # <<>> /\ Head(<<a, b, c>>) = a
      /\ Tail(<<a, b, c>>) = <<b, c>>
  BY DEF IsSeq
<1>3. IsSeq(<<c>>) /\ <<c>> # <<>> /\ Head(<<c>>) = c /\ Tail(<<c>>) = <<>>
  BY DEF IsSeq
<1> QED BY <1>1, <1>2, <1>3 DEF Remainder, AfterLeft, AfterRight, a, b, c

LEMMA OneBefore ==
  ASSUME NEW a, NEW b, NEW c, NEW d
  PROVE  /\ <<a>> \o <<b, c, d>> = <<a, b, c, d>>
         /\ <<a>> \o <<b>> = <<a, b>>
<1>1. IsSeq(<<a>>) /\ Len(<<a>>) = 1 /\ <<a>>[1] = a
  BY DEF IsSeq
<1>2. <<a>> \o <<b, c, d>> = <<a, b, c, d>>
  <2> DEFINE s == <<a>>
             t == <<b, c, d>>
             r == s \o t
             u == <<a, b, c, d>>
  <2>1. IsSeq(t) /\ Len(t) = 3 /\ t[1] = b /\ t[2] = c /\ t[3] = d
    BY DEF IsSeq
  <2>2. IsSeq(u) /\ Len(u) = 4 /\ u[1] = a /\ u[2] = b /\ u[3] = c /\ u[4] = d
    BY DEF IsSeq
  <2> HIDE DEF s, t
  <2>3. /\ IsSeq(r) /\ Len(r) = Len(s) + Len(t)
        /\ \A j \in 1 .. Len(s) : r[j] = s[j]
        /\ \A j \in 1 .. Len(t) : r[Len(s) + j] = t[j]
    BY <1>1, <2>1, Appended DEF s
  <2>4. Len(s) = 1 /\ s[1] = a
    BY <1>1 DEF s
  <2> HIDE DEF r, u
  <2>5. Len(r) = 4 /\ r[1] = a /\ r[1 + 1] = b /\ r[1 + 2] = c /\ r[1 + 3] = d
    BY <2>1, <2>3, <2>4
  <2>6. \A j \in 1 .. 4 : j = 1 \/ j = 1 + 1 \/ j = 1 + 2 \/ j = 1 + 3
    OBVIOUS
  <2>7. \A j \in 1 .. Len(r) : r[j] = u[j]
    BY <2>2, <2>5, <2>6
  <2> QED BY <2>2, <2>3, <2>5, <2>7, SameElements DEF r, s, t, u
<1>3. <<a>> \o <<b>> = <<a, b>>
  <2> DEFINE s == <<a>>
             t == <<b>>
             r == s \o t
             u == <<a, b>>
  <2>1. IsSeq(t) /\ Len(t) = 1 /\ t[1] = b
    BY DEF IsSeq
  <2>2. IsSeq(u) /\ Len(u) = 2 /\ u[1] = a /\ u[2] = b
    BY DEF IsSeq
  <2> HIDE DEF s, t
  <2>3. /\ IsSeq(r) /\ Len(r) = Len(s) + Len(t)
        /\ \A j \in 1 .. Len(s) : r[j] = s[j]
        /\ \A j \in 1 .. Len(t) : r[Len(s) + j] = t[j]
    BY <1>1, <2>1, Appended DEF s
  <2>4. Len(s) = 1 /\ s[1] = a
    BY <1>1 DEF s
  <2> HIDE DEF r, u
  <2>5. Len(r) = 2 /\ r[1] = a /\ r[1 + 1] = b
    BY <2>1, <2>3, <2>4
  <2>6. \A j \in 1 .. 2 : j = 1 \/ j = 1 + 1
    OBVIOUS
  <2>7. \A j \in 1 .. Len(r) : r[j] = u[j]
    BY <2>2, <2>5, <2>6
  <2> QED BY <2>2, <2>3, <2>5, <2>7, SameElements DEF r, s, t, u
<1> QED BY <1>2, <1>3

LEMMA BeginKeeps ==
  ASSUME NEW p \in Paths, NEW k \in Nat, NEW a, NEW ok, Begin(p, k, a, ok)
  PROVE  EmitInv'
<1> DEFINE refused == a >= k \/ BadSize(k) \/ ~ok
           n == ParameterN(k) + 1
           ar == 4 * Pow2[ParameterN(k)]
           left == Standalone(n, 0)
<1>1. /\ path' = p /\ m' = k
      /\ next_id' = 0 /\ arena' = ar /\ arena_off' = 0 /\ arena_hi' = 0
  BY DEF Begin
<1>2. CASE refused
  <2>1. rc' = -1 /\ todo' = <<>> /\ mem' = <<>> /\ node' = <<>> /\ out' = <<>>
    BY <1>2 DEF Begin
  <2>2. Refused'
    BY <1>1, <2>1 DEF Refused
  <2> QED BY <2>2 DEF EmitInv
<1>3. CASE ~refused
  <2>1. /\ rc' = 0
        /\ todo' = <<left, SecondHalf, Standalone(n, 2 * Pow2[ParameterN(k)]), Outputs>>
        /\ mem' = [w \in 0 .. ScratchWords(p, k) - 1 |-> Unset]
        /\ node' = [id \in 0 .. ScratchNodeCount(k) - 1 |-> <<Unset>>]
        /\ out' = [r \in 0 .. k - 1 |-> Unset]
    BY <1>3 DEF Begin
  <2>2. k \in Nat \ {0}
    BY <1>3 DEF BadSize
  <2>3. ArenaOf(ar, p, k)
    BY DEF ArenaOf
  <2>4. PICK K : K = Chunk(ar, p, k)
    OBVIOUS
  <2> HIDE DEF ar, n, left, refused
  <2>5. /\ Machine(K) /\ K.arena = ar /\ K.limit = 26 * Pow2[ParameterN(k)]
        /\ 4 * Pow2[ParameterN(k)] <= K.arena /\ Pow2[ParameterN(k)] \in Nat \ {0}
    BY <2>2, <2>3, <2>4, ChunkFacts
  <2>6. K.words = ScratchWords(p, k) /\ K.arena \in Nat /\ K.limit \in Nat /\ K.words \in Nat
    BY <2>4, <2>5 DEF Chunk, Machine
  <2>7. mem' \in Mems(K)
    BY <2>1, <2>6 DEF Mems, Unset
  <2>8. Common(K)'
    <3>1. Held(mem', 0)
      BY <2>1 DEF Held
    <3>2. Emitting(node', 0)
      <4>1. 0 .. ScratchNodeCount(k) - 1 \subseteq Nat
        BY <2>2, CallSizes
      <4>2. \A id \in DOMAIN node' : node'[id] = <<Unset>> /\ id \in Nat /\ ~(id < 0)
        BY <2>1, <4>1
      <4> QED BY <4>2 DEF Emitting
    <3> QED BY <1>1, <2>1, <2>6, <2>7, <3>1, <3>2 DEF Common
  <2>9. PICK y : y = LeftDone(K, k)
    OBVIOUS
  <2>10. /\ y.ids = CopyNodes(k) /\ y.off = 0
         /\ y.mems = {mu \in Mems(K) : LeftBaseDone(mu, k)}
    BY <2>9 DEF LeftDone
  <2>11. Leads(K, left, Now(0, 0, mem'), y)
    <3>1. 0 + CopyNodes(k) = CopyNodes(k) /\ 0 + BaseWords(k) <= K.arena
      BY <2>2, <2>5, <2>6, CallSizes DEF BaseWords
    <3>2. y.mems \subseteq Mems(K)
      BY <2>10
    <3>3. \A mu2 \in Mems(K) :
            Keeps(mem', mu2, 0, BaseWords(k), K.arena)
            /\ Array(mu2, 0, BaseWords(k), 0, 0 + CopyNodes(k)) => mu2 \in y.mems
      BY <2>10, <3>1 DEF LeftBaseDone
    <3>4. y.ids = 0 + CopyNodes(k)
      BY <2>10, <3>1
    <3> HIDE DEF Standalone
    <3> QED BY <2>2, <2>5, <2>7, <2>10, <3>1, <3>2, <3>3, <3>4, CopyLeads DEF left, n
  <2>12. todo' = <<left>> \o AfterLeft(k)
    <3>1. todo' = <<left, SecondHalf, SecondCopy(k), Outputs>>
      BY <2>1 DEF SecondCopy, BaseWords, n
    <3> DEFINE b1 == SecondHalf
               b2 == SecondCopy(k)
               b3 == Outputs
    <3> HIDE DEF b1, b2, b3
    <3>2. <<left>> \o <<b1, b2, b3>> = <<left, b1, b2, b3>>
      BY OneBefore
    <3> QED BY <3>1, <3>2 DEF b1, b2, b3, AfterLeft
  <2>13. Runs(K, <<left>>, Now(next_id', arena_off', mem'), y)
    BY <1>1, <2>11, RunsOne
  <2>14. PICK rest : rest = AfterLeft(k)
    OBVIOUS
  <2>15. InProgress(K, rest, y)'
    BY <2>8, <2>12, <2>13, <2>14 DEF InProgress
  <2>16. K = Context' /\ arena' = ArenaAddr'
    BY <1>1, <2>4 DEF Context, ArenaAddr, HalfW, ar
  <2>17. InLeft'
    BY <1>1, <2>9, <2>14, <2>15, <2>16 DEF InLeft
  <2>18. Accepted'
    <3>1. path' \in Paths /\ rc' = 0 /\ m' \in Nat \ {0} /\ ArenaOf(arena', path', m')
      BY <1>1, <2>1, <2>2, <2>3
    <3>2. DOMAIN node' = 0 .. ScratchNodeCount(m') - 1 /\ DOMAIN out' = 0 .. m' - 1
      BY <1>1, <2>1
    <3>3. \A r \in 0 .. m' - 1 : out'[r] \in {Unset} \cup 0 .. ScratchNodeCount(m') - 1
      BY <1>1, <2>1
    <3> QED BY <3>1, <3>2, <3>3 DEF Accepted
  <2> QED BY <2>17, <2>18 DEF EmitInv
<1> QED BY <1>2, <1>3

\* The emitter is at work on the left or the right copy.
LEMMA AcceptedKept ==
  ASSUME Accepted, UNCHANGED <<path, m, out, rc>>, DOMAIN node' = DOMAIN node,
         ArenaOf(arena', path, m)
  PROVE  Accepted'
<1>1. /\ path \in Paths /\ rc = 0 /\ m \in Nat \ {0}
      /\ DOMAIN node = 0 .. ScratchNodeCount(m) - 1
      /\ DOMAIN out = 0 .. m - 1
      /\ \A r \in 0 .. m - 1 : out[r] \in {Unset} \cup 0 .. ScratchNodeCount(m) - 1
  BY DEF Accepted
<1> QED BY <1>1 DEF Accepted

LEMMA EmitStep ==
  ASSUME Accepted, InLeft \/ InRight, Emit
  PROVE  EmitInv'
<1>1. /\ UNCHANGED <<path, m, arena, out, rc>> /\ DOMAIN node' = DOMAIN node
  BY EmitLeavesAlone
<1>2. m \in Nat \ {0} /\ path \in Paths /\ ArenaOf(arena, path, m)
  BY DEF Accepted
<1>3. Accepted'
  BY <1>1, <1>2, AcceptedKept
<1>4. PICK K : K = Context
  OBVIOUS
<1>5. Machine(K) /\ K.arena = arena
  BY <1>2, <1>4, ChunkFacts DEF Context
<1>6. K = Context'
  BY <1>1, <1>4 DEF Context
<1>7. CASE InLeft
  <2>1. PICK rest, y : /\ rest = AfterLeft(m) /\ y = LeftDone(K, m) /\ InProgress(K, rest, y)
    BY <1>4, <1>7 DEF InLeft
  <2>2. Remainder(rest)
    BY <2>1, Remainders
  <2>3. InProgress(K, rest, y)'
    BY <1>5, <2>1, <2>2, EmitKeeps
  <2>4. arena' = ArenaAddr'
    BY <1>1, <1>7 DEF InLeft, ArenaAddr, HalfW
  <2>5. rest = AfterLeft(m') /\ y = LeftDone(K, m')
    BY <1>1, <2>1
  <2>6. InLeft'
    BY <1>6, <2>3, <2>4, <2>5 DEF InLeft
  <2> QED BY <1>3, <2>6 DEF EmitInv
<1>8. CASE InRight
  <2>1. PICK rest, y : /\ rest = AfterRight /\ y = RightDone(K, m) /\ InProgress(K, rest, y)
    BY <1>4, <1>8 DEF InRight
  <2>2. Remainder(rest)
    BY <2>1, Remainders
  <2>3. InProgress(K, rest, y)'
    BY <1>5, <2>1, <2>2, EmitKeeps
  <2>4. y = RightDone(K, m')
    BY <1>1, <2>1
  <2>5. InRight'
    BY <1>6, <2>1, <2>3, <2>4 DEF InRight
  <2> QED BY <1>3, <2>5 DEF EmitInv
<1> QED BY <1>7, <1>8

\* The left copy is done: what the labellers set is what the recorder has.
LEMMA SecondHalfStep ==
  ASSUME Accepted, InLeft \/ InRight, StartSecondHalf
  PROVE  EmitInv'
<1> DEFINE H == Pow2[ParameterN(m)]
           w == BaseWords(m)
           n == CopyNodes(m)
<1>1. /\ Top("second_half") /\ "second_half" \notin EmitCalls
      /\ next_id' = (IF path = "edges" THEN next_id ELSE n)
      /\ arena' = (IF path = "label" THEN ArenaAddr + ArenaCap ELSE arena)
      /\ arena_off' = (IF path = "edges" THEN arena_off ELSE 0)
      /\ todo' = Tail(todo)
      /\ UNCHANGED <<path, m, arena_hi, mem, node, out, challenge, rc>>
  BY DEF StartSecondHalf, EmitCalls, CopyNodes
<1>2. m \in Nat \ {0} /\ path \in Paths /\ ArenaOf(arena, path, m)
  BY DEF Accepted
<1>3. PICK K : K = Context
  OBVIOUS
<1>4. CASE InRight
  <2>1. PICK rest, y : rest = AfterRight /\ InProgress(K, rest, y)
    BY <1>3, <1>4 DEF InRight
  <2>2. Remainder(rest) /\ Head(rest).fn = "outputs"
    BY <2>1, Remainders
  <2>3. todo = rest
    BY <1>1, <2>1, <2>2, CopyFinished
  <2> QED BY <1>1, <2>2, <2>3 DEF Top
<1>5. CASE InLeft
  <2>1. PICK rest, y : rest = AfterLeft(m) /\ y = LeftDone(K, m) /\ InProgress(K, rest, y)
    BY <1>3, <1>5 DEF InLeft
  <2>2. Remainder(rest) /\ Tail(rest) = <<SecondCopy(m), Outputs>>
    BY <2>1, Remainders
  <2>3. todo = rest /\ Within(Now(next_id, arena_off, mem), y) /\ Common(K)
    BY <1>1, <2>1, <2>2, CopyFinished, WorkLeft
  <2>4. /\ next_id = n /\ arena_off = 0 /\ mem \in Mems(K) /\ LeftBaseDone(mem, m)
    BY <2>1, <2>3 DEF Within, Now, LeftDone
  <2>5. next_id' = n /\ arena_off' = 0 /\ mem' = mem
    BY <1>1, <2>4
  <2>6. ArenaOf(arena', path, m)
    BY <1>1, <1>2 DEF ArenaOf, ArenaAddr, ArenaCap, HalfW
  <2>7. PICK K2 : K2 = Chunk(arena', path, m)
    OBVIOUS
  <2>8. /\ Machine(K2) /\ K2.limit = 26 * H /\ 4 * H <= K2.arena /\ H \in Nat \ {0}
        /\ K2.arena \in Nat /\ K2.limit \in Nat
    BY <1>2, <2>6, <2>7, ChunkFacts DEF Machine
  <2>9. K2.limit = K.limit /\ K2.words = K.words
    BY <1>3, <2>7 DEF Context, Chunk
  <2>10. Mems(K2) = Mems(K)
    BY <2>9 DEF Mems
  <2>11. Common(K2)'
    <3>1. /\ path' \in Paths /\ rc' = 0 /\ next_id' \in Nat /\ arena_off' \in Nat
          /\ mem' \in Mems(K2)
      BY <1>1, <2>3, <2>4, <2>5, <2>10 DEF Common
    <3>2. Held(mem', next_id') /\ Emitting(node', next_id')
      BY <1>1, <2>3, <2>4, <2>5 DEF Common
    <3>3. arena_hi' \in Nat /\ 4 * arena_hi' <= K2.limit
      BY <1>1, <2>3, <2>9 DEF Common
    <3> QED BY <3>1, <3>2, <3>3 DEF Common
  <2>12. PICK y2 : y2 = RightDone(K2, m)
    OBVIOUS
  <2>13. /\ y2.ids = 2 * n /\ y2.off = 0
         /\ y2.mems = {mu \in Mems(K2) : LeftBaseDone(mu, m) /\ RightBaseDone(mu, m)}
    BY <2>12 DEF RightDone
  <2>14. /\ w \in Nat \ {0} /\ w = 2 * H /\ n \in Nat \ {0} /\ n + n = 2 * n
         /\ w + w <= K2.arena
    BY <1>2, <2>8, CallSizes DEF BaseWords
  <2> HIDE DEF w, n, H
  <2>15. ASSUME NEW mu2 \in Mems(K2), Keeps(mem, mu2, w, w, K2.arena),
                Array(mu2, w, w, n, n + n)
         PROVE  mu2 \in y2.mems
    <3>1. Array(mem, 0, w, 0, n)
      BY <2>4 DEF LeftBaseDone, w, n
    <3>2. 0 + w <= K2.arena /\ 0 + w <= w
      BY <2>8, <2>14
    <3>3. Array(mu2, 0, w, 0, n)
      BY <2>8, <2>14, <2>15, <3>1, <3>2, ArrayKept
    <3> QED BY <2>13, <2>14, <2>15, <3>3 DEF LeftBaseDone, RightBaseDone, w, n
  <2>16. Leads(K2, SecondCopy(m), Now(n, 0, mem), y2)
    <3> DEFINE d == ParameterN(m) + 1
    <3>1. SecondCopy(m) = Standalone(d, w)
      BY DEF SecondCopy, w
    <3>2. y2.mems \subseteq Mems(K2) /\ y2.ids = n + n /\ n \in Nat /\ w \in Nat
      BY <2>13, <2>14
    <3> HIDE DEF d
    <3>3. \A mu2 \in Mems(K2) :
            Keeps(mem, mu2, w, BaseWords(m), K2.arena)
            /\ Array(mu2, w, BaseWords(m), n, n + CopyNodes(m)) => mu2 \in y2.mems
      BY <2>15 DEF w, n
    <3>4. y2.ids = n + CopyNodes(m) /\ w + BaseWords(m) <= K2.arena
      BY <2>14, <3>2 DEF w, n
    <3>5. K2.limit = 26 * Pow2[ParameterN(m)]
      BY <2>8 DEF H
    <3>6. Leads(K2, Standalone(d, w), Now(n, 0, mem), y2)
      BY <1>2, <2>4, <2>8, <2>10, <2>13, <3>2, <3>3, <3>4, <3>5, CopyLeads DEF d
    <3> QED BY <3>1, <3>6
  <2>17. Runs(K2, <<SecondCopy(m)>>, Now(next_id', arena_off', mem'), y2)
    BY <2>5, <2>16, RunsOne
  <2>18. todo' = <<SecondCopy(m)>> \o AfterRight
    <3> DEFINE b1 == SecondCopy(m)
               b2 == Outputs
    <3>1. todo' = <<b1, b2>>
      BY <1>1, <2>2, <2>3
    <3> HIDE DEF b1, b2
    <3>2. <<b1>> \o <<b2>> = <<b1, b2>>
      BY OneBefore
    <3> QED BY <3>1, <3>2 DEF b1, b2, AfterRight
  <2>19. PICK rest2 : rest2 = AfterRight
    OBVIOUS
  <2>20. InProgress(K2, rest2, y2)'
    BY <2>11, <2>17, <2>18, <2>19 DEF InProgress
  <2>21. K2 = Context' /\ y2 = RightDone(K2, m')
    BY <1>1, <2>7, <2>12 DEF Context
  <2>22. InRight'
    BY <2>19, <2>20, <2>21 DEF InRight
  <2>23. Accepted'
    BY <1>1, <2>6, AcceptedKept
  <2> QED BY <2>22, <2>23 DEF EmitInv
<1> QED BY <1>4, <1>5

\* The outputs come from the second half of either base array.
OutputOf(mu, h, r) == IF r < h THEN mu[0 + h + r] ELSE mu[2 * h + h + (r - h)]

LEMMA OutputsStep ==
  ASSUME Accepted, InLeft \/ InRight, WriteOutputs
  PROVE  EmitInv'
<1> DEFINE h == HalfW
<1>1. /\ Top("outputs") /\ "outputs" \notin EmitCalls
      /\ out' = [r \in DOMAIN out |-> OutputOf(mem, h, r)]
      /\ todo' = Tail(todo)
      /\ UNCHANGED <<path, m, next_id, arena, arena_off, arena_hi, mem, node, rc>>
  BY DEF WriteOutputs, EmitCalls, OutputOf, LeftBase, RightBase, emitter
<1>2. /\ m \in Nat \ {0} /\ path \in Paths /\ rc = 0 /\ ArenaOf(arena, path, m)
      /\ DOMAIN node = 0 .. ScratchNodeCount(m) - 1 /\ DOMAIN out = 0 .. m - 1
  BY DEF Accepted
<1>3. PICK K : K = Context
  OBVIOUS
<1>4. CASE InLeft
  <2>1. PICK rest, y : rest = AfterLeft(m) /\ InProgress(K, rest, y)
    BY <1>3, <1>4 DEF InLeft
  <2>2. Remainder(rest) /\ Head(rest).fn = "second_half"
    BY <2>1, Remainders
  <2>3. todo = rest
    BY <1>1, <2>1, <2>2, CopyFinished
  <2> QED BY <1>1, <2>2, <2>3 DEF Top
<1>5. CASE InRight
  <2>1. PICK rest, y : rest = AfterRight /\ y = RightDone(K, m) /\ InProgress(K, rest, y)
    BY <1>3, <1>5 DEF InRight
  <2>2. Remainder(rest) /\ Tail(rest) = <<>>
    BY <2>1, Remainders
  <2>3. todo = rest /\ Within(Now(next_id, arena_off, mem), y) /\ Common(K)
    BY <1>1, <2>1, <2>2, CopyFinished, WorkLeft
  <2>4. K = Context'
    BY <1>1, <1>3 DEF Context
  <2>5. Common(K)'
    BY <1>1, <2>3 DEF Common
  <2>6. Within(Now(next_id', arena_off', mem'), RightDone(K, m'))
    BY <1>1, <2>1, <2>3
  <2>7. h' = h /\ HalfW' = h
    BY <1>1 DEF HalfW
  <2>8. \A r \in 0 .. m' - 1 :
          out'[r] = IF r < HalfW' THEN mem'[LeftBase' + HalfW' + r]
                                  ELSE mem'[RightBase' + HalfW' + (r - HalfW')]
    BY <1>1, <1>2, <2>7 DEF OutputOf, LeftBase, RightBase
  <2>9. Finished'
    <3>1. todo' = <<>>
      BY <1>1, <2>2, <2>3
    <3> QED BY <2>4, <2>5, <2>6, <2>8, <3>1 DEF Finished
  <2>10. /\ h \in Nat \ {0} /\ 4 * h <= K.words /\ K.words \in Nat
         /\ m <= 2 * h /\ ScratchNodeCount(m) = 2 * CopyNodes(m) /\ CopyNodes(m) \in Nat
    BY <1>2, <1>3, ChunkFacts, CallSizes DEF Context, HalfW, Machine, BaseWords
  <2>11. next_id = ScratchNodeCount(m) /\ DOMAIN mem = 0 .. K.words - 1 /\ Held(mem, next_id)
    BY <2>1, <2>3, <2>10 DEF Within, Now, RightDone, Common, Mems
  <2>12. ASSUME NEW r \in 0 .. m - 1
         PROVE  out'[r] \in {Unset} \cup 0 .. ScratchNodeCount(m) - 1
    <3>1. out'[r] = OutputOf(mem, h, r)
      BY <1>1, <1>2
    <3> HIDE DEF h
    <3>2. /\ r < h => 0 + h + r \in 0 .. K.words - 1
          /\ ~(r < h) => 2 * h + h + (r - h) \in 0 .. K.words - 1
      BY <1>2, <2>10
    <3> QED BY <2>11, <3>1, <3>2 DEF OutputOf, Held
  <2>13. Accepted'
    <3>1. path' \in Paths /\ rc' = 0 /\ m' \in Nat \ {0} /\ ArenaOf(arena', path', m')
      BY <1>1, <1>2
    <3>2. DOMAIN node' = 0 .. ScratchNodeCount(m') - 1 /\ DOMAIN out' = 0 .. m' - 1
      BY <1>1, <1>2
    <3>3. \A r \in 0 .. m' - 1 : out'[r] \in {Unset} \cup 0 .. ScratchNodeCount(m') - 1
      BY <1>1, <2>12
    <3> QED BY <3>1, <3>2, <3>3 DEF Accepted
  <2> QED BY <2>9, <2>13 DEF EmitInv
<1> QED BY <1>4, <1>5

\* Steps that need an empty list of pending work, and steps that need one that is not.
LEMMA PendingFacts ==
  /\ Accepted /\ (InLeft \/ InRight) => todo # <<>>
  /\ NoCall \/ Refused \/ Finished => todo = <<>>
<1>1. ASSUME InLeft PROVE todo # <<>>
  <2>1. PICK K, rest, y : rest = AfterLeft(m) /\ InProgress(K, rest, y)
    BY <1>1 DEF InLeft
  <2>2. Remainder(rest)
    BY <2>1, Remainders
  <2> QED BY <2>1, <2>2, WorkLeft
<1>2. ASSUME InRight PROVE todo # <<>>
  <2>1. PICK K, rest, y : rest = AfterRight /\ InProgress(K, rest, y)
    BY <1>2 DEF InRight
  <2>2. Remainder(rest)
    BY <2>1, Remainders
  <2> QED BY <2>1, <2>2, WorkLeft
<1>3. NoCall \/ Refused \/ Finished => todo = <<>>
  BY DEF NoCall, Refused, Finished
<1> QED BY <1>1, <1>2, <1>3

LEMMA EmitHasWork ==
  ASSUME Emit \/ StartSecondHalf \/ WriteOutputs
  PROVE  todo # <<>>
BY DEF Emit, StartSecondHalf, WriteOutputs, Top, EmitBatch, EmitConnector, EmitMergedLeaf,
       EmitMerged, EmitSource, EmitStandalone, EmitConnectedLeaf, EmitConnected, LeaveFunction

\* The invariant.
LEMMA EmitInvInductive ==
  /\ EmitInit => EmitInv
  /\ EmitInv /\ [EmitNext]_emitVars => EmitInv'
<1>1. ASSUME EmitInit PROVE EmitInv
  BY <1>1 DEF EmitInit, EmitInv, NoCall
<1>2. ASSUME EmitInv, EmitNext PROVE EmitInv'
  <2>1. ASSUME NEW p \in Paths, NEW k \in BlockCounts, NEW a, NEW ok, Begin(p, k, a, ok)
        PROVE  EmitInv'
    <3>1. k \in Nat
      BY EmitAssumption
    <3> QED BY <2>1, <3>1, BeginKeeps
  <2>2. CASE Emit \/ StartSecondHalf \/ WriteOutputs
    <3>1. Accepted /\ (InLeft \/ InRight)
      BY <1>2, <2>2, EmitHasWork, PendingFacts DEF EmitInv
    <3> QED BY <2>2, <3>1, EmitStep, SecondHalfStep, OutputsStep
  <2>3. CASE AnswerChallenge
    <3>1. todo = <<>> /\ path = "label" /\ rc = 0
          /\ UNCHANGED <<path, m, todo, next_id, arena, arena_off, arena_hi, mem, node, out,
                         ask, rc>>
      BY <2>3 DEF AnswerChallenge, emitter
    <3>2. Accepted /\ Finished
      BY <1>2, <3>1, PendingFacts DEF EmitInv, NoCall, Refused
    <3>3. Accepted'
      BY <3>1, <3>2 DEF Accepted
    <3>4. Finished'
      <4>1. PICK K : /\ K = Context /\ Common(K)
                     /\ Within(Now(next_id, arena_off, mem), RightDone(K, m))
        BY <3>2 DEF Finished
      <4>2. K = Context' /\ Common(K)'
            /\ Within(Now(next_id', arena_off', mem'), RightDone(K, m'))
        BY <3>1, <4>1 DEF Context, Common
      <4>3. HalfW' = HalfW /\ RightBase' = RightBase
        BY <3>1 DEF HalfW, RightBase
      <4>4. \A r \in 0 .. m' - 1 :
              out'[r] = IF r < HalfW' THEN mem'[LeftBase' + HalfW' + r]
                                      ELSE mem'[RightBase' + HalfW' + (r - HalfW')]
        BY <3>1, <3>2, <4>3 DEF Finished
      <4> QED BY <3>1, <4>2, <4>4, <3>2 DEF Finished
    <3> QED BY <3>3, <3>4 DEF EmitInv
  <2>4. CASE Return
    <3>1. NoCall'
      BY <2>4 DEF Return, NoCall
    <3> QED BY <3>1 DEF EmitInv
  <2> QED BY <1>2, <2>1, <2>2, <2>3, <2>4 DEF EmitNext
<1>3. ASSUME EmitInv, UNCHANGED emitVars PROVE EmitInv'
  <2>1. UNCHANGED <<path, m, todo, next_id, arena, arena_off, arena_hi, mem, node, out, rc>>
    BY <1>3 DEF emitVars
  <2> QED BY <1>3, <2>1 DEF EmitInv, NoCall, Refused, Accepted, InLeft, InRight, Finished,
             Context, ArenaAddr, HalfW, LeftBase, RightBase, InProgress, Common
<1> QED BY <1>1, <1>2, <1>3

----------------------------------------------------------------------------
(* What the invariant gives.                                                *)

LEMMA AcceptedFacts ==
  ASSUME Accepted, InLeft \/ InRight \/ Finished
  PROVE  /\ \E K : K = Context /\ Common(K)
         /\ next_id \in Nat /\ next_id <= ScratchNodeCount(m)
         /\ m \in Nat \ {0} /\ CopyNodes(m) \in Nat \ {0}
         /\ ScratchNodeCount(m) = 2 * CopyNodes(m)
         /\ DOMAIN node = 0 .. ScratchNodeCount(m) - 1
<1>1. /\ m \in Nat \ {0} /\ CopyNodes(m) \in Nat \ {0}
      /\ ScratchNodeCount(m) = 2 * CopyNodes(m)
      /\ DOMAIN node = 0 .. ScratchNodeCount(m) - 1
  BY CallSizes DEF Accepted
<1>2. ASSUME InLeft PROVE \E K : K = Context /\ Common(K) /\ next_id <= CopyNodes(m)
  <2>1. PICK K, rest, y : /\ K = Context /\ rest = AfterLeft(m) /\ y = LeftDone(K, m)
                          /\ InProgress(K, rest, y)
    BY <1>2 DEF InLeft
  <2>2. Common(K) /\ next_id <= y.ids
    BY <2>1, Remainders, WorkLeft
  <2> QED BY <2>1, <2>2 DEF LeftDone
<1>3. ASSUME InRight PROVE \E K : K = Context /\ Common(K) /\ next_id <= 2 * CopyNodes(m)
  <2>1. PICK K, rest, y : /\ K = Context /\ rest = AfterRight /\ y = RightDone(K, m)
                          /\ InProgress(K, rest, y)
    BY <1>3 DEF InRight
  <2>2. Common(K) /\ next_id <= y.ids
    BY <2>1, Remainders, WorkLeft
  <2> QED BY <2>1, <2>2 DEF RightDone
<1>4. ASSUME Finished PROVE \E K : K = Context /\ Common(K) /\ next_id = 2 * CopyNodes(m)
  BY <1>4 DEF Finished, Within, Now, RightDone
<1>5. PICK K : K = Context /\ Common(K) /\ \/ next_id <= CopyNodes(m)
                                           \/ next_id <= 2 * CopyNodes(m)
                                           \/ next_id = 2 * CopyNodes(m)
  BY <1>2, <1>3, <1>4
<1>6. next_id \in Nat
  BY <1>5 DEF Common
<1>7. next_id <= 2 * CopyNodes(m)
  <2> DEFINE n == CopyNodes(m)
  <2>1. n \in Nat
    BY <1>1
  <2> HIDE DEF n
  <2> QED BY <1>5, <1>6, <2>1 DEF n
<1> QED BY <1>1, <1>5, <1>6, <1>7

LEMMA RunningFacts ==
  ASSUME EmitInv, Running
  PROVE  Accepted /\ (InLeft \/ InRight \/ Finished)
BY DEF EmitInv, Running, NoCall, Refused

LEMMA InvTypes == EmitInv => EmitTypeOK
<1>1. CASE NoCall \/ Refused
  <2>1. DOMAIN <<>> = {}
    OBVIOUS
  <2> QED BY <1>1, <2>1 DEF NoCall, Refused, EmitTypeOK
<1>2. ASSUME Accepted, InLeft \/ InRight \/ Finished PROVE EmitTypeOK
  <2>1. PICK K : K = Context /\ Common(K)
    BY <1>2, AcceptedFacts
  <2>2. /\ path \in Paths /\ rc = 0
        /\ next_id \in Nat /\ arena_off \in Nat /\ arena_hi \in Nat /\ Held(mem, next_id)
    BY <2>1 DEF Common
  <2>3. /\ next_id <= ScratchNodeCount(m) /\ ScratchNodeCount(m) \in Nat
        /\ DOMAIN node = 0 .. ScratchNodeCount(m) - 1
    BY <1>2, AcceptedFacts
  <2>4. 0 .. next_id - 1 \subseteq DOMAIN node
    BY <2>2, <2>3
  <2>5. \A w \in DOMAIN mem : mem[w] \in {Unset} \cup DOMAIN node
    BY <2>2, <2>4 DEF Held
  <2>6. \A r \in DOMAIN out : out[r] \in {Unset} \cup DOMAIN node
    BY <1>2, <2>3 DEF Accepted
  <2> QED BY <2>2, <2>5, <2>6 DEF EmitTypeOK
<1> QED BY <1>1, <1>2 DEF EmitInv

LEMMA InvArena == EmitInv => ArenaHighWater
<1> SUFFICES ASSUME EmitInv, Running
             PROVE  2 * arena_hi <= 13 * HalfW /\ arena_hi <= ArenaCap
  BY DEF ArenaHighWater
<1>1. Accepted /\ (InLeft \/ InRight \/ Finished)
  BY RunningFacts
<1>2. PICK K : K = Context /\ Common(K)
  BY <1>1, AcceptedFacts
<1>3. K.limit = 26 * HalfW /\ HalfW \in Nat \ {0}
  BY <1>1, <1>2, ChunkFacts DEF Accepted, Context, HalfW
<1>4. arena_hi \in Nat /\ 4 * arena_hi <= 26 * HalfW
  BY <1>2, <1>3 DEF Common
<1>5. 13 * HalfW <= 2 * ArenaCap /\ ArenaCap \in Nat
  <2> DEFINE h == HalfW
             q == ArenaFactor * h
  <2>1. ArenaFactor \in Nat /\ 2 * ArenaFactor >= 13 /\ h \in Nat
    BY <1>3, EmitAssumption
  <2> HIDE DEF h
  <2>2. 13 * h <= (2 * ArenaFactor) * h /\ (2 * ArenaFactor) * h = 2 * q /\ q \in Nat
    BY <2>1, MulMono
  <2> QED BY <2>2 DEF h, ArenaCap
<1> QED BY <1>3, <1>4, <1>5

LEMMA InvHalves == EmitInv => HalvesLineUp
<1> SUFFICES ASSUME EmitInv, Running, Top("second_half") \/ todo = <<>>
             PROVE  /\ arena_off = 0
                    /\ next_id = IF todo = <<>> THEN ScratchNodeCount(m) ELSE CopyNodes(m)
  BY DEF HalvesLineUp, CopyNodes
<1>1. Accepted /\ (InLeft \/ InRight \/ Finished)
  BY RunningFacts
<1>2. ScratchNodeCount(m) = 2 * CopyNodes(m)
  BY <1>1, AcceptedFacts
<1>3. "second_half" \notin EmitCalls
  BY DEF EmitCalls
<1>4. CASE todo = <<>>
  <2>1. Finished
    BY <1>1, <1>4, PendingFacts
  <2> QED BY <1>2, <1>4, <2>1 DEF Finished, Within, Now, RightDone
<1>5. CASE todo # <<>> /\ InLeft
  <2>1. PICK K, rest, y : /\ K = Context /\ rest = AfterLeft(m) /\ y = LeftDone(K, m)
                          /\ InProgress(K, rest, y)
    BY <1>5 DEF InLeft
  <2>2. Within(Now(next_id, arena_off, mem), y)
    BY <1>3, <1>5, <2>1, Remainders, CopyFinished
  <2> QED BY <1>5, <2>1, <2>2 DEF Within, Now, LeftDone
<1>6. CASE todo # <<>> /\ InRight
  <2>1. PICK K, rest, y : rest = AfterRight /\ InProgress(K, rest, y)
    BY <1>6 DEF InRight
  <2>2. Remainder(rest) /\ Head(rest).fn = "outputs"
    BY <2>1, Remainders
  <2>3. todo = rest
    BY <1>3, <1>6, <2>1, <2>2, CopyFinished
  <2> QED BY <1>6, <2>2, <2>3 DEF Top
<1> QED BY <1>1, <1>4, <1>5, <1>6, PendingFacts

LEMMA ElementOf ==
  ASSUME NEW S, NEW s \in Seq(S), NEW j \in DOMAIN s
  PROVE  s[j] \in S
OBVIOUS

LEMMA EmittedFacts ==
  ASSUME Accepted, InLeft \/ InRight \/ Finished
  PROVE  /\ Emitted = 0 .. next_id - 1
         /\ \A id \in Emitted : Canonical(node[id], id)
<1>1. PICK K : Common(K)
  BY AcceptedFacts
<1>2. /\ next_id \in Nat /\ next_id <= ScratchNodeCount(m) /\ ScratchNodeCount(m) \in Nat
      /\ DOMAIN node = 0 .. ScratchNodeCount(m) - 1
  BY AcceptedFacts
<1>3. \A id \in DOMAIN node : /\ id < next_id => Canonical(node[id], id)
                              /\ id >= next_id => node[id] = <<Unset>>
  BY <1>1 DEF Common, Emitting
<1>4. ASSUME NEW id \in DOMAIN node PROVE Canonical(node[id], id) => node[id] # <<Unset>>
  <2> SUFFICES ASSUME Canonical(<<Unset>>, id) PROVE FALSE
    OBVIOUS
  <2> DEFINE s == <<Unset>>
  <2>1. s \in Seq(0 .. id - 1)
    BY DEF Canonical
  <2>2. Len(s) = 1 /\ s[1] = Unset
    OBVIOUS
  <2> HIDE DEF s
  <2>3. s[1] \in 0 .. id - 1
    <3>1. 1 \in DOMAIN s
      BY DEF s
    <3> QED BY <2>1, <3>1, ElementOf
  <2> QED BY <2>2, <2>3 DEF Unset
<1>5. ASSUME NEW id \in DOMAIN node PROVE id \in Emitted <=> id < next_id
  <2>1. id \in Nat
    BY <1>2
  <2>2. id < next_id \/ id >= next_id
    BY <1>2, <2>1
  <2> QED BY <1>3, <1>4, <1>2, <2>1, <2>2 DEF Emitted
<1>6. Emitted = 0 .. next_id - 1
  <2>1. Emitted \subseteq DOMAIN node
    BY DEF Emitted
  <2>2. 0 .. next_id - 1 \subseteq DOMAIN node /\ \A id \in DOMAIN node : id \in Nat
    BY <1>2
  <2>3. \A id \in DOMAIN node : id < next_id <=> id \in 0 .. next_id - 1
    BY <1>2, <2>2
  <2> QED BY <1>5, <2>1, <2>2, <2>3
<1>7. ASSUME NEW id \in Emitted PROVE Canonical(node[id], id)
  BY <1>3, <1>5 DEF Emitted
<1> QED BY <1>6, <1>7

LEMMA InvPreds == EmitInv => PredsCanonical
<1> SUFFICES ASSUME EmitInv, Running
             PROVE  /\ Emitted = 0 .. next_id - 1
                    /\ \A id \in Emitted :
                         /\ \A k \in DOMAIN node[id] : node[id][k] \in 0 .. id - 1
                         /\ Len(node[id]) = 2 => node[id][1] < node[id][2]
  BY DEF PredsCanonical
<1>1. /\ Emitted = 0 .. next_id - 1
      /\ \A id \in Emitted : Canonical(node[id], id)
  BY RunningFacts, EmittedFacts
<1>2. ASSUME NEW id, NEW ps, Canonical(ps, id)
      PROVE  /\ \A k \in DOMAIN ps : ps[k] \in 0 .. id - 1
             /\ Len(ps) = 2 => ps[1] < ps[2]
  BY <1>2, ElementOf DEF Canonical
<1> QED BY <1>1, <1>2

\* Two outputs are labels of two nodes.
LEMMA OutputsApart ==
  ASSUME NEW mu, NEW h \in Nat \ {0}, NEW n \in Nat,
         Array(mu, 0, 2 * h, 0, n), Array(mu, 2 * h, 2 * h, n, 2 * n)
  PROVE  /\ \A r \in 0 .. 2 * h - 1 : OutputOf(mu, h, r) \in 0 .. 2 * n - 1
         /\ \A q, r \in 0 .. 2 * h - 1 : q < r => OutputOf(mu, h, q) < OutputOf(mu, h, r)
<1>1. ASSUME NEW r \in 0 .. h - 1
      PROVE  /\ h + r \in 0 .. 2 * h - 1
             /\ OutputOf(mu, h, r) = mu[0 + (h + r)] /\ OutputOf(mu, h, r) \in 0 .. n - 1
  <2>1. h + r \in 0 .. 2 * h - 1 /\ r < h /\ 0 + h + r = 0 + (h + r)
    OBVIOUS
  <2>2. OutputOf(mu, h, r) = mu[0 + (h + r)]
    BY <2>1 DEF OutputOf
  <2> QED BY <2>1, <2>2 DEF Array
<1>2. ASSUME NEW r \in 0 .. 2 * h - 1, ~(r < h)
      PROVE  /\ OutputOf(mu, h, r) = mu[2 * h + r]
             /\ OutputOf(mu, h, r) \in n .. 2 * n - 1
  <2>1. 2 * h + h + (r - h) = 2 * h + r
    OBVIOUS
  <2>2. OutputOf(mu, h, r) = mu[2 * h + r]
    BY <1>2, <2>1 DEF OutputOf
  <2> QED BY <2>2 DEF Array
<1>3. ASSUME NEW r \in 0 .. 2 * h - 1 PROVE OutputOf(mu, h, r) \in 0 .. 2 * n - 1
  <2>1. CASE r < h
    BY <1>1, <2>1
  <2>2. CASE ~(r < h)
    BY <1>2, <2>2
  <2> QED BY <2>1, <2>2
<1>4. ASSUME NEW q \in 0 .. 2 * h - 1, NEW r \in 0 .. 2 * h - 1, q < r
      PROVE  OutputOf(mu, h, q) < OutputOf(mu, h, r)
  <2>1. CASE r < h
    <3>1. q \in 0 .. h - 1 /\ r \in 0 .. h - 1 /\ h + q < h + r
      BY <1>4, <2>1
    <3> QED BY <1>1, <3>1 DEF Array
  <2>2. CASE q < h /\ ~(r < h)
    BY <1>1, <1>2, <2>2
  <2>3. CASE ~(q < h)
    <3>1. ~(r < h)
      BY <1>4, <2>3
    <3> QED BY <1>2, <1>4, <2>3, <3>1 DEF Array
  <2> QED BY <2>1, <2>2, <2>3
<1> QED BY <1>3, <1>4

LEMMA InvEdges == EmitInv => EdgeListDelivered
<1> SUFFICES ASSUME EmitInv, Running, todo = <<>> PROVE IsEdgeList(RecordedEdges, m)
  BY DEF EdgeListDelivered
<1> DEFINE N == ScratchNodeCount(m)
           h == HalfW
           g == RecordedEdges
           pred == [i \in 1 .. N |-> node[i - 1]]
           outs == [r \in 1 .. m |-> out[r - 1]]
<1>1. Accepted /\ Finished
  BY RunningFacts, PendingFacts
<1>2. /\ m \in Nat \ {0} /\ N = 2 * CopyNodes(m) /\ CopyNodes(m) \in Nat \ {0}
      /\ h \in Nat \ {0} /\ BaseWords(m) = 2 * h /\ m <= 2 * h
  BY <1>1, AcceptedFacts, CallSizes DEF HalfW, BaseWords
<1>3. g.pred = pred /\ g.out = outs
  BY DEF RecordedEdges
<1>4. next_id = N
  BY <1>1, <1>2 DEF Finished, Within, Now, RightDone
<1>5. Acyclic(pred) /\ Len(pred) = N
  <2>1. N \in Nat
    BY <1>2
  <2>2. ASSUME NEW i \in 1 .. N PROVE node[i - 1] \in Seq(0 .. i - 2)
    <3>1. i - 1 \in Emitted
      <4>1. i - 1 \in 0 .. N - 1
        BY <2>1
      <4> HIDE DEF N
      <4> QED BY <1>1, <1>4, <4>1, EmittedFacts
    <3>2. Canonical(node[i - 1], i - 1)
      BY <1>1, <3>1, EmittedFacts
    <3>3. (i - 1) - 1 = i - 2
      BY <2>1
    <3> QED BY <3>2, <3>3 DEF Canonical
  <2> HIDE DEF N
  <2>3. Len(pred) = N /\ \A i \in 1 .. N : pred[i] = node[i - 1]
    BY <2>1
  <2>4. pred = [i \in 1 .. Len(pred) |-> pred[i]]
    BY <2>3
  <2> HIDE DEF pred
  <2> QED BY <2>1, <2>2, <2>3, <2>4 DEF Acyclic
<1>6. PICK K : /\ K = Context /\ Within(Now(next_id, arena_off, mem), RightDone(K, m))
  BY <1>1 DEF Finished
<1>7. LeftBaseDone(mem, m) /\ RightBaseDone(mem, m)
  BY <1>6 DEF Within, Now, RightDone
<1>8. /\ \A r \in 0 .. 2 * h - 1 : OutputOf(mem, h, r) \in 0 .. N - 1
      /\ \A q, r \in 0 .. 2 * h - 1 : q < r => OutputOf(mem, h, q) < OutputOf(mem, h, r)
  <2> DEFINE n == CopyNodes(m)
  <2>1. Array(mem, 0, 2 * h, 0, n) /\ Array(mem, 2 * h, 2 * h, n, 2 * n) /\ n \in Nat
        /\ N = 2 * n
    BY <1>2, <1>7 DEF LeftBaseDone, RightBaseDone
  <2> HIDE DEF n, h, N
  <2> QED BY <1>2, <2>1, OutputsApart
<1>9. \A r \in 0 .. m - 1 : out[r] = OutputOf(mem, h, r)
  BY <1>1 DEF Finished, OutputOf, LeftBase, RightBase
<1> HIDE DEF N, h, pred, g
<1>10. Len(outs) = m /\ \A r \in 1 .. m : outs[r] = out[r - 1] /\ r - 1 \in 0 .. m - 1
  BY <1>2
<1>11. \A r \in 0 .. m - 1 : r \in 0 .. 2 * h - 1 /\ out[r] \in 0 .. N - 1
  <2>1. \A r \in 0 .. m - 1 : r \in 0 .. 2 * h - 1
    BY <1>2
  <2> QED BY <1>8, <1>9, <2>1
<1>12. outs \in Seq(0 .. N - 1)
  <2>1. \A r \in 1 .. m : out[r - 1] \in 0 .. N - 1
    BY <1>10, <1>11
  <2> DEFINE S == 0 .. N - 1
  <2>2. \A r \in 1 .. m : out[r - 1] \in S
    BY <2>1
  <2> HIDE DEF S
  <2>3. outs \in Seq(S)
    BY <1>2, <2>2
  <2> QED BY <2>3 DEF S
<1>13. ASSUME NEW i \in 1 .. m, NEW j \in 1 .. m, outs[i] = outs[j] PROVE i = j
  <2>1. /\ out[i - 1] = out[j - 1] /\ i - 1 \in 0 .. m - 1 /\ j - 1 \in 0 .. m - 1
    BY <1>10, <1>13
  <2>2. /\ ~(OutputOf(mem, h, i - 1) < OutputOf(mem, h, j - 1))
        /\ ~(OutputOf(mem, h, j - 1) < OutputOf(mem, h, i - 1))
    <3>1. /\ OutputOf(mem, h, i - 1) = OutputOf(mem, h, j - 1)
          /\ OutputOf(mem, h, i - 1) \in 0 .. N - 1
      BY <1>8, <1>9, <1>11, <2>1
    <3> QED BY <1>2, <3>1
  <2>3. ~(i - 1 < j - 1) /\ ~(j - 1 < i - 1)
    BY <1>8, <1>11, <2>1, <2>2
  <2> QED BY <1>2, <2>3
<1>14. Len(pred) # 0
  BY <1>2, <1>5
<1> HIDE DEF outs
<1> QED BY <1>3, <1>5, <1>10, <1>12, <1>13, <1>14 DEF IsEdgeList, g

----------------------------------------------------------------------------
(* The theorems.                                                            *)

\* In every state the emitter is idle, has refused the call, is at work on one
\* copy of the graph with an arena that the pending calls cannot exhaust and that
\* keeps every array they still read, or has written the outputs of both copies.
THEOREM EmitInvariant == EmitSpec => []EmitInv
<1>1. EmitInit => EmitInv
  BY EmitInvInductive
<1>2. EmitInv /\ [EmitNext]_emitVars => EmitInv'
  BY EmitInvInductive
<1> QED BY <1>1, <1>2, PTL DEF EmitSpec

\* The words of memory and the caller's buffer hold nothing or a label of a node of
\* the graph, and a refused call writes nothing: do_label, do_label_inplace and
\* pose_graph_edges for every chunk size and every batch size.
THEOREM EmitTyping == EmitSpec => []EmitTypeOK
<1>1. EmitInv => EmitTypeOK
  BY InvTypes
<1> QED BY <1>1, EmitInvariant, PTL

\* arena_alloc never goes beyond 6.5 * half_w words, so that an arena of
\* POSE_ARENA_FACTOR * half_w words is enough, for every chunk size.
THEOREM ArenaSuffices == EmitSpec => []ArenaHighWater
<1>1. EmitInv => ArenaHighWater
  BY InvArena
<1> QED BY <1>1, EmitInvariant, PTL

\* When a copy of the graph ends, next_id is what the node-count formulae say and
\* the arena is empty: the edge recorder's id counter, which is never set, agrees
\* with the ids that the labellers start the second copy from.
THEOREM CopiesLineUp == EmitSpec => []HalvesLineUp
<1>1. EmitInv => HalvesLineUp
  BY InvHalves
<1> QED BY <1>1, EmitInvariant, PTL

\* No node is skipped, every predecessor is an earlier node, and every pair is hashed
\* lower id first: by the comparison of emit2 and by position in do_label_inplace.
THEOREM CanonicalOrder == EmitSpec => []PredsCanonical
<1>1. EmitInv => PredsCanonical
  BY InvPreds
<1> QED BY <1>1, EmitInvariant, PTL

\* What pose_graph_edges returns is a schedule with m different outputs, as
\* pose_graph_hbm_topo_build and pose_graph_slot_map need it.
THEOREM RecorderDelivers == EmitSpec => []EdgeListDelivered
<1>1. EmitInv => EdgeListDelivered
  BY InvEdges
<1> QED BY <1>1, EmitInvariant, PTL

----------------------------------------------------------------------------
(* PART 2: slot map and kernels.                                            *)
----------------------------------------------------------------------------
(* Sets and sequences.                                                      *)

\* A bounded set of naturals has a greatest element.
LEMMA GreatestElement ==
  ASSUME NEW S \in SUBSET Nat, S # {}, NEW b \in Nat, \A x \in S : x <= b
  PROVE  Max(S) \in S /\ \A y \in S : y <= Max(S)
<1> DEFINE D == {b - x : x \in S}
           mm == Min(D)
<1>1. D \in SUBSET Nat /\ D # {}
  <2>1. \A x \in S : b - x \in Nat
    OBVIOUS
  <2>2. PICK x \in S : TRUE
    OBVIOUS
  <2>3. b - x \in D
    OBVIOUS
  <2> QED BY <2>1, <2>3
<1>2. mm \in D /\ \A y \in D : mm <= y
  BY <1>1, LeastElement
<1>3. PICK x \in S : mm = b - x
  BY <1>2
<1>4. ASSUME NEW y \in S PROVE x >= y
  <2>1. b - y \in D
    OBVIOUS
  <2>2. mm <= b - y /\ x \in Nat /\ y \in Nat
    BY <1>2, <2>1
  <2> QED BY <1>3, <2>2
<1>5. \E z \in S : \A y \in S : z >= y
  BY <1>4
<1> QED BY <1>5 DEF Max

\* A sequence is a function.
LEMMA SeqIsFunction ==
  ASSUME NEW S, NEW s \in Seq(S)
  PROVE  s \in [1 .. Len(s) -> S]
OBVIOUS

----------------------------------------------------------------------------
(* Levels.                                                                  *)

\* level[] after i nodes: a node's level is at most its id.
LevelTable(i) == {s \in [1 .. i -> Nat] : \A j \in 1 .. i : s[j] < j}

\* A node is above its predecessors, and at most as many levels up as it has
\* nodes before it.
LEMMA LevelOfRange ==
  ASSUME NEW i \in Nat \ {0}, NEW s \in LevelTable(i - 1), NEW p \in Seq(0 .. i - 2)
  PROVE  /\ LevelOf(s, p) \in 0 .. i - 1
         /\ \A k \in DOMAIN p : s[p[k] + 1] < LevelOf(s, p)
<1>1. CASE p = <<>>
  BY <1>1 DEF LevelOf
<1>2. CASE p # <<>>
  <2> DEFINE R == {s[p[k] + 1] : k \in DOMAIN p}
  <2>1. ASSUME NEW k \in DOMAIN p PROVE s[p[k] + 1] \in Nat /\ s[p[k] + 1] <= i - 2
    <3>1. p[k] \in 0 .. i - 2
      OBVIOUS
    <3>2. p[k] + 1 \in 1 .. i - 1
      BY <3>1
    <3> QED BY <3>1, <3>2 DEF LevelTable
  <2>2. 1 \in DOMAIN p
    BY <1>2
  <2>3. R \in SUBSET Nat /\ R # {} /\ \A x \in R : x <= i - 2
    BY <2>1, <2>2
  <2>4. i - 2 \in Nat
    <3>1. p[1] \in 0 .. i - 2
      BY <2>2
    <3> QED BY <3>1
  <2>5. Max(R) \in R /\ \A y \in R : y <= Max(R)
    <3> HIDE DEF R
    <3> QED BY <2>3, <2>4, GreatestElement
  <2>6. LevelOf(s, p) = 1 + Max(R)
    BY <1>2 DEF LevelOf
  <2>7. Max(R) \in Nat /\ Max(R) <= i - 2
    BY <2>3, <2>5
  <2>8. ASSUME NEW k \in DOMAIN p PROVE s[p[k] + 1] < LevelOf(s, p)
    <3>1. s[p[k] + 1] \in R
      OBVIOUS
    <3> HIDE DEF R
    <3> QED BY <2>1, <2>5, <2>6, <2>7, <3>1
  <2> HIDE DEF R
  <2> QED BY <2>6, <2>7, <2>8
<1> QED BY <1>1, <1>2

\* The forward pass over the nodes.
LEMMA LevelsRun ==
  ASSUME NEW pred, Acyclic(pred)
  PROVE  \E after : /\ Levels(pred) = after[Len(pred)]
                    /\ after[0] = <<>>
                    /\ \A i \in 1 .. Len(pred) :
                         after[i] = Append(after[i - 1], LevelOf(after[i - 1], pred[i]))
                    /\ \A i \in 0 .. Len(pred) : after[i] \in LevelTable(i)
<1> DEFINE n == Len(pred)
           Body(s, i) == Append(s, LevelOf(s, pred[i]))
           Sum(f) == [i \in 0 .. n |-> IF i = 0 THEN <<>>
                        ELSE CHOOSE r \in {Body(s, i) : s \in {f[i - 1]}} : TRUE]
           after == CHOOSE f : f = Sum(f)
           T == [i \in 0 .. n |-> LevelTable(i)]
           All == UNION {LevelTable(i) : i \in 0 .. n}
           body == [p \in All \X (1 .. n) |-> Body(p[1], p[2])]
<1>1. Levels(pred) = after[n]
  BY DEF Levels, Loop
<1>2. n \in Nat
  BY DEF Acyclic
<1>3. ASSUME NEW i \in 1 .. n, NEW s \in LevelTable(i - 1) PROVE Body(s, i) \in LevelTable(i)
  <2>1. pred[i] \in Seq(0 .. i - 2) /\ i \in Nat \ {0}
    BY <1>2 DEF Acyclic
  <2>2. LevelOf(s, pred[i]) \in 0 .. i - 1
    BY <2>1, LevelOfRange
  <2>3. s \in Seq(Nat) /\ Len(s) = i - 1
    BY <2>1 DEF LevelTable
  <2> DEFINE v == LevelOf(s, pred[i])
  <2> HIDE DEF v
  <2>4. v \in Nat /\ v < i
    BY <2>1, <2>2 DEF v
  <2>5. Append(s, v) \in [1 .. i -> Nat] /\ Append(s, v)[i] = v
    <3> DEFINE t == Append(s, v)
    <3>1. t \in Seq(Nat) /\ Len(t) = i
      BY <2>1, <2>3, <2>4
    <3>2. t[Len(s) + 1] = v
      BY <2>3, <2>4
    <3>3. Len(s) + 1 = i
      BY <2>1, <2>3
    <3> HIDE DEF v, t
    <3>4. t \in [1 .. i -> Nat]
      BY <3>1, SeqIsFunction
    <3> QED BY <3>2, <3>3, <3>4 DEF t
  <2>6. \A j \in 1 .. i - 1 : Append(s, v)[j] = s[j]
    BY <2>1, <2>3, <2>4
  <2>7. ASSUME NEW j \in 1 .. i PROVE Append(s, v)[j] < j
    <3>1. CASE j = i BY <2>4, <2>5, <3>1
    <3>2. CASE j # i
      <4>1. j \in 1 .. i - 1
        BY <2>1, <3>2
      <4> QED BY <2>6, <4>1 DEF LevelTable
    <3> QED BY <3>1, <3>2
  <2> QED BY <2>5, <2>7 DEF LevelTable, v
<1>4. <<>> \in T[0]
  BY <1>2 DEF LevelTable
<1>5. \A i \in 1 .. n : \A s \in T[i - 1] : body[<<s, i>>] = Body(s, i) /\ body[<<s, i>>] \in T[i]
  <2> SUFFICES ASSUME NEW i \in 1 .. n, NEW s \in T[i - 1]
               PROVE  body[<<s, i>>] = Body(s, i) /\ body[<<s, i>>] \in T[i]
    OBVIOUS
  <2>1. i - 1 \in 0 .. n /\ i \in 0 .. n
    BY <1>2
  <2>2. s \in LevelTable(i - 1)
    BY <2>1
  <2>3. <<s, i>> \in All \X (1 .. n)
    BY <2>1, <2>2
  <2> HIDE DEF Body, All
  <2> QED BY <1>3, <2>1, <2>2, <2>3
<1> HIDE DEF Body, body
<1>6. PICK f : IsRun(f, n, T, <<>>, body)
  <2>1. \A i \in 1 .. n : \A s \in T[i - 1] : body[<<s, i>>] \in T[i]
    BY <1>5
  <2> HIDE DEF T, n
  <2> QED BY <1>2, <1>4, <2>1, LoopRun
<1>7. f = Sum(f)
  <2>1. \A i \in 1 .. n : f[i] = CHOOSE r \in {Body(s, i) : s \in {f[i - 1]}} : TRUE
    <3> SUFFICES ASSUME NEW i \in 1 .. n
                 PROVE  f[i] = CHOOSE r \in {Body(s, i) : s \in {f[i - 1]}} : TRUE
      OBVIOUS
    <3>1. i - 1 \in 0 .. n
      BY <1>2
    <3>2. f[i] = Body(f[i - 1], i)
      BY <1>5, <1>6, <3>1 DEF IsRun
    <3> QED BY <3>2
  <2>2. f = [i \in 0 .. n |-> f[i]] /\ f[0] = <<>>
    BY <1>6 DEF IsRun
  <2>3. \A i \in 0 .. n : i # 0 => i \in 1 .. n
    BY <1>2
  <2> QED BY <2>1, <2>2, <2>3
<1>8. after = Sum(after)
  <2> HIDE DEF Sum
  <2> QED BY <1>7
<1> HIDE DEF after
<1>9. after[0] = <<>> /\ \A i \in 1 .. n : after[i] = Body(after[i - 1], i)
  <2>1. \A i \in 0 .. n : after[i] = IF i = 0 THEN <<>>
                        ELSE CHOOSE r \in {Body(s, i) : s \in {after[i - 1]}} : TRUE
    BY <1>8
  <2>2. \A i \in 1 .. n : i \in 0 .. n /\ i # 0
    BY <1>2
  <2>3. \A i \in 1 .. n : (CHOOSE r \in {Body(s, i) : s \in {after[i - 1]}} : TRUE)
                            = Body(after[i - 1], i)
    OBVIOUS
  <2>4. 0 \in 0 .. n
    BY <1>2
  <2> QED BY <2>1, <2>2, <2>3, <2>4
<1>10. \A i \in 0 .. n : after[i] \in LevelTable(i)
  <2>1. \A i \in 1 .. n : after[i - 1] \in T[i - 1] => after[i] \in T[i]
    <3>1. \A i \in 1 .. n : i - 1 \in 0 .. n /\ i \in 0 .. n
      BY <1>2
    <3> QED BY <1>5, <1>9, <3>1
  <2>2. \A i \in 0 .. n : after[i] \in T[i]
    <3> HIDE DEF T, n
    <3> QED BY <1>2, <1>4, <1>9, <2>1, LoopStates
  <2> QED BY <2>2
<1> QED BY <1>1, <1>9, <1>10 DEF Body

----------------------------------------------------------------------------
(* Buckets.                                                                 *)

\* s lists every element of S once.
Enumerates(s, S) ==
  /\ s \in Seq(S)
  /\ \A x \in S : \E k \in 1 .. Len(s) : s[k] = x
  /\ \A j, k \in 1 .. Len(s) : s[j] = s[k] => j = k

\* A new element at the end of an enumeration.
LEMMA EnumeratesAppend ==
  ASSUME NEW S, NEW s, Enumerates(s, S), NEW x, x \notin S
  PROVE  Enumerates(Append(s, x), S \cup {x})
<1> DEFINE t == Append(s, x)
<1>1. s \in Seq(S) /\ s \in Seq(S \cup {x}) /\ Len(s) \in Nat
  BY DEF Enumerates
<1>2. t \in Seq(S \cup {x}) /\ Len(t) = Len(s) + 1 /\ t[Len(s) + 1] = x
  BY <1>1
<1>3. \A k \in 1 .. Len(s) : t[k] = s[k] /\ s[k] \in S /\ k \in 1 .. Len(s) + 1
  BY <1>1
<1>4. \A k \in 1 .. Len(s) + 1 : k \in 1 .. Len(s) \/ k = Len(s) + 1
  BY <1>1
<1>5. Len(s) + 1 \in 1 .. Len(s) + 1
  BY <1>1
<1> HIDE DEF t
<1>6. ASSUME NEW y \in S \cup {x} PROVE \E k \in 1 .. Len(t) : t[k] = y
  <2>1. CASE y = x BY <1>2, <1>5, <2>1
  <2>2. CASE y \in S
    <3>1. PICK k \in 1 .. Len(s) : s[k] = y
      BY <2>2 DEF Enumerates
    <3> QED BY <1>2, <1>3, <3>1
  <2> QED BY <2>1, <2>2
<1>7. ASSUME NEW j \in 1 .. Len(t), NEW k \in 1 .. Len(t), t[j] = t[k] PROVE j = k
  <2>1. CASE j \in 1 .. Len(s) /\ k \in 1 .. Len(s)
    BY <1>3, <1>7, <2>1 DEF Enumerates
  <2>2. CASE j = Len(s) + 1 /\ k = Len(s) + 1
    BY <2>2
  <2>3. CASE j = Len(s) + 1 /\ k \in 1 .. Len(s)
    BY <1>2, <1>3, <1>7, <2>3
  <2>4. CASE j \in 1 .. Len(s) /\ k = Len(s) + 1
    BY <1>2, <1>3, <1>7, <2>4
  <2> QED BY <1>2, <1>4, <2>1, <2>2, <2>3, <2>4
<1> QED BY <1>2, <1>6, <1>7 DEF Enumerates, t

\* The nodes before the first i whose entry is e.
Entries(f, e, i) == {x \in 0 .. i - 1 : f[x + 1] = e}

\* A bucket lists the nodes of its entry.
LEMMA BucketEnumerates ==
  ASSUME NEW n \in Nat, NEW f \in [1 .. n -> Nat], NEW e
  PROVE  Enumerates(Bucket(f, e), Entries(f, e, n))
<1> DEFINE Body(s, i) == IF f[i] = e THEN Append(s, i - 1) ELSE s
           Sum(g) == [i \in 0 .. n |-> IF i = 0 THEN <<>>
                        ELSE CHOOSE r \in {Body(s, i) : s \in {g[i - 1]}} : TRUE]
           after == CHOOSE g : g = Sum(g)
           R(i) == {s \in Seq(Nat) : Enumerates(s, Entries(f, e, i))}
           T == [i \in 0 .. n |-> R(i)]
           body == [p \in Seq(Nat) \X (1 .. n) |-> Body(p[1], p[2])]
<1>1. Bucket(f, e) = after[n]
  <2>1. Len(f) = n
    OBVIOUS
  <2> QED BY <2>1 DEF Bucket, Loop
<1>3. ASSUME NEW i \in 1 .. n, NEW s \in R(i - 1) PROVE Body(s, i) \in R(i)
  <2>1. i - 1 \in Nat /\ (i - 1) + 1 = i /\ i - 1 \notin Entries(f, e, i - 1)
    BY DEF Entries
  <2>2. CASE f[i] = e
    <3>1. Entries(f, e, i) = Entries(f, e, i - 1) \cup {i - 1}
      BY <2>1, <2>2 DEF Entries
    <3>2. Enumerates(Append(s, i - 1), Entries(f, e, i))
      BY <2>1, <3>1, EnumeratesAppend
    <3>3. Append(s, i - 1) \in Seq(Nat)
      BY <2>1
    <3> QED BY <2>2, <3>2, <3>3
  <2>3. CASE f[i] # e
    <3>1. Entries(f, e, i) = Entries(f, e, i - 1)
      BY <2>1, <2>3 DEF Entries
    <3> QED BY <2>3, <3>1
  <2> QED BY <2>2, <2>3
<1>4. <<>> \in T[0]
  <2>1. Entries(f, e, 0) = {}
    BY DEF Entries
  <2> QED BY <2>1 DEF Enumerates
<1>5. \A i \in 1 .. n : \A s \in T[i - 1] : body[<<s, i>>] = Body(s, i) /\ body[<<s, i>>] \in T[i]
  <2> SUFFICES ASSUME NEW i \in 1 .. n, NEW s \in T[i - 1]
               PROVE  body[<<s, i>>] = Body(s, i) /\ body[<<s, i>>] \in T[i]
    OBVIOUS
  <2>1. i - 1 \in 0 .. n /\ i \in 0 .. n
    OBVIOUS
  <2>2. s \in R(i - 1)
    BY <2>1
  <2>3. <<s, i>> \in Seq(Nat) \X (1 .. n)
    BY <2>1, <2>2
  <2> HIDE DEF Body
  <2>4. body[<<s, i>>] = Body(s, i)
    BY <2>3
  <2>5. Body(s, i) \in R(i)
    BY <1>3, <2>2
  <2> HIDE DEF R
  <2> QED BY <2>1, <2>4, <2>5
<1> HIDE DEF Body, body
<1>6. PICK g : IsRun(g, n, T, <<>>, body)
  <2>1. \A i \in 1 .. n : \A s \in T[i - 1] : body[<<s, i>>] \in T[i]
    BY <1>5
  <2> HIDE DEF T
  <2> QED BY <1>4, <2>1, LoopRun
<1> HIDE DEF R
<1>7. g = Sum(g)
  <2>1. \A i \in 1 .. n : g[i] = CHOOSE r \in {Body(s, i) : s \in {g[i - 1]}} : TRUE
    <3> SUFFICES ASSUME NEW i \in 1 .. n
                 PROVE  g[i] = CHOOSE r \in {Body(s, i) : s \in {g[i - 1]}} : TRUE
      OBVIOUS
    <3>1. i - 1 \in 0 .. n
      OBVIOUS
    <3>2. g[i] = Body(g[i - 1], i)
      BY <1>5, <1>6, <3>1 DEF IsRun
    <3> QED BY <3>2
  <2>2. g = [i \in 0 .. n |-> g[i]] /\ g[0] = <<>>
    BY <1>6 DEF IsRun
  <2>3. \A i \in 0 .. n : i # 0 => i \in 1 .. n
    OBVIOUS
  <2> QED BY <2>1, <2>2, <2>3
<1>8. after = Sum(after)
  <2> HIDE DEF Sum
  <2> QED BY <1>7
<1> HIDE DEF after
<1>9. after[0] = <<>> /\ \A i \in 1 .. n : after[i] = Body(after[i - 1], i)
  <2>1. \A i \in 0 .. n : after[i] = IF i = 0 THEN <<>>
                        ELSE CHOOSE r \in {Body(s, i) : s \in {after[i - 1]}} : TRUE
    BY <1>8
  <2>2. \A i \in 1 .. n : i \in 0 .. n /\ i # 0
    OBVIOUS
  <2>3. \A i \in 1 .. n : (CHOOSE r \in {Body(s, i) : s \in {after[i - 1]}} : TRUE)
                            = Body(after[i - 1], i)
    OBVIOUS
  <2>4. 0 \in 0 .. n
    OBVIOUS
  <2> QED BY <2>1, <2>2, <2>3, <2>4
<1>10. after[n] \in R(n)
  <2>1. \A i \in 1 .. n : after[i - 1] \in T[i - 1] => after[i] \in T[i]
    <3>1. \A i \in 1 .. n : i - 1 \in 0 .. n /\ i \in 0 .. n
      OBVIOUS
    <3> QED BY <1>5, <1>9, <3>1
  <2>2. \A i \in 0 .. n : after[i] \in T[i]
    <3> HIDE DEF T
    <3> QED BY <1>4, <1>9, <2>1, LoopStates
  <2> QED BY <2>2
<1> QED BY <1>1, <1>10 DEF R

----------------------------------------------------------------------------
(* The levels a graph is scheduled by.                                      *)

\* Predecessors are on lower levels.
LevelsSound(pred, level) ==
  /\ level \in LevelTable(Len(pred))
  /\ \A i \in 1 .. Len(pred) : \A k \in DOMAIN pred[i] : level[pred[i][k] + 1] < level[i]

\* The forward pass puts every node above its predecessors.
LEMMA LevelsAreSound ==
  ASSUME NEW pred, Acyclic(pred)
  PROVE  LevelsSound(pred, Levels(pred))
<1> DEFINE n == Len(pred)
<1>1. PICK after : /\ Levels(pred) = after[n]
                   /\ after[0] = <<>>
                   /\ \A i \in 1 .. n :
                        after[i] = Append(after[i - 1], LevelOf(after[i - 1], pred[i]))
                   /\ \A i \in 0 .. n : after[i] \in LevelTable(i)
  BY LevelsRun
<1>2. n \in Nat /\ \A i \in 1 .. n : pred[i] \in Seq(0 .. i - 2)
  BY DEF Acyclic
<1> HIDE DEF n
<1>3. ASSUME NEW i \in 1 .. n
      PROVE  /\ after[i][i] = LevelOf(after[i - 1], pred[i])
             /\ \A j \in 1 .. i - 1 : after[i][j] = after[i - 1][j]
  <2>1. after[i - 1] \in LevelTable(i - 1)
    BY <1>1, <1>2
  <2>2. after[i - 1] \in Seq(Nat) /\ Len(after[i - 1]) = i - 1
    BY <1>2, <2>1 DEF LevelTable
  <2> DEFINE v == LevelOf(after[i - 1], pred[i])
             s == after[i - 1]
  <2>3. after[i] = Append(s, v)
    BY <1>1
  <2> HIDE DEF v, s
  <2>4. Append(s, v)[i] = v /\ \A j \in 1 .. i - 1 : Append(s, v)[j] = s[j]
    BY <2>2, <1>2 DEF s
  <2> QED BY <2>3, <2>4 DEF v, s
<1> DEFINE T == [i \in 0 .. n |->
                   {s \in LevelTable(i) : \A j \in 1 .. i : s[j] = after[j][j]}]
<1>4. after[0] \in T[0]
  BY <1>1, <1>2
<1>5. \A i \in 1 .. n : after[i - 1] \in T[i - 1] => after[i] \in T[i]
  <2> SUFFICES ASSUME NEW i \in 1 .. n, after[i - 1] \in T[i - 1]
               PROVE  after[i] \in T[i]
    OBVIOUS
  <2>1. i - 1 \in 0 .. n /\ i \in 0 .. n
    BY <1>2
  <2>2. \A j \in 1 .. i - 1 : after[i - 1][j] = after[j][j]
    BY <2>1
  <2>3. \A j \in 1 .. i : j \in 1 .. i - 1 \/ j = i
    BY <1>2
  <2>4. \A j \in 1 .. i : after[i][j] = after[j][j]
    BY <1>3, <2>2, <2>3
  <2> QED BY <1>1, <2>1, <2>4
<1>6. \A i \in 0 .. n : after[i] \in T[i]
  <2> HIDE DEF T
  <2> QED BY <1>2, <1>4, <1>5, LoopStates
<1>7. \A i \in 0 .. n : \A j \in 1 .. i : after[i][j] = after[j][j]
  BY <1>6
<1>8. ASSUME NEW i \in 1 .. n, NEW k \in DOMAIN pred[i]
      PROVE  after[n][pred[i][k] + 1] < after[n][i]
  <2>1. after[n][i] = after[i][i] /\ after[i][i] = LevelOf(after[i - 1], pred[i])
    <3>1. n \in 0 .. n
      BY <1>2
    <3>2. after[n][i] = after[i][i]
      BY <1>7, <3>1
    <3> QED BY <1>3, <3>2
  <2>2. pred[i] \in Seq(0 .. i - 2) /\ i \in Nat \ {0} /\ i - 1 \in 0 .. n
    BY <1>2
  <2>3. after[i - 1] \in LevelTable(i - 1)
    BY <1>1, <2>2
  <2>4. after[i - 1][pred[i][k] + 1] < LevelOf(after[i - 1], pred[i])
    BY <2>2, <2>3, LevelOfRange
  <2>5. pred[i][k] \in 0 .. i - 2
    BY <2>2
  <2> DEFINE j == pred[i][k] + 1
  <2>6. j \in 1 .. i - 1 /\ j \in 1 .. n /\ n \in 0 .. n
    <3> DEFINE x == pred[i][k]
    <3>1. x \in 0 .. i - 2
      BY <2>5
    <3> HIDE DEF x
    <3>2. x + 1 \in 1 .. i - 1 /\ x + 1 \in 1 .. n
      BY <1>2, <3>1
    <3> QED BY <1>2, <3>2 DEF x
  <2> HIDE DEF j
  <2>7. after[i - 1][j] = after[n][j]
    <3>1. after[i - 1][j] = after[j][j]
      BY <1>7, <2>2, <2>6
    <3>2. after[n][j] = after[j][j]
      BY <1>7, <2>6
    <3> QED BY <3>1, <3>2
  <2> QED BY <2>1, <2>4, <2>7 DEF j
<1>9. after[n] \in LevelTable(n)
  BY <1>1, <1>2
<1> QED BY <1>1, <1>8, <1>9 DEF LevelsSound, n

\* The highest level of a non-empty graph.
LEMMA HighestLevel ==
  ASSUME NEW N \in Nat \ {0}, NEW level \in LevelTable(N)
  PROVE  /\ Max(Range(level)) \in Nat /\ 1 + Max(Range(level)) \in 1 .. N
         /\ \A i \in 1 .. N : level[i] < 1 + Max(Range(level))
<1> DEFINE R == Range(level)
<1>1. R \in SUBSET Nat /\ (\A x \in R : x <= N - 1) /\ \A i \in 1 .. N : level[i] \in R
  BY DEF Range, LevelTable
<1>2. R # {} /\ N - 1 \in Nat
  <2>1. 1 \in 1 .. N
    OBVIOUS
  <2> QED BY <1>1, <2>1
<1> HIDE DEF R
<1>3. Max(R) \in R /\ \A y \in R : y <= Max(R)
  BY <1>1, <1>2, GreatestElement
<1>4. Max(R) \in Nat /\ Max(R) <= N - 1
  BY <1>1, <1>3
<1>5. ASSUME NEW i \in 1 .. N PROVE level[i] < 1 + Max(R)
  <2>1. level[i] <= Max(R) /\ level[i] \in Nat
    BY <1>1, <1>3
  <2> QED BY <1>4, <2>1
<1> QED BY <1>4, <1>5 DEF R

\* A node's last level is its own or that of a reader.
LastSound(pred, level, last) ==
  /\ last \in [1 .. Len(pred) -> Nat]
  /\ \A i \in 1 .. Len(pred) : level[i] <= last[i] /\ last[i] < 1 + Max(Range(level))
  /\ \A q \in 1 .. Len(pred) : \A k \in DOMAIN pred[q] : level[q] <= last[pred[q][k] + 1]

\* last_use is at least the level of every reader, and no later than the last.
LEMMA LastUsesAreSound ==
  ASSUME NEW pred, Acyclic(pred), Len(pred) # 0, NEW level, LevelsSound(pred, level)
  PROVE  LastSound(pred, level, LastUses(pred, level))
<1> DEFINE N == Len(pred)
           last == LastUses(pred, level)
           readers(i) == {q \in 1 .. N : i - 1 \in Range(pred[q])}
           R(i) == {level[i]} \cup {level[q] : q \in readers(i)}
<1>1. N \in Nat \ {0} /\ DOMAIN pred = 1 .. N /\ \A i \in 1 .. N : pred[i] \in Seq(0 .. i - 2)
  BY DEF Acyclic
<1>2. last = [i \in 1 .. N |-> Max(R(i))]
  BY <1>1 DEF LastUses
<1>3. level \in LevelTable(N)
  BY DEF LevelsSound
<1> HIDE DEF N, last
<1>4. \A i \in 1 .. N : level[i] \in Nat /\ level[i] <= N - 1
  BY <1>1, <1>3 DEF LevelTable
<1>5. \A i \in 1 .. N : level[i] < 1 + Max(Range(level))
  BY <1>1, <1>3, HighestLevel
<1>6. ASSUME NEW i \in 1 .. N
      PROVE  /\ last[i] \in R(i) /\ \A y \in R(i) : y <= last[i]
             /\ \A y \in R(i) : \E q \in 1 .. N : y = level[q]
  <2>1. R(i) \in SUBSET Nat /\ R(i) # {} /\ (\A x \in R(i) : x <= N - 1) /\ N - 1 \in Nat
    <3>1. \A y \in R(i) : y \in Nat /\ y <= N - 1
      BY <1>4
    <3>2. level[i] \in R(i) /\ N - 1 \in Nat
      BY <1>1
    <3> HIDE DEF R
    <3> QED BY <3>1, <3>2
  <2>2. \A y \in R(i) : \E q \in 1 .. N : y = level[q]
    OBVIOUS
  <2>3. last[i] = Max(R(i))
    BY <1>2
  <2> HIDE DEF R
  <2> QED BY <2>1, <2>2, <2>3, GreatestElement
<1>7. \A i \in 1 .. N : last[i] \in Nat /\ last[i] < 1 + Max(Range(level))
  <2> HIDE DEF R
  <2> QED BY <1>4, <1>5, <1>6
<1>8. \A i \in 1 .. N : level[i] <= last[i]
  BY <1>6
<1>9. ASSUME NEW q \in 1 .. N, NEW k \in DOMAIN pred[q]
      PROVE  level[q] <= last[pred[q][k] + 1]
  <2> DEFINE i == pred[q][k] + 1
  <2>1. pred[q][k] \in 0 .. q - 2
    BY <1>1
  <2> DEFINE p == pred[q][k]
  <2>2. p \in 0 .. q - 2 /\ N \in Nat
    BY <1>1, <2>1
  <2> HIDE DEF p
  <2>3. p + 1 \in 1 .. N /\ (p + 1) - 1 = p
    BY <2>2
  <2>4. i \in 1 .. N /\ i - 1 = pred[q][k]
    BY <2>3 DEF p
  <2>5. q \in readers(i)
    BY <2>4 DEF Range
  <2> HIDE DEF i
  <2>6. level[q] \in R(i)
    BY <2>5
  <2>7. level[q] <= last[i]
    BY <1>6, <2>4, <2>6
  <2> QED BY <2>7 DEF i
<1>10. last \in [1 .. N -> Nat]
  <2>1. last = [i \in 1 .. N |-> last[i]]
    BY <1>2
  <2> QED BY <1>7, <2>1
<1> QED BY <1>7, <1>8, <1>9, <1>10 DEF LastSound, N, last

----------------------------------------------------------------------------
(* Slots.                                                                   *)

\* Between two assignments, the nodes of H hold different slots, and every slot
\* allocated so far is held or on the stack, once.
SlotInv(st, N, H) ==
  /\ st \in [slot : [1 .. N -> Int], stack : Seq(Nat), next : Nat]
  /\ H \subseteq 0 .. N - 1
  /\ \A x \in H : st.slot[x + 1] \in 0 .. st.next - 1
  /\ \A x, y \in H : st.slot[x + 1] = st.slot[y + 1] => x = y
  /\ \A k \in 1 .. Len(st.stack) : st.stack[k] \in 0 .. st.next - 1
  /\ \A j, k \in 1 .. Len(st.stack) : st.stack[j] = st.stack[k] => j = k
  /\ \A k \in 1 .. Len(st.stack) : \A x \in H : st.stack[k] # st.slot[x + 1]
  /\ st.next = Len(st.stack) + Cardinality(H)

\* The nodes of a graph are finitely many.
LEMMA NodesFinite ==
  ASSUME NEW N \in Nat, NEW H \in SUBSET (0 .. N - 1)
  PROVE  IsFiniteSet(H) /\ Cardinality(H) \in Nat
<1>1. IsFiniteSet(0 .. N - 1)
  BY FS_Interval
<1>2. IsFiniteSet(H)
  BY <1>1, FS_Subset
<1> QED BY <1>2, FS_CardinalityType

\* An enumeration is as long as its set is large.
LEMMA EnumeratesCardinality ==
  ASSUME NEW S, NEW s, Enumerates(s, S)
  PROVE  Cardinality(S) = Len(s)
<1>1. s \in [1 .. Len(s) -> S] /\ Len(s) \in Nat
  BY DEF Enumerates
<1>2. s \in Bijection(1 .. Len(s), S)
  BY <1>1 DEF Enumerates, Bijection, Injection, IsInjective, Surjection
<1>3. ExistsBijection(1 .. Len(s), S)
  BY <1>2, Fun_ExistsBij
<1> QED BY <1>1, <1>3, FS_CountingElements

\* The components of an allocation.
LEMMA SlotRecord ==
  ASSUME NEW A, NEW B, NEW C, NEW a \in A, NEW b \in B, NEW c \in C
  PROVE  [slot |-> a, stack |-> b, next |-> c] \in [slot : A, stack : B, next : C]
OBVIOUS

\* What taking a slot for one more node does.
TakenSlot(st, N, H, id, r) ==
  /\ SlotInv(r, N, H \cup {id})
  /\ \A x \in (0 .. N - 1) \ {id} : r.slot[x + 1] = st.slot[x + 1]
  /\ r.next >= st.next
  /\ r.next = st.next \/ r.stack = <<>>

\* A node that takes a slot gets one that no node holds.
LEMMA TakeSlotStep ==
  ASSUME NEW N \in Nat, NEW H, NEW st, SlotInv(st, N, H), NEW id \in (0 .. N - 1) \ H
  PROVE  TakenSlot(st, N, H, id, TakeSlot(st, id))
<1> DEFINE r == TakeSlot(st, id)
           G == H \cup {id}
<1> USE DEF TakenSlot
<1>1. /\ st.slot \in [1 .. N -> Int] /\ st.stack \in Seq(Nat) /\ st.next \in Nat
      /\ Len(st.stack) \in Nat /\ id + 1 \in 1 .. N /\ id \notin H
      /\ H \in SUBSET (0 .. N - 1) /\ G \subseteq 0 .. N - 1
      /\ \A x \in H : x + 1 \in 1 .. N /\ x + 1 # id + 1
  BY DEF SlotInv
<1>2. Cardinality(H) \in Nat /\ Cardinality(G) = Cardinality(H) + 1
  BY <1>1, NodesFinite, FS_AddElement
<1>3. \A x \in G : x = id \/ x \in H
  OBVIOUS
<1> HIDE DEF G
<1>4. CASE st.stack # <<>>
  <2> DEFINE top == Last(st.stack)
             n == Len(st.stack)
  <2>1. n \in Nat \ {0} /\ n \in 1 .. n /\ top = st.stack[n]
    BY <1>1, <1>4 DEF Last
  <2>2. top \in 0 .. st.next - 1 /\ top \in Int
    BY <1>1, <2>1 DEF SlotInv
  <2>3. /\ r.slot = [st.slot EXCEPT ![id + 1] = top]
        /\ r.stack = SubSeq(st.stack, 1, n - 1) /\ r.next = st.next
        /\ r = [slot |-> r.slot, stack |-> r.stack, next |-> r.next]
    BY <1>4 DEF TakeSlot, Front
  <2> HIDE DEF r, top
  <2>4. \A k \in 1 .. n - 1 : st.stack[k] \in Nat /\ k \in 1 .. n /\ k # n
    <3>1. st.stack \in [1 .. n -> Nat]
      BY <1>1, SeqIsFunction
    <3> HIDE DEF n
    <3> QED BY <2>1, <3>1
  <2>5. /\ r.stack \in Seq(Nat) /\ Len(r.stack) = n - 1
        /\ \A k \in 1 .. n - 1 : r.stack[k] = st.stack[k]
    <3> DEFINE s == st.stack
    <3>1. s \in Seq(Nat) /\ Len(s) = n
      BY <1>1
    <3> HIDE DEF n, s
    <3>2. SubSeq(s, 1, n - 1) \in Seq(Nat)
      BY <2>1, <2>4, SubSeqProperties DEF s
    <3>3. Len(SubSeq(s, 1, n - 1)) = n - 1 /\ \A k \in 1 .. n - 1 : SubSeq(s, 1, n - 1)[k] = s[k]
      BY <2>1, <3>1
    <3> QED BY <2>3, <3>2, <3>3 DEF s
  <2>6. /\ r.slot \in [1 .. N -> Int] /\ r.slot[id + 1] = top
        /\ \A x \in (0 .. N - 1) \ {id} : r.slot[x + 1] = st.slot[x + 1]
    BY <1>1, <2>2, <2>3
  <2>7. \A x \in H : r.slot[x + 1] = st.slot[x + 1]
    BY <1>1, <2>6
  <2>8. \A x \in H : st.slot[x + 1] # top
    BY <2>1 DEF SlotInv
  <2>9. r \in [slot : [1 .. N -> Int], stack : Seq(Nat), next : Nat]
    <3>1. [slot |-> r.slot, stack |-> r.stack, next |-> r.next]
             \in [slot : [1 .. N -> Int], stack : Seq(Nat), next : Nat]
      BY <1>1, <2>3, <2>5, <2>6, SlotRecord
    <3> QED BY <2>3, <3>1
  <2>10. \A x \in G : r.slot[x + 1] \in 0 .. r.next - 1
    BY <1>3, <2>2, <2>3, <2>6, <2>7 DEF SlotInv
  <2>11. \A x, y \in G : r.slot[x + 1] = r.slot[y + 1] => x = y
    BY <1>3, <2>6, <2>7, <2>8 DEF SlotInv
  <2>12. \A k \in 1 .. n - 1 : r.stack[k] \in 0 .. r.next - 1
    BY <2>3, <2>4, <2>5 DEF SlotInv
  <2>13. \A j, k \in 1 .. n - 1 : r.stack[j] = r.stack[k] => j = k
    BY <2>4, <2>5 DEF SlotInv
  <2>14. \A k \in 1 .. n - 1 : \A x \in G : r.stack[k] # r.slot[x + 1]
    <3>1. \A k \in 1 .. n - 1 : st.stack[k] # top
      BY <2>1, <2>4 DEF SlotInv
    <3>2. \A k \in 1 .. n - 1 : \A x \in H : st.stack[k] # st.slot[x + 1]
      BY <2>4 DEF SlotInv
    <3> SUFFICES ASSUME NEW k \in 1 .. n - 1, NEW x \in G
                 PROVE  r.stack[k] # r.slot[x + 1]
      OBVIOUS
    <3>3. CASE x = id BY <2>5, <2>6, <3>1, <3>3
    <3>4. CASE x \in H BY <2>5, <2>7, <3>2, <3>4
    <3> QED BY <1>3, <3>3, <3>4
  <2>15. r.next = Len(r.stack) + Cardinality(G)
    BY <1>2, <2>1, <2>3, <2>5 DEF SlotInv
  <2>16. SlotInv(r, N, G)
    BY <1>1, <2>5, <2>9, <2>10, <2>11, <2>12, <2>13, <2>14, <2>15 DEF SlotInv
  <2> QED BY <1>1, <2>3, <2>6, <2>16 DEF r, G
<1>5. CASE st.stack = <<>>
  <2>1. /\ r.slot = [st.slot EXCEPT ![id + 1] = st.next]
        /\ r.stack = <<>> /\ r.next = st.next + 1
        /\ r = [slot |-> r.slot, stack |-> r.stack, next |-> r.next]
    BY <1>5 DEF TakeSlot
  <2> HIDE DEF r
  <2>2. /\ r.slot \in [1 .. N -> Int] /\ r.slot[id + 1] = st.next
        /\ \A x \in (0 .. N - 1) \ {id} : r.slot[x + 1] = st.slot[x + 1]
    BY <1>1, <2>1
  <2>3. \A x \in H : r.slot[x + 1] = st.slot[x + 1]
    BY <1>1, <2>2
  <2>4. \A x \in H : st.slot[x + 1] \in 0 .. st.next - 1 /\ st.slot[x + 1] # st.next
    BY <1>1 DEF SlotInv
  <2>5. r \in [slot : [1 .. N -> Int], stack : Seq(Nat), next : Nat]
    <3>1. r.stack \in Seq(Nat) /\ r.next \in Nat
      BY <1>1, <2>1
    <3>2. [slot |-> r.slot, stack |-> r.stack, next |-> r.next]
             \in [slot : [1 .. N -> Int], stack : Seq(Nat), next : Nat]
      BY <2>2, <3>1, SlotRecord
    <3> QED BY <2>1, <3>2
  <2>6. \A x \in G : r.slot[x + 1] \in 0 .. r.next - 1
    <3>1. st.next \in 0 .. r.next - 1 /\ \A v \in 0 .. st.next - 1 : v \in 0 .. r.next - 1
      BY <1>1, <2>1
    <3> QED BY <1>3, <2>2, <2>3, <2>4, <3>1
  <2>7. \A x, y \in G : r.slot[x + 1] = r.slot[y + 1] => x = y
    BY <1>3, <2>2, <2>3, <2>4 DEF SlotInv
  <2>8. Len(r.stack) = 0 /\ Len(st.stack) = 0
    BY <1>5, <2>1
  <2>9. r.next = Len(r.stack) + Cardinality(G)
    BY <1>2, <2>1, <2>8 DEF SlotInv
  <2>10. SlotInv(r, N, G)
    <3>1. \A k \in 1 .. Len(r.stack) : FALSE
      BY <2>8
    <3> QED BY <1>1, <2>5, <2>6, <2>7, <2>9, <3>1 DEF SlotInv
  <2> QED BY <1>1, <2>1, <2>2, <2>10 DEF r, G
<1> QED BY <1>4, <1>5

\* What the allocations of states are.
Slots(N) == [slot : [1 .. N -> Int], stack : Seq(Nat), next : Nat]

First(born, k) == {born[j] : j \in 1 .. k}

\* s has the slots of st and those of the first k nodes of born.
Taking(st, N, H, born, k, s) ==
  /\ SlotInv(s, N, H \cup First(born, k))
  /\ \A x \in (0 .. N - 1) \ First(born, k) : s.slot[x + 1] = st.slot[x + 1]
  /\ s.next >= st.next
  /\ s.next = st.next \/ s.stack = <<>>

\* One round of the loop over the nodes born at a level.
LEMMA TakingStep ==
  ASSUME NEW N \in Nat, NEW H, NEW st \in Slots(N), NEW B,
         H \cap B = {}, B \subseteq 0 .. N - 1,
         NEW born, Enumerates(born, B), NEW k \in 1 .. Len(born),
         NEW s, Taking(st, N, H, born, k - 1, s)
  PROVE  Taking(st, N, H, born, k, TakeSlot(s, born[k]))
<1> DEFINE id == born[k]
           G == H \cup First(born, k - 1)
           r == TakeSlot(s, id)
<1>1. k \in Nat \ {0} /\ born \in Seq(B) /\ Len(born) \in Nat
  BY DEF Enumerates
<1>2. id \in B /\ id \notin First(born, k - 1)
  <2>1. \A j \in 1 .. k - 1 : j \in 1 .. Len(born) /\ j # k
    BY <1>1
  <2> QED BY <1>1, <2>1 DEF Enumerates, First
<1>3. SlotInv(s, N, G) /\ id \in (0 .. N - 1) \ G
  BY <1>2 DEF Taking
<1>4. First(born, k) = First(born, k - 1) \cup {id}
  <2>1. \A j : j \in 1 .. k <=> j \in 1 .. k - 1 \/ j = k
    BY <1>1
  <2> QED BY <2>1 DEF First
<1>5. /\ SlotInv(r, N, G \cup {id})
      /\ \A x \in (0 .. N - 1) \ {id} : r.slot[x + 1] = s.slot[x + 1]
      /\ r.next >= s.next
      /\ r.next = s.next \/ r.stack = <<>>
  <2> HIDE DEF id, G
  <2>1. TakenSlot(s, N, G, id, r)
    BY <1>3, TakeSlotStep
  <2> QED BY <2>1 DEF TakenSlot
<1>6. G \cup {id} = H \cup First(born, k)
  BY <1>4
<1>7. s.next \in Nat /\ r.next \in Nat /\ st.next \in Nat
  BY <1>3, <1>5 DEF SlotInv, Slots
<1>8. s.stack = <<>> => r.stack = <<>>
  BY DEF TakeSlot
<1> HIDE DEF r, id, G
<1>9. r.next >= st.next
  BY <1>5, <1>7 DEF Taking
<1>10. r.next = st.next \/ r.stack = <<>>
  BY <1>5, <1>8 DEF Taking
<1>11. \A x \in (0 .. N - 1) \ First(born, k) : r.slot[x + 1] = st.slot[x + 1]
  BY <1>4, <1>5 DEF Taking
<1> QED BY <1>5, <1>6, <1>9, <1>10, <1>11 DEF Taking, r, id

\* A level's nodes take their slots.
LEMMA TakeLoop ==
  ASSUME NEW N \in Nat, NEW H, NEW st \in Slots(N), SlotInv(st, N, H), NEW B,
         H \cap B = {}, B \subseteq 0 .. N - 1, NEW born, Enumerates(born, B)
  PROVE  LET Take(s, k) == TakeSlot(s, born[k])
         IN  Taking(st, N, H, born, Len(born), Loop(Take, st, Len(born)))
<1> DEFINE n == Len(born)
           Body(s, i) == TakeSlot(s, born[i])
           Sum(g) == [i \in 0 .. n |-> IF i = 0 THEN st
                        ELSE CHOOSE r \in {Body(s, i) : s \in {g[i - 1]}} : TRUE]
           after == CHOOSE g : g = Sum(g)
           R(i) == {s \in Slots(N) : Taking(st, N, H, born, i, s)}
           T == [i \in 0 .. n |-> R(i)]
           body == [p \in Slots(N) \X (1 .. n) |-> Body(p[1], p[2])]
<1>1. LET Take(s, k) == TakeSlot(s, born[k])
      IN  Loop(Take, st, Len(born)) = after[n]
  BY DEF Loop
<1>2. n \in Nat
  BY DEF Enumerates
<1> HIDE DEF n
<1>3. ASSUME NEW i \in 1 .. n, NEW s \in R(i - 1) PROVE Body(s, i) \in R(i)
  <2>1. Taking(st, N, H, born, i, TakeSlot(s, born[i]))
    BY TakingStep DEF n
  <2> QED BY <2>1 DEF Taking, SlotInv, Slots
<1>4. st \in T[0]
  <2>1. First(born, 0) = {}
    BY DEF First
  <2>2. Taking(st, N, H, born, 0, st)
    <3>1. H \cup First(born, 0) = H
      BY <2>1
    <3>2. st.next >= st.next
      BY DEF Slots
    <3> QED BY <3>1, <3>2 DEF Taking
  <2> QED BY <1>2, <2>2
<1>5. \A i \in 1 .. n : \A s \in T[i - 1] : body[<<s, i>>] = Body(s, i) /\ body[<<s, i>>] \in T[i]
  <2> SUFFICES ASSUME NEW i \in 1 .. n, NEW s \in T[i - 1]
               PROVE  body[<<s, i>>] = Body(s, i) /\ body[<<s, i>>] \in T[i]
    OBVIOUS
  <2>1. i - 1 \in 0 .. n /\ i \in 0 .. n
    BY <1>2
  <2>2. s \in R(i - 1)
    BY <2>1
  <2>3. <<s, i>> \in Slots(N) \X (1 .. n)
    BY <2>1, <2>2
  <2> HIDE DEF Body
  <2>4. body[<<s, i>>] = Body(s, i)
    BY <2>3
  <2>5. Body(s, i) \in R(i)
    BY <1>3, <2>2
  <2> HIDE DEF R
  <2> QED BY <2>1, <2>4, <2>5
<1> HIDE DEF Body, body
<1>6. PICK g : IsRun(g, n, T, st, body)
  <2>1. \A i \in 1 .. n : \A s \in T[i - 1] : body[<<s, i>>] \in T[i]
    BY <1>5
  <2> HIDE DEF T
  <2> QED BY <1>2, <1>4, <2>1, LoopRun
<1> HIDE DEF R
<1>7. g = Sum(g)
  <2>1. \A i \in 1 .. n : g[i] = CHOOSE r \in {Body(s, i) : s \in {g[i - 1]}} : TRUE
    <3> SUFFICES ASSUME NEW i \in 1 .. n
                 PROVE  g[i] = CHOOSE r \in {Body(s, i) : s \in {g[i - 1]}} : TRUE
      OBVIOUS
    <3>1. i - 1 \in 0 .. n
      BY <1>2
    <3>2. g[i] = Body(g[i - 1], i)
      BY <1>5, <1>6, <3>1 DEF IsRun
    <3> QED BY <3>2
  <2>2. g = [i \in 0 .. n |-> g[i]] /\ g[0] = st
    BY <1>6 DEF IsRun
  <2>3. \A i \in 0 .. n : i # 0 => i \in 1 .. n
    BY <1>2
  <2> QED BY <2>1, <2>2, <2>3
<1>8. after = Sum(after)
  <2> HIDE DEF Sum
  <2> QED BY <1>7
<1> HIDE DEF after
<1>9. after[0] = st /\ \A i \in 1 .. n : after[i] = Body(after[i - 1], i)
  <2>1. \A i \in 0 .. n : after[i] = IF i = 0 THEN st
                        ELSE CHOOSE r \in {Body(s, i) : s \in {after[i - 1]}} : TRUE
    BY <1>8
  <2>2. \A i \in 1 .. n : i \in 0 .. n /\ i # 0
    BY <1>2
  <2>3. \A i \in 1 .. n : (CHOOSE r \in {Body(s, i) : s \in {after[i - 1]}} : TRUE)
                            = Body(after[i - 1], i)
    OBVIOUS
  <2>4. 0 \in 0 .. n
    BY <1>2
  <2> QED BY <2>1, <2>2, <2>3, <2>4
<1>10. after[n] \in R(n)
  <2>1. \A i \in 1 .. n : after[i - 1] \in T[i - 1] => after[i] \in T[i]
    <3>1. \A i \in 1 .. n : i - 1 \in 0 .. n /\ i \in 0 .. n
      BY <1>2
    <3> QED BY <1>5, <1>9, <3>1
  <2>2. \A i \in 0 .. n : after[i] \in T[i]
    <3> HIDE DEF T
    <3> QED BY <1>2, <1>4, <1>9, <2>1, LoopStates
  <2> QED BY <1>2, <2>2
<1> QED BY <1>1, <1>10 DEF R, n

\* What releasing the slots of the nodes of D does.
FreedSlots(st, N, H, D, r) ==
  /\ SlotInv(r, N, H \ D)
  /\ r.slot = st.slot /\ r.next = st.next

\* The slots of nodes read for the last time go back, each once.
LEMMA FreeSlotsStep ==
  ASSUME NEW N \in Nat, NEW H, NEW st, SlotInv(st, N, H), NEW D \in SUBSET H,
         NEW ids, Enumerates(ids, D)
  PROVE  FreedSlots(st, N, H, D, FreeSlots(st, ids))
<1> DEFINE r == FreeSlots(st, ids)
           freed == [k \in DOMAIN ids |-> st.slot[ids[k] + 1]]
           mm == Len(st.stack)
           n == Len(ids)
<1>1. /\ st.slot \in [1 .. N -> Int] /\ st.stack \in Seq(Nat) /\ st.next \in Nat
      /\ mm \in Nat /\ n \in Nat /\ DOMAIN ids = 1 .. n
      /\ H \in SUBSET (0 .. N - 1) /\ H \ D \in SUBSET (0 .. N - 1)
      /\ \A k \in 1 .. n : ids[k] \in D /\ ids[k] \in H
      /\ st \in [slot : [1 .. N -> Int], stack : Seq(Nat), next : Nat]
  <2>1. st \in [slot : [1 .. N -> Int], stack : Seq(Nat), next : Nat] /\ H \in SUBSET (0 .. N - 1)
    BY DEF SlotInv
  <2>2. st.slot \in [1 .. N -> Int] /\ st.stack \in Seq(Nat) /\ st.next \in Nat
    BY <2>1
  <2>3. mm \in Nat
    BY <2>2
  <2>4. ids \in Seq(D)
    BY DEF Enumerates
  <2>5. n \in Nat /\ DOMAIN ids = 1 .. n /\ \A k \in 1 .. n : ids[k] \in D
    BY <2>4
  <2> HIDE DEF mm, n
  <2> QED BY <2>1, <2>2, <2>3, <2>5
<1>2. /\ r.slot = st.slot /\ r.next = st.next /\ r.stack = st.stack \o freed
      /\ r = [st EXCEPT !.stack = st.stack \o freed]
  <2>1. r = [st EXCEPT !.stack = st.stack \o freed]
    BY DEF FreeSlots
  <2> HIDE DEF freed, r
  <2> QED BY <1>1, <2>1
<1>3. /\ freed \in Seq(Nat) /\ Len(freed) = n
      /\ \A k \in 1 .. n : freed[k] = st.slot[ids[k] + 1] /\ freed[k] \in 0 .. st.next - 1
  <2>1. \A k \in 1 .. n : st.slot[ids[k] + 1] \in 0 .. st.next - 1
    BY <1>1 DEF SlotInv
  <2>2. \A k \in 1 .. n : st.slot[ids[k] + 1] \in Nat
    BY <1>1, <2>1
  <2>3. freed = [k \in 1 .. n |-> st.slot[ids[k] + 1]]
    BY <1>1
  <2> HIDE DEF n, freed
  <2>4. freed \in [1 .. n -> Nat]
    BY <2>2, <2>3
  <2>5. freed \in Seq(Nat) /\ Len(freed) = n
    BY <1>1, <2>4
  <2>6. \A k \in 1 .. n : freed[k] = st.slot[ids[k] + 1]
    BY <2>3
  <2> QED BY <2>1, <2>5, <2>6
<1> HIDE DEF r, freed, mm, n
<1> DEFINE t == r.stack
           s == st.stack
<1>4. /\ t \in Seq(Nat) /\ Len(t) = mm + n
      /\ \A k \in 1 .. mm : t[k] = s[k]
      /\ \A k \in 1 .. n : t[mm + k] = freed[k]
  <2>1. s \in Seq(Nat) /\ Len(s) = mm
    BY <1>1 DEF mm
  <2> HIDE DEF s
  <2>2. /\ s \o freed \in Seq(Nat) /\ Len(s \o freed) = mm + n
        /\ \A k \in 1 .. mm + n : (s \o freed)[k] = IF k <= mm THEN s[k] ELSE freed[k - mm]
    BY <1>3, <2>1, ConcatProperties
  <2>3. \A k \in 1 .. mm : k \in 1 .. mm + n /\ k <= mm
    BY <1>1
  <2>4. \A k \in 1 .. n : mm + k \in 1 .. mm + n /\ ~(mm + k <= mm) /\ (mm + k) - mm = k
    BY <1>1
  <2>5. \A k \in 1 .. mm : (s \o freed)[k] = s[k]
    BY <2>2, <2>3
  <2>6. \A k \in 1 .. n : (s \o freed)[mm + k] = freed[k]
    BY <2>2, <2>4
  <2> QED BY <1>2, <2>2, <2>5, <2>6 DEF s
<1>5. \A k \in 1 .. mm + n : k \in 1 .. mm \/ \E i \in 1 .. n : k = mm + i
  <2> SUFFICES ASSUME NEW k \in 1 .. mm + n, k \notin 1 .. mm
               PROVE  \E i \in 1 .. n : k = mm + i
    OBVIOUS
  <2>1. k - mm \in 1 .. n /\ k = mm + (k - mm)
    BY <1>1
  <2> QED BY <2>1
<1>6. \A k \in 1 .. mm : s[k] \in 0 .. st.next - 1
  BY DEF SlotInv, mm
<1>7. \A j, k \in 1 .. mm : s[j] = s[k] => j = k
  BY DEF SlotInv, mm
<1>8. \A k \in 1 .. mm : \A x \in H : s[k] # st.slot[x + 1]
  BY DEF SlotInv, mm
<1>9. \A x, y \in H : st.slot[x + 1] = st.slot[y + 1] => x = y
  BY DEF SlotInv
<1>10. \A j, k \in 1 .. n : ids[j] = ids[k] => j = k
  BY DEF Enumerates, n
<1> HIDE DEF s, t
<1>11. \A k \in 1 .. mm + n : t[k] \in 0 .. r.next - 1
  <2> SUFFICES ASSUME NEW k \in 1 .. mm + n PROVE t[k] \in 0 .. r.next - 1
    OBVIOUS
  <2>1. CASE k \in 1 .. mm
    BY <1>2, <1>4, <1>6, <2>1
  <2>2. ASSUME NEW i \in 1 .. n, k = mm + i PROVE t[k] \in 0 .. r.next - 1
    <3>1. t[mm + i] = freed[i] /\ freed[i] \in 0 .. st.next - 1
      BY <1>3, <1>4
    <3> QED BY <1>2, <2>2, <3>1
  <2> QED BY <1>5, <2>1, <2>2
<1>12. ASSUME NEW j \in 1 .. mm + n, NEW k \in 1 .. mm + n, t[j] = t[k]
       PROVE  j = k
  <2>1. CASE j \in 1 .. mm /\ k \in 1 .. mm
    BY <1>4, <1>7, <1>12, <2>1
  <2>2. ASSUME NEW i \in 1 .. n, NEW a \in 1 .. mm PROVE t[mm + i] # t[a]
    <3>1. t[mm + i] = freed[i] /\ freed[i] = st.slot[ids[i] + 1] /\ ids[i] \in H
      BY <1>1, <1>3, <1>4
    <3>2. t[a] = s[a]
      BY <1>4
    <3> QED BY <1>8, <3>1, <3>2
  <2>3. ASSUME NEW a \in 1 .. n, NEW b \in 1 .. n, t[mm + a] = t[mm + b] PROVE a = b
    <3>1. t[mm + a] = freed[a] /\ freed[a] = st.slot[ids[a] + 1] /\ ids[a] \in H
      BY <1>1, <1>3, <1>4
    <3>2. t[mm + b] = freed[b] /\ freed[b] = st.slot[ids[b] + 1] /\ ids[b] \in H
      BY <1>1, <1>3, <1>4
    <3>3. ids[a] = ids[b]
      BY <1>9, <2>3, <3>1, <3>2
    <3> QED BY <1>10, <3>3
  <2>4. CASE j \notin 1 .. mm /\ k \notin 1 .. mm
    <3>1. PICK a \in 1 .. n : j = mm + a
      BY <1>5, <2>4
    <3>2. PICK b \in 1 .. n : k = mm + b
      BY <1>5, <2>4
    <3> QED BY <1>12, <2>3, <3>1, <3>2
  <2> QED BY <1>5, <1>12, <2>1, <2>2, <2>4
<1>13. ASSUME NEW k \in 1 .. mm + n, NEW x \in H \ D PROVE t[k] # st.slot[x + 1]
  <2>1. CASE k \in 1 .. mm BY <1>4, <1>8, <2>1
  <2>2. ASSUME NEW i \in 1 .. n, k = mm + i PROVE t[k] # st.slot[x + 1]
    <3>1. t[mm + i] = freed[i] /\ freed[i] = st.slot[ids[i] + 1] /\ ids[i] \in D /\ ids[i] \in H
      BY <1>1, <1>3, <1>4
    <3> QED BY <1>9, <2>2, <3>1
  <2> QED BY <1>5, <2>1, <2>2
<1>14. r.next = Len(t) + Cardinality(H \ D)
  <2>1. IsFiniteSet(H) /\ Cardinality(H) \in Nat
    BY <1>1, NodesFinite
  <2>2. Cardinality(H \ D) = Cardinality(H) - Cardinality(H \cap D)
    BY <2>1, FS_Difference
  <2>3. H \cap D = D /\ Cardinality(D) = n
    BY EnumeratesCardinality DEF n
  <2>4. st.next = mm + Cardinality(H)
    BY DEF SlotInv, mm
  <2>5. Cardinality(H \cap D) = n
    BY <2>3
  <2> QED BY <1>1, <1>2, <1>4, <2>1, <2>2, <2>4, <2>5
<1>15. r \in [slot : [1 .. N -> Int], stack : Seq(Nat), next : Nat]
  <2>1. t = st.stack \o freed
    BY <1>2 DEF t
  <2> QED BY <1>1, <1>2, <1>4, <2>1
<1>16. SlotInv(r, N, H \ D)
  <2>1. Len(r.stack) = mm + n /\ r.next = Len(r.stack) + Cardinality(H \ D)
    BY <1>4, <1>14 DEF t
  <2>2. \A x \in H \ D : r.slot[x + 1] \in 0 .. r.next - 1
    BY <1>2 DEF SlotInv
  <2>3. \A x, y \in H \ D : r.slot[x + 1] = r.slot[y + 1] => x = y
    BY <1>2, <1>9
  <2>4. \A k \in 1 .. Len(r.stack) : r.stack[k] \in 0 .. r.next - 1
    BY <1>11, <2>1 DEF t
  <2>5. \A j, k \in 1 .. Len(r.stack) : r.stack[j] = r.stack[k] => j = k
    BY <1>12, <2>1 DEF t
  <2>6. \A k \in 1 .. Len(r.stack) : \A x \in H \ D : r.stack[k] # r.slot[x + 1]
    BY <1>2, <1>13, <2>1 DEF t
  <2> QED BY <1>1, <1>15, <2>1, <2>2, <2>3, <2>4, <2>5, <2>6 DEF SlotInv
<1> QED BY <1>2, <1>16 DEF FreedSlots, r

\* One level: the nodes of B take slots, the nodes of D release theirs.
SteppedSlots(st, N, H, B, D, r) ==
  /\ SlotInv(r, N, (H \cup B) \ D)
  /\ \A x \in (0 .. N - 1) \ B : r.slot[x + 1] = st.slot[x + 1]
  /\ \A x \in H \cup B : r.slot[x + 1] \in 0 .. r.next - 1
  /\ \A x, y \in H \cup B : r.slot[x + 1] = r.slot[y + 1] => x = y
  /\ r.next >= st.next /\ r.next >= Cardinality(H \cup B)
  /\ r.next = st.next \/ r.next = Cardinality(H \cup B)

\* A level: all its nodes take slots before any is given back.
LEMMA SlotStepSound ==
  ASSUME NEW N \in Nat, NEW H, NEW st \in Slots(N), SlotInv(st, N, H), NEW B,
         H \cap B = {}, B \subseteq 0 .. N - 1, NEW born, Enumerates(born, B),
         NEW D \in SUBSET (H \cup B), NEW dying, Enumerates(dying, D)
  PROVE  SteppedSlots(st, N, H, B, D, SlotStep(st, born, dying))
<1> DEFINE Take(s, k) == TakeSlot(s, born[k])
           s1 == Loop(Take, st, Len(born))
           r == FreeSlots(s1, dying)
           G == H \cup B
<1>1. SlotStep(st, born, dying) = r
  BY DEF SlotStep
<1>2. Taking(st, N, H, born, Len(born), s1)
  BY TakeLoop
<1>3. First(born, Len(born)) = B
  <2>1. \A j \in 1 .. Len(born) : born[j] \in B
    BY DEF Enumerates
  <2>2. \A x \in B : \E j \in 1 .. Len(born) : born[j] = x
    BY DEF Enumerates
  <2> QED BY <2>1, <2>2 DEF First
<1> HIDE DEF s1
<1>4. /\ SlotInv(s1, N, G)
      /\ \A x \in (0 .. N - 1) \ B : s1.slot[x + 1] = st.slot[x + 1]
      /\ s1.next >= st.next
      /\ s1.next = st.next \/ s1.stack = <<>>
  BY <1>2, <1>3 DEF Taking
<1> HIDE DEF G
<1>5. FreedSlots(s1, N, G, D, r)
  BY <1>4, FreeSlotsStep DEF G
<1> HIDE DEF r
<1>6. s1.next = Len(s1.stack) + Cardinality(G) /\ Len(s1.stack) \in Nat
  BY <1>4 DEF SlotInv
<1>7. Cardinality(G) \in Nat
  BY <1>4, NodesFinite DEF SlotInv
<1>8. r.next >= Cardinality(G)
  BY <1>5, <1>6, <1>7 DEF FreedSlots
<1>9. r.next = st.next \/ r.next = Cardinality(G)
  BY <1>4, <1>5, <1>6, <1>7 DEF FreedSlots
<1>10. r.slot = s1.slot /\ r.next = s1.next /\ SlotInv(r, N, G \ D)
  BY <1>5 DEF FreedSlots
<1>11. /\ \A x \in G : r.slot[x + 1] \in 0 .. r.next - 1
       /\ \A x, y \in G : r.slot[x + 1] = r.slot[y + 1] => x = y
  BY <1>4, <1>10 DEF SlotInv
<1>12. SteppedSlots(st, N, H, B, D, r)
  BY <1>4, <1>8, <1>9, <1>10, <1>11 DEF SteppedSlots, G
<1> QED BY <1>1, <1>12

----------------------------------------------------------------------------
(* The map.                                                                 *)

\* The nodes that hold a slot before level l.
HeldAt(level, last, N, l) == {x \in 0 .. N - 1 : level[x + 1] < l /\ l <= last[x + 1]}

\* The allocation before level l.
LevelInv(st, level, last, N, l) ==
  /\ SlotInv(st, N, HeldAt(level, last, N, l))
  /\ \A x \in 0 .. N - 1 : level[x + 1] < l => st.slot[x + 1] \in 0 .. st.next - 1
  /\ \A mm \in 0 .. l - 1 : \A x, y \in LiveAt(level, last, N, mm) :
       st.slot[x + 1] = st.slot[y + 1] => x = y
  /\ \A mm \in 0 .. l - 1 : Cardinality(LiveAt(level, last, N, mm)) <= st.next
  /\ \/ l = 0 /\ st.next = 0
     \/ \E mm \in 0 .. l - 1 : st.next = Cardinality(LiveAt(level, last, N, mm))

\* After a level exactly the nodes still to be read hold slots.
LEMMA LevelStep ==
  ASSUME NEW N \in Nat, NEW level \in [1 .. N -> Nat], NEW last \in [1 .. N -> Nat],
         \A i \in 1 .. N : level[i] <= last[i],
         NEW l \in Nat, NEW st, LevelInv(st, level, last, N, l),
         NEW born, Enumerates(born, Entries(level, l, N)),
         NEW dying, Enumerates(dying, Entries(last, l, N))
  PROVE  LevelInv(SlotStep(st, born, dying), level, last, N, l + 1)
<1> DEFINE r == SlotStep(st, born, dying)
           H == HeldAt(level, last, N, l)
           B == Entries(level, l, N)
           D == Entries(last, l, N)
           live(mm) == LiveAt(level, last, N, mm)
<1>1. \A x \in 0 .. N - 1 : x + 1 \in 1 .. N /\ level[x + 1] \in Nat /\ last[x + 1] \in Nat
                              /\ level[x + 1] <= last[x + 1]
  OBVIOUS
<1>2. H \cap B = {} /\ B \subseteq 0 .. N - 1
  BY <1>1 DEF HeldAt, Entries
<1>3. H \cup B = live(l)
  BY <1>1 DEF HeldAt, Entries, LiveAt
<1>4. D \in SUBSET (H \cup B)
  BY <1>1 DEF HeldAt, Entries
<1>5. (H \cup B) \ D = HeldAt(level, last, N, l + 1)
  BY <1>1 DEF HeldAt, Entries
<1>6. SteppedSlots(st, N, H, B, D, r)
  <2>1. SlotInv(st, N, H) /\ st \in Slots(N)
    BY DEF LevelInv, SlotInv, Slots
  <2> HIDE DEF H, B, D
  <2>2. Enumerates(born, B) /\ Enumerates(dying, D)
    BY DEF B, D
  <2> QED BY <1>2, <1>4, <2>1, <2>2, SlotStepSound
<1>7. \A x \in 0 .. N - 1 : level[x + 1] < l => x \notin B
  BY <1>1 DEF Entries
<1>8. \A mm \in 0 .. l - 1 : \A x \in live(mm) : x \in 0 .. N - 1 /\ level[x + 1] < l
  BY <1>1 DEF LiveAt
<1>9. \A mm \in 0 .. (l + 1) - 1 : mm \in 0 .. l - 1 \/ mm = l
  OBVIOUS
<1>10. \A mm \in 0 .. l - 1 : mm \in 0 .. (l + 1) - 1
  OBVIOUS
<1>11. l \in 0 .. (l + 1) - 1
  OBVIOUS
<1>12. st.next \in Nat /\ r.next \in Nat
  BY <1>6 DEF LevelInv, SteppedSlots, SlotInv
<1>13. \A mm \in Nat : Cardinality(live(mm)) \in Nat
  <2> SUFFICES ASSUME NEW mm \in Nat PROVE Cardinality(live(mm)) \in Nat
    OBVIOUS
  <2>1. live(mm) \in SUBSET (0 .. N - 1)
    BY DEF LiveAt
  <2> QED BY <2>1, NodesFinite
<1> HIDE DEF r, H, B, D
<1>14. SlotInv(r, N, HeldAt(level, last, N, l + 1))
  BY <1>5, <1>6 DEF SteppedSlots
<1>15. ASSUME NEW x \in 0 .. N - 1, level[x + 1] < l + 1
       PROVE  r.slot[x + 1] \in 0 .. r.next - 1
  <2>1. CASE x \in B
    BY <1>6, <2>1 DEF SteppedSlots
  <2>2. CASE x \notin B
    <3>1. level[x + 1] < l
      BY <1>1, <1>15, <2>2 DEF B, Entries
    <3>2. st.slot[x + 1] \in 0 .. st.next - 1
      BY <3>1 DEF LevelInv
    <3>3. r.slot[x + 1] = st.slot[x + 1] /\ r.next >= st.next
      BY <1>6, <2>2 DEF SteppedSlots
    <3>4. \A v \in 0 .. st.next - 1 : v \in 0 .. r.next - 1
      BY <1>12, <3>3
    <3> QED BY <3>2, <3>3, <3>4
  <2> QED BY <2>1, <2>2
<1>16. ASSUME NEW mm \in 0 .. (l + 1) - 1, NEW x \in live(mm), NEW y \in live(mm),
              r.slot[x + 1] = r.slot[y + 1]
       PROVE  x = y
  <2>1. CASE mm = l
    BY <1>3, <1>6, <1>16, <2>1 DEF SteppedSlots
  <2>2. CASE mm \in 0 .. l - 1
    <3>1. x \in (0 .. N - 1) \ B /\ y \in (0 .. N - 1) \ B
      BY <1>7, <1>8, <2>2
    <3>2. st.slot[x + 1] = st.slot[y + 1]
      BY <1>6, <1>16, <3>1 DEF SteppedSlots
    <3> QED BY <2>2, <3>2 DEF LevelInv
  <2> QED BY <1>9, <2>1, <2>2
<1>17. ASSUME NEW mm \in 0 .. (l + 1) - 1
       PROVE  Cardinality(live(mm)) <= r.next
  <2>1. CASE mm = l
    BY <1>3, <1>6, <2>1 DEF SteppedSlots
  <2>2. CASE mm \in 0 .. l - 1
    <3>1. Cardinality(live(mm)) <= st.next /\ r.next >= st.next
      BY <1>6, <2>2 DEF LevelInv, SteppedSlots
    <3>2. mm \in Nat
      OBVIOUS
    <3> HIDE DEF live
    <3>3. Cardinality(live(mm)) \in Nat
      BY <1>13, <3>2
    <3> QED BY <1>12, <3>1, <3>3
  <2> QED BY <1>9, <2>1, <2>2
<1>18. \E mm \in 0 .. (l + 1) - 1 : r.next = Cardinality(live(mm))
  <2>1. CASE r.next = Cardinality(live(l))
    BY <1>11, <2>1
  <2>2. CASE r.next = st.next /\ \E mm \in 0 .. l - 1 : st.next = Cardinality(live(mm))
    BY <1>10, <2>2
  <2>3. CASE r.next = st.next /\ st.next = 0
    <3>1. Cardinality(live(l)) <= r.next /\ Cardinality(live(l)) \in Nat
      BY <1>11, <1>13, <1>17
    <3> HIDE DEF live
    <3>2. r.next = Cardinality(live(l))
      BY <2>3, <3>1
    <3> QED BY <1>11, <3>2
  <2>4. r.next = st.next \/ r.next = Cardinality(live(l))
    BY <1>3, <1>6 DEF SteppedSlots
  <2>5. (\E mm \in 0 .. l - 1 : st.next = Cardinality(live(mm))) \/ st.next = 0
    BY DEF LevelInv
  <2> HIDE DEF live
  <2> QED BY <2>1, <2>2, <2>3, <2>4, <2>5
<1> QED BY <1>14, <1>15, <1>16, <1>17, <1>18 DEF LevelInv, r

\* The slots before the first level.
LEMMA NoSlotsInv ==
  ASSUME NEW N \in Nat, NEW level \in [1 .. N -> Nat], NEW last
  PROVE  NoSlots(N) \in Slots(N) /\ LevelInv(NoSlots(N), level, last, N, 0)
<1> DEFINE st == NoSlots(N)
<1>1. st.next = 0 /\ st.stack = <<>> /\ st \in Slots(N)
  BY DEF NoSlots, Slots
<1>2. \A x \in 0 .. N - 1 : x + 1 \in 1 .. N /\ level[x + 1] \in Nat
  OBVIOUS
<1>3. HeldAt(level, last, N, 0) = {}
  BY <1>2 DEF HeldAt
<1> HIDE DEF st
<1>4. Len(st.stack) = 0 /\ \A k \in 1 .. Len(st.stack) : FALSE
  BY <1>1
<1>5. Cardinality({}) = 0
  BY FS_EmptySet
<1>6. SlotInv(st, N, {})
  BY <1>1, <1>4, <1>5 DEF SlotInv, Slots
<1>7. \A x \in 0 .. N - 1 : ~(level[x + 1] < 0)
  BY <1>2
<1>8. SlotInv(st, N, HeldAt(level, last, N, 0))
  BY <1>3, <1>6
<1>9. \A mm \in 0 .. 0 - 1 : FALSE
  OBVIOUS
<1>10. LevelInv(st, level, last, N, 0)
  BY <1>1, <1>7, <1>8, <1>9 DEF LevelInv
<1> QED BY <1>1, <1>10 DEF st

\* The allocation after every level.
Allocated(N, L, born, dying) ==
  LET Step(st, e) == SlotStep(st, born[e], dying[e])
  IN  Loop(Step, NoSlots(N), L)

LEMMA LevelLoop ==
  ASSUME NEW N \in Nat, NEW level \in [1 .. N -> Nat], NEW last \in [1 .. N -> Nat],
         \A i \in 1 .. N : level[i] <= last[i],
         NEW L \in Nat, NEW born, NEW dying,
         \A e \in 1 .. L : Enumerates(born[e], Entries(level, e - 1, N)),
         \A e \in 1 .. L : Enumerates(dying[e], Entries(last, e - 1, N))
  PROVE  LevelInv(Allocated(N, L, born, dying), level, last, N, L)
<1> DEFINE base == NoSlots(N)
           Body(s, i) == SlotStep(s, born[i], dying[i])
           Sum(g) == [i \in 0 .. L |-> IF i = 0 THEN base
                        ELSE CHOOSE r \in {Body(s, i) : s \in {g[i - 1]}} : TRUE]
           after == CHOOSE g : g = Sum(g)
           R(i) == {s \in Slots(N) : LevelInv(s, level, last, N, i)}
           T == [i \in 0 .. L |-> R(i)]
           body == [p \in Slots(N) \X (1 .. L) |-> Body(p[1], p[2])]
<1>1. Allocated(N, L, born, dying) = after[L]
  BY DEF Allocated, Loop
<1>2. L \in Nat
  OBVIOUS
<1> HIDE DEF base
<1>3. ASSUME NEW i \in 1 .. L, NEW s \in R(i - 1) PROVE Body(s, i) \in R(i)
  <2> DEFINE l == i - 1
             r == Body(s, i)
  <2>1. l \in Nat /\ l + 1 = i
    OBVIOUS
  <2>2. LevelInv(s, level, last, N, l)
    OBVIOUS
  <2>3. Enumerates(born[i], Entries(level, l, N)) /\ Enumerates(dying[i], Entries(last, l, N))
    OBVIOUS
  <2> HIDE DEF l
  <2>4. LevelInv(r, level, last, N, l + 1)
    BY <2>1, <2>2, <2>3, LevelStep
  <2> HIDE DEF r
  <2>5. r \in Slots(N)
    BY <2>4 DEF LevelInv, SlotInv, Slots
  <2> QED BY <2>1, <2>4, <2>5 DEF r
<1>4. base \in T[0]
  <2>1. base \in R(0)
    BY NoSlotsInv DEF base
  <2> HIDE DEF R
  <2> QED BY <1>2, <2>1
<1>5. \A i \in 1 .. L : \A s \in T[i - 1] : body[<<s, i>>] = Body(s, i) /\ body[<<s, i>>] \in T[i]
  <2> SUFFICES ASSUME NEW i \in 1 .. L, NEW s \in T[i - 1]
               PROVE  body[<<s, i>>] = Body(s, i) /\ body[<<s, i>>] \in T[i]
    OBVIOUS
  <2>1. i - 1 \in 0 .. L /\ i \in 0 .. L
    BY <1>2
  <2>2. s \in R(i - 1)
    BY <2>1
  <2>3. <<s, i>> \in Slots(N) \X (1 .. L)
    BY <2>1, <2>2
  <2> HIDE DEF Body
  <2>4. body[<<s, i>>] = Body(s, i)
    BY <2>3
  <2>5. Body(s, i) \in R(i)
    BY <1>3, <2>2
  <2> HIDE DEF R
  <2> QED BY <2>1, <2>4, <2>5
<1> HIDE DEF Body, body
<1>6. PICK g : IsRun(g, L, T, base, body)
  <2>1. \A i \in 1 .. L : \A s \in T[i - 1] : body[<<s, i>>] \in T[i]
    BY <1>5
  <2> HIDE DEF T
  <2> QED BY <1>2, <1>4, <2>1, LoopRun
<1> HIDE DEF R
<1>7. g = Sum(g)
  <2>1. \A i \in 1 .. L : g[i] = CHOOSE r \in {Body(s, i) : s \in {g[i - 1]}} : TRUE
    <3> SUFFICES ASSUME NEW i \in 1 .. L
                 PROVE  g[i] = CHOOSE r \in {Body(s, i) : s \in {g[i - 1]}} : TRUE
      OBVIOUS
    <3>1. i - 1 \in 0 .. L
      BY <1>2
    <3>2. g[i] = Body(g[i - 1], i)
      BY <1>5, <1>6, <3>1 DEF IsRun
    <3> QED BY <3>2
  <2>2. g = [i \in 0 .. L |-> g[i]] /\ g[0] = base
    BY <1>6 DEF IsRun
  <2>3. \A i \in 0 .. L : i # 0 => i \in 1 .. L
    BY <1>2
  <2> QED BY <2>1, <2>2, <2>3
<1>8. after = Sum(after)
  <2> HIDE DEF Sum
  <2> QED BY <1>7
<1> HIDE DEF after
<1>9. after[0] = base /\ \A i \in 1 .. L : after[i] = Body(after[i - 1], i)
  <2>1. \A i \in 0 .. L : after[i] = IF i = 0 THEN base
                        ELSE CHOOSE r \in {Body(s, i) : s \in {after[i - 1]}} : TRUE
    BY <1>8
  <2>2. \A i \in 1 .. L : i \in 0 .. L /\ i # 0
    BY <1>2
  <2>3. \A i \in 1 .. L : (CHOOSE r \in {Body(s, i) : s \in {after[i - 1]}} : TRUE)
                            = Body(after[i - 1], i)
    OBVIOUS
  <2>4. 0 \in 0 .. L
    BY <1>2
  <2> QED BY <2>1, <2>2, <2>3, <2>4
<1>10. after[L] \in R(L)
  <2>1. \A i \in 1 .. L : after[i - 1] \in T[i - 1] => after[i] \in T[i]
    <3>1. \A i \in 1 .. L : i - 1 \in 0 .. L /\ i \in 0 .. L
      BY <1>2
    <3> QED BY <1>5, <1>9, <3>1
  <2>2. \A i \in 0 .. L : after[i] \in T[i]
    <3> HIDE DEF T
    <3> QED BY <1>2, <1>4, <1>9, <2>1, LoopStates
  <2> QED BY <1>2, <2>2
<1> QED BY <1>1, <1>10 DEF R

----------------------------------------------------------------------------
(* The topology.                                                            *)

\* What a topology promises its kernels.
TopoSound(t) ==
  LET N == Len(t.pred)
      L == t.num_levels
  IN  /\ Acyclic(t.pred) /\ N # 0
      /\ t.level \in [1 .. N -> Nat] /\ t.last \in [1 .. N -> Nat]
      /\ L \in Nat \ {0}
      /\ \A i \in 1 .. N : t.level[i] <= t.last[i] /\ t.last[i] < L
      /\ \A i \in 1 .. N : \A k \in DOMAIN t.pred[i] :
           t.level[t.pred[i][k] + 1] < t.level[i] /\ t.level[i] <= t.last[t.pred[i][k] + 1]
      /\ \A l \in 0 .. L - 1 : Enumerates(t.order[l + 1], Entries(t.level, l, N))
      /\ t.slot \in [1 .. N -> Int] /\ t.pool_size \in Nat
      /\ \A x \in 0 .. N - 1 : t.slot[x + 1] \in 0 .. t.pool_size - 1
      /\ \A l \in 0 .. L - 1 : \A x, y \in LiveAt(t.level, t.last, N, l) :
           t.slot[x + 1] = t.slot[y + 1] => x = y
      /\ \A l \in 0 .. L - 1 : Cardinality(LiveAt(t.level, t.last, N, l)) <= t.pool_size
      /\ \E l \in 0 .. L - 1 : t.pool_size = Cardinality(LiveAt(t.level, t.last, N, l))

\* The schedule and the slots of any graph emitted in dependency order.
THEOREM TopologySound ==
  ASSUME NEW g, Acyclic(g.pred), Len(g.pred) # 0
  PROVE  /\ TopoSound(Topology(g))
         /\ Topology(g).pred = g.pred /\ Topology(g).out = g.out
<1> DEFINE pred  == g.pred
           N     == Len(pred)
           level == Levels(pred)
           last  == LastUses(pred, level)
           L     == 1 + Max(Range(level))
           born  == [e \in 1 .. L |-> Bucket(level, e - 1)]
           dying == [e \in 1 .. L |-> Bucket(last, e - 1)]
           map   == Allocated(N, L, born, dying)
           t     == Topology(g)
<1>1. /\ t.pred = pred /\ t.out = g.out /\ t.level = level /\ t.last = last
      /\ t.num_levels = L /\ t.order = born /\ t.slot = map.slot /\ t.pool_size = map.next
  BY DEF Topology, Allocated
<1>2. N \in Nat \ {0}
  BY DEF Acyclic
<1>3. LevelsSound(pred, level) /\ LastSound(pred, level, last)
  BY LevelsAreSound, LastUsesAreSound
<1> HIDE DEF level, last, t, pred
<1>4. level \in LevelTable(N) /\ level \in [1 .. N -> Nat] /\ last \in [1 .. N -> Nat]
  BY <1>3 DEF LevelsSound, LastSound, LevelTable
<1>5. /\ \A i \in 1 .. N : level[i] <= last[i] /\ last[i] < L
      /\ \A i \in 1 .. N : \A k \in DOMAIN pred[i] :
           level[pred[i][k] + 1] < level[i] /\ level[i] <= last[pred[i][k] + 1]
  BY <1>3 DEF LevelsSound, LastSound
<1>6. L \in Nat \ {0}
  BY <1>2, <1>4, HighestLevel
<1> HIDE DEF N, L
<1>7. /\ \A e \in 1 .. L : Enumerates(born[e], Entries(level, e - 1, N))
      /\ \A e \in 1 .. L : Enumerates(dying[e], Entries(last, e - 1, N))
  <2> SUFFICES ASSUME NEW e \in 1 .. L
               PROVE  /\ Enumerates(born[e], Entries(level, e - 1, N))
                      /\ Enumerates(dying[e], Entries(last, e - 1, N))
    OBVIOUS
  <2>1. born[e] = Bucket(level, e - 1) /\ dying[e] = Bucket(last, e - 1)
    OBVIOUS
  <2> QED BY <1>2, <1>4, <2>1, BucketEnumerates
<1> HIDE DEF born, dying
<1>8. LevelInv(map, level, last, N, L)
  <2>1. N \in Nat /\ L \in Nat /\ \A i \in 1 .. N : level[i] <= last[i]
    BY <1>2, <1>5, <1>6
  <2>2. \A e \in 1 .. L : Enumerates(born[e], Entries(level, e - 1, N))
    BY <1>7
  <2>3. \A e \in 1 .. L : Enumerates(dying[e], Entries(last, e - 1, N))
    BY <1>7
  <2> QED BY <1>4, <2>1, <2>2, <2>3, LevelLoop
<1> HIDE DEF map
<1>9. \A l \in 0 .. L - 1 : Enumerates(born[l + 1], Entries(level, l, N))
  <2> SUFFICES ASSUME NEW l \in 0 .. L - 1
               PROVE  Enumerates(born[l + 1], Entries(level, l, N))
    OBVIOUS
  <2> DEFINE e == l + 1
  <2>1. e \in 1 .. L /\ e - 1 = l
    BY <1>6
  <2> HIDE DEF e
  <2>2. Enumerates(born[e], Entries(level, e - 1, N))
    BY <1>7, <2>1
  <2> QED BY <2>1, <2>2 DEF e
<1>10. map.slot \in [1 .. N -> Int] /\ map.next \in Nat
  BY <1>8 DEF LevelInv, SlotInv
<1>11. \A x \in 0 .. N - 1 : map.slot[x + 1] \in 0 .. map.next - 1
  <2> SUFFICES ASSUME NEW x \in 0 .. N - 1
               PROVE  map.slot[x + 1] \in 0 .. map.next - 1
    OBVIOUS
  <2>1. x + 1 \in 1 .. N
    BY <1>2
  <2>2. level[x + 1] < L
    BY <1>4, <1>5, <1>6, <2>1
  <2> QED BY <1>8, <2>2 DEF LevelInv
<1>12. /\ \A l \in 0 .. L - 1 : \A x, y \in LiveAt(level, last, N, l) :
            map.slot[x + 1] = map.slot[y + 1] => x = y
       /\ \A l \in 0 .. L - 1 : Cardinality(LiveAt(level, last, N, l)) <= map.next
  BY <1>8 DEF LevelInv
<1>13. \E l \in 0 .. L - 1 : map.next = Cardinality(LiveAt(level, last, N, l))
  BY <1>6, <1>8 DEF LevelInv
<1>14. Acyclic(pred)
  BY DEF pred
<1>15. Len(t.pred) = N
  BY <1>1 DEF N
<1>16. TopoSound(t)
  BY <1>1, <1>2, <1>4, <1>5, <1>6, <1>9, <1>10, <1>11, <1>12, <1>13, <1>14, <1>15 DEF TopoSound
<1> QED BY <1>1, <1>16 DEF t, pred

----------------------------------------------------------------------------
(* The invariant of the kernels.                                            *)

\* Lane l of C is responsible for position p of a level.
Owns(C, l, p) == \E q \in Nat : p = l + q * C

Width == LaneCount(strategy)
Count == Len(topo.pred)
Ids   == 0 .. Count - 1
Ranks == 0 .. Len(topo.out) - 1

\* Lane l is done with the slot of position p of the level.
IsStored(l, p) ==
  Owns(Width, l, p) /\ (p < lane[l].i \/ (p = lane[l].i /\ lane[l].phase = "copy"))

\* ... and with its rank.
IsCopied(l, p) == Owns(Width, l, p) /\ p < lane[l].i

TopoInv == topo = NoTopo \/ \E cb \in Sizes : topo = Topology(Edges(cb))

LaneInv ==
  /\ lane \in [0 .. Width - 1 -> [i : Nat, phase : {"read", "store", "copy"}, val : Int]]
  /\ \A l \in 0 .. Width - 1 : Owns(Width, l, lane[l].i)
  /\ Working => \A l \in 0 .. Width - 1 :
       /\ lane[l].phase # "read" => InLevel(l)
       /\ lane[l].phase = "store" => lane[l].val = NodeOf(l)
       /\ lane[l].phase = "copy" => Copies(NodeOf(l))

\* The slots: what later levels read, and what this level has written.
ScratchInv ==
  /\ scratch \in [0 .. Words(strategy) - 1 -> Int]
  /\ \A w \in 0 .. Words(strategy) - 1 : scratch[w] = Wrong \/ scratch[w] \in Nat
  /\ LiveLabelsIntact
  /\ strategy = "level" => \A id \in Ids : topo.level[id + 1] < lv => scratch[id] = id
  /\ Working => \A l \in 0 .. Width - 1 : \A p \in 0 .. Len(LevelNodes) - 1 :
       IsStored(l, p) => scratch[SlotOf(LevelNodes[p + 1])] = LevelNodes[p + 1]

\* The persisted region: empty or right; right for the levels before this one
\* and for the positions of this level that a lane has left.
PersistInv ==
  /\ persist \in [Ranks -> Int]
  /\ \A r \in Ranks : persist[r] = topo.out[r + 1] \/ persist[r] = None
  /\ strategy = "level" => (lv = topo.num_levels + 1 =>
       \A r \in Ranks : persist[r] = topo.out[r + 1])
  /\ strategy # "level" => \A r \in Ranks :
       topo.level[topo.out[r + 1] + 1] < lv => persist[r] = topo.out[r + 1]
  /\ strategy # "level" /\ Working =>
       \A l \in 0 .. Width - 1 : \A p \in 0 .. Len(LevelNodes) - 1 : \A r \in Ranks :
         IsCopied(l, p) /\ LevelNodes[p + 1] = topo.out[r + 1]
           => persist[r] = topo.out[r + 1]

\* A launch in progress.
RunInv ==
  /\ strategy \in Strategies /\ topo # NoTopo
  /\ lv \in 0 .. topo.num_levels + (IF strategy = "level" THEN 1 ELSE 0)
  /\ LaneInv /\ ScratchInv /\ PersistInv

Idle == strategy = "none" /\ lv = 0 /\ lane = <<>> /\ scratch = <<>> /\ persist = <<>>

KernelInv == TopoInv /\ (Idle \/ RunInv)

----------------------------------------------------------------------------
(* Lanes and positions.                                                     *)

\* The positions of a lane are l, l + W, l + 2W ...
LEMMA OwnedPositions ==
  ASSUME NEW W \in Nat \ {0}, NEW l \in 0 .. W - 1
  PROVE  /\ Owns(W, l, l)
         /\ \A p : Owns(W, l, p) => p \in Nat /\ l <= p /\ Owns(W, l, p + W)
         /\ \A i, p : Owns(W, l, i) /\ Owns(W, l, p) /\ p < i + W => p <= i
<1>1. Owns(W, l, l)
  <2>1. l = l + 0 * W
    OBVIOUS
  <2> QED BY <2>1 DEF Owns
<1>2. ASSUME NEW p, Owns(W, l, p)
      PROVE  p \in Nat /\ l <= p /\ Owns(W, l, p + W)
  <2>1. PICK q \in Nat : p = l + q * W
    BY <1>2 DEF Owns
  <2>2. q * W \in Nat /\ (q + 1) * W = q * W + W /\ q + 1 \in Nat
    OBVIOUS
  <2>3. p \in Nat /\ l <= p
    BY <2>1, <2>2
  <2>4. p + W = l + (q + 1) * W
    BY <2>1, <2>2
  <2> QED BY <2>2, <2>3, <2>4 DEF Owns
<1>3. ASSUME NEW i, NEW p, Owns(W, l, i), Owns(W, l, p), p < i + W
      PROVE  p <= i
  <2>1. PICK a \in Nat : i = l + a * W
    BY <1>3 DEF Owns
  <2>2. PICK b \in Nat : p = l + b * W
    BY <1>3 DEF Owns
  <2>3. CASE b <= a
    <3>1. b * W <= a * W /\ a * W \in Nat /\ b * W \in Nat
      BY <2>3, MulMono
    <3> QED BY <2>1, <2>2, <3>1
  <2>4. CASE a + 1 <= b
    <3>1. (a + 1) * W <= b * W
      BY <2>4, MulMono
    <3>2. (a + 1) * W = a * W + W /\ a * W \in Nat /\ b * W \in Nat
      OBVIOUS
    <3> DEFINE x == a * W
               y == b * W
    <3>3. i = l + x /\ p = l + y /\ x + W <= y /\ x \in Nat /\ y \in Nat
      BY <2>1, <2>2, <3>1, <3>2
    <3> HIDE DEF x, y
    <3> QED BY <1>3, <3>3
  <2> QED BY <2>3, <2>4
<1> QED BY <1>1, <1>2, <1>3

\* Every position of a level belongs to a lane.
LEMMA PositionIsOwned ==
  ASSUME NEW W \in Nat \ {0}, NEW p \in Nat
  PROVE  \E l \in 0 .. W - 1 : Owns(W, l, p)
<1>1. p % W \in 0 .. W - 1 /\ p = W * (p \div W) + (p % W) /\ p \div W \in Nat
  <2>1. p % W \in 0 .. W - 1 /\ p = W * (p \div W) + (p % W)
    BY DivMod
  <2>2. p \div W \in Nat
    BY DivNat
  <2> QED BY <2>1, <2>2
<1> DEFINE q == p \div W
           l == p % W
<1> HIDE DEF q, l
<1>2. p = W * q + l /\ l \in 0 .. W - 1 /\ q \in Nat
  BY <1>1 DEF q, l
<1>3. W * q = q * W /\ q * W \in Nat
  BY <1>2
<1>4. p = l + q * W
  BY <1>2, <1>3
<1> QED BY <1>2, <1>4 DEF Owns

----------------------------------------------------------------------------
(* The topology on the device.                                              *)

\* The outputs are distinct nodes, as many as the chunk has blocks.
OutSound(t) ==
  /\ Len(t.out) \in Sizes /\ t.out \in Seq(0 .. Len(t.pred) - 1)
  /\ \A i, j \in 1 .. Len(t.out) : t.out[i] = t.out[j] => i = j

\* What pose_graph_hbm_topo_build leaves on the device.
LEMMA BuiltTopology ==
  ASSUME NEW cb \in Sizes
  PROVE  /\ TopoSound(Topology(Edges(cb))) /\ OutSound(Topology(Edges(cb)))
         /\ Topology(Edges(cb)).pred # <<>>
<1> DEFINE g == Edges(cb)
<1>1. /\ Acyclic(g.pred) /\ Len(g.pred) # 0
      /\ Len(g.out) = cb /\ g.out \in Seq(0 .. Len(g.pred) - 1)
      /\ \A i, j \in 1 .. cb : g.out[i] = g.out[j] => i = j
  BY EdgesAssumption DEF IsEdgeList
<1> HIDE DEF g
<1>2. /\ TopoSound(Topology(g))
      /\ Topology(g).pred = g.pred /\ Topology(g).out = g.out
  BY <1>1, TopologySound
<1>3. g.pred # <<>>
  BY <1>1
<1> QED BY <1>1, <1>2, <1>3 DEF OutSound, g

\* The topology on the device, whenever there is one.
LEMMA SoundTopo ==
  ASSUME TopoInv, topo # NoTopo
  PROVE  TopoSound(topo) /\ OutSound(topo)
BY BuiltTopology DEF TopoInv

\* The nodes of the level in progress.
LEMMA NodesOfLevel ==
  ASSUME TopoSound(topo), lv \in Nat, lv < topo.num_levels
  PROVE  /\ Len(LevelNodes) \in Nat
         /\ \A p \in 0 .. Len(LevelNodes) - 1 :
              /\ LevelNodes[p + 1] \in Ids
              /\ topo.level[LevelNodes[p + 1] + 1] = lv
              /\ topo.last[LevelNodes[p + 1] + 1] >= lv
              /\ LevelNodes[p + 1] \in LiveAt(topo.level, topo.last, Count, lv)
         /\ \A p, q \in 0 .. Len(LevelNodes) - 1 :
              LevelNodes[p + 1] = LevelNodes[q + 1] => p = q
         /\ \A id \in Ids : topo.level[id + 1] = lv =>
              \E p \in 0 .. Len(LevelNodes) - 1 : LevelNodes[p + 1] = id
<1> DEFINE s == LevelNodes
           E == Entries(topo.level, lv, Count)
<1>1. Enumerates(s, E) /\ Count \in Nat
  BY DEF TopoSound, LevelNodes, Count, Acyclic
<1>2. \A x \in 0 .. Count - 1 : x + 1 \in 1 .. Count
  BY <1>1
<1>3. \A x \in E : /\ x \in Ids /\ topo.level[x + 1] = lv /\ topo.last[x + 1] >= lv
                   /\ x \in LiveAt(topo.level, topo.last, Count, lv)
  BY <1>2 DEF TopoSound, Entries, LiveAt, Count, Ids
<1> HIDE DEF s, E
<1>4. s \in Seq(E) /\ Len(s) \in Nat
  BY <1>1 DEF Enumerates
<1>5. \A p \in 0 .. Len(s) - 1 : p + 1 \in 1 .. Len(s) /\ s[p + 1] \in E
  BY <1>4
<1>6. \A p, q \in 0 .. Len(s) - 1 : s[p + 1] = s[q + 1] => p = q
  <2> SUFFICES ASSUME NEW p \in 0 .. Len(s) - 1, NEW q \in 0 .. Len(s) - 1,
                      s[p + 1] = s[q + 1]
               PROVE  p = q
    OBVIOUS
  <2>1. p + 1 = q + 1
    BY <1>1, <1>5 DEF Enumerates
  <2> QED BY <2>1
<1>7. ASSUME NEW id \in Ids, topo.level[id + 1] = lv
      PROVE  \E p \in 0 .. Len(s) - 1 : s[p + 1] = id
  <2>1. id \in E
    BY <1>7 DEF E, Entries, Ids
  <2>2. PICK k \in 1 .. Len(s) : s[k] = id
    BY <1>1, <2>1 DEF Enumerates
  <2>3. k - 1 \in 0 .. Len(s) - 1 /\ (k - 1) + 1 = k
    BY <1>4
  <2> QED BY <2>2, <2>3
<1> QED BY <1>3, <1>4, <1>5, <1>6, <1>7 DEF s

\* The slots of the nodes.
LEMMA SlotFacts ==
  ASSUME TopoSound(topo), strategy \in Strategies
  PROVE  /\ Words(strategy) \in Nat /\ Count \in Nat \ {0}
         /\ \A id \in Ids : SlotOf(id) \in 0 .. Words(strategy) - 1
         /\ \A mm \in 0 .. topo.num_levels - 1 :
              \A x, y \in LiveAt(topo.level, topo.last, Count, mm) :
                SlotOf(x) = SlotOf(y) => x = y
<1>1. Count \in Nat \ {0}
  BY DEF TopoSound, Count, Acyclic
<1>2. CASE strategy = "level"
  BY <1>1, <1>2 DEF Words, SlotOf, Ids, Count
<1>3. CASE strategy # "level"
  BY <1>1, <1>3 DEF TopoSound, Words, SlotOf, Ids, Count
<1> QED BY <1>1, <1>2, <1>3

\* An element of a sequence.
LEMMA SeqElement ==
  ASSUME NEW S, NEW s \in Seq(S), NEW k \in DOMAIN s
  PROVE  s[k] \in S
OBVIOUS

\* Predecessors are computed at lower levels and alive at this one.
LEMMA PredecessorsLive ==
  ASSUME TopoSound(topo), NEW id \in Ids, NEW k \in DOMAIN topo.pred[id + 1]
  PROVE  LET q == topo.pred[id + 1][k]
         IN  /\ q \in Ids /\ topo.level[q + 1] < topo.level[id + 1]
             /\ topo.last[q + 1] >= topo.level[id + 1]
<1> DEFINE q == topo.pred[id + 1][k]
           i == id + 1
<1>1. Count \in Nat /\ i \in 1 .. Count
  BY DEF TopoSound, Count, Acyclic, Ids
<1>2. topo.pred[i] \in Seq(0 .. i - 2)
  BY <1>1 DEF TopoSound, Acyclic, Count
<1>3. topo.pred[i][k] \in 0 .. i - 2
  <2> DEFINE s == topo.pred[i]
             b == i - 2
  <2>1. s \in Seq(0 .. b) /\ k \in DOMAIN s
    BY <1>2
  <2> HIDE DEF s, b
  <2>2. s[k] \in 0 .. b
    BY <2>1, SeqElement
  <2> QED BY <2>2 DEF s, b
<1> HIDE DEF i
<1>4. topo.pred[i][k] \in Ids
  BY <1>1, <1>3 DEF Ids
<1>5. /\ topo.level[topo.pred[i][k] + 1] < topo.level[i]
      /\ topo.level[i] <= topo.last[topo.pred[i][k] + 1]
  BY <1>1 DEF TopoSound, Count, i
<1>6. topo.level[i] \in Nat /\ topo.last[topo.pred[i][k] + 1] \in Nat
  <2> DEFINE x == topo.pred[i][k]
  <2> HIDE DEF x
  <2>1. x \in Ids
    BY <1>4 DEF x
  <2>2. x + 1 \in 1 .. Count
    BY <1>1, <2>1 DEF Ids
  <2>3. topo.level[i] \in Nat /\ topo.last[x + 1] \in Nat
    BY <1>1, <2>2 DEF TopoSound, Count
  <2> QED BY <2>3 DEF x
<1> QED BY <1>4, <1>5, <1>6 DEF i

----------------------------------------------------------------------------
(* The steps between kernels.                                               *)

\* There is a lane.
LEMMA LaneCountType ==
  ASSUME NEW s
  PROVE  LaneCount(s) \in Nat \ {0}
BY KernelAssumption DEF LaneCount

\* At the start of a level no lane has done anything.
LEMMA LevelStart ==
  ASSUME strategy' \in Strategies, lane' = LanesAtStart(strategy')
  PROVE  /\ LaneInv'
         /\ \A l \in 0 .. Width' - 1 : \A p : ~IsStored(l, p)' /\ ~IsCopied(l, p)'
<1> DEFINE W == LaneCount(strategy')
<1>1. W \in Nat \ {0} /\ Width' = W
  BY LaneCountType DEF Width
<1>2. /\ lane' = [l \in 0 .. W - 1 |-> [i |-> l, phase |-> "read", val |-> None]]
      /\ \A l \in 0 .. W - 1 : lane'[l].i = l /\ lane'[l].phase = "read" /\ l \in Nat
  BY <1>1 DEF LanesAtStart
<1> HIDE DEF W
<1>3. lane' \in [0 .. W - 1 -> [i : Nat, phase : {"read", "store", "copy"}, val : Int]]
  <2>1. \A l \in 0 .. W - 1 : [i |-> l, phase |-> "read", val |-> None]
                                \in [i : Nat, phase : {"read", "store", "copy"}, val : Int]
    BY <1>1 DEF None
  <2> QED BY <1>2, <2>1
<1>4. \A l \in 0 .. W - 1 : Owns(W, l, l) /\ \A p : Owns(W, l, p) => p \in Nat /\ l <= p
  BY <1>1, OwnedPositions
<1>5. LaneInv'
  BY <1>1, <1>2, <1>3, <1>4 DEF LaneInv
<1>6. ASSUME NEW l \in 0 .. W - 1, NEW p
      PROVE  ~(Owns(W, l, p) /\ p < lane'[l].i) /\ lane'[l].phase # "copy"
  BY <1>2, <1>4
<1> QED BY <1>1, <1>5, <1>6 DEF IsStored, IsCopied

\* Initially there is no topology and no launch.
LEMMA InitInv ==
  Init => KernelInv
BY DEF Init, KernelInv, TopoInv, Idle

\* Building a topology.
LEMMA BuildTopoStep ==
  ASSUME KernelInv, NEW cb \in Sizes, BuildTopo(cb)
  PROVE  KernelInv'
<1>1. Idle
  BY DEF BuildTopo, KernelInv, RunInv
<1> QED BY <1>1 DEF BuildTopo, KernelInv, TopoInv, Idle

\* Freeing it.
LEMMA FreeTopoStep ==
  ASSUME KernelInv, FreeTopo
  PROVE  KernelInv'
<1>1. Idle
  BY DEF FreeTopo, KernelInv, RunInv, Strategies
<1> QED BY <1>1 DEF FreeTopo, KernelInv, TopoInv, Idle

\* The host leaves a launch.
LEMMA SynchronizeStep ==
  ASSUME KernelInv, Synchronize
  PROVE  KernelInv'
BY DEF Synchronize, KernelInv, TopoInv, Idle

\* A launch finds a scratch without a label of this chunk.
LEMMA LaunchStep ==
  ASSUME KernelInv, NEW s \in Strategies, Launch(s)
  PROVE  KernelInv'
<1>1. /\ topo # NoTopo /\ topo' = topo /\ strategy' = s /\ lv' = 0
      /\ lane' = LanesAtStart(strategy')
      /\ scratch' = [w \in 0 .. Words(s) - 1 |-> Wrong]
      /\ persist' = [r \in Ranks |-> None]
  BY DEF Launch, Ranks
<1>2. TopoSound(topo) /\ OutSound(topo)
  BY <1>1, SoundTopo DEF KernelInv
<1>3. /\ LaneInv'
      /\ \A l \in 0 .. Width' - 1 : \A p : ~IsStored(l, p)' /\ ~IsCopied(l, p)'
  BY <1>1, LevelStart
<1>4. /\ topo.num_levels \in Nat /\ Ids' = Ids /\ Ranks' = Ranks
      /\ Words(strategy)' = Words(s)
      /\ \A id \in Ids : ~(topo.level[id + 1] < 0)
  <2>1. Count \in Nat
    BY <1>2 DEF TopoSound, Acyclic, Count
  <2>2. \A id \in Ids : id + 1 \in 1 .. Count
    BY <2>1 DEF Ids
  <2>3. \A id \in Ids : topo.level[id + 1] \in Nat
    BY <1>2, <2>2 DEF TopoSound, Count
  <2> QED BY <1>1, <1>2, <2>3 DEF TopoSound, Ids, Count, Ranks, Words
<1>5. \A r \in Ranks : topo.out[r + 1] \in Ids
  BY <1>2 DEF OutSound, Ranks, Ids, Count
<1>6. ScratchInv'
  <2>1. LiveLabelsIntact'
    BY <1>1, <1>4 DEF LiveLabelsIntact, Ids, Count
  <2> QED BY <1>1, <1>3, <1>4, <2>1 DEF ScratchInv, Wrong
<1>7. PersistInv'
  BY <1>1, <1>3, <1>4, <1>5 DEF PersistInv, None
<1>8. TopoInv' /\ topo' # NoTopo
  BY <1>1 DEF KernelInv, TopoInv
<1>9. RunInv'
  BY <1>1, <1>3, <1>4, <1>6, <1>7, <1>8 DEF RunInv
<1> QED BY <1>8, <1>9 DEF KernelInv

----------------------------------------------------------------------------
(* The steps of a kernel.                                                   *)

\* A kernel at work.
LEMMA AtWork ==
  ASSUME KernelInv, Working
  PROVE  /\ RunInv /\ TopoSound(topo) /\ OutSound(topo) /\ TopoInv
         /\ lv \in Nat /\ topo.num_levels \in Nat /\ lv < topo.num_levels
         /\ lv \in 0 .. topo.num_levels - 1
         /\ Width \in Nat \ {0}
         /\ \A id \in Ids : /\ id \in Nat /\ topo.level[id + 1] \in Nat
                            /\ topo.last[id + 1] \in Nat
         /\ \A r \in Ranks : topo.out[r + 1] \in Ids
<1>1. RunInv /\ TopoInv
  BY DEF KernelInv, Working, Idle
<1>2. TopoSound(topo) /\ OutSound(topo)
  BY <1>1, SoundTopo DEF RunInv
<1>3. topo.num_levels \in Nat /\ Count \in Nat /\ Width \in Nat \ {0}
  BY <1>2, LaneCountType DEF TopoSound, Acyclic, Count, Width
<1>4. lv \in Nat /\ lv < topo.num_levels /\ lv \in 0 .. topo.num_levels - 1
  BY <1>1, <1>3 DEF RunInv, Working
<1>5. \A id \in Ids : id \in Nat /\ id + 1 \in 1 .. Count
  BY <1>3 DEF Ids
<1>6. \A id \in Ids : topo.level[id + 1] \in Nat /\ topo.last[id + 1] \in Nat
  BY <1>2, <1>5 DEF TopoSound, Count
<1>7. \A r \in Ranks : topo.out[r + 1] \in Ids
  BY <1>2 DEF OutSound, Ranks, Ids, Count
<1> QED BY <1>1, <1>2, <1>3, <1>4, <1>5, <1>6, <1>7

\* What a step within a level leaves alone.
LEMMA SameLevel ==
  ASSUME UNCHANGED <<topo, strategy, lv>>
  PROVE  /\ Width' = Width /\ Count' = Count /\ Ids' = Ids /\ Ranks' = Ranks
         /\ Working' = Working /\ LevelNodes' = LevelNodes
         /\ Words(strategy)' = Words(strategy)
         /\ \A id : SlotOf(id)' = SlotOf(id) /\ Copies(id)' = Copies(id)
         /\ TopoInv' = TopoInv
BY DEF Width, Count, Ids, Ranks, Working, LevelNodes, Words, SlotOf, Copies, RankOf, TopoInv

\* The lane that steps.
LEMMA StepLane ==
  ASSUME KernelInv, Working, NEW l \in 0 .. Lanes - 1, l \in DOMAIN lane, InLevel(l)
  PROVE  /\ l \in 0 .. Width - 1 /\ lane[l].i \in 0 .. Len(LevelNodes) - 1
         /\ NodeOf(l) \in Ids /\ topo.level[NodeOf(l) + 1] = lv
         /\ topo.last[NodeOf(l) + 1] >= lv
         /\ NodeOf(l) \in LiveAt(topo.level, topo.last, Count, lv)
         /\ Owns(Width, l, lane[l].i)
         /\ lane[l] \in [i : Nat, phase : {"read", "store", "copy"}, val : Int]
<1>1. TopoSound(topo) /\ lv \in Nat /\ lv < topo.num_levels /\ LaneInv
  BY AtWork DEF RunInv
<1>2. /\ l \in 0 .. Width - 1 /\ Owns(Width, l, lane[l].i)
      /\ lane[l] \in [i : Nat, phase : {"read", "store", "copy"}, val : Int]
  BY <1>1 DEF LaneInv
<1>3. lane[l].i \in 0 .. Len(LevelNodes) - 1
  BY <1>1, <1>2, NodesOfLevel DEF InLevel
<1> QED BY <1>1, <1>2, <1>3, NodesOfLevel DEF NodeOf

\* A lane reads the right labels: its predecessors are alive at this level.
LEMMA LaneReadStep ==
  ASSUME KernelInv, NEW l \in 0 .. Lanes - 1, LaneRead(l)
  PROVE  KernelInv'
<1> DEFINE id == NodeOf(l)
           ps == topo.pred[id + 1]
           W == Width
<1>1. /\ Working /\ l \in DOMAIN lane /\ InLevel(l) /\ lane[l].phase = "read"
      /\ UNCHANGED <<topo, strategy, lv, scratch, persist>>
      /\ lane' = [lane EXCEPT ![l].phase = "store",
                    ![l].val = IF \A k \in DOMAIN ps : scratch[SlotOf(ps[k])] = ps[k]
                               THEN id ELSE Wrong]
  BY DEF LaneRead
<1>2. /\ RunInv /\ TopoSound(topo) /\ TopoInv /\ lv \in Nat
      /\ \A x \in Ids : x \in Nat /\ topo.level[x + 1] \in Nat /\ topo.last[x + 1] \in Nat
  BY <1>1, AtWork
<1>3. /\ l \in 0 .. W - 1 /\ id \in Ids /\ topo.level[id + 1] = lv
      /\ lane[l] \in [i : Nat, phase : {"read", "store", "copy"}, val : Int]
  BY <1>1, StepLane
<1>4. \A k \in DOMAIN ps : scratch[SlotOf(ps[k])] = ps[k]
  <2> SUFFICES ASSUME NEW k \in DOMAIN ps PROVE scratch[SlotOf(ps[k])] = ps[k]
    OBVIOUS
  <2>1. ps[k] \in Ids /\ topo.level[ps[k] + 1] < lv /\ topo.last[ps[k] + 1] >= lv
    BY <1>2, <1>3, PredecessorsLive
  <2>2. LiveLabelsIntact
    BY <1>2 DEF RunInv, ScratchInv
  <2> QED BY <1>1, <2>1, <2>2 DEF LiveLabelsIntact, Ids, Count
<1> HIDE DEF ps
<1>5. lane' = [lane EXCEPT ![l].phase = "store", ![l].val = id]
  BY <1>1, <1>4
<1>6. LaneInv
  BY <1>2 DEF RunInv
<1> HIDE DEF id, W
<1>7. /\ lane'[l].i = lane[l].i /\ lane'[l].phase = "store" /\ lane'[l].val = id
      /\ \A mm \in 0 .. W - 1 : mm # l => lane'[mm] = lane[mm]
      /\ lane' \in [0 .. W - 1 -> [i : Nat, phase : {"read", "store", "copy"}, val : Int]]
  <2>1. id \in Int
    BY <1>2, <1>3
  <2>2. lane \in [0 .. W - 1 -> [i : Nat, phase : {"read", "store", "copy"}, val : Int]]
    BY <1>6 DEF LaneInv, W
  <2> QED BY <1>3, <1>5, <2>1, <2>2
<1>8. \A mm \in 0 .. W - 1 : lane'[mm].i = lane[mm].i
  BY <1>7
<1>9. LaneInv'
  <2>1. \A mm \in 0 .. W - 1 : Owns(W, mm, lane'[mm].i)
    BY <1>6, <1>8 DEF LaneInv, W
  <2>2. ASSUME NEW mm \in 0 .. W - 1
        PROVE  /\ lane'[mm].phase # "read" => InLevel(mm)'
               /\ lane'[mm].phase = "store" => lane'[mm].val = NodeOf(mm)'
               /\ lane'[mm].phase = "copy" => Copies(NodeOf(mm))'
    <3>1. InLevel(mm)' = InLevel(mm) /\ NodeOf(mm)' = NodeOf(mm)
      BY <1>1, <1>8, SameLevel DEF InLevel, NodeOf
    <3>2. CASE mm = l
      BY <1>1, <1>7, <3>1, <3>2 DEF id
    <3>3. CASE mm # l
      <4>1. Copies(NodeOf(mm))' = Copies(NodeOf(mm))
        BY <1>1, <3>1, SameLevel
      <4> QED BY <1>1, <1>6, <1>7, <3>1, <3>3, <4>1 DEF LaneInv, W
    <3> QED BY <3>2, <3>3
  <2>3. Width' = W
    BY <1>1, SameLevel DEF W
  <2> QED BY <1>7, <2>1, <2>2, <2>3 DEF LaneInv
<1>10. ASSUME NEW mm \in 0 .. W - 1, NEW p
       PROVE  /\ IsStored(mm, p)' => IsStored(mm, p)
              /\ IsCopied(mm, p)' => IsCopied(mm, p)
  BY <1>1, <1>7, <1>8, SameLevel DEF IsStored, IsCopied
<1>11. ScratchInv'
  BY <1>1, <1>2, <1>10, SameLevel DEF RunInv, ScratchInv, LiveLabelsIntact, W
<1>12. PersistInv'
  BY <1>1, <1>2, <1>10, SameLevel DEF RunInv, PersistInv, W
<1>13. RunInv' /\ TopoInv'
  BY <1>1, <1>2, <1>9, <1>11, <1>12, SameLevel DEF RunInv
<1> QED BY <1>13 DEF KernelInv

\* The rank of a node, if it has one.
LEMMA RankFacts ==
  ASSUME OutSound(topo), NEW id
  PROVE  /\ RankOf(id) = None => \A r \in Ranks : topo.out[r + 1] # id
         /\ RankOf(id) # None => RankOf(id) \in Ranks /\ topo.out[RankOf(id) + 1] = id
<1> DEFINE outs == topo.out
           ranks == {r \in DOMAIN outs : outs[r] = id}
           n == Len(outs)
<1>1. n \in Nat /\ DOMAIN outs = 1 .. n
  BY DEF OutSound
<1>2. RankOf(id) = IF ranks = {} THEN None ELSE (CHOOSE r \in ranks : TRUE) - 1
  BY DEF RankOf
<1>3. Ranks = 0 .. n - 1
  BY DEF Ranks
<1> HIDE DEF outs, n
<1>4. CASE ranks = {}
  <2>1. \A r \in 0 .. n - 1 : r + 1 \in 1 .. n
    BY <1>1
  <2>2. \A r \in 0 .. n - 1 : outs[r + 1] # id
    BY <1>1, <1>4, <2>1
  <2> QED BY <1>2, <1>3, <1>4, <2>2 DEF outs
<1>5. CASE ranks # {}
  <2> DEFINE c == CHOOSE r \in ranks : TRUE
  <2>1. c \in ranks
    BY <1>5
  <2> HIDE DEF c
  <2>2. c \in 1 .. n /\ outs[c] = id
    BY <1>1, <2>1
  <2> HIDE DEF ranks
  <2>3. c - 1 \in 0 .. n - 1 /\ (c - 1) + 1 = c /\ c - 1 # None
    BY <1>1, <2>2 DEF None
  <2>4. RankOf(id) = c - 1
    BY <1>2, <1>5 DEF c
  <2>5. RankOf(id) \in Ranks /\ outs[RankOf(id) + 1] = id
    BY <1>3, <2>2, <2>3, <2>4
  <2> QED BY <2>3, <2>4, <2>5 DEF outs
<1> QED BY <1>4, <1>5

\* A lane moves on to its next node.
LEMMA AdvanceFacts ==
  ASSUME LaneInv, NEW l \in 0 .. Width - 1, Advance(l)
  PROVE  /\ lane' \in [0 .. Width - 1 -> [i : Nat, phase : {"read", "store", "copy"}, val : Int]]
         /\ lane'[l].i = lane[l].i + Width /\ lane'[l].phase = "read"
         /\ Owns(Width, l, lane'[l].i)
         /\ \A mm \in 0 .. Width - 1 : mm # l => lane'[mm] = lane[mm]
         /\ \A p : Owns(Width, l, p) /\ p < lane'[l].i => p <= lane[l].i
<1> DEFINE W == Width
           i == lane[l].i
<1>1. W \in Nat \ {0}
  BY LaneCountType DEF Width
<1>2. lane \in [0 .. W - 1 -> [i : Nat, phase : {"read", "store", "copy"}, val : Int]]
  BY DEF LaneInv
<1>3. i \in Nat /\ Owns(W, l, i)
  BY <1>2 DEF LaneInv
<1>4. lane' = [lane EXCEPT ![l] = [i |-> i + W, phase |-> "read", val |-> None]]
  BY DEF Advance, Width
<1> HIDE DEF W, i
<1>5. l \in 0 .. W - 1
  BY DEF W
<1>6. [i |-> i + W, phase |-> "read", val |-> None]
         \in [i : Nat, phase : {"read", "store", "copy"}, val : Int]
  BY <1>1, <1>3 DEF None
<1>7. /\ lane' \in [0 .. W - 1 -> [i : Nat, phase : {"read", "store", "copy"}, val : Int]]
      /\ lane'[l].i = i + W /\ lane'[l].phase = "read"
      /\ \A mm \in 0 .. W - 1 : mm # l => lane'[mm] = lane[mm]
  BY <1>2, <1>4, <1>5, <1>6
<1>8. Owns(W, l, i + W) /\ \A p : Owns(W, l, p) /\ p < i + W => p <= i
  BY <1>1, <1>3, <1>5, OwnedPositions
<1> QED BY <1>7, <1>8 DEF W, i

\* Lanes keep their invariant when one of them stays in its phase's terms.
LEMMA LaneStepInv ==
  ASSUME KernelInv, Working, UNCHANGED <<topo, strategy, lv>>,
         NEW l \in 0 .. Width - 1,
         lane' \in [0 .. Width - 1 -> [i : Nat, phase : {"read", "store", "copy"}, val : Int]],
         \A mm \in 0 .. Width - 1 : mm # l => lane'[mm] = lane[mm],
         Owns(Width, l, lane'[l].i),
         \/ lane'[l].phase = "read"
         \/ lane'[l].phase = "copy" /\ lane'[l].i = lane[l].i /\ InLevel(l) /\ Copies(NodeOf(l))
  PROVE  LaneInv'
<1> DEFINE W == Width
<1>1. LaneInv
  BY AtWork DEF RunInv
<1>2. Width' = W
  BY SameLevel
<1>3. \A mm \in 0 .. W - 1 : Owns(W, mm, lane'[mm].i)
  BY <1>1 DEF LaneInv
<1>4. ASSUME NEW mm \in 0 .. W - 1
      PROVE  /\ lane'[mm].phase # "read" => InLevel(mm)'
             /\ lane'[mm].phase = "store" => lane'[mm].val = NodeOf(mm)'
             /\ lane'[mm].phase = "copy" => Copies(NodeOf(mm))'
  <2>1. CASE lane'[mm].i = lane[mm].i
    <3>1. InLevel(mm)' = InLevel(mm) /\ NodeOf(mm)' = NodeOf(mm)
      BY <2>1, SameLevel DEF InLevel, NodeOf
    <3>2. Copies(NodeOf(mm))' = Copies(NodeOf(mm))
      BY <3>1, SameLevel
    <3>3. CASE mm = l BY <3>1, <3>2, <3>3
    <3>4. CASE mm # l BY <1>1, <3>1, <3>2, <3>4 DEF LaneInv
    <3> QED BY <3>3, <3>4
  <2>2. CASE lane'[mm].i # lane[mm].i
    BY <2>2
  <2> QED BY <2>1, <2>2
<1> HIDE DEF W
<1>5. lane' \in [0 .. W - 1 -> [i : Nat, phase : {"read", "store", "copy"}, val : Int]]
  BY DEF W
<1> QED BY <1>2, <1>3, <1>4, <1>5 DEF LaneInv

\* A lane stores a label: its slot is that of no node still to be read.
LEMMA LaneStoreStep ==
  ASSUME KernelInv, NEW l \in 0 .. Lanes - 1, LaneStore(l)
  PROVE  KernelInv'
<1> DEFINE id == NodeOf(l)
           at == SlotOf(id)
           W == Width
           i == lane[l].i
           s == LevelNodes
           K == Words(strategy)
<1>1. /\ Working /\ l \in DOMAIN lane /\ InLevel(l) /\ lane[l].phase = "store"
      /\ UNCHANGED <<topo, strategy, lv, persist>>
      /\ scratch' = [scratch EXCEPT ![at] = lane[l].val]
      /\ IF Copies(id) THEN lane' = [lane EXCEPT ![l].phase = "copy"] ELSE Advance(l)
  BY DEF LaneStore
<1>2. /\ RunInv /\ TopoSound(topo) /\ OutSound(topo) /\ TopoInv /\ lv \in Nat
      /\ lv < topo.num_levels /\ lv \in 0 .. topo.num_levels - 1 /\ strategy \in Strategies
      /\ LaneInv /\ ScratchInv /\ PersistInv
      /\ \A x \in Ids : x \in Nat /\ topo.level[x + 1] \in Nat /\ topo.last[x + 1] \in Nat
  BY <1>1, AtWork DEF RunInv
<1>3. /\ l \in 0 .. W - 1 /\ id \in Ids /\ topo.level[id + 1] = lv
      /\ id \in LiveAt(topo.level, topo.last, Count, lv)
      /\ lane[l] \in [i : Nat, phase : {"read", "store", "copy"}, val : Int]
      /\ i \in 0 .. Len(s) - 1 /\ Owns(W, l, i) /\ s[i + 1] = id
  BY <1>1, StepLane DEF NodeOf
<1>4. lane[l].val = id
  BY <1>1, <1>2, <1>3 DEF LaneInv
<1>5. /\ \A x \in Ids : SlotOf(x) \in 0 .. K - 1
      /\ \A x, y \in LiveAt(topo.level, topo.last, Count, lv) : SlotOf(x) = SlotOf(y) => x = y
  BY <1>2, SlotFacts
<1>6. scratch \in [0 .. K - 1 -> Int]
      /\ \A w \in 0 .. K - 1 : scratch[w] = Wrong \/ scratch[w] \in Nat
  BY <1>2 DEF ScratchInv
<1> HIDE DEF id, at, W, i, s, K
<1>7. /\ lane' \in [0 .. W - 1 -> [i : Nat, phase : {"read", "store", "copy"}, val : Int]]
      /\ Owns(W, l, lane'[l].i)
      /\ \A mm \in 0 .. W - 1 : mm # l => lane'[mm] = lane[mm]
      /\ \/ lane'[l].phase = "copy" /\ lane'[l].i = i /\ Copies(id)
         \/ /\ lane'[l].phase = "read" /\ ~Copies(id)
            /\ \A p : Owns(W, l, p) /\ p < lane'[l].i => p <= i
  <2>1. CASE Copies(id)
    <3>1. lane' = [lane EXCEPT ![l].phase = "copy"]
      BY <1>1, <2>1 DEF id
    <3>2. lane \in [0 .. W - 1 -> [i : Nat, phase : {"read", "store", "copy"}, val : Int]]
      BY <1>2 DEF LaneInv, W
    <3>3. /\ lane' \in [0 .. W - 1 -> [i : Nat, phase : {"read", "store", "copy"}, val : Int]]
          /\ lane'[l].phase = "copy" /\ lane'[l].i = lane[l].i
          /\ \A mm \in 0 .. W - 1 : mm # l => lane'[mm] = lane[mm]
      BY <1>3, <3>1, <3>2
    <3> QED BY <1>3, <2>1, <3>3 DEF i
  <2>2. CASE ~Copies(id)
    <3>1. Advance(l) /\ l \in 0 .. Width - 1
      BY <1>1, <1>3, <2>2 DEF id, W
    <3> QED BY <1>2, <2>2, <3>1, AdvanceFacts DEF W, i
  <2> QED BY <2>1, <2>2
<1>8. LaneInv'
  BY <1>1, <1>3, <1>7, LaneStepInv DEF W, i, id
<1>9. at \in 0 .. K - 1 /\ scratch' = [scratch EXCEPT ![at] = id]
  BY <1>1, <1>3, <1>4, <1>5 DEF at
<1>10. /\ scratch' \in [0 .. K - 1 -> Int]
       /\ scratch'[at] = id
       /\ \A w \in 0 .. K - 1 : w # at => scratch'[w] = scratch[w]
  <2>1. id \in Int
    BY <1>2, <1>3
  <2> QED BY <1>6, <1>9, <2>1
<1>11. ASSUME NEW x \in Ids, NEW y, y = SlotOf(x), x # id,
              x \in LiveAt(topo.level, topo.last, Count, lv) \/ strategy = "level"
       PROVE  scratch'[y] = scratch[y]
  <2>1. y # at
    <3>1. CASE x \in LiveAt(topo.level, topo.last, Count, lv)
      BY <1>3, <1>5, <1>11, <3>1 DEF at
    <3>2. CASE strategy = "level"
      BY <1>11, <3>2 DEF SlotOf, at
    <3> QED BY <1>11, <3>1, <3>2
  <2> QED BY <1>5, <1>10, <1>11, <2>1
<1>12. LiveLabelsIntact'
  <2> SUFFICES ASSUME NEW x \in Ids, topo.level[x + 1] < lv, topo.last[x + 1] >= lv
               PROVE  scratch'[SlotOf(x)] = x
    BY <1>1, SameLevel DEF LiveLabelsIntact, Ids, Count
  <2>1. x # id /\ x \in LiveAt(topo.level, topo.last, Count, lv)
    BY <1>2, <1>3 DEF LiveAt, Ids
  <2>2. scratch[SlotOf(x)] = x
    BY <1>1, <1>2 DEF ScratchInv, LiveLabelsIntact, Ids, Count
  <2> QED BY <1>11, <2>1, <2>2
<1>13. ASSUME strategy = "level", NEW x \in Ids, topo.level[x + 1] < lv
       PROVE  scratch'[x] = x
  <2>1. x # id /\ SlotOf(x) = x /\ scratch[x] = x
    BY <1>2, <1>3, <1>13 DEF ScratchInv, SlotOf
  <2> QED BY <1>11, <1>13, <2>1
<1>14. ASSUME NEW mm \in 0 .. W - 1, NEW p \in 0 .. Len(s) - 1, IsStored(mm, p)'
       PROVE  scratch'[SlotOf(s[p + 1])] = s[p + 1]
  <2>1. CASE s[p + 1] = id
    BY <1>10, <2>1 DEF at
  <2>2. CASE s[p + 1] # id
    <3>1. Owns(W, mm, p) /\ (p < lane'[mm].i \/ (p = lane'[mm].i /\ lane'[mm].phase = "copy"))
      BY <1>1, <1>14, SameLevel DEF IsStored, W
    <3>2. IsStored(mm, p)
      <4>1. CASE mm # l
        BY <1>7, <3>1, <4>1 DEF IsStored, W
      <4>2. CASE mm = l
        <5>1. p # i
          BY <1>3, <2>2
        <5>2. p <= i
          BY <1>3, <1>7, <3>1, <4>2
        <5> QED BY <1>3, <3>1, <4>2, <5>1, <5>2 DEF IsStored, W, i
      <4> QED BY <4>1, <4>2
    <3>3. scratch[SlotOf(s[p + 1])] = s[p + 1]
      BY <1>1, <1>2, <3>2 DEF ScratchInv, W, s
    <3>4. s[p + 1] \in Ids /\ s[p + 1] \in LiveAt(topo.level, topo.last, Count, lv)
      BY <1>2, NodesOfLevel DEF s
    <3> QED BY <1>11, <2>2, <3>3, <3>4
  <2> QED BY <2>1, <2>2
<1>15. ScratchInv'
  <2>1. Words(strategy)' = K /\ Width' = W /\ LevelNodes' = s /\ Ids' = Ids
        /\ \A x : SlotOf(x)' = SlotOf(x)
    BY <1>1, SameLevel DEF K, W, s
  <2>2. \A w \in 0 .. K - 1 : scratch'[w] = Wrong \/ scratch'[w] \in Nat
    BY <1>2, <1>3, <1>6, <1>10
  <2> QED BY <1>1, <1>10, <1>12, <1>13, <1>14, <2>1, <2>2 DEF ScratchInv
<1>16. PersistInv'
  <2>1. Width' = W /\ LevelNodes' = s /\ Ranks' = Ranks /\ Working' = Working
    BY <1>1, SameLevel DEF W, s
  <2>2. ASSUME strategy # "level", NEW mm \in 0 .. W - 1, NEW p \in 0 .. Len(s) - 1,
               NEW r \in Ranks, IsCopied(mm, p)', s[p + 1] = topo.out[r + 1]
        PROVE  persist[r] = topo.out[r + 1]
    <3>1. Owns(W, mm, p) /\ p < lane'[mm].i
      BY <2>1, <2>2 DEF IsCopied
    <3>2. CASE IsCopied(mm, p)
      BY <1>1, <1>2, <2>2, <3>2 DEF PersistInv, W, s
    <3>3. CASE ~IsCopied(mm, p)
      <4>1. mm = l
        BY <1>7, <3>1, <3>3 DEF IsCopied, W
      <4>2. p = i /\ ~Copies(id)
        BY <1>3, <1>7, <3>1, <3>3, <4>1 DEF IsCopied, W, i
      <4>3. RankOf(id) = None
        BY <2>2, <4>2 DEF Copies
      <4> QED BY <1>2, <1>3, <2>2, <4>2, <4>3, RankFacts
    <3> QED BY <3>2, <3>3
  <2> QED BY <1>1, <1>2, <2>1, <2>2 DEF PersistInv
<1>17. RunInv' /\ TopoInv'
  BY <1>1, <1>2, <1>8, <1>15, <1>16, SameLevel DEF RunInv
<1> QED BY <1>17 DEF KernelInv

\* A lane copies a label out before any other node may have its slot.
LEMMA LaneCopyStep ==
  ASSUME KernelInv, NEW l \in 0 .. Lanes - 1, LaneCopy(l)
  PROVE  KernelInv'
<1> DEFINE id == NodeOf(l)
           rank == RankOf(id)
           W == Width
           i == lane[l].i
           s == LevelNodes
<1>1. /\ Working /\ l \in DOMAIN lane /\ InLevel(l) /\ lane[l].phase = "copy"
      /\ UNCHANGED <<topo, strategy, lv, scratch>>
      /\ persist' = [persist EXCEPT ![rank] = scratch[SlotOf(id)]]
      /\ Advance(l)
  BY DEF LaneCopy
<1>2. /\ RunInv /\ TopoSound(topo) /\ OutSound(topo) /\ TopoInv
      /\ LaneInv /\ ScratchInv /\ PersistInv
      /\ \A x \in Ids : x \in Nat
      /\ \A r \in Ranks : topo.out[r + 1] \in Ids
  BY <1>1, AtWork DEF RunInv
<1>3. /\ l \in 0 .. W - 1 /\ id \in Ids /\ i \in 0 .. Len(s) - 1
      /\ Owns(W, l, i) /\ s[i + 1] = id
  BY <1>1, StepLane DEF NodeOf
<1>4. Copies(id)
  BY <1>1, <1>2, <1>3 DEF LaneInv
<1>5. strategy # "level" /\ rank \in Ranks /\ topo.out[rank + 1] = id
  BY <1>2, <1>4, RankFacts DEF Copies
<1>6. scratch[SlotOf(id)] = id
  <2>1. IsStored(l, i)
    BY <1>1, <1>3 DEF IsStored, W, i
  <2> QED BY <1>1, <1>2, <1>3, <2>1 DEF ScratchInv, W, s
<1> HIDE DEF id, rank, W, i, s
<1>7. /\ lane' \in [0 .. W - 1 -> [i : Nat, phase : {"read", "store", "copy"}, val : Int]]
      /\ lane'[l].phase = "read" /\ Owns(W, l, lane'[l].i)
      /\ \A mm \in 0 .. W - 1 : mm # l => lane'[mm] = lane[mm]
      /\ \A p : Owns(W, l, p) /\ p < lane'[l].i => p <= i
  BY <1>1, <1>2, <1>3, AdvanceFacts DEF W, i
<1>8. LaneInv'
  BY <1>1, <1>3, <1>7, LaneStepInv DEF W
<1>9. /\ persist \in [Ranks -> Int]
      /\ \A r \in Ranks : persist[r] = topo.out[r + 1] \/ persist[r] = None
  BY <1>2 DEF PersistInv
<1>10. /\ persist' \in [Ranks -> Int] /\ persist'[rank] = topo.out[rank + 1]
       /\ \A r \in Ranks : r # rank => persist'[r] = persist[r]
  <2>1. id \in Int
    BY <1>2, <1>3
  <2> QED BY <1>1, <1>5, <1>6, <1>9, <2>1
<1>11. Width' = W /\ LevelNodes' = s /\ Ranks' = Ranks /\ Working' = Working /\ Ids' = Ids
       /\ Words(strategy)' = Words(strategy) /\ \A x : SlotOf(x)' = SlotOf(x)
  BY <1>1, SameLevel DEF W, s
<1>12. ASSUME NEW mm \in 0 .. W - 1, NEW p \in 0 .. Len(s) - 1,
              Owns(W, mm, p), p < lane'[mm].i, s[p + 1] # id
       PROVE  IsCopied(mm, p)
  <2>1. CASE mm # l
    BY <1>7, <1>12, <2>1 DEF IsCopied, W
  <2>2. CASE mm = l
    <3>1. p # i /\ p <= i
      BY <1>3, <1>7, <1>12, <2>2
    <3> QED BY <1>3, <1>12, <2>2, <3>1 DEF IsCopied, W, i
  <2> QED BY <2>1, <2>2
<1>13. ScratchInv'
  <2>1. LiveLabelsIntact'
    BY <1>1, <1>2, <1>11 DEF ScratchInv, LiveLabelsIntact
  <2>2. ASSUME NEW mm \in 0 .. W - 1, NEW p \in 0 .. Len(s) - 1, IsStored(mm, p)'
        PROVE  scratch[SlotOf(s[p + 1])] = s[p + 1]
    <3>1. Owns(W, mm, p) /\ (p < lane'[mm].i \/ (p = lane'[mm].i /\ lane'[mm].phase = "copy"))
      BY <1>11, <2>2 DEF IsStored
    <3>2. CASE s[p + 1] = id
      BY <1>6, <3>2
    <3>3. CASE s[p + 1] # id
      <4>1. IsStored(mm, p)
        <5>1. CASE p < lane'[mm].i
          BY <1>12, <3>1, <3>3, <5>1 DEF IsStored, IsCopied
        <5>2. CASE p = lane'[mm].i /\ lane'[mm].phase = "copy"
          BY <1>7, <3>1, <5>2 DEF IsStored, W
        <5> QED BY <3>1, <5>1, <5>2
      <4> QED BY <1>1, <1>2, <4>1 DEF ScratchInv, W, s
    <3> QED BY <3>2, <3>3
  <2> QED BY <1>1, <1>2, <1>11, <2>1, <2>2 DEF ScratchInv
<1>14. PersistInv'
  <2>1. \A r \in Ranks : persist'[r] = topo.out[r + 1] \/ persist'[r] = None
    BY <1>9, <1>10
  <2>2. \A r \in Ranks : persist[r] = topo.out[r + 1] => persist'[r] = topo.out[r + 1]
    BY <1>10
  <2>3. \A r \in Ranks : topo.level[topo.out[r + 1] + 1] < lv => persist'[r] = topo.out[r + 1]
    BY <1>2, <1>5, <2>2 DEF PersistInv
  <2>4. ASSUME NEW mm \in 0 .. W - 1, NEW p \in 0 .. Len(s) - 1,
               NEW r \in Ranks, IsCopied(mm, p)', s[p + 1] = topo.out[r + 1]
        PROVE  persist'[r] = topo.out[r + 1]
    <3>1. Owns(W, mm, p) /\ p < lane'[mm].i
      BY <1>11, <2>4 DEF IsCopied
    <3>2. CASE s[p + 1] = id
      <4>1. r + 1 = rank + 1
        <5>1. Len(topo.out) \in Nat
          BY <1>2 DEF OutSound
        <5>2. r + 1 \in 1 .. Len(topo.out) /\ rank + 1 \in 1 .. Len(topo.out)
          BY <1>5, <5>1 DEF Ranks
        <5> QED BY <1>2, <1>5, <2>4, <3>2, <5>2 DEF OutSound
      <4>2. r = rank
        BY <1>5, <4>1 DEF Ranks
      <4> QED BY <1>10, <4>2
    <3>3. CASE s[p + 1] # id
      <4>1. IsCopied(mm, p)
        BY <1>12, <3>1, <3>3
      <4>2. persist[r] = topo.out[r + 1]
        BY <1>1, <1>2, <1>5, <2>4, <4>1 DEF PersistInv, W, s
      <4> QED BY <2>2, <4>2
    <3> QED BY <3>2, <3>3
  <2> QED BY <1>1, <1>5, <1>10, <1>11, <2>1, <2>3, <2>4 DEF PersistInv
<1>15. RunInv' /\ TopoInv'
  BY <1>1, <1>2, <1>8, <1>13, <1>14, SameLevel DEF RunInv
<1> QED BY <1>15 DEF KernelInv

\* At the barrier every position of the level is written (and copied).
LEMMA BarrierStep ==
  ASSUME KernelInv, Barrier
  PROVE  KernelInv'
<1> DEFINE s == LevelNodes
           W == Width
           L == topo.num_levels
<1>1. /\ Working /\ \A l \in DOMAIN lane : ~InLevel(l)
      /\ UNCHANGED <<topo, strategy, scratch, persist>>
      /\ lv' = lv + 1 /\ lane' = LanesAtStart(strategy')
  BY DEF Barrier
<1>2. /\ RunInv /\ TopoSound(topo) /\ OutSound(topo) /\ TopoInv
      /\ lv \in Nat /\ L \in Nat /\ lv < L /\ W \in Nat \ {0} /\ strategy \in Strategies
      /\ LaneInv /\ ScratchInv /\ PersistInv
      /\ \A x \in Ids : x \in Nat /\ topo.level[x + 1] \in Nat /\ topo.last[x + 1] \in Nat
      /\ \A r \in Ranks : topo.out[r + 1] \in Ids
  BY <1>1, AtWork DEF RunInv
<1>3. /\ LaneInv'
      /\ \A l \in 0 .. Width' - 1 : \A p : ~IsStored(l, p)' /\ ~IsCopied(l, p)'
  BY <1>1, <1>2, LevelStart
<1>4. Width' = W /\ Ids' = Ids /\ Ranks' = Ranks /\ Count' = Count
      /\ Words(strategy)' = Words(strategy) /\ \A x : SlotOf(x)' = SlotOf(x)
  BY <1>1 DEF Width, Ids, Ranks, Count, Words, SlotOf
<1> HIDE DEF W
<1>5. ASSUME NEW id \in Ids, topo.level[id + 1] = lv
      PROVE  \E p \in 0 .. Len(s) - 1 : \E l \in 0 .. W - 1 :
               s[p + 1] = id /\ Owns(W, l, p) /\ p < lane[l].i
  <2>1. PICK p \in 0 .. Len(s) - 1 : s[p + 1] = id
    BY <1>2, <1>5, NodesOfLevel
  <2>2. Len(s) \in Nat /\ p \in Nat
    BY <1>2, NodesOfLevel
  <2>3. PICK l \in 0 .. W - 1 : Owns(W, l, p)
    BY <1>2, <2>2, PositionIsOwned
  <2>4. l \in DOMAIN lane /\ lane[l].i \in Nat
    BY <1>2 DEF LaneInv, W
  <2>5. ~(lane[l].i < Len(s))
    BY <1>1, <2>4 DEF InLevel
  <2>6. p < lane[l].i
    BY <2>2, <2>4, <2>5
  <2> QED BY <2>1, <2>3, <2>6
<1>6. \A id \in Ids : topo.level[id + 1] = lv => scratch[SlotOf(id)] = id
  <2> SUFFICES ASSUME NEW id \in Ids, topo.level[id + 1] = lv
               PROVE  scratch[SlotOf(id)] = id
    OBVIOUS
  <2>1. PICK p \in 0 .. Len(s) - 1, l \in 0 .. W - 1 :
          s[p + 1] = id /\ Owns(W, l, p) /\ p < lane[l].i
    BY <1>5
  <2>2. IsStored(l, p)
    BY <2>1 DEF IsStored, W
  <2> QED BY <1>1, <1>2, <2>1, <2>2 DEF ScratchInv, W
<1>7. strategy # "level" =>
        \A r \in Ranks : topo.level[topo.out[r + 1] + 1] = lv => persist[r] = topo.out[r + 1]
  <2> SUFFICES ASSUME strategy # "level", NEW r \in Ranks, topo.level[topo.out[r + 1] + 1] = lv
               PROVE  persist[r] = topo.out[r + 1]
    OBVIOUS
  <2>1. PICK p \in 0 .. Len(s) - 1, l \in 0 .. W - 1 :
          s[p + 1] = topo.out[r + 1] /\ Owns(W, l, p) /\ p < lane[l].i
    BY <1>2, <1>5
  <2>2. IsCopied(l, p)
    BY <2>1 DEF IsCopied, W
  <2> QED BY <1>1, <1>2, <2>1, <2>2 DEF PersistInv, W
<1>8. \A x \in Ids : topo.level[x + 1] < lv + 1 => topo.level[x + 1] < lv \/ topo.level[x + 1] = lv
  BY <1>2
<1>9. LiveLabelsIntact'
  <2> SUFFICES ASSUME NEW id \in Ids, topo.level[id + 1] < lv + 1, topo.last[id + 1] >= lv + 1
               PROVE  scratch[SlotOf(id)] = id
    BY <1>1, <1>4 DEF LiveLabelsIntact, Ids, Count
  <2>1. CASE topo.level[id + 1] = lv
    BY <1>6, <2>1
  <2>2. CASE topo.level[id + 1] < lv
    <3>1. topo.last[id + 1] >= lv
      BY <1>2
    <3> QED BY <1>1, <1>2, <2>2, <3>1 DEF ScratchInv, LiveLabelsIntact, Ids, Count
  <2> QED BY <1>8, <2>1, <2>2
<1>10. strategy = "level" => \A id \in Ids : topo.level[id + 1] < lv + 1 => scratch[id] = id
  <2> SUFFICES ASSUME strategy = "level", NEW id \in Ids, topo.level[id + 1] < lv + 1
               PROVE  scratch[id] = id
    OBVIOUS
  <2>1. CASE topo.level[id + 1] = lv
    BY <1>6, <2>1 DEF SlotOf
  <2>2. CASE topo.level[id + 1] < lv
    BY <1>2, <2>2 DEF ScratchInv
  <2> QED BY <1>8, <2>1, <2>2
<1>11. ScratchInv'
  BY <1>1, <1>2, <1>3, <1>4, <1>9, <1>10 DEF ScratchInv
<1>12. PersistInv'
  <2>1. strategy # "level" => \A r \in Ranks :
          topo.level[topo.out[r + 1] + 1] < lv + 1 => persist[r] = topo.out[r + 1]
    BY <1>2, <1>7, <1>8 DEF PersistInv
  <2>2. lv' # L + 1
    BY <1>1, <1>2
  <2> QED BY <1>1, <1>2, <1>3, <1>4, <2>1, <2>2 DEF PersistInv
<1>13. lv' \in 0 .. L + (IF strategy = "level" THEN 1 ELSE 0)
  BY <1>1, <1>2
<1>14. RunInv' /\ TopoInv'
  BY <1>1, <1>2, <1>3, <1>11, <1>12, <1>13 DEF RunInv, TopoInv
<1> QED BY <1>14 DEF KernelInv

\* The outputs are extracted from a scaffold that is complete.
LEMMA ExtractStep ==
  ASSUME KernelInv, Extract
  PROVE  KernelInv'
<1> DEFINE L == topo.num_levels
<1>1. /\ strategy = "level" /\ ~Working /\ lv = L /\ lv' = L + 1
      /\ persist' = [r \in DOMAIN persist |-> scratch[topo.out[r + 1]]]
      /\ UNCHANGED <<topo, strategy, lane, scratch>>
  BY DEF Extract
<1>2. RunInv /\ TopoInv /\ LaneInv /\ ScratchInv /\ PersistInv /\ topo # NoTopo
  BY <1>1 DEF KernelInv, Idle, RunInv
<1>3. TopoSound(topo) /\ OutSound(topo)
  BY <1>2, SoundTopo
<1>4. L \in Nat /\ Count \in Nat
  BY <1>3 DEF TopoSound, Acyclic, Count
<1>5. \A id \in Ids : topo.level[id + 1] < L
  <2> SUFFICES ASSUME NEW id \in Ids PROVE topo.level[id + 1] < L
    OBVIOUS
  <2>1. id + 1 \in 1 .. Count
    BY <1>4 DEF Ids
  <2>2. /\ topo.level[id + 1] \in Nat /\ topo.last[id + 1] \in Nat
        /\ topo.level[id + 1] <= topo.last[id + 1] /\ topo.last[id + 1] < L
    BY <1>3, <2>1 DEF TopoSound, Count
  <2> QED BY <1>4, <2>2
<1>6. \A id \in Ids : scratch[id] = id
  BY <1>1, <1>2, <1>5 DEF ScratchInv
<1>7. \A r \in Ranks : topo.out[r + 1] \in Ids /\ topo.out[r + 1] \in Int
  <2>1. \A r \in Ranks : topo.out[r + 1] \in Ids
    BY <1>3 DEF OutSound, Ranks, Ids, Count
  <2> QED BY <1>4, <2>1 DEF Ids
<1>8. /\ persist' \in [Ranks -> Int]
      /\ \A r \in Ranks : persist'[r] = topo.out[r + 1]
  <2>1. persist' = [r \in Ranks |-> scratch[topo.out[r + 1]]]
    BY <1>1, <1>2 DEF PersistInv
  <2>2. \A r \in Ranks : scratch[topo.out[r + 1]] = topo.out[r + 1]
    BY <1>6, <1>7
  <2> QED BY <1>7, <2>1, <2>2
<1>9. ~Working'
  BY <1>1, <1>4 DEF Working
<1>10. /\ Width' = Width /\ Ids' = Ids /\ Ranks' = Ranks /\ Count' = Count
       /\ Words(strategy)' = Words(strategy)
  BY <1>1 DEF Width, Ids, Ranks, Count, Words
<1>11. LaneInv'
  BY <1>2, <1>1, <1>9, <1>10 DEF LaneInv
<1>12. ScratchInv'
  BY <1>1, <1>2, <1>6, <1>9, <1>10 DEF ScratchInv, LiveLabelsIntact
<1>13. PersistInv'
  BY <1>1, <1>8, <1>9, <1>10 DEF PersistInv
<1>14. lv' \in 0 .. L + (IF strategy = "level" THEN 1 ELSE 0)
  BY <1>1, <1>4
<1>15. RunInv' /\ TopoInv'
  BY <1>1, <1>2, <1>11, <1>12, <1>13, <1>14 DEF RunInv, TopoInv
<1> QED BY <1>15 DEF KernelInv

----------------------------------------------------------------------------
(* The theorems.                                                            *)

\* Every step preserves the invariant.
LEMMA NextInv ==
  KernelInv /\ [Next]_vars => KernelInv'
<1> SUFFICES ASSUME KernelInv, [Next]_vars PROVE KernelInv'
  OBVIOUS
<1>1. ASSUME NEW cb \in Sizes, BuildTopo(cb) PROVE KernelInv'
  BY <1>1, BuildTopoStep
<1>2. CASE FreeTopo
  BY <1>2, FreeTopoStep
<1>3. ASSUME NEW s \in Strategies, Launch(s) PROVE KernelInv'
  BY <1>3, LaunchStep
<1>4. ASSUME NEW l \in 0 .. Lanes - 1, LaneStep(l) PROVE KernelInv'
  BY <1>4, LaneReadStep, LaneStoreStep, LaneCopyStep DEF LaneStep
<1>5. CASE Barrier
  BY <1>5, BarrierStep
<1>6. CASE Extract
  BY <1>6, ExtractStep
<1>7. CASE Synchronize
  BY <1>7, SynchronizeStep
<1>8. CASE UNCHANGED vars
  <2>1. UNCHANGED <<topo, strategy, lv, lane, scratch, persist>>
    BY <1>8 DEF vars
  <2>2. TopoInv' = TopoInv /\ Idle' = Idle
    BY <2>1 DEF TopoInv, Idle
  <2>3. LaneInv' = LaneInv
    BY <2>1 DEF LaneInv, Width, Working, InLevel, NodeOf, LevelNodes, Copies, RankOf
  <2>4. ScratchInv' = ScratchInv
    BY <2>1 DEF ScratchInv, LiveLabelsIntact, Width, Ids, Count, Words, Working,
                LevelNodes, SlotOf, IsStored
  <2>5. PersistInv' = PersistInv
    BY <2>1 DEF PersistInv, Width, Ranks, Working, LevelNodes, IsCopied
  <2>6. RunInv' = RunInv
    BY <2>1, <2>3, <2>4, <2>5 DEF RunInv
  <2> QED BY <2>2, <2>6 DEF KernelInv
<1> QED BY <1>1, <1>2, <1>3, <1>4, <1>5, <1>6, <1>7, <1>8 DEF Next

\* The inductive invariant of the kernels, for every set of chunk sizes whose
\* graphs are emitted in dependency order, any number of lanes and all four
\* strategies: what is in the slots, in the lanes and in the persisted region
\* between any two steps of any lanes.
THEOREM KernelInvariant == Spec => []KernelInv
<1>1. Init => KernelInv
  BY InitInv
<1>2. KernelInv /\ [Next]_vars => KernelInv'
  BY NextInv
<1> QED BY <1>1, <1>2, PTL DEF Spec

\* Every slot is inside the pool the launch was given (label_gpu_run sizes the
\* scratch by Words), and there is a persisted word for every rank.
THEOREM Typing == Spec => []TypeOK
<1>1. KernelInv => TypeOK
  <2> SUFFICES ASSUME KernelInv PROVE TypeOK
    OBVIOUS
  <2>1. CASE Idle
    BY <2>1 DEF Idle, TypeOK
  <2>2. CASE RunInv
    <3>1. TopoSound(topo) /\ OutSound(topo) /\ strategy \in Strategies
      BY <2>2, SoundTopo DEF KernelInv, RunInv
    <3>2. topo.num_levels \in Nat /\ lv \in Nat
      BY <2>2, <3>1 DEF TopoSound, RunInv
    <3>3. \A id \in Ids : SlotOf(id) \in 0 .. Words(strategy) - 1
      BY <3>1, SlotFacts
    <3>4. /\ DOMAIN scratch = 0 .. Words(strategy) - 1
          /\ \A w \in DOMAIN scratch : scratch[w] = Wrong \/ scratch[w] \in Nat
      BY <2>2 DEF RunInv, ScratchInv
    <3>5. DOMAIN persist = 0 .. Len(topo.out) - 1
      BY <2>2 DEF RunInv, PersistInv, Ranks
    <3>6. Len(topo.out) \in Sizes
      BY <3>1 DEF OutSound
    <3> QED BY <3>1, <3>2, <3>3, <3>4, <3>5, <3>6 DEF TypeOK, Ids, Count
  <2> QED BY <2>1, <2>2 DEF KernelInv
<1> QED BY <1>1, KernelInvariant, PTL

\* A label that some node of this level or a later one still reads is intact in
\* its slot: the slots pose_graph_slot_map recycles are never overwritten under
\* a reader, however the lanes of a level interleave.
THEOREM LiveLabels == Spec => []LiveLabelsIntact
<1>1. KernelInv => LiveLabelsIntact
  BY DEF KernelInv, Idle, RunInv, ScratchInv, LiveLabelsIntact, Working
<1> QED BY <1>1, KernelInvariant, PTL

\* All four kernels persist the labels of the CPU path, each at its rank: copied
\* out before the slot is recycled, or extracted from the scaffold at the end.
THEOREM PersistedLabels == Spec => []PersistExact
<1>1. KernelInv => PersistExact
  <2> SUFFICES ASSUME KernelInv PROVE PersistExact
    OBVIOUS
  <2>1. CASE Idle
    BY <2>1 DEF Idle, PersistExact
  <2>2. CASE RunInv
    <3>1. TopoSound(topo) /\ OutSound(topo) /\ PersistInv
      BY <2>2, SoundTopo DEF KernelInv, RunInv
    <3>2. Count \in Nat
      BY <3>1 DEF TopoSound, Acyclic, Count
    <3>3. ASSUME NEW r \in Ranks, KernelDone PROVE persist[r] = topo.out[r + 1]
      <4>1. CASE strategy = "level"
        BY <3>1, <3>3, <4>1 DEF PersistInv, KernelDone
      <4>2. CASE strategy # "level"
        <5>1. lv = topo.num_levels /\ topo.num_levels \in Nat
          BY <3>1, <3>3, <4>2 DEF KernelDone, TopoSound
        <5> DEFINE id == topo.out[r + 1]
        <5>2. id \in Ids
          BY <3>1 DEF OutSound, Ranks, Ids, Count
        <5> HIDE DEF id
        <5>3. id + 1 \in 1 .. Count
          BY <3>2, <5>2 DEF Ids
        <5>4. /\ topo.level[id + 1] \in Nat /\ topo.last[id + 1] \in Nat
              /\ topo.level[id + 1] <= topo.last[id + 1]
              /\ topo.last[id + 1] < topo.num_levels
          BY <3>1, <5>3 DEF TopoSound, Count
        <5>5. topo.level[id + 1] < lv
          BY <5>1, <5>4
        <5> QED BY <3>1, <4>2, <5>5 DEF PersistInv, id
      <4> QED BY <4>1, <4>2
    <3> QED BY <3>1, <3>3 DEF PersistInv, PersistExact
  <2> QED BY <2>1, <2>2 DEF KernelInv
<1> QED BY <1>1, KernelInvariant, PTL

\* pose_graph_slot_map allocates as many slots as nodes are ever alive at once,
\* no more and no less, for every graph; so it meets the bound it asserts
\* wherever the graph is as narrow as that bound.
THEOREM PoolPeak == Spec => []PoolIsPeak
<1>1. KernelInv => PoolIsPeak
  <2> SUFFICES ASSUME KernelInv, topo # NoTopo
               PROVE  /\ topo.pool_size =
                           Max({Cardinality(LiveAt(topo.level, topo.last, Len(topo.pred), mm)) :
                                  mm \in 0 .. topo.num_levels - 1})
                      /\ topo.pool_size <= 8 * HalfWidth(Len(topo.out))
    BY DEF PoolIsPeak
  <2> DEFINE live(mm) == LiveAt(topo.level, topo.last, Count, mm)
             L == topo.num_levels
             S == {Cardinality(live(mm)) : mm \in 0 .. L - 1}
             size == topo.pool_size
  <2>1. PICK cb \in Sizes : topo = Topology(Edges(cb))
    BY DEF KernelInv, TopoInv
  <2>2. TopoSound(topo)
    BY <2>1, BuiltTopology
  <2>3. size \in Nat /\ L \in Nat /\ Count \in Nat
    BY <2>2 DEF TopoSound, Acyclic, Count
  <2>4. \A mm \in 0 .. L - 1 : Cardinality(live(mm)) \in Nat
    <3> SUFFICES ASSUME NEW mm \in 0 .. L - 1 PROVE Cardinality(live(mm)) \in Nat
      OBVIOUS
    <3>1. live(mm) \in SUBSET (0 .. Count - 1)
      BY DEF LiveAt
    <3> QED BY <2>3, <3>1, NodesFinite
  <2>5. /\ \A mm \in 0 .. L - 1 : Cardinality(live(mm)) <= size
        /\ \E mm \in 0 .. L - 1 : size = Cardinality(live(mm))
    BY <2>2 DEF TopoSound, Count
  <2>6. S \in SUBSET Nat /\ size \in S /\ \A x \in S : x <= size
    BY <2>4, <2>5
  <2>7. size = Max(S)
    <3> HIDE DEF S, size
    <3>1. Max(S) \in S /\ \A y \in S : y <= Max(S)
      BY <2>3, <2>6, GreatestElement
    <3>2. Max(S) \in Nat /\ Max(S) <= size /\ size <= Max(S)
      BY <2>6, <3>1
    <3> QED BY <2>3, <3>2
  <2>8. size <= 8 * HalfWidth(Len(topo.out))
    <3>1. \E mm \in 0 .. L - 1 : size = Cardinality(live(mm))
      BY <2>5
    <3>2. /\ topo.pred = Edges(cb).pred /\ topo.level = Levels(topo.pred)
          /\ topo.last = LastUses(topo.pred, topo.level)
          /\ L = 1 + Max(Range(topo.level)) /\ topo.out = Edges(cb).out
      BY <2>1 DEF Topology
    <3>3. Len(topo.out) = cb
      BY <3>2, EdgesAssumption DEF IsEdgeList
    <3>4. \A mm \in 0 .. Max(Range(topo.level)) : Cardinality(live(mm)) <= 8 * HalfWidth(cb)
      BY <3>2, WidthAssumption DEF Count
    <3>5. topo.level \in LevelTable(Count) /\ Count # 0
      <4>1. Acyclic(topo.pred) /\ Count # 0
        BY <2>2 DEF TopoSound, Count
      <4> QED BY <3>2, <4>1, LevelsAreSound DEF LevelsSound, Count
    <3>6. Max(Range(topo.level)) \in Nat
      BY <2>3, <3>5, HighestLevel
    <3>7. 0 .. L - 1 = 0 .. Max(Range(topo.level))
      BY <3>2, <3>6
    <3> HIDE DEF live, size, L
    <3> QED BY <3>1, <3>3, <3>4, <3>7
  <2> QED BY <2>7, <2>8 DEF Count
<1> QED BY <1>1, KernelInvariant, PTL
==============================================================================
