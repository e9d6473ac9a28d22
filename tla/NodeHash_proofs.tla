-------------------------- MODULE NodeHash_proofs --------------------------
(***************************************************************************)
(* Proofs about NodeHash for any number of threads, any calls and keys of   *)
(* any number of words: the lazily derived keys are never read in part, and *)
(* the cached AES round keys always belong to the seed they are filed under.*)
(***************************************************************************)
EXTENDS NodeHash, DivisionFacts, SequenceTheorems, TLAPS

\* The word of a derived key at address a.
Right(a) == DerivedKey(a[1])[a[2]]

\* The stores one execution of ensure_keys makes.
Stores == {<<a, Right(a)>> : a \in Addr}

KeyTypes ==
  /\ key = [a \in Addr |-> key[a]]
  /\ buf \in [Threads -> SUBSET Stores]
  /\ pc = [t \in Threads |-> pc[t]]
  /\ call = [t \in Threads |-> call[t]]

\* Memory holds every word of both keys.
KeysWhole == \A a \in Addr : key[a] = Right(a)

\* The inductive invariant.  The flag alone is not enough: a thread about to
\* publish has stored every word or still has it in its buffer, and nobody ever
\* stores anything but the derived words.
KeyInv ==
  /\ KeyTypes
  /\ ready => KeysWhole
  /\ \A t \in Threads :
       pc[t] = "publish" => \A a \in Addr : key[a] = Right(a) \/ <<a, Right(a)>> \in buf[t]
  /\ \A t \in Threads : pc[t] = "hash" /\ UsesKeys(call[t]) => ready

LEMMA InitKeyInv == Init => KeyInv
BY DEF Init, KeyInv, KeyTypes, NULL

\* A step that leaves the keys and the flag alone, and brings no thread to
\* "publish" or to a use of the keys, keeps the invariant.
LEMMA QuietStep ==
  ASSUME KeyInv, UNCHANGED <<key, buf, ready>>, NEW t \in Threads,
         pc' = [pc EXCEPT ![t] = pc'[t]], call' = [call EXCEPT ![t] = call'[t]],
         pc'[t] # "publish",
         pc'[t] = "hash" /\ UsesKeys(call'[t]) => ready
  PROVE  KeyInv'
<1>1. KeyTypes'
  BY DEF KeyInv, KeyTypes
<1>2. \A u \in Threads : u # t => pc'[u] = pc[u] /\ call'[u] = call[u]
  BY DEF KeyInv, KeyTypes
<1> QED BY <1>1, <1>2 DEF KeyInv, KeysWhole, UsesKeys

\* Every label function that computes labels is such a step.
LEMMA ComputedStep ==
  ASSUME KeyInv, NEW t \in Threads, pc[t] = "hash", NEW labels, Computed(t, labels)
  PROVE  KeyInv'
<1>1. pc'[t] \in {"hash", "store"} /\ pc' = [pc EXCEPT ![t] = pc'[t]]
  BY DEF Computed, KeyInv, KeyTypes
<1>2. UNCHANGED <<key, buf, ready, call>>
  BY DEF Computed
<1>3. call' = [call EXCEPT ![t] = call'[t]]
  BY <1>2 DEF KeyInv, KeyTypes
<1>4. UsesKeys(call'[t]) => UsesKeys(call[t])
  BY <1>2 DEF UsesKeys
<1> QED BY <1>1, <1>2, <1>3, <1>4, QuietStep DEF KeyInv

\* The two memcpys put every word of both keys into the thread's buffer.
LEMMA EnsureStep ==
  ASSUME KeyInv, NEW t \in Threads, EnsureKeys(t)
  PROVE  KeyInv'
<1>1. CASE ready
  <2>1. pc' = [pc EXCEPT ![t] = "hash"] /\ UNCHANGED <<key, buf, ready, call>>
    BY <1>1 DEF EnsureKeys
  <2>2. call' = [call EXCEPT ![t] = call'[t]] /\ pc'[t] = "hash"
    BY <2>1 DEF KeyInv, KeyTypes
  <2> QED BY <1>1, <2>1, <2>2, QuietStep
<1>2. CASE ~ready
  <2>1. /\ buf' = [buf EXCEPT ![t] = Stores]
        /\ pc' = [pc EXCEPT ![t] = "publish"]
        /\ UNCHANGED <<key, ready, call>>
    BY <1>2 DEF EnsureKeys, Stores, Right
  <2>2. KeyTypes'
    BY <2>1 DEF KeyInv, KeyTypes
  <2>3. \A a \in Addr : <<a, Right(a)>> \in buf'[t]
    BY <2>1 DEF KeyInv, KeyTypes, Stores
  <2>4. \A u \in Threads : u # t => pc'[u] = pc[u] /\ buf'[u] = buf[u]
    BY <2>1 DEF KeyInv, KeyTypes
  <2>5. pc'[t] = "publish"
    BY <2>1 DEF KeyInv, KeyTypes
  <2> QED BY <2>1, <2>2, <2>3, <2>4, <2>5 DEF KeyInv, KeysWhole, UsesKeys
<1> QED BY <1>1, <1>2

\* A store that becomes visible is the right word, whoever made it.
LEMMA DrainStep ==
  ASSUME KeyInv, NEW t \in Threads, NEW s \in buf[t], Drain(t, s)
  PROVE  KeyInv'
<1>1. PICK a \in Addr : s = <<a, Right(a)>>
  BY DEF KeyInv, KeyTypes, Stores
<1>2. key' = [key EXCEPT ![a] = Right(a)] /\ buf' = [buf EXCEPT ![t] = buf[t] \ {s}]
  BY <1>1 DEF Drain
<1>3. UNCHANGED <<ready, pc, call>>
  BY DEF Drain
<1>4. KeyTypes'
  BY <1>2, <1>3 DEF KeyInv, KeyTypes
<1>5. key'[a] = Right(a) /\ \A b \in Addr : b # a => key'[b] = key[b]
  BY <1>2 DEF KeyInv, KeyTypes
<1>6. \A u \in Threads, b \in Addr :
        b # a /\ <<b, Right(b)>> \in buf[u] => <<b, Right(b)>> \in buf'[u]
  BY <1>1, <1>2 DEF KeyInv, KeyTypes
<1> QED BY <1>3, <1>4, <1>5, <1>6 DEF KeyInv, KeysWhole, UsesKeys

\* The release store finds every word in memory.
LEMMA PublishStep ==
  ASSUME KeyInv, NEW t \in Threads, PublishKeys(t)
  PROVE  KeyInv'
<1>1. KeysWhole
  BY DEF PublishKeys, KeyInv, KeysWhole
<1>2. /\ ready' /\ pc' = [pc EXCEPT ![t] = "hash"]
      /\ UNCHANGED <<key, buf, call>>
  BY DEF PublishKeys
<1>3. KeyTypes' /\ pc'[t] = "hash"
  BY <1>2 DEF KeyInv, KeyTypes
<1>4. \A u \in Threads : u # t => pc'[u] = pc[u]
  BY <1>2 DEF KeyInv, KeyTypes
<1> QED BY <1>1, <1>2, <1>3, <1>4 DEF KeyInv, KeysWhole

\* Every step of the threads keeps the invariant.
LEMMA NextKeyInv == KeyInv /\ [Next]_vars => KeyInv'
<1> SUFFICES ASSUME KeyInv, [Next]_vars PROVE KeyInv'
  OBVIOUS
<1>1. ASSUME NEW t \in Threads, NEW c \in Calls, Begin(t, c) PROVE KeyInv'
  <2>1. /\ pc' = [pc EXCEPT ![t] = IF UsesKeys(c) THEN "ensure" ELSE "hash"]
        /\ call' = [call EXCEPT ![t] = c]
        /\ UNCHANGED <<key, buf, ready>>
    BY <1>1 DEF Begin
  <2>2. /\ pc'[t] = (IF UsesKeys(c) THEN "ensure" ELSE "hash") /\ call'[t] = c
        /\ pc' = [pc EXCEPT ![t] = pc'[t]] /\ call' = [call EXCEPT ![t] = call'[t]]
    BY <2>1 DEF KeyInv, KeyTypes
  <2>3. pc'[t] # "publish" /\ (pc'[t] = "hash" /\ UsesKeys(call'[t]) => ready)
    BY <2>2 DEF UsesKeys
  <2> QED BY <2>1, <2>2, <2>3, QuietStep
<1>2. ASSUME NEW t \in Threads, Step(t) PROVE KeyInv'
  <2>1. CASE EnsureKeys(t) BY <2>1, EnsureStep
  <2>2. CASE PublishKeys(t) BY <2>2, PublishStep
  <2>3. CASE \E s \in buf[t] : Drain(t, s) BY <2>3, DrainStep
  <2>4. CASE HashBlake3(t) BY <2>4, ComputedStep DEF HashBlake3, At
  <2>5. CASE HashSha256(t) BY <2>5, ComputedStep DEF HashSha256, At
  <2>6. CASE HashAes(t) BY <2>6, ComputedStep DEF HashAes, At
  <2>7. CASE AbortAes(t)
    BY <2>7 DEF AbortAes, KeyInv, KeyTypes, KeysWhole, UsesKeys
  <2>8. CASE HashOnDevice(t) BY <2>8, ComputedStep DEF HashOnDevice
  <2>9. CASE StoreLabels(t)
    <3>1. pc' = [pc EXCEPT ![t] = "done"] /\ UNCHANGED <<key, buf, ready, call>>
      BY <2>9 DEF StoreLabels
    <3>2. pc'[t] = "done" /\ call' = [call EXCEPT ![t] = call'[t]]
      BY <3>1 DEF KeyInv, KeyTypes
    <3> QED BY <3>1, <3>2, QuietStep
  <2>10. CASE Return(t)
    <3>1. /\ pc' = [pc EXCEPT ![t] = "idle"] /\ call' = [call EXCEPT ![t] = NoCall]
          /\ UNCHANGED <<key, buf, ready>>
      BY <2>10 DEF Return
    <3>2. pc'[t] = "idle" /\ call' = [call EXCEPT ![t] = call'[t]]
      BY <3>1 DEF KeyInv, KeyTypes
    <3> QED BY <3>1, <3>2, QuietStep
  <2> QED
    BY <1>2, <2>1, <2>2, <2>3, <2>4, <2>5, <2>6, <2>7, <2>8, <2>9, <2>10 DEF Step
<1>3. CASE UNCHANGED vars
  BY <1>3 DEF vars, KeyInv, KeyTypes, KeysWhole, UsesKeys
<1> QED BY <1>1, <1>2, <1>3 DEF Next

\* Where the flag is set and all stores are right, every read is.
LEMMA WholeReads == KeyInv => KeysNeverTorn
<1> SUFFICES ASSUME KeyInv, NEW t \in Threads, pc[t] = "hash", UsesKeys(call[t]),
                    NEW a \in Addr
             PROVE  WordReads(t, a) = {Right(a)}
  BY DEF KeysNeverTorn, Right
<1>1. key[a] = Right(a)
  BY DEF KeyInv, KeysWhole
<1>2. \A u \in Threads : \A r \in buf[u] : r[1] = a => r[2] = Right(a)
  BY DEF KeyInv, KeyTypes, Stores
<1> QED BY <1>1, <1>2 DEF WordReads

\* ensure_keys is safe without a lock: a thread that has passed it reads both keys
\* whole, whatever the other threads' stores do, for any number of threads.
THEOREM KeysWholeForReaders == Spec => []KeysNeverTorn
BY InitKeyInv, NextKeyInv, WholeReads, PTL DEF Spec

----------------------------------------------------------------------------
(* The cache of round keys.                                                 *)

\* What is cached as valid is what the cached seed expands to: a hit never hands
\* out the keys of another chunk.
CacheSound ==
  \A t \in Threads :
    cache[t].valid =>
      /\ cache[t].rk_hi = aes128_expand(cache[t].seed[1])
      /\ cache[t].rk_lo = aes128_expand(cache[t].seed[2])

\* get_round_keys on a sound entry returns the sound keys of the seed asked for.
LEMMA RoundKeysOfSeed ==
  ASSUME NEW c, NEW seed,
         c.valid => /\ c.rk_hi = aes128_expand(c.seed[1])
                    /\ c.rk_lo = aes128_expand(c.seed[2])
  PROVE  LET k == get_round_keys(c, seed)
         IN  /\ k.valid /\ k.seed = seed
             /\ k.rk_hi = aes128_expand(seed[1]) /\ k.rk_lo = aes128_expand(seed[2])
<1>1. CASE c.valid /\ c.seed = seed
  BY <1>1 DEF get_round_keys
<1>2. CASE ~(c.valid /\ c.seed = seed)
  <2> DEFINE n == [valid |-> TRUE, seed |-> seed, rk_hi |-> aes128_expand(seed[1]),
                   rk_lo |-> aes128_expand(seed[2])]
  <2>1. get_round_keys(c, seed) = n
    BY <1>2 DEF get_round_keys
  <2> QED BY <2>1
<1> QED BY <1>1, <1>2

CacheInv == cache = [t \in Threads |-> cache[t]] /\ CacheSound

LEMMA InitCacheInv == Init => CacheInv
BY DEF Init, CacheInv, CacheSound, EmptyCache

\* Only the AES label function touches the cache.
LEMMA NextCacheInv == CacheInv /\ [Next]_vars => CacheInv'
<1> SUFFICES ASSUME CacheInv, [Next]_vars PROVE CacheInv'
  OBVIOUS
<1>1. ASSUME NEW t \in Threads, HashAes(t) PROVE CacheInv'
  <2> DEFINE kc == get_round_keys(cache[t], Seed(call[t]))
  <2>1. cache' = [cache EXCEPT ![t] = kc]
    BY <1>1 DEF HashAes
  <2>2. kc.valid /\ kc.seed = Seed(call[t])
        /\ kc.rk_hi = aes128_expand(kc.seed[1]) /\ kc.rk_lo = aes128_expand(kc.seed[2])
    BY RoundKeysOfSeed DEF CacheInv, CacheSound
  <2> HIDE DEF kc
  <2> QED BY <2>1, <2>2 DEF CacheInv, CacheSound
<1>2. CASE UNCHANGED cache
  BY <1>2 DEF CacheInv, CacheSound
<1>3. ASSUME NEW t \in Threads, Step(t), ~HashAes(t) PROVE UNCHANGED cache
  BY <1>3 DEF Step, EnsureKeys, PublishKeys, Drain, HashBlake3, HashSha256,
              AbortAes, HashOnDevice, StoreLabels, Return
<1>4. ASSUME NEW t \in Threads, NEW c \in Calls, Begin(t, c) PROVE UNCHANGED cache
  BY <1>4 DEF Begin
<1>5. UNCHANGED vars => UNCHANGED cache
  BY DEF vars
<1> QED BY <1>1, <1>2, <1>3, <1>4, <1>5 DEF Next

\* The round keys a thread hashes with are those of the seed in its cache, over any
\* sequence of calls for any chunks.
THEOREM CacheStaysSound == Spec => []CacheSound
<1>1. CacheInv => CacheSound
  BY DEF CacheInv
<1> QED BY <1>1, InitCacheInv, NextCacheInv, PTL DEF Spec

----------------------------------------------------------------------------
(* The bytes of a node index.                                               *)

R == Radix

\* The bytes of v above byte k.
LEMMA ShiftedRun ==
  ASSUME NEW v \in Nat
  PROVE  /\ Shifted(v)[0] = v
         /\ \A k \in 1 .. 7 : Shifted(v)[k] = Shifted(v)[k - 1] \div R
         /\ \A k \in 0 .. 7 : Shifted(v)[k] \in Nat
<1> DEFINE Rec(f) == [k \in 0 .. 7 |-> IF k = 0 THEN v ELSE f[k - 1] \div Radix]
           shift == CHOOSE f : f = Rec(f)
           T == [k \in 0 .. 7 |-> Nat]
           body == [x \in Nat \X (1 .. 7) |-> x[1] \div Radix]
<1>1. Shifted(v) = shift
  BY DEF Shifted
<1>2. \A x \in Nat : x \div Radix \in Nat
  BY DivNat, RadixAssumption
<1>3. PICK f : IsRun(f, 7, T, v, body)
  <2>1. \A i \in 1 .. 7 : i - 1 \in 0 .. 7 /\ i \in 0 .. 7
    OBVIOUS
  <2>2. \A i \in 1 .. 7 : \A x \in T[i - 1] : body[<<x, i>>] \in T[i]
    BY <1>2, <2>1
  <2>3. v \in T[0]
    OBVIOUS
  <2> HIDE DEF T, body
  <2> QED BY <2>2, <2>3, LoopRun
<1>4. \A k \in 0 .. 7 : f[k] \in Nat
  BY <1>3 DEF IsRun
<1>5. f = Rec(f)
  <2>1. \A k \in 1 .. 7 : f[k] = f[k - 1] \div Radix
    <3>1. \A k \in 1 .. 7 : k - 1 \in 0 .. 7
      OBVIOUS
    <3> QED BY <1>3, <1>4, <3>1 DEF IsRun
  <2>2. f = [k \in 0 .. 7 |-> f[k]] /\ f[0] = v
    BY <1>3 DEF IsRun
  <2> QED BY <2>1, <2>2
<1>6. shift = Rec(shift)
  <2> HIDE DEF Rec
  <2> QED BY <1>5
<1> HIDE DEF shift
<1>7. shift[0] = v /\ \A k \in 1 .. 7 : shift[k] = shift[k - 1] \div Radix
  BY <1>6
<1>8. \A k \in 0 .. 7 : shift[k] \in Nat
  <2>1. \A i \in 1 .. 7 : shift[i - 1] \in T[i - 1] => shift[i] \in T[i]
    <3>1. \A i \in 1 .. 7 : i - 1 \in 0 .. 7 /\ i \in 0 .. 7
      OBVIOUS
    <3> QED BY <1>2, <1>7, <3>1
  <2>2. \A i \in 0 .. 7 : shift[i] \in T[i]
    <3>1. shift[0] \in T[0]
      BY <1>7
    <3> HIDE DEF T
    <3> QED BY <2>1, <3>1, LoopStates
  <2> QED BY <2>2
<1> QED BY <1>1, <1>7, <1>8 DEF R

\* Bytes whose partial values are q read as q[8].
LEMMA ReadsBigEndian ==
  ASSUME NEW bytes \in [1 .. 8 -> 0 .. Radix - 1], Len(bytes) = 8, NEW q,
         q[0] = 0, \A b \in 1 .. 8 : q[b] = q[b - 1] * Radix + bytes[b],
         \A b \in 0 .. 8 : q[b] \in Nat
  PROVE  BigEndian(bytes, q[8])
<1> DEFINE Rec(f) == [b \in 0 .. 8 |-> IF b = 0 THEN 0 ELSE f[b - 1] * Radix + bytes[b]]
           value == CHOOSE f : f = Rec(f)
           p == [b \in 0 .. 8 |-> q[b]]
<1>1. p = Rec(p)
  OBVIOUS
<1>2. value = Rec(value)
  <2> HIDE DEF Rec, p
  <2> QED BY <1>1
<1> HIDE DEF value
<1>3. value[0] = 0 /\ \A b \in 1 .. 8 : value[b] = value[b - 1] * Radix + bytes[b]
  BY <1>2
<1>4. \A b \in 0 .. 8 : value[b] = q[b]
  <2> DEFINE T == [b \in 0 .. 8 |-> {q[b]}]
  <2>1. value[0] \in T[0]
    BY <1>3
  <2>2. ASSUME NEW i \in 1 .. 8, value[i - 1] \in T[i - 1] PROVE value[i] \in T[i]
    <3>1. i - 1 \in 0 .. 8 /\ i \in 0 .. 8
      OBVIOUS
    <3> QED BY <1>3, <2>2, <3>1
  <2>3. \A b \in 0 .. 8 : value[b] \in T[b]
    <3> HIDE DEF T
    <3> QED BY <2>1, <2>2, LoopStates
  <2> QED BY <2>3
<1> QED BY <1>4 DEF BigEndian, value

\* A uint64_t is Word32 times its upper half, plus its lower half; Word32 is
\* Radix to the fourth.
LEMMA FourShifts ==
  ASSUME NEW v \in Nat
  PROVE  /\ v \div Word32 = Shifted(v)[4]
         /\ v < Word32 => Shifted(v)[4] = 0
<1> DEFINE s == Shifted(v)
<1>1. /\ s[0] = v
      /\ s[1] = s[0] \div Radix /\ s[2] = s[1] \div Radix
      /\ s[3] = s[2] \div Radix /\ s[4] = s[3] \div Radix
      /\ \A k \in 0 .. 4 : s[k] \in Nat
  <2>1. \A k \in 1 .. 7 : s[k] = s[k - 1] \div Radix
    BY ShiftedRun DEF R
  <2> QED BY <2>1, ShiftedRun
<1> HIDE DEF s
<1>2. /\ s[0] \div Radix \in Nat /\ s[1] \div Radix \in Nat
  BY <1>1
<1>3. \A b \in Nat \ {0} : (s[0] \div b) \div Radix = s[0] \div (b * Radix)
  <2> SUFFICES ASSUME NEW b \in Nat \ {0}
               PROVE  (s[0] \div b) \div Radix = s[0] \div (b * Radix)
    OBVIOUS
  <2> DEFINE n == s[0]
  <2> QED BY <1>1, DivOfDiv, RadixAssumption
<1>4. Radix * Radix \in Nat \ {0} /\ Radix * Radix * Radix \in Nat \ {0}
      /\ Radix \in Nat \ {0} /\ Word32 \in Nat \ {0}
  BY PositiveProduct, RadixAssumption DEF Word32
<1>5. s[2] = s[0] \div (Radix * Radix)
  BY <1>1, <1>3, <1>4
<1>6. s[3] = s[0] \div (Radix * Radix * Radix)
  BY <1>1, <1>3, <1>4, <1>5
<1>7. s[4] = s[0] \div Word32
  BY <1>1, <1>3, <1>4, <1>6 DEF Word32
<1>8. v < Word32 => v \div Word32 = 0
  BY <1>4, SmallQuotient
<1> QED BY <1>1, <1>7, <1>8 DEF s

\* Shifting by four bytes and then by k shifts by k + 4.
LEMMA HighBytes ==
  ASSUME NEW v \in Nat
  PROVE  \A k \in 0 .. 3 : Shifted(Shifted(v)[4])[k] = Shifted(v)[k + 4]
<1> DEFINE s == Shifted(v)
           t == Shifted(s[4])
<1>1. \A k \in 1 .. 7 : s[k] = s[k - 1] \div Radix
  BY ShiftedRun DEF R
<1>2. s[4] \in Nat
  BY ShiftedRun
<1>3. t[0] = s[4] /\ \A k \in 1 .. 7 : t[k] = t[k - 1] \div Radix
  <2> HIDE DEF s
  <2> QED BY <1>2, ShiftedRun DEF R
<1> HIDE DEF s, t
<1>4. t[1] = s[5] /\ t[2] = s[6] /\ t[3] = s[7]
  BY <1>1, <1>3
<1>5. \A k \in 0 .. 3 : t[k] = s[k + 4]
  BY <1>3, <1>4
<1> QED BY <1>5 DEF s, t

\* The lower half has the same low bytes.
LEMMA LowBytes ==
  ASSUME NEW v \in Nat
  PROVE  \A k \in 0 .. 3 : Shifted(Low(v))[k] % Radix = Shifted(v)[k] % Radix
<1> DEFINE s == Shifted(v)
           low == Low(v)
           t == Shifted(low)
           a == v \div Word32
           B == Radix
<1>1. B \in Nat \ {0} /\ Word32 \in Nat \ {0}
  BY PositiveProduct, RadixAssumption DEF Word32
<1>2. a \in Nat /\ low \in Nat /\ v = a * B * B * B * B + low
  <2>1. a \in Nat
    BY <1>1, DivNat
  <2>2. low \in Nat /\ v = Word32 * a + low
    BY <1>1, DivMod DEF Low
  <2> HIDE DEF a, low
  <2>3. Word32 * a = a * B * B * B * B
    BY <1>1, <2>1 DEF Word32
  <2> QED BY <2>1, <2>2, <2>3
<1>3. s[0] = v /\ \A k \in 1 .. 7 : s[k] = s[k - 1] \div B
  BY ShiftedRun DEF R
<1> HIDE DEF a, low
<1>4. /\ t[0] = low /\ \A k \in 1 .. 7 : t[k] = t[k - 1] \div B
      /\ \A k \in 0 .. 7 : t[k] \in Nat
  BY <1>2, ShiftedRun DEF R
<1> HIDE DEF s, t, B
<1>5. a * B \in Int /\ a * B * B \in Int /\ a * B * B * B \in Int
  <2>1. \A x \in Int : x * B \in Int
    BY <1>1
  <2> QED BY <1>2, <2>1
<1>6. \A x \in Nat, j \in Int : (j * B + x) \div B = j + (x \div B) /\ (j * B + x) % B = x % B
  <2> SUFFICES ASSUME NEW x \in Nat, NEW j \in Int
               PROVE  (j * B + x) \div B = j + (x \div B) /\ (j * B + x) % B = x % B
    OBVIOUS
  <2>1. (x + j * B) \div B = (x \div B) + j /\ (x + j * B) % B = x % B
    <3>1. x \in Int
      OBVIOUS
    <3> QED BY <1>1, <3>1, DivAdd
  <2>2. j * B \in Int /\ x \div B \in Int
    BY <1>1, DivMod
  <2>3. j * B + x = x + j * B /\ (x \div B) + j = j + (x \div B)
    BY <2>2
  <2> QED BY <2>1, <2>3
<1>7. s[0] = a * B * B * B * B + t[0]
  BY <1>2, <1>3, <1>4
<1> DEFINE a1 == a * B
           a2 == a1 * B
           a3 == a2 * B
<1> HIDE DEF a1, a2, a3
<1>8. s[1] = a3 + t[1] /\ s[0] % B = t[0] % B
  BY <1>3, <1>4, <1>5, <1>6, <1>7 DEF a1, a2, a3
<1>9. s[2] = a2 + t[2] /\ s[1] % B = t[1] % B
  <2>1. a2 \in Int /\ s[1] = a2 * B + t[1] /\ t[1] \in Nat
    BY <1>4, <1>5, <1>8 DEF a1, a2, a3
  <2>2. s[1] \div B = a2 + (t[1] \div B) /\ s[1] % B = t[1] % B
    BY <1>6, <2>1
  <2>3. s[2] = s[1] \div B /\ t[2] = t[1] \div B
    BY <1>3, <1>4
  <2> QED BY <2>2, <2>3
<1>10. s[3] = a1 + t[3] /\ s[2] % B = t[2] % B
  <2>1. a1 \in Int /\ s[2] = a1 * B + t[2] /\ t[2] \in Nat
    BY <1>4, <1>5, <1>9 DEF a1, a2
  <2> QED BY <1>3, <1>4, <1>6, <2>1
<1>11. s[3] % B = t[3] % B
  BY <1>2, <1>4, <1>6, <1>10 DEF a1
<1>12. \A k \in 0 .. 3 : t[k] % B = s[k] % B
  BY <1>8, <1>9, <1>10, <1>11
<1> QED BY <1>12 DEF s, t, B, low

\* The upper half of a node index.
LEMMA HighHalf ==
  ASSUME NEW i \in 0 .. Word32 * Word32 - 1
  PROVE  /\ Shifted(i)[4] \in 0 .. Word32 - 1
         /\ High(i) = Shifted(i)[4]
         /\ Shifted(i)[7] \div Radix = 0
<1> DEFINE h == Shifted(i)[4]
           W == Word32
<1>1. W \in Nat \ {0}
  BY PositiveProduct, RadixAssumption DEF Word32
<1>2. i \in Nat /\ i < W * W
  BY <1>1
<1>3. h = i \div W /\ h \in Nat
  BY <1>2, FourShifts, ShiftedRun
<1>4. High(i) = h % W
  BY DEF High
<1> HIDE DEF h, W
<1>5. h < W
  <2>1. h * W <= i
    BY <1>1, <1>2, <1>3, DivNat
  <2>2. W <= h => W * W <= h * W
    BY <1>1, <1>3, MulMono
  <2>3. W * W \in Nat /\ h * W \in Nat
    BY <1>1, <1>3
  <2> QED BY <1>1, <1>2, <1>3, <2>1, <2>2, <2>3
<1>6. h % W = h
  BY <1>1, <1>3, <1>5, SmallQuotient
<1>7. Shifted(h)[4] = 0 /\ Shifted(h)[4] = Shifted(h)[3] \div Radix
  BY <1>3, <1>5, FourShifts, ShiftedRun DEF W, R
<1>8. Shifted(h)[3] = Shifted(i)[7]
  <2>1. Shifted(h)[3] = Shifted(i)[3 + 4]
    BY <1>2, HighBytes DEF h
  <2> QED BY <2>1
<1> QED BY <1>1, <1>3, <1>4, <1>5, <1>6, <1>7, <1>8 DEF h, W

\* The bytes in a message are those of the node index.
LEMMA IndexReads ==
  ASSUME NEW i \in 0 .. Word32 * Word32 - 1
  PROVE  BigEndian(IndexBytes(i), i)
<1> DEFINE s == Shifted(i)
           bytes == IndexBytes(i)
           q == [b \in 0 .. 8 |-> IF b = 0 THEN 0 ELSE s[8 - b]]
<1>1. i \in Nat
  <2>1. Word32 \in Nat
    BY PositiveProduct, RadixAssumption DEF Word32
  <2> QED BY <2>1
<1>2. s[0] = i /\ (\A k \in 0 .. 7 : s[k] \in Nat) /\ s[7] \div Radix = 0
      /\ \A k \in 1 .. 7 : s[k] = s[k - 1] \div Radix
  BY <1>1, ShiftedRun, HighHalf DEF R
<1>3. bytes = [b \in 1 .. 8 |-> s[8 - b] % Radix]
  BY DEF IndexBytes
<1> HIDE DEF s, bytes
<1>4. \A x \in Nat : x % Radix \in 0 .. Radix - 1 /\ x = (x \div Radix) * Radix + (x % Radix)
  <2> SUFFICES ASSUME NEW x \in Nat
               PROVE  x % Radix \in 0 .. Radix - 1 /\ x = (x \div Radix) * Radix + (x % Radix)
    OBVIOUS
  <2>1. x \div Radix \in Int /\ x % Radix \in 0 .. Radix - 1
        /\ x = Radix * (x \div Radix) + (x % Radix)
    BY DivMod, RadixAssumption
  <2> QED BY <2>1, RadixAssumption
<1>5. bytes \in [1 .. 8 -> 0 .. Radix - 1]
  <2>1. \A b \in 1 .. 8 : 8 - b \in 0 .. 7
    OBVIOUS
  <2> QED BY <1>2, <1>3, <1>4, <2>1
<1>6. Len(bytes) = 8
  BY <1>3
<1>7. \A b \in 0 .. 8 : q[b] \in Nat
  <2>1. \A b \in 0 .. 8 : b # 0 => 8 - b \in 0 .. 7
    OBVIOUS
  <2> QED BY <1>2, <2>1
<1>8. ASSUME NEW b \in 1 .. 8 PROVE q[b] = q[b - 1] * Radix + bytes[b]
  <2>1. q[b] = s[8 - b] /\ bytes[b] = s[8 - b] % Radix /\ s[8 - b] \in Nat
    <3>1. 8 - b \in 0 .. 7 /\ b \in 0 .. 8 /\ b # 0
      OBVIOUS
    <3> QED BY <1>2, <1>3, <3>1
  <2>2. q[b - 1] = s[8 - b] \div Radix
    <3>1. CASE b = 1
      BY <1>2, <3>1
    <3>2. CASE b # 1
      <4>1. b - 1 \in 0 .. 8 /\ b - 1 # 0 /\ 8 - (b - 1) \in 1 .. 7
            /\ (8 - (b - 1)) - 1 = 8 - b
        BY <3>2
      <4>2. q[b - 1] = s[8 - (b - 1)]
        BY <4>1
      <4> HIDE DEF q
      <4> QED BY <1>2, <4>1, <4>2
    <3> QED BY <3>1, <3>2
  <2> HIDE DEF q
  <2> QED BY <1>4, <2>1, <2>2
<1>9. q[0] = 0 /\ q[8] = i
  BY <1>2
<1> HIDE DEF q
<1> QED BY <1>5, <1>6, <1>7, <1>8, <1>9, ReadsBigEndian DEF bytes

\* On the device the two halves are swapped one by one, and make the same bytes.
LEMMA DeviceIndex ==
  ASSUME NEW i \in 0 .. Word32 * Word32 - 1
  PROVE  bswap32(High(i)) \o bswap32(Low(i)) = IndexBytes(i)
<1> DEFINE s == Shifted(i)
           h == Shifted(High(i))
           l == Shifted(Low(i))
           x == bswap32(High(i))
           y == bswap32(Low(i))
<1>1. i \in Nat
  <2>1. Word32 \in Nat
    BY PositiveProduct, RadixAssumption DEF Word32
  <2> QED BY <2>1
<1>2. \A k \in 0 .. 3 : h[k] = s[k + 4] /\ l[k] % Radix = s[k] % Radix
  BY <1>1, HighHalf, HighBytes, LowBytes
<1>3. x = [b \in 1 .. 4 |-> h[4 - b] % Radix] /\ y = [b \in 1 .. 4 |-> l[4 - b] % Radix]
  <2>1. \A b \in 1 .. 4 : 5 - b \in 1 .. 4 /\ (5 - b) - 1 = 4 - b
    OBVIOUS
  <2> HIDE DEF h, l
  <2> QED BY <2>1 DEF bswap32, LeBytes, h, l
<1>4. IndexBytes(i) = [b \in 1 .. 8 |-> s[8 - b] % Radix]
  BY DEF IndexBytes
<1>5. x = [b \in 1 .. 4 |-> s[8 - b] % Radix] /\ y = [b \in 1 .. 4 |-> s[4 - b] % Radix]
  <2>1. \A b \in 1 .. 4 : 4 - b \in 0 .. 3 /\ (4 - b) + 4 = 8 - b
    OBVIOUS
  <2> HIDE DEF x, y, h, l, s
  <2> QED BY <1>2, <1>3, <2>1
<1> HIDE DEF x, y, s
<1>6. x \o y = [b \in 1 .. 8 |-> s[8 - b] % Radix]
  <2> DEFINE S == {s[k] % Radix : k \in 0 .. 7}
             z == [b \in 1 .. 8 |-> s[8 - b] % Radix]
  <2>1. x \in Seq(S) /\ Len(x) = 4 /\ y \in Seq(S) /\ Len(y) = 4
    <3>1. \A b \in 1 .. 4 : 8 - b \in 0 .. 7 /\ 4 - b \in 0 .. 7
      OBVIOUS
    <3> QED BY <1>5, <3>1
  <2>2. z \in Seq(S) /\ Len(z) = 8
    <3>1. \A b \in 1 .. 8 : 8 - b \in 0 .. 7
      OBVIOUS
    <3> QED BY <3>1
  <2> HIDE DEF S
  <2>3. /\ x \o y \in Seq(S) /\ Len(x \o y) = 8
        /\ \A b \in 1 .. 8 : (x \o y)[b] = IF b <= 4 THEN x[b] ELSE y[b - 4]
    BY <2>1, ConcatProperties
  <2>4. ASSUME NEW b \in 1 .. 8 PROVE (x \o y)[b] = z[b]
    <3>1. CASE b <= 4
      BY <1>5, <2>3, <3>1
    <3>2. CASE ~(b <= 4)
      <4>1. b - 4 \in 1 .. 4 /\ 4 - (b - 4) = 8 - b
        BY <3>2
      <4> QED BY <1>5, <2>3, <3>2, <4>1
    <3> QED BY <3>1, <3>2
  <2> HIDE DEF z
  <2>5. x \o y = z
    BY <2>2, <2>3, <2>4, SeqEqual
  <2> QED BY <2>5 DEF z
<1> QED BY <1>4, <1>6 DEF x, y, s

----------------------------------------------------------------------------
(* The rounds of the hash functions.                                        *)

AesSteps == {Ark(r) : r \in 0 .. 10} \cup {Sub, Mix}

\* The recursive function full[r] of nine rounds.
IsFull(full, base, step) ==
  full = CHOOSE f : f = [r \in 0 .. 9 |-> IF r = 0 THEN base ELSE f[r - 1] \o step[r]]

\* A block cipher written round by round.
LEMMA AesRun ==
  ASSUME NEW base \in Seq(AesSteps), NEW step \in [1 .. 9 -> Seq(AesSteps)], NEW full,
         IsFull(full, base, step)
  PROVE  /\ full[0] = base
         /\ \A r \in 1 .. 9 : full[r] = full[r - 1] \o step[r]
         /\ \A r \in 0 .. 9 : full[r] \in Seq(AesSteps)
<1> DEFINE S == Seq(AesSteps)
           Cat(x, r) == x \o step[r]
           Rec(f) == [r \in 0 .. 9 |-> IF r = 0 THEN base ELSE Cat(f[r - 1], r)]
           T == [r \in 0 .. 9 |-> S]
           body == [x \in S \X (1 .. 9) |-> Cat(x[1], x[2])]
<1>1. \A x \in S, r \in 1 .. 9 : Cat(x, r) \in S
  BY ConcatProperties
<1>9. full = CHOOSE g : g = Rec(g)
  BY DEF IsFull
<1> HIDE DEF S, Cat
<1>2. \A i \in 1 .. 9 : i - 1 \in 0 .. 9 /\ i \in 0 .. 9
  OBVIOUS
<1>3. PICK f : IsRun(f, 9, T, base, body)
  <2>1. \A i \in 1 .. 9 : \A x \in T[i - 1] : body[<<x, i>>] \in T[i]
    BY <1>1, <1>2
  <2>2. base \in T[0]
    BY DEF S
  <2> HIDE DEF T, body
  <2> QED BY <2>1, <2>2, LoopRun
<1>4. \A r \in 0 .. 9 : f[r] \in S
  BY <1>3 DEF IsRun
<1>5. f = Rec(f)
  <2>1. \A r \in 1 .. 9 : f[r] = Cat(f[r - 1], r)
    BY <1>2, <1>3, <1>4 DEF IsRun
  <2>2. f = [r \in 0 .. 9 |-> f[r]] /\ f[0] = base
    BY <1>3 DEF IsRun
  <2> QED BY <2>1, <2>2
<1>6. full = Rec(full)
  <2> HIDE DEF Rec
  <2> QED BY <1>5, <1>9
<1>7. full[0] = base /\ \A r \in 1 .. 9 : full[r] = Cat(full[r - 1], r)
  BY <1>6
<1>8. \A r \in 0 .. 9 : full[r] \in S
  <2>1. ASSUME NEW i \in 1 .. 9, full[i - 1] \in T[i - 1] PROVE full[i] \in T[i]
    <3>1. full[i - 1] \in S
      BY <1>2, <2>1
    <3>2. full[i] \in S
      BY <1>1, <1>7, <3>1
    <3> QED BY <1>2, <3>2
  <2>2. full[0] \in T[0]
    BY <1>7 DEF S
  <2>3. \A i \in 0 .. 9 : full[i] \in T[i]
    <3> HIDE DEF T
    <3> QED BY <2>1, <2>2, LoopStates
  <2> QED BY <2>3
<1> QED BY <1>7, <1>8 DEF S, Cat

\* The standard's rounds.
LEMMA FipsRun ==
  \E full : /\ Fips197 = full[9] \o <<Sub, Ark(10)>>
            /\ full[0] = <<Ark(0)>>
            /\ \A r \in 1 .. 9 : full[r] = full[r - 1] \o <<Sub, Mix, Ark(r)>>
            /\ \A r \in 0 .. 9 : full[r] \in Seq(AesSteps)
<1> DEFINE step == [r \in 1 .. 9 |-> <<Sub, Mix, Ark(r)>>]
           full == CHOOSE f : f = [r \in 0 .. 9 |-> IF r = 0 THEN <<Ark(0)>>
                                                    ELSE f[r - 1] \o <<Sub, Mix, Ark(r)>>]
           Std(f) == [r \in 0 .. 9 |-> IF r = 0 THEN <<Ark(0)>> ELSE f[r - 1] \o step[r]]
           Own(f) == [r \in 0 .. 9 |-> IF r = 0 THEN <<Ark(0)>>
                                       ELSE f[r - 1] \o <<Sub, Mix, Ark(r)>>]
<1>1. Fips197 = full[9] \o <<Sub, Ark(10)>>
  BY DEF Fips197
<1>2. \A f : Own(f) = Std(f)
  OBVIOUS
<1>3. <<Ark(0)>> \in Seq(AesSteps) /\ step \in [1 .. 9 -> Seq(AesSteps)]
  <2>1. \A r \in 0 .. 10 : Ark(r) \in AesSteps
    BY DEF AesSteps
  <2>2. Sub \in AesSteps /\ Mix \in AesSteps
    BY DEF AesSteps
  <2> QED BY <2>1, <2>2
<1>4. full = CHOOSE f : f = Std(f)
  <2>1. full = CHOOSE f : f = Own(f)
    OBVIOUS
  <2> HIDE DEF Own, Std, full
  <2> QED BY <1>2, <2>1
<1> HIDE DEF full
<1>5. /\ full[0] = <<Ark(0)>>
      /\ \A r \in 1 .. 9 : full[r] = full[r - 1] \o step[r]
      /\ \A r \in 0 .. 9 : full[r] \in Seq(AesSteps)
  <2>1. IsFull(full, <<Ark(0)>>, step)
    BY <1>4 DEF IsFull
  <2> HIDE DEF step, Std, Own
  <2> QED BY <1>3, <2>1, AesRun
<1> QED BY <1>1, <1>5

\* The rounds of the ARM instructions, up to the last MixColumns.
LEMMA ArmRun ==
  \E full : /\ ArmRounds = full[9] \o Aese(9) \o <<Ark(10)>>
            /\ full[0] = <<>>
            /\ \A r \in 1 .. 9 : full[r] = full[r - 1] \o Aese(r - 1) \o <<Mix>>
            /\ \A r \in 0 .. 9 : full[r] \in Seq(AesSteps)
<1> DEFINE S == Seq(AesSteps)
           Cat(x, r) == x \o Aese(r - 1) \o <<Mix>>
           Rec(f) == [r \in 0 .. 9 |-> IF r = 0 THEN <<>> ELSE Cat(f[r - 1], r)]
           full == CHOOSE f : f = Rec(f)
           T == [r \in 0 .. 9 |-> S]
           body == [x \in S \X (1 .. 9) |-> Cat(x[1], x[2])]
<1>1. ArmRounds = full[9] \o Aese(9) \o <<Ark(10)>>
  BY DEF ArmRounds
<1>2. \A x \in S, r \in 1 .. 9 : Cat(x, r) \in S
  <2> SUFFICES ASSUME NEW x \in S, NEW r \in 1 .. 9 PROVE Cat(x, r) \in S
    OBVIOUS
  <2>1. Ark(r - 1) \in AesSteps /\ Sub \in AesSteps /\ Mix \in AesSteps
    BY DEF AesSteps
  <2>2. Aese(r - 1) \in S /\ <<Mix>> \in S
    BY <2>1 DEF Aese
  <2>3. x \o Aese(r - 1) \in S
    BY <2>2, ConcatProperties
  <2> QED BY <2>2, <2>3, ConcatProperties
<1> HIDE DEF S, Cat
<1>3. <<>> \in S
  BY DEF S
<1>4. \A i \in 1 .. 9 : i - 1 \in 0 .. 9 /\ i \in 0 .. 9
  OBVIOUS
<1>5. PICK f : IsRun(f, 9, T, <<>>, body)
  <2>1. \A i \in 1 .. 9 : \A x \in T[i - 1] : body[<<x, i>>] \in T[i]
    BY <1>2, <1>4
  <2>2. <<>> \in T[0]
    BY <1>3
  <2> HIDE DEF T, body
  <2> QED BY <2>1, <2>2, LoopRun
<1>6. \A r \in 0 .. 9 : f[r] \in S
  BY <1>5 DEF IsRun
<1>7. f = Rec(f)
  <2>1. \A r \in 1 .. 9 : f[r] = Cat(f[r - 1], r)
    BY <1>4, <1>5, <1>6 DEF IsRun
  <2>2. f = [r \in 0 .. 9 |-> f[r]] /\ f[0] = <<>>
    BY <1>5 DEF IsRun
  <2> QED BY <2>1, <2>2
<1>8. full = Rec(full)
  <2> HIDE DEF Rec
  <2> QED BY <1>7
<1> HIDE DEF full
<1>9. full[0] = <<>> /\ \A r \in 1 .. 9 : full[r] = Cat(full[r - 1], r)
  BY <1>8
<1>10. \A r \in 0 .. 9 : full[r] \in S
  <2>1. ASSUME NEW i \in 1 .. 9, full[i - 1] \in T[i - 1] PROVE full[i] \in T[i]
    <3>1. full[i - 1] \in S
      BY <1>4, <2>1
    <3>2. full[i] \in S
      BY <1>2, <1>9, <3>1
    <3> QED BY <1>4, <3>2
  <2>2. full[0] \in T[0]
    BY <1>3, <1>9
  <2>3. \A i \in 0 .. 9 : full[i] \in T[i]
    <3> HIDE DEF T
    <3> QED BY <2>1, <2>2, LoopStates
  <2> QED BY <2>3
<1> QED BY <1>1, <1>9, <1>10 DEF S, Cat

\* An element at the end of a sequence.
LEMMA Longer ==
  ASSUME NEW S, NEW s \in Seq(S), NEW x \in S, NEW t \in Seq(S), Len(t) = Len(s) + 1,
         \A j \in 1 .. Len(s) : t[j] = s[j], t[Len(s) + 1] = x
  PROVE  s \o <<x>> = t
<1>1. <<x>> \in Seq(S) /\ Len(<<x>>) = 1 /\ <<x>>[1] = x
  OBVIOUS
<1> DEFINE o == <<x>>
           r == s \o o
<1> HIDE DEF o
<1>2. /\ r \in Seq(S) /\ Len(r) = Len(s) + 1
      /\ \A j \in 1 .. Len(s) + 1 : r[j] = IF j <= Len(s) THEN s[j] ELSE o[j - Len(s)]
  BY <1>1, ConcatProperties DEF o
<1> HIDE DEF r
<1>3. Len(s) \in Nat
  OBVIOUS
<1>4. \A j \in 1 .. Len(r) : r[j] = t[j]
  <2> SUFFICES ASSUME NEW j \in 1 .. Len(s) + 1 PROVE r[j] = t[j]
    BY <1>2
  <2>1. CASE j <= Len(s)
    BY <1>2, <1>3, <2>1
  <2>2. CASE j = Len(s) + 1
    <3>1. j - Len(s) = 1 /\ ~(j <= Len(s))
      BY <1>3, <2>2
    <3> QED BY <1>1, <1>2, <2>2, <3>1 DEF o
  <2> QED BY <1>3, <2>1, <2>2
<1> QED BY <1>2, <1>4, SeqEqual DEF r, o

\* Short sequences put together.
LEMMA Pairs ==
  ASSUME NEW a, NEW b
  PROVE  <<a, b>> = <<a>> \o <<b>>
<1> DEFINE S == {a, b}
<1>1. /\ <<a>> \in Seq(S) /\ <<a, b>> \in Seq(S) /\ b \in S
      /\ Len(<<a>>) = 1 /\ Len(<<a, b>>) = 1 + 1
      /\ \A j \in 1 .. 1 : <<a, b>>[j] = <<a>>[j]
      /\ <<a, b>>[1 + 1] = b
  OBVIOUS
<1> HIDE DEF S
<1> QED BY <1>1, Longer

LEMMA Triples ==
  ASSUME NEW a, NEW b, NEW c
  PROVE  <<a, b, c>> = <<a, b>> \o <<c>>
<1> DEFINE S == {a, b, c}
<1>1. /\ <<a, b>> \in Seq(S) /\ <<a, b, c>> \in Seq(S) /\ c \in S
      /\ Len(<<a, b>>) = 2 /\ Len(<<a, b, c>>) = 2 + 1
      /\ \A j \in 1 .. 2 : <<a, b, c>>[j] = <<a, b>>[j]
      /\ <<a, b, c>>[2 + 1] = c
  OBVIOUS
<1> HIDE DEF S
<1> QED BY <1>1, Longer

\* AddRoundKey first, as vaeseq_u8 has it, or last, as _mm_aesenc_si128 has it: the
\* same rounds.
LEMMA AesRoundsStandard ==
  \A a : AesRounds(a) = <<"AES-128">> /\ AesRounds4(a) = <<"AES-128">>
<1>1. X86Rounds = Fips197
  <2>1. PICK f : /\ Fips197 = f[9] \o <<Sub, Ark(10)>>
                 /\ f[0] = <<Ark(0)>>
                 /\ \A r \in 1 .. 9 : f[r] = f[r - 1] \o <<Sub, Mix, Ark(r)>>
    BY FipsRun
  <2>2. /\ f[1] = f[0] \o Aesenc(1) /\ f[2] = f[1] \o Aesenc(2)
        /\ f[3] = f[2] \o Aesenc(3) /\ f[4] = f[3] \o Aesenc(4)
        /\ f[5] = f[4] \o Aesenc(5) /\ f[6] = f[5] \o Aesenc(6)
        /\ f[7] = f[6] \o Aesenc(7) /\ f[8] = f[7] \o Aesenc(8)
        /\ f[9] = f[8] \o Aesenc(9)
    <3> DEFINE Grows(r) == f[r] = f[r - 1] \o Aesenc(r)
    <3>1. \A r \in 1 .. 9 : Grows(r)
      BY <2>1 DEF Aesenc
    <3> HIDE DEF Grows
    <3>2. /\ Grows(1) /\ Grows(2) /\ Grows(3) /\ Grows(4) /\ Grows(5)
          /\ Grows(6) /\ Grows(7) /\ Grows(8) /\ Grows(9)
      BY <3>1
    <3>3. /\ 1 - 1 = 0 /\ 2 - 1 = 1 /\ 3 - 1 = 2 /\ 4 - 1 = 3 /\ 5 - 1 = 4
          /\ 6 - 1 = 5 /\ 7 - 1 = 6 /\ 8 - 1 = 7 /\ 9 - 1 = 8
      OBVIOUS
    <3> QED BY <3>2, <3>3, Zenon DEF Grows
  <2>3. Fips197 = f[9] \o Aesenclast(10)
    BY <2>1 DEF Aesenclast
  <2> QED BY <2>1, <2>2, <2>3, Zenon DEF X86Rounds
<1>2. X86Rounds4 = Fips197
  BY DEF X86Rounds4, Fips197, Aesenc, Aesenclast
<1>3. ArmRounds4 = ArmRounds
  BY DEF ArmRounds, ArmRounds4
<1>4. ArmRounds = Fips197
  <2> DEFINE Cat(x, y) == x \o y
             S == Seq(AesSteps)
             K(r) == <<Ark(r)>>
             s == <<Sub>>
             m == <<Mix>>
  <2>1. PICK f : /\ Fips197 = Cat(f[9], Cat(s, K(10)))
                 /\ f[0] = K(0)
                 /\ \A r \in 1 .. 9 : f[r] = Cat(f[r - 1], Cat(Cat(s, m), K(r)))
                 /\ \A r \in 0 .. 9 : f[r] \in S
    <3>1. ASSUME NEW r
          PROVE  <<Sub, Ark(r)>> = Cat(s, K(r)) /\ <<Sub, Mix, Ark(r)>> = Cat(Cat(s, m), K(r))
      <4>1. <<Sub, Ark(r)>> = <<Sub>> \o <<Ark(r)>>
        BY Pairs, Zenon
      <4>2. <<Sub, Mix, Ark(r)>> = <<Sub, Mix>> \o <<Ark(r)>>
        BY Triples, Zenon
      <4>3. <<Sub, Mix>> = <<Sub>> \o <<Mix>>
        BY Pairs, Zenon
      <4> QED BY <4>1, <4>2, <4>3, Zenon
    <3> HIDE DEF K, s, m, S
    <3> QED BY <3>1, FipsRun DEF K, S
  <2>2. PICK g : /\ ArmRounds = Cat(Cat(g[9], Cat(K(9), s)), K(10))
                 /\ g[0] = <<>>
                 /\ \A r \in 1 .. 9 : g[r] = Cat(Cat(g[r - 1], Cat(K(r - 1), s)), m)
                 /\ \A r \in 0 .. 9 : g[r] \in S
    <3>1. \A r : Aese(r) = Cat(K(r), s)
      BY Pairs DEF Aese
    <3> HIDE DEF s
    <3> QED BY <3>1, ArmRun
  <2>3. \A r \in 0 .. 10 : K(r) \in S /\ s \in S /\ m \in S
    BY DEF AesSteps
  <2>4. \A x, y, z \in S : Cat(Cat(x, y), z) = Cat(x, Cat(y, z)) /\ Cat(x, y) \in S
    BY ConcatAssociative, ConcatProperties
  <2>5. Cat(<<>>, K(0)) = K(0)
    BY <2>3, ConcatEmptySeq
  <2> HIDE DEF S, Cat, K, s, m
  <2>6. \A r \in 1 .. 9 : r - 1 \in 0 .. 9 /\ r \in 0 .. 9 /\ r \in 0 .. 10 /\ r - 1 \in 0 .. 10
    OBVIOUS
  <2>7. ASSUME NEW x \in S, NEW k \in S, NEW l \in S
        PROVE  /\ Cat(Cat(x, k), Cat(Cat(s, m), l)) = Cat(Cat(Cat(x, Cat(k, s)), m), l)
               /\ Cat(Cat(x, k), Cat(s, l)) = Cat(Cat(x, Cat(k, s)), l)
    <3>1. s \in S /\ m \in S
      BY <2>3
    <3>2. Cat(Cat(s, m), l) = Cat(s, Cat(m, l)) /\ Cat(m, l) \in S
      BY <2>4, <3>1
    <3> DEFINE y == Cat(x, k)
               z == Cat(y, s)
               w == Cat(m, l)
    <3>3. y \in S /\ z = Cat(x, Cat(k, s))
      BY <2>4, <3>1
    <3>4. z \in S
      BY <2>4, <3>1, <3>3
    <3> HIDE DEF y, z, w
    <3>5. w \in S /\ Cat(Cat(s, m), l) = Cat(s, w)
      BY <3>2 DEF w
    <3>6. Cat(y, Cat(s, w)) = Cat(z, w)
      BY <2>4, <3>1, <3>3, <3>5 DEF z
    <3>7. Cat(z, w) = Cat(Cat(z, m), l)
      BY <2>4, <3>1, <3>4 DEF w
    <3>8. Cat(y, Cat(s, l)) = Cat(z, l)
      BY <2>4, <3>1, <3>3 DEF z
    <3> QED BY <3>3, <3>5, <3>6, <3>7, <3>8 DEF y
  <2>8. ASSUME NEW r \in 1 .. 9, f[r - 1] = Cat(g[r - 1], K(r - 1))
        PROVE  f[r] = Cat(g[r], K(r))
    <3>1. g[r - 1] \in S /\ K(r - 1) \in S /\ K(r) \in S
      BY <2>2, <2>3, <2>6
    <3>2. f[r] = Cat(Cat(g[r - 1], K(r - 1)), Cat(Cat(s, m), K(r)))
      BY <2>1, <2>8
    <3>3. g[r] = Cat(Cat(g[r - 1], Cat(K(r - 1), s)), m)
      BY <2>2
    <3> QED BY <2>7, <3>1, <3>2, <3>3
  <2>9. \A r \in 0 .. 9 : f[r] = Cat(g[r], K(r))
    <3> DEFINE T == [r \in 0 .. 9 |-> {Cat(g[r], K(r))}]
    <3>1. ASSUME NEW r \in 1 .. 9, f[r - 1] \in T[r - 1] PROVE f[r] \in T[r]
      BY <2>6, <2>8, <3>1
    <3>2. f[0] \in T[0]
      BY <2>1, <2>2, <2>5
    <3>3. \A r \in 0 .. 9 : f[r] \in T[r]
      <4> HIDE DEF T
      <4> QED BY <3>1, <3>2, LoopStates
    <3> QED BY <3>3
  <2> QED BY <2>1, <2>2, <2>3, <2>7, <2>9
<1> QED BY <1>1, <1>2, <1>3, <1>4 DEF AesRounds, AesRounds4, Named

\* The words in the registers before group h: 4 * h .. 4 * h + 15, in a ring.
Ring(h) == [r \in 0 .. 3 |-> 4 * (h + ((r - h) % 4))]

\* Register (h + j) % 4 holds the words from 4 * (h + j) on, and there is no other.
LEMMA RingWords ==
  ASSUME NEW h \in Nat
  PROVE  /\ \A j \in 0 .. 3 : (h + j) % 4 \in 0 .. 3 /\ Ring(h)[(h + j) % 4] = 4 * (h + j)
         /\ \A r \in 0 .. 3 : \E j \in 0 .. 3 : r = (h + j) % 4
<1>1. ASSUME NEW j \in 0 .. 3
      PROVE  (h + j) % 4 \in 0 .. 3 /\ Ring(h)[(h + j) % 4] = 4 * (h + j)
  <2> DEFINE n == h + j
             q == n \div 4
             r == n % 4
  <2>1. n \in Int
    OBVIOUS
  <2>2. q \in Int /\ r \in 0 .. 3 /\ n = 4 * q + r
    <3> HIDE DEF n
    <3> QED BY <2>1, DivMod
  <2> HIDE DEF q, r
  <2>3. r - h = 4 * (-q) + j /\ -q \in Int /\ j \in 0 .. 4 - 1
    BY <2>2 DEF n
  <2>4. (r - h) % 4 = j
    BY <2>3, DivUnique
  <2>5. Ring(h)[r] = 4 * (h + j)
    BY <2>2, <2>4 DEF Ring
  <2> QED BY <2>2, <2>5 DEF r
<1>2. ASSUME NEW r \in 0 .. 3 PROVE \E j \in 0 .. 3 : r = (h + j) % 4
  <2> DEFINE n == r - h
             q == n \div 4
             j == n % 4
  <2>1. n \in Int
    OBVIOUS
  <2>2. q \in Int /\ j \in 0 .. 3 /\ n = 4 * q + j
    <3> HIDE DEF n
    <3> QED BY <2>1, DivMod
  <2> HIDE DEF q, j
  <2>3. h + j = 4 * (-q) + r /\ -q \in Int /\ r \in 0 .. 4 - 1
    BY <2>2 DEF n
  <2>4. (h + j) % 4 = r
    BY <2>3, DivUnique
  <2> QED BY <2>2, <2>4
<1> QED BY <1>1, <1>2

\* One group replaces the words just used by those sixteen further on.
LEMMA NextRing ==
  ASSUME NEW h \in Nat
  PROVE  NextRegisters(Ring(h), h) = Ring(h + 1)
<1> DEFINE m == Ring(h)
           n == NextRegisters(m, h)
           a == h % 4
<1>1. a \in 0 .. 3 /\ m[a] = 4 * h
  <2>1. \A j \in 0 .. 3 : (h + j) % 4 \in 0 .. 3 /\ m[(h + j) % 4] = 4 * (h + j)
    BY RingWords
  <2>2. h + 0 = h /\ 0 \in 0 .. 3
    OBVIOUS
  <2> HIDE DEF m
  <2> QED BY <2>1, <2>2
<1>2. /\ m[(h + 1) % 4] = 4 * h + 4 /\ m[(h + 2) % 4] = 4 * h + 8
      /\ m[(h + 3) % 4] = 4 * h + 12
  <2>1. \A j \in 0 .. 3 : m[(h + j) % 4] = 4 * (h + j)
    BY RingWords
  <2> HIDE DEF m
  <2>2. m[(h + 1) % 4] = 4 * (h + 1) /\ m[(h + 2) % 4] = 4 * (h + 2)
        /\ m[(h + 3) % 4] = 4 * (h + 3)
    BY <2>1
  <2> QED BY <2>2
<1>3. n = [m EXCEPT ![a] = 4 * h + 16]
  <2>1. n = [m EXCEPT ![a] = Sched(m[a], m[(h + 1) % 4], m[(h + 2) % 4], m[(h + 3) % 4])]
    BY DEF NextRegisters
  <2>2. Sched(m[a], m[(h + 1) % 4], m[(h + 2) % 4], m[(h + 3) % 4]) = 4 * h + 16
    <3>1. Sched(m[a], m[(h + 1) % 4], m[(h + 2) % 4], m[(h + 3) % 4])
            = Sched(4 * h, 4 * h + 4, 4 * h + 8, 4 * h + 12)
      BY <1>1, <1>2
    <3>2. Sched(4 * h, 4 * h + 4, 4 * h + 8, 4 * h + 12) = 4 * h + 16
      BY DEF Sched
    <3> QED BY <3>1, <3>2
  <2> QED BY <2>1, <2>2
<1>4. m = [r \in 0 .. 3 |-> m[r]] /\ Ring(h + 1) = [r \in 0 .. 3 |-> Ring(h + 1)[r]]
  BY DEF Ring
<1>5. ASSUME NEW r \in 0 .. 3 PROVE n[r] = Ring(h + 1)[r]
  <2>1. PICK j \in 0 .. 3 : r = (h + j) % 4
    BY RingWords
  <2>2. m[r] = 4 * (h + j)
    BY <2>1, RingWords
  <2>3. CASE j = 0
    <3>1. r = a
      BY <2>1, <2>3
    <3>2. Ring(h + 1)[((h + 1) + 3) % 4] = 4 * ((h + 1) + 3)
      BY RingWords
    <3>3. ((h + 1) + 3) % 4 = a
      <4>1. (h + 1 * 4) % 4 = h % 4
        BY DivAdd
      <4>2. h + 1 * 4 = (h + 1) + 3
        OBVIOUS
      <4> QED BY <4>1, <4>2
    <3>4. n[a] = 4 * h + 16
      <4> HIDE DEF m, n, a
      <4> QED BY <1>1, <1>3, <1>4
    <3> HIDE DEF n, a
    <3> QED BY <3>1, <3>2, <3>3, <3>4
  <2>4. CASE j # 0
    <3>1. r # a
      <4> HIDE DEF m, a
      <4> QED BY <1>1, <2>2, <2>4
    <3>2. n[r] = m[r]
      <4> HIDE DEF m, n, a
      <4> QED BY <1>3, <1>4, <3>1
    <3>3. j - 1 \in 0 .. 3 /\ (h + 1) + (j - 1) = h + j
      BY <2>4
    <3>4. Ring(h + 1)[((h + 1) + (j - 1)) % 4] = 4 * ((h + 1) + (j - 1))
      <4> DEFINE g == h + 1
                 i == j - 1
      <4>1. g \in Nat /\ i \in 0 .. 3
        BY <3>3
      <4> HIDE DEF g, i
      <4>2. Ring(g)[(g + i) % 4] = 4 * (g + i)
        BY <4>1, RingWords
      <4> QED BY <4>2 DEF g, i
    <3> HIDE DEF m, n
    <3> QED BY <2>1, <2>2, <3>2, <3>3, <3>4
  <2> QED BY <2>3, <2>4
<1>6. n = [r \in 0 .. 3 |-> n[r]]
  <2> HIDE DEF m, n, a
  <2> QED BY <1>3, <1>4
<1> HIDE DEF n
<1>7. n = Ring(h + 1)
  BY <1>4, <1>5, <1>6
<1> QED BY <1>7 DEF n

\* Before every group, the register the group reads holds the group's words.
LEMMA ShaRoundsStandard ==
  \A a : ShaRounds(a) = <<"SHA-256">>
<1> DEFINE Turn(m, g) == IF g <= 12 THEN NextRegisters(m, g - 1) ELSE m
           First == [r \in 0 .. 3 |-> 4 * r]
           Rec(f) == [g \in 0 .. 15 |->
                        IF g = 0 THEN First
                        ELSE CHOOSE x \in {Turn(m, g) : m \in {f[g - 1]}} : TRUE]
           regs == CHOOSE f : f = Rec(f)
           At0(g) == IF g <= 12 THEN g ELSE 12
           T == [g \in 0 .. 15 |-> {Ring(At0(g))}]
           table == [g \in 0 .. 15 |-> Ring(At0(g))]
<1>1. MsgRegisters = regs
  BY DEF MsgRegisters
<1>2. First = Ring(0)
  <2>1. \A j \in 0 .. 3 : Ring(0)[(0 + j) % 4] = 4 * (0 + j)
    BY RingWords
  <2>2. \A j \in 0 .. 3 : (0 + j) % 4 = j /\ 0 + j = j
    <3> SUFFICES ASSUME NEW j \in 0 .. 3 PROVE j % 4 = j
      OBVIOUS
    <3>1. j \in 0 .. 4 - 1
      OBVIOUS
    <3> QED BY <3>1, SmallQuotient
  <2>3. \A j \in 0 .. 3 : Ring(0)[j] = 4 * j
    BY <2>1, <2>2
  <2>4. Ring(0) = [r \in 0 .. 3 |-> Ring(0)[r]]
    BY DEF Ring
  <2> QED BY <2>3, <2>4
<1>3. \A m, g : (CHOOSE x \in {Turn(n, g) : n \in {m}} : TRUE) = Turn(m, g)
  OBVIOUS
<1>4. ASSUME NEW g \in 1 .. 15 PROVE Turn(Ring(At0(g - 1)), g) = Ring(At0(g))
  <2>1. CASE g <= 12
    <3>1. At0(g) = g /\ At0(g - 1) = g - 1 /\ g - 1 \in Nat /\ (g - 1) + 1 = g
      BY <2>1
    <3> HIDE DEF At0
    <3> QED BY <2>1, <3>1, NextRing
  <2>2. CASE ~(g <= 12)
    <3>1. At0(g) = 12 /\ At0(g - 1) = 12
      BY <2>2
    <3> HIDE DEF At0
    <3> QED BY <2>2, <3>1
  <2> QED BY <2>1, <2>2
<1> HIDE DEF Turn, First
<1>5. \A i \in 1 .. 15 : i - 1 \in 0 .. 15 /\ i \in 0 .. 15
  OBVIOUS
<1>6. At0(0) = 0
  OBVIOUS
<1> HIDE DEF At0
<1>7. table = Rec(table)
  BY <1>2, <1>3, <1>4, <1>5, <1>6
<1>8. regs = Rec(regs)
  <2> HIDE DEF Rec, table
  <2> QED BY <1>7
<1> HIDE DEF regs
<1>9. regs[0] = First /\ \A g \in 1 .. 15 : regs[g] = Turn(regs[g - 1], g)
  BY <1>3, <1>8
<1>10. \A g \in 0 .. 15 : regs[g] = Ring(At0(g))
  <2>1. regs[0] \in T[0]
    BY <1>2, <1>6, <1>9
  <2>2. ASSUME NEW i \in 1 .. 15, regs[i - 1] \in T[i - 1] PROVE regs[i] \in T[i]
    BY <1>4, <1>5, <1>9, <2>2
  <2>3. \A g \in 0 .. 15 : regs[g] \in T[g]
    <3> HIDE DEF T
    <3> QED BY <2>1, <2>2, LoopStates
  <2> QED BY <2>3
<1>11. ASSUME NEW g \in 0 .. 15 PROVE regs[g][g % 4] = 4 * g
  <2> DEFINE h == At0(g)
             j == g - h
  <2>1. h \in Nat /\ j \in 0 .. 3 /\ g = h + j
    BY DEF At0
  <2>2. regs[g] = Ring(h)
    BY <1>10
  <2> HIDE DEF h, j
  <2>3. Ring(h)[(h + j) % 4] = 4 * (h + j)
    BY <2>1, RingWords
  <2> QED BY <2>1, <2>2, <2>3
<1>12. NeonRounds = [g \in 0 .. 15 |-> <<4 * g, 4 * g>>]
  BY <1>1, <1>11 DEF NeonRounds
<1>13. PortableRounds = [g \in 0 .. 15 |-> <<4 * g, 4 * g>>]
  BY DEF PortableRounds
<1> QED BY <1>12, <1>13 DEF ShaRounds, Named

\* One round's words permuted.
Permuted(row) == [i \in 1 .. 16 |-> row[kMsgPermutation[i] + 1]]

\* Each row of the library's table is the one before it permuted.
LEMMA ScheduleRows ==
  /\ MSG_SCHEDULE[1] = [i \in 1 .. 16 |-> i - 1]
  /\ MSG_SCHEDULE[2] = Permuted(MSG_SCHEDULE[1])
  /\ MSG_SCHEDULE[3] = Permuted(MSG_SCHEDULE[2])
  /\ MSG_SCHEDULE[4] = Permuted(MSG_SCHEDULE[3])
  /\ MSG_SCHEDULE[5] = Permuted(MSG_SCHEDULE[4])
  /\ MSG_SCHEDULE[6] = Permuted(MSG_SCHEDULE[5])
  /\ MSG_SCHEDULE[7] = Permuted(MSG_SCHEDULE[6])
<1>1. MSG_SCHEDULE[1] = <<0, 1, 2, 3, 4, 5, 6, 7, 8, 9, 10, 11, 12, 13, 14, 15>>
  BY DEF MSG_SCHEDULE
<1>2. MSG_SCHEDULE[2] = <<2, 6, 3, 10, 7, 0, 4, 13, 1, 11, 12, 5, 9, 14, 15, 8>>
  BY DEF MSG_SCHEDULE
<1>3. MSG_SCHEDULE[3] = <<3, 4, 10, 12, 13, 2, 7, 14, 6, 5, 9, 0, 11, 15, 8, 1>>
  BY DEF MSG_SCHEDULE
<1>4. MSG_SCHEDULE[4] = <<10, 7, 12, 9, 14, 3, 13, 15, 4, 0, 11, 2, 5, 8, 1, 6>>
  BY DEF MSG_SCHEDULE
<1>5. MSG_SCHEDULE[5] = <<12, 13, 9, 11, 15, 10, 14, 8, 7, 2, 5, 3, 0, 1, 6, 4>>
  BY DEF MSG_SCHEDULE
<1>6. MSG_SCHEDULE[6] = <<9, 14, 11, 5, 8, 12, 15, 1, 13, 3, 0, 10, 2, 6, 4, 7>>
  BY DEF MSG_SCHEDULE
<1>7. MSG_SCHEDULE[7] = <<11, 15, 5, 0, 1, 9, 8, 6, 14, 10, 2, 12, 3, 4, 7, 13>>
  BY DEF MSG_SCHEDULE
<1>8. MSG_SCHEDULE[1] = [i \in 1 .. 16 |-> i - 1]
  BY <1>1
<1>9. MSG_SCHEDULE[2] = Permuted(MSG_SCHEDULE[1])
  BY <1>1, <1>2 DEF Permuted, kMsgPermutation
<1>10. MSG_SCHEDULE[3] = Permuted(MSG_SCHEDULE[2])
  BY <1>2, <1>3 DEF Permuted, kMsgPermutation
<1>11. MSG_SCHEDULE[4] = Permuted(MSG_SCHEDULE[3])
  BY <1>3, <1>4 DEF Permuted, kMsgPermutation
<1>12. MSG_SCHEDULE[5] = Permuted(MSG_SCHEDULE[4])
  BY <1>4, <1>5 DEF Permuted, kMsgPermutation
<1>13. MSG_SCHEDULE[6] = Permuted(MSG_SCHEDULE[5])
  BY <1>5, <1>6 DEF Permuted, kMsgPermutation
<1>14. MSG_SCHEDULE[7] = Permuted(MSG_SCHEDULE[6])
  BY <1>6, <1>7 DEF Permuted, kMsgPermutation
<1> QED BY <1>8, <1>9, <1>10, <1>11, <1>12, <1>13, <1>14

\* The device permutes the words where the library looks its rows up: the same
\* schedule.
LEMMA GpuScheduleStandard ==
  Named(GpuSchedule, MSG_SCHEDULE, "BLAKE3") = <<"BLAKE3">>
<1> DEFINE First == [i \in 1 .. 16 |-> i - 1]
           Rec(f) == [r \in 1 .. 7 |-> IF r = 1 THEN First ELSE Permuted(f[r - 1])]
           m == CHOOSE f : f = Rec(f)
           Row(r) == MSG_SCHEDULE[r]
           table == [r \in 1 .. 7 |-> Row(r)]
<1>1. GpuSchedule = [r \in 1 .. 7 |-> m[r]]
  BY DEF GpuSchedule, Permuted
<1>2. Row(1) = First /\ \A r \in 2 .. 7 : Row(r) = Permuted(Row(r - 1))
  <2>1. \A r \in 2 .. 7 : r \in {2, 3, 4, 5, 6, 7}
    OBVIOUS
  <2>2. /\ Row(2) = Permuted(Row(1)) /\ Row(3) = Permuted(Row(2)) /\ Row(4) = Permuted(Row(3))
        /\ Row(5) = Permuted(Row(4)) /\ Row(6) = Permuted(Row(5)) /\ Row(7) = Permuted(Row(6))
    BY ScheduleRows
  <2>3. Row(1) = First
    BY ScheduleRows
  <2> HIDE DEF Row, First
  <2> QED BY <2>1, <2>2, <2>3
<1>3. MSG_SCHEDULE = table
  BY DEF MSG_SCHEDULE
<1> HIDE DEF Row, First
<1>4. table = Rec(table)
  <2>1. \A r \in 1 .. 7 : r # 1 => r \in 2 .. 7 /\ r - 1 \in 1 .. 7
    OBVIOUS
  <2> QED BY <1>2, <2>1
<1>5. m = Rec(m)
  <2> HIDE DEF Rec, table
  <2> QED BY <1>4
<1> HIDE DEF m
<1>6. m[1] = First /\ \A r \in 2 .. 7 : m[r] = Permuted(m[r - 1])
  BY <1>5
<1>7. /\ m[1] = Row(1) /\ m[2] = Row(2) /\ m[3] = Row(3) /\ m[4] = Row(4)
      /\ m[5] = Row(5) /\ m[6] = Row(6) /\ m[7] = Row(7)
  <2>1. m[1] = Row(1)
    BY <1>2, <1>6
  <2>2. \A r \in 2 .. 7 : m[r - 1] = Row(r - 1) => m[r] = Row(r)
    BY <1>2, <1>6
  <2> QED BY <2>1, <2>2
<1>8. \A r \in 1 .. 7 : m[r] = Row(r)
  BY <1>7
<1>9. GpuSchedule = MSG_SCHEDULE
  BY <1>1, <1>3, <1>8
<1> QED BY <1>9 DEF Named

----------------------------------------------------------------------------
(* The messages.                                                            *)

\* Two elements at the end of a sequence.
LEMMA LongerByTwo ==
  ASSUME NEW S, NEW s \in Seq(S), NEW x \in S, NEW y \in S, NEW t \in Seq(S),
         Len(t) = Len(s) + 2, \A j \in 1 .. Len(s) : t[j] = s[j],
         t[Len(s) + 1] = x, t[Len(s) + 2] = y
  PROVE  s \o <<x, y>> = t
<1>1. <<x, y>> \in Seq(S) /\ Len(<<x, y>>) = 2 /\ <<x, y>>[1] = x /\ <<x, y>>[2] = y
  OBVIOUS
<1> DEFINE o == <<x, y>>
           r == s \o o
<1> HIDE DEF o
<1>2. /\ r \in Seq(S) /\ Len(r) = Len(s) + 2
      /\ \A j \in 1 .. Len(s) + 2 : r[j] = IF j <= Len(s) THEN s[j] ELSE o[j - Len(s)]
  BY <1>1, ConcatProperties DEF o
<1> HIDE DEF r
<1>3. Len(s) \in Nat
  OBVIOUS
<1>4. \A j \in 1 .. Len(r) : r[j] = t[j]
  <2> SUFFICES ASSUME NEW j \in 1 .. Len(s) + 2 PROVE r[j] = t[j]
    BY <1>2
  <2>1. CASE j <= Len(s)
    BY <1>2, <1>3, <2>1
  <2>2. CASE j = Len(s) + 1
    <3>1. j - Len(s) = 1 /\ ~(j <= Len(s))
      BY <1>3, <2>2
    <3> QED BY <1>1, <1>2, <2>2, <3>1 DEF o
  <2>3. CASE j = Len(s) + 2
    <3>1. j - Len(s) = 2 /\ ~(j <= Len(s))
      BY <1>3, <2>3
    <3> QED BY <1>1, <1>2, <2>3, <3>1 DEF o
  <2> QED BY <1>3, <2>1, <2>2, <2>3
<1> QED BY <1>2, <1>4, SeqEqual DEF r, o

\* A string of 32 bytes is two pieces.
IsPair(p) == p = <<p[1], p[2]>>

\* Pieces put behind one another.
Joined(x, u, v, w, a, b, e, f, g, h) ==
  /\ <<x>> \o u \o v \o w = <<x, a, b, e, f, g, h>>
  /\ u \o v \o w = <<a, b, e, f, g, h>>

LEMMA SevenConcat ==
  ASSUME NEW x, NEW a, NEW b, NEW e, NEW f, NEW g, NEW h
  PROVE  Joined(x, <<a, b>>, <<e, f>>, <<g, h>>, a, b, e, f, g, h)
<1> DEFINE S == {x, a, b, e, f, g, h}
<1>1. <<x>> \o <<a, b>> = <<x, a, b>>
  <2>1. /\ <<x>> \in Seq(S) /\ <<x, a, b>> \in Seq(S) /\ a \in S /\ b \in S
        /\ Len(<<x>>) = 1 /\ Len(<<x, a, b>>) = 1 + 2
        /\ \A j \in 1 .. 1 : <<x, a, b>>[j] = <<x>>[j]
        /\ <<x, a, b>>[1 + 1] = a /\ <<x, a, b>>[1 + 2] = b
    OBVIOUS
  <2> HIDE DEF S
  <2> QED BY <2>1, LongerByTwo
<1>2. <<x, a, b>> \o <<e, f>> = <<x, a, b, e, f>>
  <2>1. /\ <<x, a, b>> \in Seq(S) /\ <<x, a, b, e, f>> \in Seq(S) /\ e \in S /\ f \in S
        /\ Len(<<x, a, b>>) = 3 /\ Len(<<x, a, b, e, f>>) = 3 + 2
        /\ \A j \in 1 .. 3 : <<x, a, b, e, f>>[j] = <<x, a, b>>[j]
        /\ <<x, a, b, e, f>>[3 + 1] = e /\ <<x, a, b, e, f>>[3 + 2] = f
    OBVIOUS
  <2> HIDE DEF S
  <2> QED BY <2>1, LongerByTwo
<1>3. <<x, a, b, e, f>> \o <<g, h>> = <<x, a, b, e, f, g, h>>
  <2>1. /\ <<x, a, b, e, f>> \in Seq(S) /\ <<x, a, b, e, f, g, h>> \in Seq(S)
        /\ g \in S /\ h \in S
        /\ Len(<<x, a, b, e, f>>) = 5 /\ Len(<<x, a, b, e, f, g, h>>) = 5 + 2
        /\ \A j \in 1 .. 5 : <<x, a, b, e, f, g, h>>[j] = <<x, a, b, e, f>>[j]
        /\ <<x, a, b, e, f, g, h>>[5 + 1] = g /\ <<x, a, b, e, f, g, h>>[5 + 2] = h
    OBVIOUS
  <2> HIDE DEF S
  <2> QED BY <2>1, LongerByTwo
<1>4. <<a, b>> \o <<e, f>> = <<a, b, e, f>>
  <2>1. /\ <<a, b>> \in Seq(S) /\ <<a, b, e, f>> \in Seq(S) /\ e \in S /\ f \in S
        /\ Len(<<a, b>>) = 2 /\ Len(<<a, b, e, f>>) = 2 + 2
        /\ \A j \in 1 .. 2 : <<a, b, e, f>>[j] = <<a, b>>[j]
        /\ <<a, b, e, f>>[2 + 1] = e /\ <<a, b, e, f>>[2 + 2] = f
    OBVIOUS
  <2> HIDE DEF S
  <2> QED BY <2>1, LongerByTwo
<1>5. <<a, b, e, f>> \o <<g, h>> = <<a, b, e, f, g, h>>
  <2>1. /\ <<a, b, e, f>> \in Seq(S) /\ <<a, b, e, f, g, h>> \in Seq(S)
        /\ g \in S /\ h \in S
        /\ Len(<<a, b, e, f>>) = 4 /\ Len(<<a, b, e, f, g, h>>) = 4 + 2
        /\ \A j \in 1 .. 4 : <<a, b, e, f, g, h>>[j] = <<a, b, e, f>>[j]
        /\ <<a, b, e, f, g, h>>[4 + 1] = g /\ <<a, b, e, f, g, h>>[4 + 2] = h
    OBVIOUS
  <2> HIDE DEF S
  <2> QED BY <2>1, LongerByTwo
<1> HIDE DEF S
<1> QED BY <1>1, <1>2, <1>3, <1>4, <1>5, Zenon DEF Joined

\* An AES message has seven pieces.
LEMMA SevenPieces ==
  ASSUME NEW x, NEW p, NEW q, NEW d, IsPair(p), IsPair(q), IsPair(d)
  PROVE  /\ <<x>> \o p \o q \o d = <<x, p[1], p[2], q[1], q[2], d[1], d[2]>>
         /\ p \o q \o d = <<p[1], p[2], q[1], q[2], d[1], d[2]>>
<1> DEFINE a == p[1]  b == p[2]  e == q[1]  f == q[2]  g == d[1]  h == d[2]
<1>1. p = <<a, b>> /\ q = <<e, f>> /\ d = <<g, h>>
  BY DEF IsPair
<1>2. Joined(x, p, q, d, a, b, e, f, g, h)
  <2> HIDE DEF a, b, e, f, g, h
  <2> QED BY <1>1, SevenConcat
<1> QED BY <1>2 DEF Joined

\* Four elements at the end of a sequence.
LongerBy4(s, t, x, y, v, w) ==
  /\ Len(t) = Len(s) + 4 /\ \A j \in 1 .. Len(s) : t[j] = s[j]
  /\ t[Len(s) + 1] = x /\ t[Len(s) + 2] = y /\ t[Len(s) + 3] = v /\ t[Len(s) + 4] = w

LEMMA LongerByFour ==
  ASSUME NEW S, NEW s \in Seq(S), NEW x \in S, NEW y \in S, NEW v \in S, NEW w \in S,
         NEW t \in Seq(S), LongerBy4(s, t, x, y, v, w)
  PROVE  s \o <<x, y, v, w>> = t
<1>1. /\ <<x, y, v, w>> \in Seq(S) /\ Len(<<x, y, v, w>>) = 4
      /\ <<x, y, v, w>>[1] = x /\ <<x, y, v, w>>[2] = y
      /\ <<x, y, v, w>>[3] = v /\ <<x, y, v, w>>[4] = w
  OBVIOUS
<1> DEFINE o == <<x, y, v, w>>
           r == s \o o
<1> HIDE DEF o
<1>2. /\ r \in Seq(S) /\ Len(r) = Len(s) + 4
      /\ \A j \in 1 .. Len(s) + 4 : r[j] = IF j <= Len(s) THEN s[j] ELSE o[j - Len(s)]
  BY <1>1, ConcatProperties DEF o
<1> HIDE DEF r
<1>3. Len(s) \in Nat
  OBVIOUS
<1>4. \A n \in 1 .. 4 : o[n] = t[Len(s) + n]
  <2>1. \A n \in 1 .. 4 : n = 1 \/ n = 2 \/ n = 3 \/ n = 4
    OBVIOUS
  <2> QED BY <1>1, <2>1 DEF o, LongerBy4
<1>5. \A j \in 1 .. Len(r) : r[j] = t[j]
  <2> SUFFICES ASSUME NEW j \in 1 .. Len(s) + 4 PROVE r[j] = t[j]
    BY <1>2
  <2>1. CASE j <= Len(s)
    BY <1>2, <1>3, <2>1 DEF LongerBy4
  <2>2. CASE j > Len(s)
    <3>1. /\ j - Len(s) \in 1 .. 4 /\ ~(j <= Len(s))
          /\ Len(s) + (j - Len(s)) = j
      BY <1>3, <2>2
    <3> QED BY <1>2, <1>4, <3>1
  <2> QED BY <1>3, <2>1, <2>2
<1> QED BY <1>2, <1>5, SeqEqual DEF r, o, LongerBy4

\* The pieces of a node's message, and what follows its first piece when padded.
NodeJoined(x, z, u, v, w, y, a, b, e, f, g, h, k, l, m, n) ==
  /\ <<x, z, z, z>> \o u \o v \o w \o y = <<x, z, z, z, a, b, e, f, g, h, k, l>>
  /\ <<z, z, z>> \o u \o v \o w \o y \o <<m, z, z, n>>
       = <<z, z, z, a, b, e, f, g, h, k, l, m, z, z, n>>
  /\ u \o v = <<a, b, e, f>>
  /\ w \o y = <<g, h, k, l>>

LEMMA NodeConcat ==
  ASSUME NEW x, NEW z, NEW a, NEW b, NEW e, NEW f, NEW g, NEW h, NEW k, NEW l,
         NEW m, NEW n
  PROVE  NodeJoined(x, z, <<a, b>>, <<e, f>>, <<g, h>>, <<k, l>>,
                    a, b, e, f, g, h, k, l, m, n)
<1> DEFINE S == {x, z, a, b, e, f, g, h, k, l, m, n}
<1>1. <<x, z, z, z>> \o <<a, b>> = <<x, z, z, z, a, b>>
  <2> DEFINE s == <<x, z, z, z>>
             t == <<x, z, z, z, a, b>>
  <2>1. /\ s \in Seq(S) /\ t \in Seq(S) /\ a \in S /\ b \in S
        /\ Len(s) = 4 /\ Len(t) = 4 + 2 /\ \A j \in 1 .. 4 : t[j] = s[j]
        /\ t[4 + 1] = a /\ t[4 + 2] = b
    OBVIOUS
  <2> HIDE DEF S, s, t
  <2>2. /\ Len(t) = Len(s) + 2 /\ \A j \in 1 .. Len(s) : t[j] = s[j]
        /\ t[Len(s) + 1] = a /\ t[Len(s) + 2] = b
    BY <2>1
  <2>3. s \o <<a, b>> = t
    BY <2>1, <2>2, LongerByTwo
  <2> QED BY <2>3 DEF s, t
<1>2. <<x, z, z, z, a, b>> \o <<e, f>> = <<x, z, z, z, a, b, e, f>>
  <2> DEFINE s == <<x, z, z, z, a, b>>
             t == <<x, z, z, z, a, b, e, f>>
  <2>1. /\ s \in Seq(S) /\ t \in Seq(S) /\ e \in S /\ f \in S
        /\ Len(s) = 6 /\ Len(t) = 6 + 2 /\ \A j \in 1 .. 6 : t[j] = s[j]
        /\ t[6 + 1] = e /\ t[6 + 2] = f
    OBVIOUS
  <2> HIDE DEF S, s, t
  <2>2. /\ Len(t) = Len(s) + 2 /\ \A j \in 1 .. Len(s) : t[j] = s[j]
        /\ t[Len(s) + 1] = e /\ t[Len(s) + 2] = f
    BY <2>1
  <2>3. s \o <<e, f>> = t
    BY <2>1, <2>2, LongerByTwo
  <2> QED BY <2>3 DEF s, t
<1>3. <<x, z, z, z, a, b, e, f>> \o <<g, h>> = <<x, z, z, z, a, b, e, f, g, h>>
  <2> DEFINE s == <<x, z, z, z, a, b, e, f>>
             t == <<x, z, z, z, a, b, e, f, g, h>>
  <2>1. /\ s \in Seq(S) /\ t \in Seq(S) /\ g \in S /\ h \in S
        /\ Len(s) = 8 /\ Len(t) = 8 + 2 /\ \A j \in 1 .. 8 : t[j] = s[j]
        /\ t[8 + 1] = g /\ t[8 + 2] = h
    OBVIOUS
  <2> HIDE DEF S, s, t
  <2>2. /\ Len(t) = Len(s) + 2 /\ \A j \in 1 .. Len(s) : t[j] = s[j]
        /\ t[Len(s) + 1] = g /\ t[Len(s) + 2] = h
    BY <2>1
  <2>3. s \o <<g, h>> = t
    BY <2>1, <2>2, LongerByTwo
  <2> QED BY <2>3 DEF s, t
<1>4. <<x, z, z, z, a, b, e, f, g, h>> \o <<k, l>>
        = <<x, z, z, z, a, b, e, f, g, h, k, l>>
  <2> DEFINE s == <<x, z, z, z, a, b, e, f, g, h>>
             t == <<x, z, z, z, a, b, e, f, g, h, k, l>>
  <2>1. /\ s \in Seq(S) /\ t \in Seq(S) /\ k \in S /\ l \in S
        /\ Len(s) = 10 /\ Len(t) = 10 + 2 /\ \A j \in 1 .. 10 : t[j] = s[j]
        /\ t[10 + 1] = k /\ t[10 + 2] = l
    OBVIOUS
  <2> HIDE DEF S, s, t
  <2>2. /\ Len(t) = Len(s) + 2 /\ \A j \in 1 .. Len(s) : t[j] = s[j]
        /\ t[Len(s) + 1] = k /\ t[Len(s) + 2] = l
    BY <2>1
  <2>3. s \o <<k, l>> = t
    BY <2>1, <2>2, LongerByTwo
  <2> QED BY <2>3 DEF s, t
<1>5. <<z, z, z>> \o <<a, b>> = <<z, z, z, a, b>>
  <2> DEFINE s == <<z, z, z>>
             t == <<z, z, z, a, b>>
  <2>1. /\ s \in Seq(S) /\ t \in Seq(S) /\ a \in S /\ b \in S
        /\ Len(s) = 3 /\ Len(t) = 3 + 2 /\ \A j \in 1 .. 3 : t[j] = s[j]
        /\ t[3 + 1] = a /\ t[3 + 2] = b
    OBVIOUS
  <2> HIDE DEF S, s, t
  <2>2. /\ Len(t) = Len(s) + 2 /\ \A j \in 1 .. Len(s) : t[j] = s[j]
        /\ t[Len(s) + 1] = a /\ t[Len(s) + 2] = b
    BY <2>1
  <2>3. s \o <<a, b>> = t
    BY <2>1, <2>2, LongerByTwo
  <2> QED BY <2>3 DEF s, t
<1>6. <<z, z, z, a, b>> \o <<e, f>> = <<z, z, z, a, b, e, f>>
  <2> DEFINE s == <<z, z, z, a, b>>
             t == <<z, z, z, a, b, e, f>>
  <2>1. /\ s \in Seq(S) /\ t \in Seq(S) /\ e \in S /\ f \in S
        /\ Len(s) = 5 /\ Len(t) = 5 + 2 /\ \A j \in 1 .. 5 : t[j] = s[j]
        /\ t[5 + 1] = e /\ t[5 + 2] = f
    OBVIOUS
  <2> HIDE DEF S, s, t
  <2>2. /\ Len(t) = Len(s) + 2 /\ \A j \in 1 .. Len(s) : t[j] = s[j]
        /\ t[Len(s) + 1] = e /\ t[Len(s) + 2] = f
    BY <2>1
  <2>3. s \o <<e, f>> = t
    BY <2>1, <2>2, LongerByTwo
  <2> QED BY <2>3 DEF s, t
<1>7. <<z, z, z, a, b, e, f>> \o <<g, h>> = <<z, z, z, a, b, e, f, g, h>>
  <2> DEFINE s == <<z, z, z, a, b, e, f>>
             t == <<z, z, z, a, b, e, f, g, h>>
  <2>1. /\ s \in Seq(S) /\ t \in Seq(S) /\ g \in S /\ h \in S
        /\ Len(s) = 7 /\ Len(t) = 7 + 2 /\ \A j \in 1 .. 7 : t[j] = s[j]
        /\ t[7 + 1] = g /\ t[7 + 2] = h
    OBVIOUS
  <2> HIDE DEF S, s, t
  <2>2. /\ Len(t) = Len(s) + 2 /\ \A j \in 1 .. Len(s) : t[j] = s[j]
        /\ t[Len(s) + 1] = g /\ t[Len(s) + 2] = h
    BY <2>1
  <2>3. s \o <<g, h>> = t
    BY <2>1, <2>2, LongerByTwo
  <2> QED BY <2>3 DEF s, t
<1>8. <<z, z, z, a, b, e, f, g, h>> \o <<k, l>> = <<z, z, z, a, b, e, f, g, h, k, l>>
  <2> DEFINE s == <<z, z, z, a, b, e, f, g, h>>
             t == <<z, z, z, a, b, e, f, g, h, k, l>>
  <2>1. /\ s \in Seq(S) /\ t \in Seq(S) /\ k \in S /\ l \in S
        /\ Len(s) = 9 /\ Len(t) = 9 + 2 /\ \A j \in 1 .. 9 : t[j] = s[j]
        /\ t[9 + 1] = k /\ t[9 + 2] = l
    OBVIOUS
  <2> HIDE DEF S, s, t
  <2>2. /\ Len(t) = Len(s) + 2 /\ \A j \in 1 .. Len(s) : t[j] = s[j]
        /\ t[Len(s) + 1] = k /\ t[Len(s) + 2] = l
    BY <2>1
  <2>3. s \o <<k, l>> = t
    BY <2>1, <2>2, LongerByTwo
  <2> QED BY <2>3 DEF s, t
<1>9. <<z, z, z, a, b, e, f, g, h, k, l>> \o <<m, z, z, n>>
        = <<z, z, z, a, b, e, f, g, h, k, l, m, z, z, n>>
  <2> DEFINE s == <<z, z, z, a, b, e, f, g, h, k, l>>
             t == <<z, z, z, a, b, e, f, g, h, k, l, m, z, z, n>>
  <2>1. /\ s \in Seq(S) /\ t \in Seq(S) /\ m \in S /\ z \in S /\ n \in S
        /\ Len(s) = 11 /\ Len(t) = 11 + 4 /\ \A j \in 1 .. 11 : t[j] = s[j]
        /\ t[11 + 1] = m /\ t[11 + 2] = z /\ t[11 + 3] = z /\ t[11 + 4] = n
    OBVIOUS
  <2> HIDE DEF S, s, t
  <2>2. LongerBy4(s, t, m, z, z, n)
    BY <2>1 DEF LongerBy4
  <2>3. s \o <<m, z, z, n>> = t
    BY <2>1, <2>2, LongerByFour
  <2> QED BY <2>3 DEF s, t
<1>10. <<a, b>> \o <<e, f>> = <<a, b, e, f>>
  <2> DEFINE s == <<a, b>>
             t == <<a, b, e, f>>
  <2>1. /\ s \in Seq(S) /\ t \in Seq(S) /\ e \in S /\ f \in S
        /\ Len(s) = 2 /\ Len(t) = 2 + 2 /\ \A j \in 1 .. 2 : t[j] = s[j]
        /\ t[2 + 1] = e /\ t[2 + 2] = f
    OBVIOUS
  <2> HIDE DEF S, s, t
  <2>2. /\ Len(t) = Len(s) + 2 /\ \A j \in 1 .. Len(s) : t[j] = s[j]
        /\ t[Len(s) + 1] = e /\ t[Len(s) + 2] = f
    BY <2>1
  <2>3. s \o <<e, f>> = t
    BY <2>1, <2>2, LongerByTwo
  <2> QED BY <2>3 DEF s, t
<1>11. <<g, h>> \o <<k, l>> = <<g, h, k, l>>
  <2> DEFINE s == <<g, h>>
             t == <<g, h, k, l>>
  <2>1. /\ s \in Seq(S) /\ t \in Seq(S) /\ k \in S /\ l \in S
        /\ Len(s) = 2 /\ Len(t) = 2 + 2 /\ \A j \in 1 .. 2 : t[j] = s[j]
        /\ t[2 + 1] = k /\ t[2 + 2] = l
    OBVIOUS
  <2> HIDE DEF S, s, t
  <2>2. /\ Len(t) = Len(s) + 2 /\ \A j \in 1 .. Len(s) : t[j] = s[j]
        /\ t[Len(s) + 1] = k /\ t[Len(s) + 2] = l
    BY <2>1
  <2>3. s \o <<k, l>> = t
    BY <2>1, <2>2, LongerByTwo
  <2> QED BY <2>3 DEF s, t
<1> HIDE DEF S
<1> QED BY <1>1, <1>2, <1>3, <1>4, <1>5, <1>6, <1>7, <1>8, <1>9, <1>10, <1>11, Zenon DEF NodeJoined

\* A sequence without its first element.
LEMMA TailOf ==
  ASSUME NEW S, NEW s \in Seq(S), NEW t \in Seq(S), Len(s) = Len(t) + 1,
         \A j \in 1 .. Len(t) : s[j + 1] = t[j]
  PROVE  Tail(s) = t
<1>1. /\ Tail(s) \in Seq(S) /\ Len(Tail(s)) = Len(s) - 1
      /\ \A j \in 1 .. Len(Tail(s)) : Tail(s)[j] = s[j + 1]
  BY HeadTailProperties
<1> DEFINE r == Tail(s)
<1> HIDE DEF r
<1>2. /\ r \in Seq(S) /\ Len(r) = Len(t) /\ \A j \in 1 .. Len(r) : r[j] = t[j]
  BY <1>1 DEF r
<1>3. r = t
  BY <1>2, SeqEqual
<1> QED BY <1>3 DEF r

\* An AES message as the chains absorb it.
AesBlocks(x, p, q, d, m) ==
  /\ m[1] = x /\ Tail(m) = p \o q \o d
  /\ SubSeq(m, 1, AES_BLOCKS) = m /\ [b \in 1 .. AES_BLOCKS |-> m[b]] = m

LEMMA AesMessage ==
  ASSUME NEW x, NEW p, NEW q, NEW d, IsPair(p), IsPair(q), IsPair(d)
  PROVE  AesBlocks(x, p, q, d, <<x>> \o p \o q \o d)
<1> DEFINE a == p[1]  b == p[2]  e == q[1]  f == q[2]  g == d[1]  h == d[2]
           S == {x, a, b, e, f, g, h}
           m == <<x, a, b, e, f, g, h>>
           r == <<a, b, e, f, g, h>>
           whole == <<x>> \o p \o q \o d
           rest == p \o q \o d
<1>1. whole = m /\ rest = r
  BY SevenPieces
<1> HIDE DEF a, b, e, f, g, h, whole, rest
<1>2. /\ m \in Seq(S) /\ r \in Seq(S) /\ Len(m) = 7 /\ Len(r) = 6 /\ m[1] = x
      /\ m = [n \in 1 .. 7 |-> m[n]] /\ \A j \in 1 .. 6 : m[j + 1] = r[j]
  OBVIOUS
<1> HIDE DEF m, r, S
<1>3. Tail(m) = r
  BY <1>2, TailOf
<1>4. SubSeq(m, 1, 7) = m
  BY <1>2, SubSeqFull
<1>5. m[1] = x /\ Tail(m) = rest /\ SubSeq(m, 1, AES_BLOCKS) = m
      /\ [n \in 1 .. AES_BLOCKS |-> m[n]] = m
  BY <1>1, <1>2, <1>3, <1>4 DEF AES_BLOCKS
<1>6. AesBlocks(x, p, q, d, m)
  BY <1>5 DEF AesBlocks, rest
<1>7. AesBlocks(x, p, q, d, whole)
  BY <1>1, <1>6
<1> QED BY <1>7 DEF whole

\* Four pieces in the middle of a sequence.
LEMMA FourOf ==
  ASSUME NEW S, NEW m \in Seq(S), NEW n \in 1 .. 9, n + 3 <= Len(m)
  PROVE  SubSeq(m, n, n + 3) = <<m[n], m[n + 1], m[n + 2], m[n + 3]>>
<1> DEFINE r == SubSeq(m, n, n + 3)
           t == <<m[n], m[n + 1], m[n + 2], m[n + 3]>>
<1>1. n \in 1 .. Len(m) /\ n + 3 \in 1 .. Len(m) /\ n + 3 \in Nat /\ Len(m) \in Nat
  OBVIOUS
<1>2. /\ r \in Seq(S) /\ Len(r) = 4 /\ \A j \in 1 .. 4 : r[j] = m[n + j - 1]
  BY <1>1, SubSeqProperties
<1>3. m[n] \in S /\ m[n + 1] \in S /\ m[n + 2] \in S /\ m[n + 3] \in S
  <2>1. \A j \in 1 .. Len(m) : m[j] \in S
    OBVIOUS
  <2> QED BY <1>1, <2>1
<1>4. /\ t \in Seq(S) /\ Len(t) = 4
      /\ t[1] = m[n] /\ t[2] = m[n + 1] /\ t[3] = m[n + 2] /\ t[4] = m[n + 3]
  BY <1>3
<1> HIDE DEF r, t
<1>5. \A j \in 1 .. 4 : r[j] = t[j]
  <2>1. /\ n + 1 - 1 = n /\ n + 2 - 1 = n + 1 /\ n + 3 - 1 = n + 2 /\ n + 4 - 1 = n + 3
        /\ \A j \in 1 .. 4 : j = 1 \/ j = 2 \/ j = 3 \/ j = 4
    OBVIOUS
  <2> QED BY <1>2, <1>4, <2>1
<1>6. r = t
  BY <1>2, <1>4, <1>5, SeqEqual
<1> QED BY <1>6 DEF r, t

\* A node's message: its three blocks, and what SHA-256 makes of it.
EndMark  == <<"0x80">>
BitCount == <<"bits", NODE_MSG_BYTES * 8>>

PaddedNode(m) ==
  [j \in 1 .. 16 |-> CASE j <= 12 -> m[j]
                       [] j = 13 -> EndMark
                       [] j = 16 -> BitCount
                       [] OTHER  -> Zero]

NodeBlocks(x, p, q, s, d, m) ==
  /\ SubSeq(m, 1, 4) = <<x, Zero, Zero, Zero>>
  /\ SubSeq(m, 5, 8) = p \o q
  /\ SubSeq(m, 9, 12) = s \o d
  /\ PaddedNode(m)[1] = x
  /\ SubSeq(PaddedNode(m), 1, 16) = PaddedNode(m)
  /\ Tail(PaddedNode(m)) = <<Zero, Zero, Zero>> \o p \o q \o s \o d
                             \o <<EndMark, Zero, Zero, BitCount>>

LEMMA NodeMessage ==
  ASSUME NEW x, NEW p, NEW q, NEW s, NEW d, IsPair(p), IsPair(q), IsPair(s), IsPair(d)
  PROVE  NodeBlocks(x, p, q, s, d, <<x, Zero, Zero, Zero>> \o p \o q \o s \o d)
<1> DEFINE a == p[1]  b == p[2]  e == q[1]  f == q[2]
           g == s[1]  h == s[2]  k == d[1]  l == d[2]
           z == Zero  y == EndMark  w == BitCount
           S == {x, z, a, b, e, f, g, h, k, l, y, w}
           m == <<x, z, z, z, a, b, e, f, g, h, k, l>>
           t == <<z, z, z, a, b, e, f, g, h, k, l, y, z, z, w>>
           whole == <<x, z, z, z>> \o p \o q \o s \o d
           rest == <<z, z, z>> \o p \o q \o s \o d \o <<y, z, z, w>>
           pad == PaddedNode(m)
           preds == p \o q
           ends == s \o d
<1>1. p = <<a, b>> /\ q = <<e, f>> /\ s = <<g, h>> /\ d = <<k, l>>
  BY DEF IsPair
<1>2. NodeJoined(x, z, p, q, s, d, a, b, e, f, g, h, k, l, y, w)
  <2> HIDE DEF a, b, e, f, g, h, k, l, z, y, w
  <2> QED BY <1>1, NodeConcat
<1>3. whole = m /\ rest = t /\ preds = <<a, b, e, f>> /\ ends = <<g, h, k, l>>
  BY <1>2 DEF NodeJoined
<1> HIDE DEF a, b, e, f, g, h, k, l, z, y, w, whole, rest, preds, ends
<1>4. /\ m \in Seq(S) /\ Len(m) = 12 /\ m[1] = x /\ m[2] = z /\ m[3] = z /\ m[4] = z
      /\ m[5] = a /\ m[6] = b /\ m[7] = e /\ m[8] = f
      /\ m[9] = g /\ m[10] = h /\ m[11] = k /\ m[12] = l
  OBVIOUS
<1>5. /\ t \in Seq(S) /\ Len(t) = 15 /\ t[1] = z /\ t[2] = z /\ t[3] = z
      /\ t[4] = a /\ t[5] = b /\ t[6] = e /\ t[7] = f
      /\ t[8] = g /\ t[9] = h /\ t[10] = k /\ t[11] = l
      /\ t[12] = y /\ t[13] = z /\ t[14] = z /\ t[15] = w
  OBVIOUS
<1>6. x \in S /\ z \in S /\ y \in S /\ w \in S
  OBVIOUS
<1> HIDE DEF m, t, S
<1>7. /\ \A j \in 1 .. 12 : pad[j] = m[j]
      /\ pad[13] = y /\ pad[14] = z /\ pad[15] = z /\ pad[16] = w
      /\ pad = [j \in 1 .. 16 |-> pad[j]]
  BY DEF PaddedNode, y, z, w
<1> HIDE DEF pad
<1>8. pad \in Seq(S) /\ Len(pad) = 16
  <2>1. \A j \in 1 .. 16 : pad[j] \in S
    <3>1. \A j \in 1 .. 12 : m[j] \in S
      <4>1. Len(m) = 12 /\ \A j \in 1 .. Len(m) : m[j] \in S
        BY <1>4, ElementOfSeq
      <4> QED BY <4>1
    <3>2. \A j \in 1 .. 16 : j \in 1 .. 12 \/ j = 13 \/ j = 14 \/ j = 15 \/ j = 16
      OBVIOUS
    <3> QED BY <1>6, <1>7, <3>1, <3>2
  <2> QED BY <1>7, <2>1
<1>9. \A j \in 1 .. 15 : pad[j + 1] = t[j]
  <2>1. /\ pad[1] = m[1] /\ pad[2] = m[2] /\ pad[3] = m[3] /\ pad[4] = m[4]
        /\ pad[5] = m[5] /\ pad[6] = m[6] /\ pad[7] = m[7] /\ pad[8] = m[8]
        /\ pad[9] = m[9] /\ pad[10] = m[10] /\ pad[11] = m[11] /\ pad[12] = m[12]
    BY <1>7
  <2>2. \A j \in 1 .. 15 :
           \/ j = 1 \/ j = 2 \/ j = 3 \/ j = 4 \/ j = 5 \/ j = 6 \/ j = 7 \/ j = 8
           \/ j = 9 \/ j = 10 \/ j = 11 \/ j = 12 \/ j = 13 \/ j = 14 \/ j = 15
    OBVIOUS
  <2>3. /\ pad[1 + 1] = t[1] /\ pad[2 + 1] = t[2] /\ pad[3 + 1] = t[3]
        /\ pad[4 + 1] = t[4] /\ pad[5 + 1] = t[5] /\ pad[6 + 1] = t[6]
        /\ pad[7 + 1] = t[7] /\ pad[8 + 1] = t[8] /\ pad[9 + 1] = t[9]
        /\ pad[10 + 1] = t[10] /\ pad[11 + 1] = t[11] /\ pad[12 + 1] = t[12]
        /\ pad[13 + 1] = t[13] /\ pad[14 + 1] = t[14] /\ pad[15 + 1] = t[15]
    BY <1>4, <1>5, <1>7, <2>1
  <2> QED BY <2>2, <2>3
<1>10. Tail(pad) = t
  <2>1. Len(pad) = Len(t) + 1 /\ \A j \in 1 .. Len(t) : pad[j + 1] = t[j]
    BY <1>5, <1>8, <1>9
  <2>2. pad \in Seq(S) /\ t \in Seq(S)
    BY <1>5, <1>8
  <2> QED BY <2>1, <2>2, TailOf
<1>11. SubSeq(pad, 1, 16) = pad
  BY <1>8, SubSeqFull
<1>12. pad[1] = x
  BY <1>4, <1>7
<1>13. /\ SubSeq(m, 1, 4) = <<x, z, z, z>>
       /\ SubSeq(m, 5, 8) = <<a, b, e, f>>
       /\ SubSeq(m, 9, 12) = <<g, h, k, l>>
  <2>1. /\ SubSeq(m, 1, 1 + 3) = <<m[1], m[1 + 1], m[1 + 2], m[1 + 3]>>
        /\ SubSeq(m, 5, 5 + 3) = <<m[5], m[5 + 1], m[5 + 2], m[5 + 3]>>
        /\ SubSeq(m, 9, 9 + 3) = <<m[9], m[9 + 1], m[9 + 2], m[9 + 3]>>
    <3>1. m \in Seq(S) /\ Len(m) = 12
      BY <1>4
    <3>2. 1 + 3 <= Len(m) /\ 5 + 3 <= Len(m) /\ 9 + 3 <= Len(m)
      BY <3>1
    <3>3. 1 \in 1 .. 9 /\ 5 \in 1 .. 9 /\ 9 \in 1 .. 9
      OBVIOUS
    <3> QED BY <3>1, <3>2, <3>3, FourOf
  <2> QED BY <1>4, <2>1
<1>14. NodeBlocks(x, p, q, s, d, m)
  <2>1. /\ SubSeq(m, 1, 4) = <<x, z, z, z>> /\ SubSeq(m, 5, 8) = preds
        /\ SubSeq(m, 9, 12) = ends /\ Tail(pad) = rest
    BY <1>3, <1>10, <1>13
  <2>2. SubSeq(m, 1, 4) = <<x, Zero, Zero, Zero>>
    BY <2>1, Zenon DEF z
  <2>3. SubSeq(m, 5, 8) = p \o q
    BY <2>1, Zenon DEF preds
  <2>4. SubSeq(m, 9, 12) = s \o d
    BY <2>1, Zenon DEF ends
  <2>5. PaddedNode(m)[1] = x
    BY <1>12, Zenon DEF pad
  <2>6. SubSeq(PaddedNode(m), 1, 16) = PaddedNode(m)
    BY <1>11, Zenon DEF pad
  <2>7. Tail(PaddedNode(m)) = <<Zero, Zero, Zero>> \o p \o q \o s \o d
                                \o <<EndMark, Zero, Zero, BitCount>>
    BY <2>1, Zenon DEF rest, pad, z, y, w
  <2> QED BY <2>2, <2>3, <2>4, <2>5, <2>6, <2>7 DEF NodeBlocks
<1>15. NodeBlocks(x, p, q, s, d, whole)
  BY <1>3, <1>14
<1> QED BY <1>15 DEF whole, z

----------------------------------------------------------------------------
(* Each label function makes the label of its node.                         *)

\* A predecessor as the hash takes it.
PredOf(c, q, i) == IF c.is_source \/ q = NULL THEN Zero32 ELSE OrZero(q[i])

\* The label of node i of call c.
RightLabel(l, c, i) ==
  LET p == PredOf(c, c.pred0s, i)
      q == PredOf(c, c.pred1s, i)
  IN  CASE c.fn = "device" \/ c.algo = "blake3" -> Blake3Label(l, c, c.ids[i], p, q)
        [] c.fn # "device" /\ c.algo = "sha256" -> Sha256Label(l, c, c.ids[i], p, q)
        [] OTHER -> AesLabel(l, c, c.ids[i], p, q)

\* A null predecessor and a given one both end up as 32 bytes.
LEMMA PredInput ==
  ASSUME NEW c, NEW q, PredsFor(c.ids, q), NEW i \in DOMAIN c.ids
  PROVE  /\ IsPair(PredOf(c, q, i))
         /\ OrZero(Pred(c, q, i)) = PredOf(c, q, i)
         /\ Pred(c, q, i) = NULL => PredOf(c, q, i) = Zero32
         /\ Pred(c, q, i) # NULL =>
              load_label_words(Pred(c, q, i)) = PredOf(c, q, i)
<1>1. CASE c.is_source \/ q = NULL
  <2>1. Pred(c, q, i) = NULL /\ PredOf(c, q, i) = Zero32
    BY <1>1 DEF Pred, PredOf
  <2>2. OrZero(NULL) = Zero32 /\ IsPair(Zero32)
    BY DEF OrZero, IsPair, Zero32
  <2> QED BY <2>1, <2>2
<1>2. CASE ~(c.is_source \/ q = NULL)
  <2>1. Pred(c, q, i) = q[i] /\ PredOf(c, q, i) = OrZero(q[i])
    BY <1>2 DEF Pred, PredOf
  <2>2. CASE q[i] = NULL
    <3>1. OrZero(NULL) = Zero32 /\ IsPair(Zero32)
      BY DEF OrZero, IsPair, Zero32
    <3> QED BY <2>1, <2>2, <3>1
  <2>3. CASE q[i] # NULL
    <3>1. q[i] = <<q[i][1], q[i][2]>>
      BY <1>2, <2>3 DEF PredsFor
    <3>2. OrZero(q[i]) = q[i]
      BY <2>3 DEF OrZero
    <3>3. IsPair(q[i]) /\ load_label_words(q[i]) = q[i]
      BY <3>1, Zenon DEF IsPair, load_label_words
    <3> QED BY <2>1, <2>3, <3>2, <3>3
  <2> QED BY <2>2, <2>3
<1> QED BY <1>1, <1>2

\* The seed and the descriptor have 32 bytes.
LEMMA SeedPair == \A c : IsPair(Seed(c)) /\ IsPair(Desc(c))
<1>1. \A x, y : IsPair(<<x, y>>)
  BY DEF IsPair
<1> QED BY <1>1, Zenon DEF Seed, Desc, pose_chunk_seed, pose_graph_descriptor

\* The inputs of a node's hash.
LEMMA Inputs ==
  ASSUME NEW c \in Calls, NEW i \in DOMAIN c.ids
  PROVE  /\ c.ids[i] \in 0 .. Word32 * Word32 - 1
         /\ PredsFor(c.ids, c.pred0s) /\ PredsFor(c.ids, c.pred1s)
         /\ IsPair(Seed(c)) /\ IsPair(Desc(c))
<1> DEFINE S == 0 .. Word32 * Word32 - 1
           s == c.ids
<1>1. s \in Seq(S) /\ PredsFor(s, c.pred0s) /\ PredsFor(s, c.pred1s)
  BY CallAssumption
<1>2. i \in DOMAIN s
  OBVIOUS
<1> HIDE DEF S, s
<1>3. s[i] \in S
  BY <1>1, <1>2
<1> QED BY <1>1, <1>3, SeedPair DEF s, S

\* Both chains of an AES label: AES-128 over the node's message.
AesChains(l, c, i) ==
  l = << [rounds |-> <<"AES-128">>, rk |-> aes128_expand(Seed(c)[1]), blocks |-> AesMsg(c, i)],
         [rounds |-> <<"AES-128">>, rk |-> aes128_expand(Seed(c)[2]), blocks |-> AesMsg(c, i)] >>

\* What AES hashes.
LEMMA AesInput ==
  ASSUME NEW c \in Calls, NEW i \in DOMAIN c.ids
  PROVE  AesBlocks(IndexBytes(c.ids[i]), PredOf(c, c.pred0s, i), PredOf(c, c.pred1s, i),
                   Desc(c), AesMsg(c, i))
<1> DEFINE x == IndexBytes(c.ids[i])
           p == PredOf(c, c.pred0s, i)
           q == PredOf(c, c.pred1s, i)
<1>1. IsPair(p) /\ IsPair(q) /\ IsPair(Desc(c))
  BY Inputs, PredInput
<1>2. OrZero(Pred(c, c.pred0s, i)) = p /\ OrZero(Pred(c, c.pred1s, i)) = q
  BY Inputs, PredInput
<1>3. AesMsg(c, i) = <<x>> \o OrZero(Pred(c, c.pred0s, i)) \o OrZero(Pred(c, c.pred1s, i))
                       \o Desc(c)
  BY DEF AesMsg, build_aes_msg
<1> HIDE DEF p, q, x
<1>4. AesBlocks(x, p, q, Desc(c), <<x>> \o p \o q \o Desc(c))
  BY <1>1, AesMessage
<1> DEFINE Cat(u, v) == <<x>> \o u \o v \o Desc(c)
<1>5. AesMsg(c, i) = Cat(OrZero(Pred(c, c.pred0s, i)), OrZero(Pred(c, c.pred1s, i)))
  BY <1>3
<1>6. AesBlocks(x, p, q, Desc(c), Cat(p, q))
  BY <1>4
<1> HIDE DEF Cat
<1>7. AesBlocks(x, p, q, Desc(c), AesMsg(c, i))
  BY <1>2, <1>5, <1>6
<1> QED BY <1>7 DEF x, p, q

LEMMA AesRight ==
  ASSUME NEW c \in Calls, NEW i \in DOMAIN c.ids, c.fn # "device", c.algo = "aes",
         NEW l, AesChains(l, c, i)
  PROVE  RightLabel(l, c, i)
<1> DEFINE p == PredOf(c, c.pred0s, i)
           q == PredOf(c, c.pred1s, i)
           m == AesMsg(c, i)
<1>1. m[1] = IndexBytes(c.ids[i]) /\ Tail(m) = p \o q \o Desc(c)
  BY AesInput DEF AesBlocks
<1>2. BigEndian(m[1], c.ids[i])
  BY <1>1, Inputs, IndexReads
<1> DEFINE rest == p \o q \o Desc(c)
<1> HIDE DEF m
<1>3. \A half \in 1 .. 2 :
        /\ l[half].rounds = <<"AES-128">> /\ l[half].rk = aes128_expand(Seed(c)[half])
        /\ l[half].blocks = m
  <2>1. \A half \in 1 .. 2 : half = 1 \/ half = 2
    OBVIOUS
  <2> QED BY <2>1 DEF AesChains, m
<1>4. AesLabel(l, c, c.ids[i], p, q)
  <2>1. Tail(m) = rest
    BY <1>1
  <2> HIDE DEF rest
  <2>2. \A half \in 1 .. 2 :
          /\ l[half].rounds = <<"AES-128">> /\ l[half].rk = aes128_expand(Seed(c)[half])
          /\ BigEndian(l[half].blocks[1], c.ids[i])
          /\ Tail(l[half].blocks) = rest
    BY <1>2, <1>3, <2>1
  <2> QED BY <2>2, Zenon DEF AesLabel, rest
<1> QED BY <1>4 DEF RightLabel

\* What SHA-256 and BLAKE3 hash.
LEMMA NodeInput ==
  ASSUME NEW c \in Calls, NEW i \in DOMAIN c.ids
  PROVE  NodeBlocks(IndexBytes(c.ids[i]), PredOf(c, c.pred0s, i), PredOf(c, c.pred1s, i),
                    Seed(c), Desc(c), NodeMsg(c, i))
<1> DEFINE x == IndexBytes(c.ids[i])
           p == PredOf(c, c.pred0s, i)
           q == PredOf(c, c.pred1s, i)
           Cat(u, v) == <<x, Zero, Zero, Zero>> \o u \o v \o Seed(c) \o Desc(c)
<1>1. IsPair(p) /\ IsPair(q) /\ IsPair(Seed(c)) /\ IsPair(Desc(c))
  BY Inputs, PredInput
<1>2. OrZero(Pred(c, c.pred0s, i)) = p /\ OrZero(Pred(c, c.pred1s, i)) = q
  BY Inputs, PredInput
<1>3. NodeMsg(c, i) = Cat(OrZero(Pred(c, c.pred0s, i)), OrZero(Pred(c, c.pred1s, i)))
  BY DEF NodeMsg, build_node_msg
<1> HIDE DEF p, q, x
<1>4. NodeBlocks(x, p, q, Seed(c), Desc(c), Cat(p, q))
  BY <1>1, NodeMessage
<1> HIDE DEF Cat
<1>5. NodeBlocks(x, p, q, Seed(c), Desc(c), NodeMsg(c, i))
  BY <1>2, <1>3, <1>4
<1> QED BY <1>5 DEF x, p, q

\* pose_sha256 makes the label of the node, on either instruction set.
LEMMA Sha256Right ==
  ASSUME NEW c \in Calls, NEW i \in DOMAIN c.ids, c.fn # "device", c.algo = "sha256",
         NEW a
  PROVE  RightLabel(pose_sha256(a, NodeMsg(c, i), NODE_MSG_BYTES), c, i)
<1> DEFINE p == PredOf(c, c.pred0s, i)
           q == PredOf(c, c.pred1s, i)
           m == NodeMsg(c, i)
           l == pose_sha256(a, m, NODE_MSG_BYTES)
           pad == PaddedNode(m)
           rest == <<Zero, Zero, Zero>> \o p \o q \o Seed(c) \o Desc(c)
                     \o <<EndMark, Zero, Zero, BitCount>>
<1>1. /\ pad[1] = IndexBytes(c.ids[i]) /\ SubSeq(pad, 1, 16) = pad /\ Tail(pad) = rest
  BY NodeInput DEF NodeBlocks
<1>2. BigEndian(pad[1], c.ids[i])
  BY <1>1, Inputs, IndexReads
<1>3. l = [rounds |-> <<"SHA-256">>, rk |-> NULL, blocks |-> SubSeq(pad, 1, 16)]
  <2>1. /\ 192 \div 16 = 12 /\ (192 + 1 + 8 + 63) \div 64 = 4
        /\ 12 + 1 = 13 /\ 4 * 4 = 16
    OBVIOUS
  <2> DEFINE Padded(end) ==
        [j \in 1 .. 16 |-> CASE j <= end    -> m[j]
                             [] j = end + 1 -> <<"0x80">>
                             [] j = 16      -> <<"bits", NODE_MSG_BYTES * 8>>
                             [] OTHER       -> Zero]
             Label(end, blocks) ==
               [rounds |-> ShaRounds(a), rk |-> NULL,
                blocks |-> SubSeq(Padded(end), 1, 4 * blocks)]
  <2>2. l = Label(192 \div 16, (192 + 1 + 8 + 63) \div 64)
    BY DEF pose_sha256, NODE_MSG_BYTES
  <2>3. Padded(12) = pad
    BY <2>1 DEF PaddedNode, EndMark, BitCount
  <2>4. Label(12, 4) = [rounds |-> <<"SHA-256">>, rk |-> NULL,
                              blocks |-> SubSeq(pad, 1, 16)]
    <3> HIDE DEF Padded, pad
    <3> QED BY <2>1, <2>3, ShaRoundsStandard
  <2> HIDE DEF Label, Padded, l, pad
  <2> QED BY <2>1, <2>2, <2>4
<1> HIDE DEF l, pad, m, rest
<1>4. /\ l.rounds = <<"SHA-256">> /\ l.blocks = pad
  BY <1>1, <1>3
<1>5. Sha256Label(l, c, c.ids[i], p, q)
  <2>1. l.rounds = <<"SHA-256">> /\ BigEndian(l.blocks[1], c.ids[i]) /\ Tail(l.blocks) = rest
    BY <1>1, <1>2, <1>4
  <2>2. Tail(l.blocks) = <<Zero, Zero, Zero>> \o p \o q \o Seed(c) \o Desc(c)
                           \o <<<<"0x80">>, Zero, Zero, <<"bits", NODE_MSG_BYTES * 8>>>>
    BY <2>1, Zenon DEF rest, EndMark, BitCount
  <2> QED BY <2>1, <2>2, Zenon DEF Sha256Label
<1> QED BY <1>5 DEF RightLabel, l, m

\* The three blocks of a BLAKE3 label with their flags, under key k.
Blake3Blocks(l, c, i, k) ==
  /\ l.rounds = <<"BLAKE3">> /\ l.rk = k
  /\ l.blocks[1] = << <<IndexBytes(c.ids[i]), Zero, Zero, Zero>>,
                      {"KEYED_HASH", "CHUNK_START"} >>
  /\ l.blocks[2] = << PredOf(c, c.pred0s, i) \o PredOf(c, c.pred1s, i), {"KEYED_HASH"} >>
  /\ l.blocks[3] = << Seed(c) \o Desc(c), {"KEYED_HASH", "CHUNK_END", "ROOT"} >>

KeyOf(c) == DerivedKey(IF c.is_source THEN "src" ELSE "int")

\* With the key of its kind those blocks are the label.
LEMMA Blake3Right ==
  ASSUME NEW c \in Calls, NEW i \in DOMAIN c.ids, c.fn = "device" \/ c.algo = "blake3",
         NEW l, Blake3Blocks(l, c, i, KeyOf(c))
  PROVE  RightLabel(l, c, i)
<1> DEFINE x == IndexBytes(c.ids[i])
           preds == PredOf(c, c.pred0s, i) \o PredOf(c, c.pred1s, i)
           ends == Seed(c) \o Desc(c)
           first == <<x, Zero, Zero, Zero>>
<1>1. BigEndian(x, c.ids[i])
  BY Inputs, IndexReads
<1>2. /\ l.blocks[1] = <<first, {"KEYED_HASH", "CHUNK_START"}>>
      /\ l.blocks[2] = <<preds, {"KEYED_HASH"}>>
      /\ l.blocks[3] = <<ends, {"KEYED_HASH", "CHUNK_END", "ROOT"}>>
  BY DEF Blake3Blocks
<1>3. first[1] = x /\ Tail(first) = <<Zero, Zero, Zero>>
  <2> DEFINE S == {x, Zero}
             t == <<Zero, Zero, Zero>>
  <2>1. first \in Seq(S) /\ t \in Seq(S) /\ Len(first) = Len(t) + 1
        /\ (\A j \in 1 .. Len(t) : first[j + 1] = t[j]) /\ first[1] = x
    <3> HIDE DEF x
    <3> QED OBVIOUS
  <2> HIDE DEF first, t, S
  <2>2. Tail(first) = t
    BY <2>1, TailOf
  <2> QED BY <2>1, <2>2 DEF t
<1> HIDE DEF preds, ends, first, x
<1>4. /\ l.blocks[1][1] = first /\ l.blocks[2][1] = preds /\ l.blocks[3][1] = ends
      /\ l.blocks[1][2] = {"KEYED_HASH", "CHUNK_START"}
      /\ l.blocks[2][2] = {"KEYED_HASH"}
      /\ l.blocks[3][2] = {"KEYED_HASH", "CHUNK_END", "ROOT"}
  BY <1>2
<1>5. /\ [b \in 1 .. 3 |-> l.blocks[b][2] \ {"KEYED_HASH"}]
           = <<{"CHUNK_START"}, {}, {"CHUNK_END", "ROOT"}>>
      /\ \A b \in 1 .. 3 : "KEYED_HASH" \in l.blocks[b][2]
  <2> DEFINE F(b) == l.blocks[b][2]
             flags == [b \in 1 .. 3 |-> F(b) \ {"KEYED_HASH"}]
  <2>1. /\ F(1) = {"KEYED_HASH", "CHUNK_START"} /\ F(2) = {"KEYED_HASH"}
        /\ F(3) = {"KEYED_HASH", "CHUNK_END", "ROOT"}
    BY <1>4
  <2> HIDE DEF F
  <2>2. \A b \in 1 .. 3 : b = 1 \/ b = 2 \/ b = 3
    OBVIOUS
  <2>3. /\ F(1) \ {"KEYED_HASH"} = {"CHUNK_START"} /\ F(2) \ {"KEYED_HASH"} = {}
        /\ F(3) \ {"KEYED_HASH"} = {"CHUNK_END", "ROOT"}
    BY <2>1
  <2>4. flags = <<F(1) \ {"KEYED_HASH"}, F(2) \ {"KEYED_HASH"}, F(3) \ {"KEYED_HASH"}>>
    OBVIOUS
  <2>5. flags = <<{"CHUNK_START"}, {}, {"CHUNK_END", "ROOT"}>>
    BY <2>3, <2>4, Zenon
  <2>6. \A b \in 1 .. 3 : "KEYED_HASH" \in F(b)
    BY <2>1, <2>2
  <2> QED BY <2>5, <2>6 DEF F
<1>6. l.rounds = <<"BLAKE3">> /\ l.rk = DerivedKey(IF c.is_source THEN "src" ELSE "int")
  BY DEF Blake3Blocks, KeyOf
<1>7. /\ BigEndian(l.blocks[1][1][1], c.ids[i])
      /\ Tail(l.blocks[1][1]) = <<Zero, Zero, Zero>>
      /\ <<l.blocks[2][1], l.blocks[3][1]>> = <<preds, ends>>
  BY <1>1, <1>3, <1>4
<1>8. Blake3Label(l, c, c.ids[i], PredOf(c, c.pred0s, i), PredOf(c, c.pred1s, i))
  BY <1>5, <1>6, <1>7, Zenon DEF Blake3Label, preds, ends
<1> QED BY <1>8 DEF RightLabel

\* blake3_hash_many makes the blocks from the message in memory.
LEMMA CpuBlocks ==
  ASSUME NEW c \in Calls, NEW i \in DOMAIN c.ids, NEW k
  PROVE  Blake3Blocks(blake3_hash_one(k, NodeMsg(c, i), 3), c, i, k)
<1> DEFINE m == NodeMsg(c, i)
           first == <<IndexBytes(c.ids[i]), Zero, Zero, Zero>>
           preds == PredOf(c, c.pred0s, i) \o PredOf(c, c.pred1s, i)
           ends == Seed(c) \o Desc(c)
           l == blake3_hash_one(k, m, 3)
<1>1. SubSeq(m, 1, 4) = first /\ SubSeq(m, 5, 8) = preds /\ SubSeq(m, 9, 12) = ends
  BY NodeInput, Zenon DEF NodeBlocks
<1> HIDE DEF m, first, preds, ends
<1>2. /\ l.rounds = <<"BLAKE3">> /\ l.rk = k
      /\ l.blocks = [b \in 1 .. 3 |->
           <<SubSeq(m, 4 * b - 3, 4 * b),
             {"KEYED_HASH"} \cup (IF b = 1 THEN {"CHUNK_START"} ELSE {})
               \cup (IF b = 3 THEN {"CHUNK_END", "ROOT"} ELSE {})>>]
  BY DEF blake3_hash_one
<1> HIDE DEF l
<1>3. /\ 4 * 1 - 3 = 1 /\ 4 * 1 = 4 /\ 4 * 2 - 3 = 5 /\ 4 * 2 = 8
      /\ 4 * 3 - 3 = 9 /\ 4 * 3 = 12
  OBVIOUS
<1>4. /\ l.blocks[1] = <<first, {"KEYED_HASH", "CHUNK_START"}>>
      /\ l.blocks[2] = <<preds, {"KEYED_HASH"}>>
      /\ l.blocks[3] = <<ends, {"KEYED_HASH", "CHUNK_END", "ROOT"}>>
  <2> DEFINE Flags(b) == {"KEYED_HASH"} \cup (IF b = 1 THEN {"CHUNK_START"} ELSE {})
                           \cup (IF b = 3 THEN {"CHUNK_END", "ROOT"} ELSE {})
  <2>1. /\ Flags(1) = {"KEYED_HASH", "CHUNK_START"} /\ Flags(2) = {"KEYED_HASH"}
        /\ Flags(3) = {"KEYED_HASH", "CHUNK_END", "ROOT"}
    OBVIOUS
  <2>2. \A b \in 1 .. 3 : l.blocks[b] = <<SubSeq(m, 4 * b - 3, 4 * b), Flags(b)>>
    BY <1>2
  <2> HIDE DEF Flags
  <2>3. /\ l.blocks[1] = <<SubSeq(m, 4 * 1 - 3, 4 * 1), Flags(1)>>
        /\ l.blocks[2] = <<SubSeq(m, 4 * 2 - 3, 4 * 2), Flags(2)>>
        /\ l.blocks[3] = <<SubSeq(m, 4 * 3 - 3, 4 * 3), Flags(3)>>
    BY <2>2
  <2> QED BY <1>1, <1>3, <2>1, <2>3
<1> QED BY <1>2, <1>4, Zenon DEF Blake3Blocks, l, m, first, preds, ends

\* The device assembles the same blocks word by word.
LEMMA DeviceBlocks ==
  ASSUME NEW c \in Calls, NEW i \in DOMAIN c.ids, NEW k
  PROVE  Blake3Blocks(label_node(k, c.ids[i], Pred(c, c.pred0s, i), Pred(c, c.pred1s, i),
                                 Seed(c), Desc(c)), c, i, k)
<1> DEFINE p == PredOf(c, c.pred0s, i)
           q == PredOf(c, c.pred1s, i)
           Load(u) == IF u = NULL THEN Zero32 ELSE load_label_words(u)
           index == bswap32(High(c.ids[i])) \o bswap32(Low(c.ids[i]))
           first == <<IndexBytes(c.ids[i]), Zero, Zero, Zero>>
           Cat(u, v) == u \o v
           l == label_node(k, c.ids[i], Pred(c, c.pred0s, i), Pred(c, c.pred1s, i),
                           Seed(c), Desc(c))
<1>1. Load(Pred(c, c.pred0s, i)) = p /\ Load(Pred(c, c.pred1s, i)) = q
  BY Inputs, PredInput
<1>2. load_label_words(Seed(c)) = Seed(c) /\ load_label_words(Desc(c)) = Desc(c)
  <2>1. \A u : IsPair(u) => load_label_words(u) = u
    BY Zenon DEF IsPair, load_label_words
  <2> QED BY <2>1, Inputs
<1>3. index = IndexBytes(c.ids[i])
  BY Inputs, DeviceIndex
<1>4. l = [rounds |-> <<"BLAKE3">>, rk |-> k,
           blocks |-> << << <<index, Zero, Zero, Zero>>, {"KEYED_HASH", "CHUNK_START"} >>,
                         << Cat(Load(Pred(c, c.pred0s, i)), Load(Pred(c, c.pred1s, i))),
                            {"KEYED_HASH"} >>,
                         << Cat(load_label_words(Seed(c)), load_label_words(Desc(c))),
                            {"KEYED_HASH", "CHUNK_END", "ROOT"} >> >>]
  BY GpuScheduleStandard DEF label_node
<1> HIDE DEF Load, Cat, l, index, p, q
<1>5. l = [rounds |-> <<"BLAKE3">>, rk |-> k,
           blocks |-> << << first, {"KEYED_HASH", "CHUNK_START"} >>,
                         << Cat(p, q), {"KEYED_HASH"} >>,
                         << Cat(Seed(c), Desc(c)), {"KEYED_HASH", "CHUNK_END", "ROOT"} >> >>]
  BY <1>1, <1>2, <1>3, <1>4
<1> HIDE DEF first
<1>6. /\ l.rounds = <<"BLAKE3">> /\ l.rk = k
      /\ l.blocks[1] = <<first, {"KEYED_HASH", "CHUNK_START"}>>
      /\ l.blocks[2] = <<Cat(p, q), {"KEYED_HASH"}>>
      /\ l.blocks[3] = <<Cat(Seed(c), Desc(c)), {"KEYED_HASH", "CHUNK_END", "ROOT"}>>
  BY <1>5
<1> QED BY <1>6, Zenon DEF Blake3Blocks, Cat, first, p, q, l

----------------------------------------------------------------------------
(* Every label a call stores is right.                                      *)

\* The labels so far, in the order of the nodes.
Filled(s, c) ==
  /\ IsSeq(s) /\ Len(s) <= Len(c.ids)
  /\ \A i \in 1 .. Len(s) : RightLabel(s[i], c, i)

InGroups(c) == c.fn # "device" /\ c.algo = "aes"

\* A thread at p with call c, labels s computed and labels o stored.  Only AES calls
\* are in the middle of their labels between two steps.
ThreadInv(p, c, s, o) ==
  /\ p # "idle" => c \in Calls
  /\ p \in {"idle", "ensure", "publish"} => s = <<>>
  /\ p = "hash" => Filled(s, c) /\ (InGroups(c) \/ s = <<>>)
  /\ p \in {"store", "done"} => Filled(s, c) /\ Len(s) = Len(c.ids)
  /\ p = "done" => o = s

HashTypes ==
  /\ tmp = [t \in Threads |-> tmp[t]] /\ outs = [t \in Threads |-> outs[t]]
  /\ pc = [t \in Threads |-> pc[t]] /\ call = [t \in Threads |-> call[t]]

HashInv ==
  /\ HashTypes
  /\ \A t \in Threads : ThreadInv(pc[t], call[t], tmp[t], outs[t])

\* The nodes of a call.
LEMMA IdsOf ==
  ASSUME NEW c \in Calls
  PROVE  Len(c.ids) \in Nat /\ DOMAIN c.ids = 1 .. Len(c.ids)
<1> DEFINE s == c.ids
           S == 0 .. Word32 * Word32 - 1
<1>1. s \in Seq(S)
  BY CallAssumption
<1> HIDE DEF s, S
<1>2. Len(s) \in Nat /\ DOMAIN s = 1 .. Len(s)
  BY <1>1
<1> QED BY <1>2 DEF s

\* A group of right labels behind the right labels before it.
LEMMA FilledBy ==
  ASSUME NEW c \in Calls, NEW s, Filled(s, c), NEW t, IsSeq(t),
         Len(s) + Len(t) <= Len(c.ids),
         \A j \in 1 .. Len(t) : RightLabel(t[j], c, Len(s) + j)
  PROVE  Filled(s \o t, c) /\ Len(s \o t) = Len(s) + Len(t)
<1> DEFINE r == s \o t
<1>1. /\ IsSeq(r) /\ Len(r) = Len(s) + Len(t)
      /\ \A j \in 1 .. Len(s) : r[j] = s[j]
      /\ \A j \in 1 .. Len(t) : r[Len(s) + j] = t[j]
  BY Appended DEF Filled
<1>2. Len(s) \in Nat /\ Len(t) \in Nat
  BY DEF Filled, IsSeq
<1> HIDE DEF r
<1>3. ASSUME NEW i \in 1 .. Len(r) PROVE RightLabel(r[i], c, i)
  <2>1. CASE i <= Len(s)
    BY <1>1, <1>2, <2>1 DEF Filled
  <2>2. CASE i > Len(s)
    <3> DEFINE j == i - Len(s)
    <3>1. j \in 1 .. Len(t) /\ i = Len(s) + j
      BY <1>1, <1>2, <2>2
    <3> HIDE DEF j
    <3>2. RightLabel(t[j], c, Len(s) + j) /\ r[Len(s) + j] = t[j]
      BY <1>1, <3>1
    <3> QED BY <3>1, <3>2
  <2> QED BY <1>1, <1>2, <2>1, <2>2
<1>4. Filled(r, c)
  BY <1>1, <1>3 DEF Filled
<1> QED BY <1>1, <1>4 DEF r

\* A step of thread t leaves the other threads' calls and labels alone.
LEMMA ThreadStep ==
  ASSUME HashInv, NEW t \in Threads,
         pc' = [pc EXCEPT ![t] = pc'[t]], call' = [call EXCEPT ![t] = call'[t]],
         tmp' = [tmp EXCEPT ![t] = tmp'[t]], outs' = [outs EXCEPT ![t] = outs'[t]],
         ThreadInv(pc'[t], call'[t], tmp'[t], outs'[t])
  PROVE  HashInv'
<1>1. HashTypes'
  BY DEF HashInv, HashTypes
<1>2. \A u \in Threads : u # t =>
        pc'[u] = pc[u] /\ call'[u] = call[u] /\ tmp'[u] = tmp[u] /\ outs'[u] = outs[u]
  BY DEF HashInv, HashTypes
<1>3. \A u \in Threads : ThreadInv(pc'[u], call'[u], tmp'[u], outs'[u])
  BY <1>2 DEF HashInv
<1> QED BY <1>1, <1>3 DEF HashInv

\* A computing step whose labels are right.
LEMMA ComputedRight ==
  ASSUME HashInv, NEW t \in Threads, pc[t] = "hash", NEW labels, Computed(t, labels),
         IsSeq(labels), Len(tmp[t]) + Len(labels) <= Len(call[t].ids),
         InGroups(call[t]) \/ Len(labels) = Len(call[t].ids),
         \A j \in 1 .. Len(labels) : RightLabel(labels[j], call[t], Len(tmp[t]) + j)
  PROVE  HashInv'
<1> DEFINE c == call[t]
           s == tmp[t]
           r == s \o labels
<1>1. c \in Calls /\ Filled(s, c)
  BY DEF HashInv, ThreadInv
<1>2. Filled(r, c) /\ Len(r) = Len(s) + Len(labels)
  BY <1>1, FilledBy
<1>3. tmp' = [tmp EXCEPT ![t] = r] /\ UNCHANGED <<call, outs>>
  BY DEF Computed
<1>4. tmp'[t] = r
  BY <1>3 DEF HashInv, HashTypes
<1>5. pc' = [pc EXCEPT ![t] = IF Len(r) < Len(c.ids) THEN "hash" ELSE "store"]
  BY <1>4 DEF Computed
<1>6. pc'[t] = IF Len(r) < Len(c.ids) THEN "hash" ELSE "store"
  BY <1>5 DEF HashInv, HashTypes
<1>7. /\ pc' = [pc EXCEPT ![t] = pc'[t]] /\ call' = [call EXCEPT ![t] = call'[t]]
      /\ tmp' = [tmp EXCEPT ![t] = tmp'[t]] /\ outs' = [outs EXCEPT ![t] = outs'[t]]
      /\ call'[t] = c
  BY <1>3, <1>4, <1>5, <1>6 DEF HashInv, HashTypes
<1>8. Len(s) \in Nat /\ Len(labels) \in Nat /\ Len(c.ids) \in Nat
  BY <1>1, IdsOf DEF Filled, IsSeq
<1>9. ThreadInv(pc'[t], c, r, outs'[t])
  <2> HIDE DEF r, c, s
  <2>1. CASE Len(r) < Len(c.ids)
    <3>1. InGroups(c)
      BY <1>2, <1>8, <2>1 DEF c, s
    <3> QED BY <1>1, <1>2, <1>6, <2>1, <3>1 DEF ThreadInv
  <2>2. CASE ~(Len(r) < Len(c.ids))
    <3>1. Len(r) <= Len(c.ids) /\ Len(r) \in Nat /\ Len(c.ids) \in Nat
      BY <1>2, <1>8 DEF c, s
    <3>2. Len(r) = Len(c.ids)
      <4> DEFINE x == Len(r)  y == Len(c.ids)
      <4> HIDE DEF x, y
      <4>1. x = y
        BY <2>2, <3>1 DEF x, y
      <4> QED BY <4>1 DEF x, y
    <3> QED BY <1>1, <1>2, <1>6, <2>2, <3>2 DEF ThreadInv
  <2> QED BY <2>1, <2>2
<1> QED BY <1>4, <1>7, <1>9, ThreadStep

\* One that makes all labels of its call at once.
LEMMA BatchRight ==
  ASSUME HashInv, NEW t \in Threads, pc[t] = "hash", ~InGroups(call[t]),
         NEW labels, labels = [j \in 1 .. Len(call[t].ids) |-> labels[j]],
         \A j \in DOMAIN call[t].ids : RightLabel(labels[j], call[t], j),
         Computed(t, labels)
  PROVE  HashInv'
<1>1. call[t] \in Calls /\ tmp[t] = <<>>
  BY DEF HashInv, ThreadInv
<1>2. Len(call[t].ids) \in Nat /\ DOMAIN call[t].ids = 1 .. Len(call[t].ids)
  BY <1>1, IdsOf
<1>3. IsSeq(labels) /\ Len(labels) = Len(call[t].ids)
  <2> DEFINE n == Len(call[t].ids)
  <2>1. n \in Nat /\ labels = [j \in 1 .. n |-> labels[j]]
    BY <1>2
  <2> HIDE DEF n
  <2>2. Len(labels) = n
    BY <2>1
  <2> QED BY <2>1, <2>2 DEF IsSeq, n
<1>4. Len(tmp[t]) = 0
  BY <1>1, NoElements
<1>5. /\ Len(tmp[t]) + Len(labels) <= Len(call[t].ids)
      /\ \A j \in 1 .. Len(labels) : RightLabel(labels[j], call[t], Len(tmp[t]) + j)
  <2> DEFINE n == Len(call[t].ids)
  <2>1. Len(labels) = n /\ n \in Nat /\ DOMAIN call[t].ids = 1 .. n
    BY <1>2, <1>3
  <2> HIDE DEF n
  <2>2. Len(tmp[t]) + Len(labels) <= n
    BY <1>4, <2>1
  <2>3. ASSUME NEW j \in 1 .. Len(labels)
        PROVE  RightLabel(labels[j], call[t], Len(tmp[t]) + j)
    <3>1. Len(tmp[t]) + j = j /\ j \in DOMAIN call[t].ids
      BY <1>4, <2>1
    <3> QED BY <3>1
  <2> QED BY <2>2, <2>3 DEF n
<1> QED BY <1>3, <1>5, ComputedRight

\* A thread that is past ensure_keys reads the derived key.
LEMMA WholeKey ==
  ASSUME KeyInv, NEW t \in Threads, pc[t] = "hash", UsesKeys(call[t]),
         NEW kind \in Kinds, NEW k \in KeyReads(t, kind)
  PROVE  k = DerivedKey(kind)
<1>1. \A i \in KeyWords : WordReads(t, <<kind, i>>) = {DerivedKey(kind)[i]}
  <2>1. \A i \in KeyWords : <<kind, i>> \in Addr /\ <<kind, i>>[1] = kind /\ <<kind, i>>[2] = i
    BY DEF Addr
  <2>2. \A a \in Addr : WordReads(t, a) = {DerivedKey(a[1])[a[2]]}
    BY WholeReads DEF KeysNeverTorn
  <2> QED BY <2>1, <2>2
<1>2. k = [i \in KeyWords |-> k[i]] /\ \A i \in KeyWords : k[i] \in WordReads(t, <<kind, i>>)
  BY DEF KeyReads
<1>3. DerivedKey(kind) = [i \in KeyWords |-> DerivedKey(kind)[i]]
  BY DEF DerivedKey
<1> HIDE DEF DerivedKey
<1> QED BY <1>1, <1>2, <1>3

LEMMA BlakeStep ==
  ASSUME KeyInv, HashInv, NEW t \in Threads, HashBlake3(t)
  PROVE  HashInv'
<1> DEFINE c == call[t]
           kind == IF c.is_source THEN "src" ELSE "int"
<1>1. PICK k \in KeyReads(t, kind) :
        Computed(t, [i \in 1 .. Len(c.ids) |-> blake3_hash_one(k, NodeMsg(c, i), 3)])
  BY DEF HashBlake3
<1>2. pc[t] = "hash" /\ c.fn # "device" /\ c.algo = "blake3"
  BY DEF HashBlake3, At
<1>3. c \in Calls
  BY <1>2 DEF HashInv, ThreadInv
<1>4. k = KeyOf(c)
  <2>1. kind \in Kinds /\ UsesKeys(c)
    BY <1>2 DEF Kinds, UsesKeys
  <2>2. k = DerivedKey(kind)
    BY <1>2, <2>1, WholeKey
  <2> QED BY <2>2 DEF KeyOf
<1> DEFINE labels == [i \in 1 .. Len(c.ids) |-> blake3_hash_one(k, NodeMsg(c, i), 3)]
<1>5. \A j \in DOMAIN c.ids : RightLabel(labels[j], c, j)
  <2> SUFFICES ASSUME NEW j \in DOMAIN c.ids PROVE RightLabel(labels[j], c, j)
    OBVIOUS
  <2>1. labels[j] = blake3_hash_one(k, NodeMsg(c, j), 3)
    BY <1>3, IdsOf
  <2> DEFINE l == blake3_hash_one(k, NodeMsg(c, j), 3)
  <2>2. Blake3Blocks(l, c, j, KeyOf(c))
    BY <1>3, <1>4, CpuBlocks
  <2> HIDE DEF l, labels, c
  <2>3. RightLabel(l, c, j)
    BY <1>2, <1>3, <2>2, Blake3Right
  <2> QED BY <2>1, <2>3 DEF l
<1>6. ~InGroups(c) /\ labels = [j \in 1 .. Len(c.ids) |-> labels[j]]
  BY <1>2 DEF InGroups
<1>7. Computed(t, labels)
  BY <1>1
<1> HIDE DEF labels
<1> QED BY <1>2, <1>5, <1>6, <1>7, BatchRight

LEMMA DeviceStep ==
  ASSUME KeyInv, HashInv, NEW t \in Threads, HashOnDevice(t)
  PROVE  HashInv'
<1> DEFINE c == call[t]
           L(k, i) == label_node(k, c.ids[i], Pred(c, c.pred0s, i), Pred(c, c.pred1s, i),
                                 Seed(c), Desc(c))
<1>1. PICK key_src \in KeyReads(t, "src"), key_int \in KeyReads(t, "int") :
        Computed(t, [i \in 1 .. Len(c.ids) |->
                       L(IF c.is_source THEN key_src ELSE key_int, i)])
  BY DEF HashOnDevice
<1> DEFINE k == IF c.is_source THEN key_src ELSE key_int
           labels == [i \in 1 .. Len(c.ids) |-> L(k, i)]
<1>2. pc[t] = "hash" /\ c.fn = "device"
  BY DEF HashOnDevice
<1>3. c \in Calls
  BY <1>2 DEF HashInv, ThreadInv
<1>4. k = KeyOf(c)
  <2>1. "src" \in Kinds /\ "int" \in Kinds /\ UsesKeys(c)
    BY <1>2 DEF Kinds, UsesKeys
  <2>2. key_src = DerivedKey("src") /\ key_int = DerivedKey("int")
    BY <1>2, <2>1, WholeKey
  <2> QED BY <2>2 DEF KeyOf
<1>5. Computed(t, labels)
  BY <1>1
<1> HIDE DEF k
<1>6. \A j \in DOMAIN c.ids : RightLabel(labels[j], c, j)
  <2> SUFFICES ASSUME NEW j \in DOMAIN c.ids PROVE RightLabel(labels[j], c, j)
    OBVIOUS
  <2>1. labels[j] = L(k, j)
    BY <1>3, IdsOf
  <2> DEFINE l == L(k, j)
  <2>2. Blake3Blocks(l, c, j, KeyOf(c))
    BY <1>3, <1>4, DeviceBlocks
  <2> HIDE DEF l, labels, c, L
  <2>3. RightLabel(l, c, j)
    BY <1>2, <1>3, <2>2, Blake3Right
  <2> QED BY <2>1, <2>3 DEF l
<1>7. ~InGroups(c) /\ labels = [j \in 1 .. Len(c.ids) |-> labels[j]]
  BY <1>2 DEF InGroups
<1> HIDE DEF labels, L
<1> QED BY <1>2, <1>5, <1>6, <1>7, BatchRight

LEMMA ShaStep ==
  ASSUME HashInv, NEW t \in Threads, HashSha256(t)
  PROVE  HashInv'
<1> DEFINE c == call[t]
           L(i) == pose_sha256(arch, NodeMsg(c, i), NODE_MSG_BYTES)
           labels == [i \in 1 .. Len(c.ids) |-> L(i)]
<1>1. pc[t] = "hash" /\ c.fn # "device" /\ c.algo = "sha256" /\ Computed(t, labels)
  BY DEF HashSha256, At
<1>2. c \in Calls
  BY <1>1 DEF HashInv, ThreadInv
<1>3. \A j \in DOMAIN c.ids : RightLabel(labels[j], c, j)
  <2> SUFFICES ASSUME NEW j \in DOMAIN c.ids PROVE RightLabel(labels[j], c, j)
    OBVIOUS
  <2>1. labels[j] = L(j)
    BY <1>2, IdsOf
  <2> HIDE DEF labels
  <2>2. RightLabel(L(j), c, j)
    BY <1>1, <1>2, Sha256Right
  <2> QED BY <2>1, <2>2
<1>4. ~InGroups(c) /\ labels = [j \in 1 .. Len(c.ids) |-> labels[j]]
  BY <1>1 DEF InGroups
<1> HIDE DEF labels
<1> QED BY <1>1, <1>3, <1>4, BatchRight

\* The size of the next group.
LEMMA GroupSize ==
  ASSUME NEW n \in Nat
  PROVE  /\ Min({4, n}) \in 0 .. 4 /\ Min({4, n}) <= n
         /\ Min({4, n}) = 4 \/ Min({4, n}) = n
<1> DEFINE P(x) == x \in {4, n} /\ \A y \in {4, n} : x <= y
           b == CHOOSE x : P(x)
<1>1. Min({4, n}) = CHOOSE x \in {4, n} : \A y \in {4, n} : x <= y
  BY DEF Min
<1>2. P(IF n <= 4 THEN n ELSE 4)
  OBVIOUS
<1> DEFINE d == CHOOSE x \in {4, n} : \A y \in {4, n} : x <= y
<1>3. P(d)
  BY <1>2
<1> HIDE DEF d
<1>4. (d = 4 \/ d = n) /\ d <= 4 /\ d <= n
  BY <1>3
<1> QED BY <1>1, <1>4 DEF d

\* A group of AES labels: four interleaved chains, or fewer one after the other, under
\* the round keys of the call's own seed.
LEMMA GroupLabels ==
  ASSUME NEW c \in Calls, InGroups(c), NEW base \in Nat, NEW b \in 0 .. 4,
         base + b <= Len(c.ids), NEW kc,
         kc.rk_hi = aes128_expand(Seed(c)[1]), kc.rk_lo = aes128_expand(Seed(c)[2])
  PROVE  LET labels == pose_aes_prf_many(c, base, b, kc)
         IN  /\ IsSeq(labels) /\ Len(labels) = b
             /\ \A j \in 1 .. b : RightLabel(labels[j], c, base + j)
<1> DEFINE labels == pose_aes_prf_many(c, base, b, kc)
           hi == aes128_expand(Seed(c)[1])
           lo == aes128_expand(Seed(c)[2])
           K(rk, i) == [rounds |-> <<"AES-128">>, rk |-> rk, blocks |-> AesMsg(c, i)]
           L(i) == <<K(hi, i), K(lo, i)>>
<1>1. \A j \in 1 .. b : base + j \in DOMAIN c.ids
  BY IdsOf
<1>2. \A i \in DOMAIN c.ids : RightLabel(L(i), c, i)
  <2> SUFFICES ASSUME NEW i \in DOMAIN c.ids PROVE RightLabel(L(i), c, i)
    OBVIOUS
  <2> DEFINE l == L(i)
  <2>1. AesChains(l, c, i)
    BY DEF AesChains
  <2>2. c.fn # "device" /\ c.algo = "aes"
    BY DEF InGroups
  <2> HIDE DEF l
  <2>3. RightLabel(l, c, i)
    BY <2>1, <2>2, AesRight
  <2> QED BY <2>3 DEF l
<1>3. \A i \in DOMAIN c.ids :
        /\ SubSeq(AesMsg(c, i), 1, AES_BLOCKS) = AesMsg(c, i)
        /\ [n \in 1 .. AES_BLOCKS |-> AesMsg(c, i)[n]] = AesMsg(c, i)
  BY AesInput DEF AesBlocks
<1>4. labels = [j \in 1 .. b |-> L(base + j)]
  <2>1. CASE b = 4
    <3> DEFINE msgs == [i \in 1 .. 4 |-> AesMsg(c, base + i)]
               Chain(rk, i) == [rounds |-> AesRounds4(arch), rk |-> rk,
                                blocks |-> [n \in 1 .. AES_BLOCKS |-> msgs[i][n]]]
    <3>1. labels = [i \in 1 .. 4 |-> <<Chain(hi, i), Chain(lo, i)>>]
      BY <2>1 DEF pose_aes_prf_many, cbc_mac_4x2
    <3>2. \A i \in 1 .. 4 : [n \in 1 .. AES_BLOCKS |-> msgs[i][n]] = AesMsg(c, base + i)
      BY <1>1, <1>3, <2>1
    <3> HIDE DEF msgs
    <3>3. \A i \in 1 .. 4 : \A rk : Chain(rk, i) = K(rk, base + i)
      BY <3>2, AesRoundsStandard
    <3> HIDE DEF Chain, K, hi, lo, labels
    <3> QED BY <2>1, <3>1, <3>3
  <2>2. CASE b # 4
    <3> DEFINE Chain(rk, i) == [rounds |-> AesRounds(arch), rk |-> rk,
                                blocks |-> SubSeq(AesMsg(c, base + i), 1, AES_BLOCKS)]
    <3>1. labels = [i \in 1 .. b |-> <<Chain(hi, i), Chain(lo, i)>>]
      BY <2>2 DEF pose_aes_prf_many, cbc_mac_single
    <3>2. \A i \in 1 .. b :
            SubSeq(AesMsg(c, base + i), 1, AES_BLOCKS) = AesMsg(c, base + i)
      BY <1>1, <1>3
    <3>3. \A i \in 1 .. b : \A rk : Chain(rk, i) = K(rk, base + i)
      BY <3>2, AesRoundsStandard
    <3> HIDE DEF Chain, K, hi, lo, labels
    <3> QED BY <3>1, <3>3
  <2> QED BY <2>1, <2>2
<1> HIDE DEF labels, L
<1>5. IsSeq(labels) /\ Len(labels) = b
  BY <1>4 DEF IsSeq
<1>6. \A j \in 1 .. b : RightLabel(labels[j], c, base + j)
  BY <1>1, <1>2, <1>4
<1> QED BY <1>5, <1>6 DEF labels

LEMMA AesStep ==
  ASSUME CacheInv, HashInv, NEW t \in Threads, HashAes(t)
  PROVE  HashInv'
<1> DEFINE c == call[t]
           base == Len(tmp[t])
           b == Min({4, Len(c.ids) - base})
           kc == get_round_keys(cache[t], Seed(c))
           labels == pose_aes_prf_many(c, base, b, kc)
<1>1. pc[t] = "hash" /\ InGroups(c) /\ Computed(t, labels)
  BY DEF HashAes, At, InGroups
<1>2. c \in Calls /\ Filled(tmp[t], c)
  BY <1>1 DEF HashInv, ThreadInv
<1>3. base \in Nat /\ Len(c.ids) \in Nat /\ base <= Len(c.ids)
  BY <1>2, IdsOf DEF Filled, IsSeq
<1>4. b \in 0 .. 4 /\ base + b <= Len(c.ids)
  <2> DEFINE n == Len(c.ids) - base
  <2>1. n \in Nat /\ Len(c.ids) = base + n
    BY <1>3
  <2> HIDE DEF n, base
  <2>2. Min({4, n}) \in 0 .. 4 /\ Min({4, n}) <= n
    BY <2>1, GroupSize
  <2>3. base + Min({4, n}) <= base + n
    BY <1>3, <2>1, <2>2
  <2> QED BY <2>1, <2>2, <2>3 DEF n
<1>5. kc.rk_hi = aes128_expand(Seed(c)[1]) /\ kc.rk_lo = aes128_expand(Seed(c)[2])
  BY RoundKeysOfSeed DEF CacheInv, CacheSound
<1> HIDE DEF kc, b
<1>6. /\ IsSeq(labels) /\ Len(labels) = b
      /\ \A j \in 1 .. b : RightLabel(labels[j], c, base + j)
  BY <1>1, <1>2, <1>3, <1>4, <1>5, GroupLabels
<1> HIDE DEF labels
<1> QED BY <1>1, <1>4, <1>6, ComputedRight

\* A step of thread t that moves only its control, with no labels yet.
LEMMA KeyStep ==
  ASSUME HashInv, NEW t \in Threads, pc[t] \in {"ensure", "publish"},
         pc' = [pc EXCEPT ![t] = pc'[t]], pc'[t] \in {"publish", "hash"},
         UNCHANGED <<call, tmp, outs>>
  PROVE  HashInv'
<1>1. call[t] \in Calls /\ tmp[t] = <<>>
  BY DEF HashInv, ThreadInv
<1>2. Filled(<<>>, call[t])
  BY <1>1, NoElements, IdsOf DEF Filled
<1>3. ThreadInv(pc'[t], call'[t], tmp'[t], outs'[t])
  BY <1>1, <1>2 DEF ThreadInv
<1>4. /\ call' = [call EXCEPT ![t] = call'[t]] /\ tmp' = [tmp EXCEPT ![t] = tmp'[t]]
      /\ outs' = [outs EXCEPT ![t] = outs'[t]]
  BY DEF HashInv, HashTypes
<1> QED BY <1>3, <1>4, ThreadStep

LEMMA InitHashInv == Init => HashInv
BY DEF Init, HashInv, HashTypes, ThreadInv

\* Every step keeps the labels right.
LEMMA NextHashInv == KeyInv /\ CacheInv /\ HashInv /\ [Next]_vars => HashInv'
<1> SUFFICES ASSUME KeyInv, CacheInv, HashInv, [Next]_vars PROVE HashInv'
  OBVIOUS
<1>1. ASSUME NEW t \in Threads, NEW c \in Calls, Begin(t, c) PROVE HashInv'
  <2>1. /\ pc[t] = "idle" /\ pc' = [pc EXCEPT ![t] = IF UsesKeys(c) THEN "ensure" ELSE "hash"]
        /\ call' = [call EXCEPT ![t] = c] /\ UNCHANGED <<tmp, outs>>
    BY <1>1 DEF Begin
  <2>2. tmp[t] = <<>>
    BY <2>1 DEF HashInv, ThreadInv
  <2>3. /\ pc'[t] = (IF UsesKeys(c) THEN "ensure" ELSE "hash") /\ call'[t] = c
        /\ tmp'[t] = <<>>
        /\ pc' = [pc EXCEPT ![t] = pc'[t]] /\ call' = [call EXCEPT ![t] = call'[t]]
        /\ tmp' = [tmp EXCEPT ![t] = tmp'[t]] /\ outs' = [outs EXCEPT ![t] = outs'[t]]
    BY <2>1, <2>2 DEF HashInv, HashTypes
  <2>4. Filled(<<>>, c)
    BY NoElements, IdsOf DEF Filled
  <2>5. ThreadInv(pc'[t], c, <<>>, outs'[t])
    BY <2>3, <2>4 DEF ThreadInv
  <2> QED BY <2>3, <2>5, ThreadStep
<1>2. ASSUME NEW t \in Threads, Step(t) PROVE HashInv'
  <2>1. CASE EnsureKeys(t)
    <3>1. /\ pc[t] = "ensure" /\ UNCHANGED <<call, tmp, outs>>
          /\ pc' = [pc EXCEPT ![t] = "hash"] \/ pc' = [pc EXCEPT ![t] = "publish"]
      BY <2>1 DEF EnsureKeys
    <3>2. pc' = [pc EXCEPT ![t] = pc'[t]] /\ pc'[t] \in {"publish", "hash"}
      BY <3>1 DEF HashInv, HashTypes
    <3> QED BY <3>1, <3>2, KeyStep
  <2>2. CASE PublishKeys(t)
    <3>1. /\ pc[t] = "publish" /\ UNCHANGED <<call, tmp, outs>>
          /\ pc' = [pc EXCEPT ![t] = "hash"]
      BY <2>2 DEF PublishKeys
    <3>2. pc' = [pc EXCEPT ![t] = pc'[t]] /\ pc'[t] \in {"publish", "hash"}
      BY <3>1 DEF HashInv, HashTypes
    <3> QED BY <3>1, <3>2, KeyStep
  <2>3. CASE \E s \in buf[t] : Drain(t, s)
    BY <2>3 DEF Drain, HashInv, HashTypes
  <2>4. CASE HashBlake3(t) BY <2>4, BlakeStep
  <2>5. CASE HashSha256(t) BY <2>5, ShaStep
  <2>6. CASE HashAes(t) BY <2>6, AesStep
  <2>7. CASE AbortAes(t)
    BY <2>7 DEF AbortAes, HashInv, HashTypes
  <2>8. CASE HashOnDevice(t) BY <2>8, DeviceStep
  <2>9. CASE StoreLabels(t)
    <3>1. /\ pc[t] = "store" /\ outs' = [outs EXCEPT ![t] = tmp[t]]
          /\ pc' = [pc EXCEPT ![t] = "done"] /\ UNCHANGED <<call, tmp>>
      BY <2>9 DEF StoreLabels
    <3>2. /\ pc'[t] = "done" /\ call'[t] = call[t] /\ tmp'[t] = tmp[t] /\ outs'[t] = tmp[t]
          /\ pc' = [pc EXCEPT ![t] = pc'[t]] /\ call' = [call EXCEPT ![t] = call'[t]]
          /\ tmp' = [tmp EXCEPT ![t] = tmp'[t]] /\ outs' = [outs EXCEPT ![t] = outs'[t]]
      BY <3>1 DEF HashInv, HashTypes
    <3>3. ThreadInv("done", call[t], tmp[t], tmp[t])
      BY <3>1 DEF HashInv, ThreadInv
    <3> QED BY <3>2, <3>3, ThreadStep
  <2>10. CASE Return(t)
    <3>1. /\ pc' = [pc EXCEPT ![t] = "idle"] /\ call' = [call EXCEPT ![t] = NoCall]
          /\ tmp' = [tmp EXCEPT ![t] = <<>>] /\ outs' = [outs EXCEPT ![t] = <<>>]
      BY <2>10 DEF Return
    <3>2. /\ pc'[t] = "idle" /\ call'[t] = NoCall /\ tmp'[t] = <<>>
          /\ pc' = [pc EXCEPT ![t] = pc'[t]] /\ call' = [call EXCEPT ![t] = call'[t]]
          /\ tmp' = [tmp EXCEPT ![t] = tmp'[t]] /\ outs' = [outs EXCEPT ![t] = outs'[t]]
      BY <3>1 DEF HashInv, HashTypes
    <3>3. ThreadInv("idle", NoCall, <<>>, outs'[t])
      BY DEF ThreadInv
    <3> QED BY <3>2, <3>3, ThreadStep
  <2> QED
    BY <1>2, <2>1, <2>2, <2>3, <2>4, <2>5, <2>6, <2>7, <2>8, <2>9, <2>10 DEF Step
<1>3. CASE UNCHANGED vars
  BY <1>3 DEF vars, HashInv, HashTypes
<1> QED BY <1>1, <1>2, <1>3 DEF Next

LEMMA RightWhenDone == HashInv => LabelsRight
<1> SUFFICES ASSUME HashInv, NEW t \in Threads, pc[t] = "done"
             PROVE  /\ Len(outs[t]) = Len(call[t].ids)
                    /\ \A i \in DOMAIN call[t].ids : RightLabel(outs[t][i], call[t], i)
  BY DEF LabelsRight, RightLabel, PredOf
<1>1. /\ call[t] \in Calls /\ outs[t] = tmp[t] /\ Len(tmp[t]) = Len(call[t].ids)
      /\ Filled(tmp[t], call[t])
  BY DEF HashInv, ThreadInv
<1>2. DOMAIN call[t].ids = 1 .. Len(call[t].ids)
  BY <1>1, IdsOf
<1> QED BY <1>1, <1>2 DEF Filled

\* Every label a call returns is the label of its node, whichever variant of the hash
\* made it: with either instruction set, alone or in a group, on the CPU or the device,
\* with whatever keys other threads are still storing and whatever chunk the cached
\* round keys were for.
THEOREM LabelsAreRight == Spec => []LabelsRight
<1> DEFINE Inv == KeyInv /\ CacheInv /\ HashInv
<1>1. Init => Inv
  BY InitKeyInv, InitCacheInv, InitHashInv
<1>2. Inv /\ [Next]_vars => Inv'
  BY NextKeyInv, NextCacheInv, NextHashInv
<1>3. Inv => LabelsRight
  BY RightWhenDone
<1> QED BY <1>1, <1>2, <1>3, PTL DEF Spec
============================================================================
