----------------------------- MODULE NodeHash -----------------------------
(***************************************************************************)
(* The label functions of common/src/hash.c and aes_prf.c as the threads of *)
(* one process run them: CPU workers in pose_label_node and                 *)
(* pose_label_node_many, and the host threads of the GPUs, which fetch the  *)
(* keys with pose_label_node_keys and have the device hash with them.       *)
(*                                                                          *)
(* The threads share the two BLAKE3 keys, which ensure_keys derives on      *)
(* first use without a lock: any number of threads may find g_keys_ready    *)
(* unset, and all of them then store both keys.  A store is kept in the     *)
(* storing thread's buffer until it becomes visible, in any order, except   *)
(* that the release store of g_keys_ready follows everything before it.     *)
(* A read that races with a store returns the old or the new word.          *)
(*                                                                          *)
(* Each thread has its own cache of AES round keys, which outlives the call *)
(* and the chunk it was filled for.                                         *)
(***************************************************************************)
EXTENDS NodeCipher, FiniteSetsExt

CONSTANTS
  Threads,
  KeyWords,    \* the words of a key: 1 .. 8
  Archs,       \* builds: "arm", "x86", "none" (without AES instructions)
  Calls,       \* the calls a thread may make
  MaxCalls     \* bound: calls per thread

ASSUME HashAssumption ==
  /\ KeyWords \subseteq Nat
  /\ MaxCalls \in Nat

\* A call: fn is "node", "many" or "device"; pred0s and pred1s may be NULL.
\* Every label of a call shares is_source, the chunk seed and the descriptor.

\* Predecessor labels have 32 bytes and there is one, or NULL, for each node.
PredsFor(ids, preds) ==
  \/ preds = NULL
  \/ /\ Len(preds) = Len(ids)
     /\ \A i \in DOMAIN ids : preds[i] = NULL \/ preds[i] = <<preds[i][1], preds[i][2]>>

\* Node indices are uint64_t.
ASSUME CallAssumption ==
  \A c \in Calls :
    /\ c.fn \in {"node", "many", "device"} /\ c.algo \in {"aes", "sha256", "blake3"}
    /\ c.is_source \in BOOLEAN
    /\ c.ids \in Seq(0 .. Word32 * Word32 - 1)
    /\ PredsFor(c.ids, c.pred0s) /\ PredsFor(c.ids, c.pred1s)

Kinds == {"src", "int"}
Addr  == Kinds \X KeyWords

\* derive_key("pose-db/label/<kind>")
DerivedKey(kind) == [i \in KeyWords |-> <<kind, i>>]

VARIABLES
  arch,        \* the build
  aborted,     \* the process has called abort
  key,         \* g_key_src and g_key_int, as memory holds them
  buf,         \* buf[t]: stores to them that only t sees
  ready,       \* g_keys_ready
  pc, call, ncalls,
  cache,       \* tl_key_cache
  tmp,         \* labels the call has computed
  outs         \* labels the call has stored

vars == <<arch, aborted, key, buf, ready, pc, call, ncalls, cache, tmp, outs>>

NoCall    == [fn |-> "none"]
EmptyCache == [valid |-> FALSE, seed |-> Zero32, rk_hi |-> NULL, rk_lo |-> NULL]

Init ==
  /\ arch \in Archs /\ aborted = FALSE
  /\ key = [a \in Addr |-> NULL] /\ ready = FALSE
  /\ buf = [t \in Threads |-> {}]
  /\ pc = [t \in Threads |-> "idle"] /\ call = [t \in Threads |-> NoCall]
  /\ ncalls = [t \in Threads |-> 0]
  /\ cache = [t \in Threads |-> EmptyCache]
  /\ tmp = [t \in Threads |-> <<>>] /\ outs = [t \in Threads |-> <<>>]

UsesKeys(c) == c.fn = "device" \/ c.algo = "blake3"

----------------------------------------------------------------------------
(* The inputs of a hash.                                                    *)

\* The chunk seed and the descriptor: hashes, here 32 bytes in two pieces that
\* name what went in, integers big-endian.
pose_chunk_seed(session, chunk_index) ==
  LET h == <<"chunk-seed", session, IndexBytes(chunk_index)>>
  IN  << <<"hi", h>>, <<"lo", h>> >>

pose_graph_descriptor(m, n) ==
  LET h == <<"descriptor", IndexBytes(m), IndexBytes(n), 256>>
  IN  << <<"hi", h>>, <<"lo", h>> >>

Seed(c) == pose_chunk_seed(c.session, c.chunk)
Desc(c) == pose_graph_descriptor(c.m, c.n)

\* A source node has no predecessors, whatever the caller passed.
Pred(c, preds, i) == IF c.is_source \/ preds = NULL THEN NULL ELSE preds[i]

NodeMsg(c, i) ==
  build_node_msg(c.ids[i], Pred(c, c.pred0s, i), Pred(c, c.pred1s, i), Seed(c), Desc(c))

AesMsg(c, i) ==
  build_aes_msg(c.ids[i], Pred(c, c.pred0s, i), Pred(c, c.pred1s, i), Desc(c))

----------------------------------------------------------------------------
(* ensure_keys.                                                             *)

\* The call begins.  Its messages are built from labels that only t touches.
Begin(t, c) ==
  /\ pc[t] = "idle" /\ ncalls[t] < MaxCalls /\ ~aborted
  /\ call' = [call EXCEPT ![t] = c]
  /\ ncalls' = [ncalls EXCEPT ![t] = @ + 1]
  /\ pc' = [pc EXCEPT ![t] = IF UsesKeys(c) THEN "ensure" ELSE "hash"]
  /\ UNCHANGED <<arch, aborted, key, buf, ready, cache, tmp, outs>>

\* The acquire load, and the two derivations with their memcpys.
EnsureKeys(t) ==
  /\ pc[t] = "ensure" /\ ~aborted
  /\ IF ready
     THEN pc' = [pc EXCEPT ![t] = "hash"] /\ UNCHANGED buf
     ELSE /\ buf' = [buf EXCEPT ![t] = {<<a, DerivedKey(a[1])[a[2]]>> : a \in Addr}]
          /\ pc' = [pc EXCEPT ![t] = "publish"]
  /\ UNCHANGED <<arch, aborted, key, ready, call, ncalls, cache, tmp, outs>>

\* A store becomes visible; nothing orders it after the thread's other stores.
Drain(t, s) ==
  /\ s \in buf[t]
  /\ key' = [key EXCEPT ![s[1]] = s[2]]
  /\ buf' = [buf EXCEPT ![t] = @ \ {s}]
  /\ UNCHANGED <<arch, aborted, ready, pc, call, ncalls, cache, tmp, outs>>

\* Mutation of PublishKeys: memory_order_relaxed.
MutPublishKeys(t) ==
  /\ pc[t] = "publish" /\ ~aborted
  /\ ready' = TRUE
  /\ pc' = [pc EXCEPT ![t] = "hash"]
  /\ UNCHANGED <<arch, aborted, key, buf, call, ncalls, cache, tmp, outs>>

\* The release store: visible only after the keys are.
PublishKeys(t) ==
  /\ pc[t] = "publish" /\ buf[t] = {} /\ ~aborted
  /\ ready' = TRUE
  /\ pc' = [pc EXCEPT ![t] = "hash"]
  /\ UNCHANGED <<arch, aborted, key, buf, call, ncalls, cache, tmp, outs>>

\* The values a read of one word by t can return.
WordReads(t, a) ==
  {key[a]} \cup {s[2] : s \in {r \in UNION {buf[u] : u \in Threads \ {t}} : r[1] = a}}

KeyReads(t, kind) ==
  {k \in [KeyWords -> UNION {WordReads(t, <<kind, i>>) : i \in KeyWords}] :
     \A i \in KeyWords : k[i] \in WordReads(t, <<kind, i>>)}

----------------------------------------------------------------------------
(* The hashes.  All labels of a call are in tmp before any is stored.       *)

At(t, algo) == pc[t] = "hash" /\ call[t].fn # "device" /\ call[t].algo = algo /\ ~aborted

Computed(t, labels) ==
  /\ tmp' = [tmp EXCEPT ![t] = @ \o labels]
  /\ pc' = [pc EXCEPT ![t] = IF Len(tmp'[t]) < Len(call[t].ids) THEN "hash" ELSE "store"]
  /\ UNCHANGED <<arch, key, buf, ready, call, ncalls, outs>>

\* One blake3_hash_many over all messages of the call.
HashBlake3(t) ==
  /\ At(t, "blake3")
  /\ \E k \in KeyReads(t, IF call[t].is_source THEN "src" ELSE "int") :
       Computed(t, [i \in 1 .. Len(call[t].ids) |->
                      blake3_hash_one(k, NodeMsg(call[t], i), 3)])
  /\ UNCHANGED <<aborted, cache>>

\* A message at a time.
HashSha256(t) ==
  /\ At(t, "sha256")
  /\ Computed(t, [i \in 1 .. Len(call[t].ids) |->
                    pose_sha256(arch, NodeMsg(call[t], i), NODE_MSG_BYTES)])
  /\ UNCHANGED <<aborted, cache>>

\* Mutation of get_round_keys: whatever is cached is used.
Mutget_round_keys(c, seed) ==
  IF c.valid THEN c
  ELSE [valid |-> TRUE, seed |-> seed,
        rk_hi |-> aes128_expand(seed[1]), rk_lo |-> aes128_expand(seed[2])]

get_round_keys(c, seed) ==
  IF c.valid /\ c.seed = seed THEN c
  ELSE [valid |-> TRUE, seed |-> seed,
        rk_hi |-> aes128_expand(seed[1]), rk_lo |-> aes128_expand(seed[2])]

\* pose_aes_prf_many on the labels after base: four interleaved, fewer one by one.
pose_aes_prf_many(c, base, b, kc) ==
  IF b = 4
  THEN cbc_mac_4x2(arch, kc.rk_hi, kc.rk_lo, [i \in 1 .. 4 |-> AesMsg(c, base + i)])
  ELSE [i \in 1 .. b |-> <<cbc_mac_single(arch, kc.rk_hi, AesMsg(c, base + i)),
                           cbc_mac_single(arch, kc.rk_lo, AesMsg(c, base + i))>>]

\* The next group of at most four.
HashAes(t) ==
  /\ At(t, "aes") /\ arch # "none"
  /\ LET c    == call[t]
         base == Len(tmp[t])
         b    == Min({4, Len(c.ids) - base})
         kc   == get_round_keys(cache[t], Seed(c))
     IN  /\ cache' = [cache EXCEPT ![t] = kc]
         /\ Computed(t, pose_aes_prf_many(c, base, b, kc))
  /\ UNCHANGED aborted

\* A build without AES instructions stops rather than make a label.
AbortAes(t) ==
  /\ At(t, "aes") /\ arch = "none"
  /\ aborted' = TRUE
  /\ UNCHANGED <<arch, key, buf, ready, pc, call, ncalls, cache, tmp, outs>>

\* The keys are copied out, uploaded and used by the device.
HashOnDevice(t) ==
  /\ pc[t] = "hash" /\ call[t].fn = "device" /\ ~aborted
  /\ \E key_src \in KeyReads(t, "src"), key_int \in KeyReads(t, "int") :
       LET c == call[t]
           k == IF c.is_source THEN key_src ELSE key_int
       IN  Computed(t, [i \in 1 .. Len(c.ids) |->
                          label_node(k, c.ids[i], Pred(c, c.pred0s, i),
                                     Pred(c, c.pred1s, i), Seed(c), Desc(c))])
  /\ UNCHANGED <<aborted, cache>>

\* store_label, for every label of the call.
StoreLabels(t) ==
  /\ pc[t] = "store" /\ ~aborted
  /\ outs' = [outs EXCEPT ![t] = tmp[t]]
  /\ pc' = [pc EXCEPT ![t] = "done"]
  /\ UNCHANGED <<arch, aborted, key, buf, ready, call, ncalls, cache, tmp>>

Return(t) ==
  /\ pc[t] = "done" /\ ~aborted
  /\ pc' = [pc EXCEPT ![t] = "idle"] /\ call' = [call EXCEPT ![t] = NoCall]
  /\ tmp' = [tmp EXCEPT ![t] = <<>>] /\ outs' = [outs EXCEPT ![t] = <<>>]
  /\ UNCHANGED <<arch, aborted, key, buf, ready, ncalls, cache>>

Step(t) ==
  \/ EnsureKeys(t) \/ PublishKeys(t) \/ \E s \in buf[t] : Drain(t, s)
  \/ HashBlake3(t) \/ HashSha256(t) \/ HashAes(t) \/ AbortAes(t) \/ HashOnDevice(t)
  \/ StoreLabels(t) \/ Return(t)

Next == \E t \in Threads : Step(t) \/ \E c \in Calls : Begin(t, c)

Spec == Init /\ [][Next]_vars

----------------------------------------------------------------------------
(* Properties.                                                              *)

\* A thread that is past ensure_keys reads both keys whole, although other
\* threads may still be storing them.
KeysNeverTorn ==
  \A t \in Threads :
    pc[t] = "hash" /\ UsesKeys(call[t]) =>
      \A a \in Addr : WordReads(t, a) = {DerivedKey(a[1])[a[2]]}

\* What hash.h and aes_prf.h say of a label: the hash, its key and its message,
\* with the node index big-endian.
BigEndian(bytes, i) ==
  LET value[b \in 0 .. 8] == IF b = 0 THEN 0 ELSE value[b - 1] * Radix + bytes[b]
  IN  /\ Len(bytes) = 8 /\ \A b \in 1 .. 8 : bytes[b] \in 0 .. Radix - 1
      /\ value[8] = i

AesLabel(l, c, i, pred0, pred1) ==
  \A half \in 1 .. 2 :
    /\ l[half].rounds = <<"AES-128">>
    /\ l[half].rk = aes128_expand(Seed(c)[half])
    /\ BigEndian(l[half].blocks[1], i)
    /\ Tail(l[half].blocks) = pred0 \o pred1 \o Desc(c)

Sha256Label(l, c, i, pred0, pred1) ==
  /\ l.rounds = <<"SHA-256">>
  /\ BigEndian(l.blocks[1], i)
  /\ Tail(l.blocks) = <<Zero, Zero, Zero>> \o pred0 \o pred1 \o Seed(c) \o Desc(c)
                        \o <<<<"0x80">>, Zero, Zero, <<"bits", NODE_MSG_BYTES * 8>>>>

Blake3Label(l, c, i, pred0, pred1) ==
  /\ l.rounds = <<"BLAKE3">>
  /\ l.rk = DerivedKey(IF c.is_source THEN "src" ELSE "int")
  /\ BigEndian(l.blocks[1][1][1], i) /\ Tail(l.blocks[1][1]) = <<Zero, Zero, Zero>>
  /\ <<l.blocks[2][1], l.blocks[3][1]>> = <<pred0 \o pred1, Seed(c) \o Desc(c)>>
  /\ [b \in 1 .. 3 |-> l.blocks[b][2] \ {"KEYED_HASH"}]
       = <<{"CHUNK_START"}, {}, {"CHUNK_END", "ROOT"}>>
  /\ \A b \in 1 .. 3 : "KEYED_HASH" \in l.blocks[b][2]

\* Every label a call returns is the one of its node, whatever the build, the
\* number of nodes in the batch, the device, the calls before and the threads
\* beside it.
LabelsRight ==
  \A t \in Threads :
    pc[t] = "done" =>
      LET c    == call[t]
          P(q, i) == IF c.is_source \/ q = NULL THEN Zero32 ELSE OrZero(q[i])
      IN  /\ Len(outs[t]) = Len(c.ids)
          /\ \A i \in DOMAIN c.ids :
               LET l == outs[t][i]
                   p == P(c.pred0s, i)
                   q == P(c.pred1s, i)
               IN  CASE c.fn = "device" \/ c.algo = "blake3" ->
                          Blake3Label(l, c, c.ids[i], p, q)
                     [] c.fn # "device" /\ c.algo = "sha256" ->
                          Sha256Label(l, c, c.ids[i], p, q)
                     [] OTHER -> AesLabel(l, c, c.ids[i], p, q)
============================================================================
