----------------------------- MODULE LabelEmit -----------------------------
(***************************************************************************)
(* The topological emitters of common/src/graph.c, which visit every node   *)
(* of one chunk's graph once, in order, and compute its label on the way:   *)
(*                                                                          *)
(*   "label"    do_label, the full-scratch labeller: the arena holds node   *)
(*              ids, the labels are in a buffer indexed by id;              *)
(*   "inplace"  do_label_inplace: the arena holds the labels themselves;    *)
(*   "edges"    pose_graph_edges: ids in the arena, edges are recorded.     *)
(*                                                                          *)
(* A caller of do_label wants all its labels (pose_graph_label) or, as the  *)
(* verifier, the one of a challenge (pose_graph_challenge).                 *)
(*                                                                          *)
(* The three are separate code that must number the nodes, and choose and   *)
(* order their predecessors, identically, while they all recycle a bump     *)
(* arena whose buffers nothing but the save/restore discipline protects.    *)
(* The machine below runs any of them, one C call or one batch of nodes a   *)
(* step, with the C call stack made explicit in todo.                       *)
(*                                                                          *)
(* A label is abstracted to the id of the node it was computed for; what    *)
(* the hash was given, the labels of its predecessors in order, is kept in  *)
(* node[id].  Two runs with the same node function compute the same bytes.  *)
(***************************************************************************)
EXTENDS EdgeList, FiniteSets, FiniteSetsExt

CONSTANTS
  BlockCounts,   \* the block counts m a client asks for
  Challenges,    \* the indices pose_graph_challenge is asked for
  GraphMaxM,     \* POSE_GRAPH_MAX_M
  DefaultChunkBlocks,  \* POSE_CHUNK_BLOCKS
  ArenaFactor,   \* POSE_ARENA_FACTOR
  LabelBatch     \* POSE_LABEL_BATCH

\* An arena of 6.5 * half_w words is enough; graph.c takes 16.
ASSUME EmitAssumption ==
  /\ BlockCounts \subseteq Nat /\ Challenges \subseteq Nat
  /\ GraphMaxM \in Nat \ {0} /\ DefaultChunkBlocks \in Nat \ {0}
  /\ ArenaFactor \in Nat /\ 2 * ArenaFactor >= 13
  /\ LabelBatch \in Nat \ {0}

Paths == {"label", "inplace", "edges"}

----------------------------------------------------------------------------
(* Node-count formulae.                                                     *)

\* 1 << n
Pow2[n \in Nat] == IF n = 0 THEN 1 ELSE 2 * Pow2[n - 1]

\* The loop that shifts v right until it is 0.
BitLength[v \in Nat] == IF v = 0 THEN 0 ELSE 1 + BitLength[v \div 2]

\* pose_graph_parameter_n
ParameterN(k) == IF k <= 1 THEN 0 ELSE BitLength[k - 1] - 1

\* Mutation of ButterflyNodeCount: the input layer is not counted.
MutButterflyNodeCount(dim) == dim * Pow2[dim]

ButterflyNodeCount(dim) == (dim + 1) * Pow2[dim]

ConnectedNodeCount[level \in Nat] ==
  IF level = 0 THEN 1
  ELSE 2 * ConnectedNodeCount[level - 1] + 2 * ButterflyNodeCount(level - 1)

StandaloneNodeCount[level \in Nat] ==
  IF level = 0 THEN 1
  ELSE StandaloneNodeCount[level - 1] + ButterflyNodeCount(level - 1)
       + ConnectedNodeCount[level - 1]

ScratchNodeCount(k) == 2 * StandaloneNodeCount[ParameterN(k) + 1]

----------------------------------------------------------------------------
VARIABLES
  path, m,              \* the call in progress ("none": there is none)
  todo,                 \* the C calls and loops still to run, innermost first
  next_id, arena, arena_off, arena_hi,      \* the emitter
  mem,                  \* what each word of the base arrays and arena holds
  node,                 \* node[id]: its predecessors' labels, as hashed
  out,                  \* the labels written to the caller's buffer, by rank
  ask, answer,          \* challenge_idx, and the label it is answered with
  rc

emitVars == <<path, m, todo, next_id, arena, arena_off, arena_hi, mem, node, out,
              ask, answer, rc>>
emitter == <<next_id, arena, arena_off, arena_hi>>
challenge == <<ask, answer>>

Unset == -1              \* a word, a node or a rank not written yet
HalfW == Pow2[ParameterN(m)]

(* Layout of the scratch buffer, in words.                                  *)
LeftBase  == 0
RightBase == 2 * HalfW
ArenaAddr == 4 * HalfW
ArenaCap  == ArenaFactor * HalfW

\* do_label carves two arenas, one per half; the other two reuse one.
ScratchWords(p, k) ==
  4 * Pow2[ParameterN(k)] + (IF p = "label" THEN 2 ELSE 1) * ArenaFactor * Pow2[ParameterN(k)]

EmitInit ==
  /\ path = "none" /\ m = 0 /\ todo = <<>> /\ rc = 0
  /\ next_id = 0 /\ arena = 0 /\ arena_off = 0 /\ arena_hi = 0
  /\ mem = <<>> /\ node = <<>> /\ out = <<>>
  /\ ask = Unset /\ answer = Unset

----------------------------------------------------------------------------
(* The pending work.  A layer is one loop over the width of a butterfly:    *)
(* rule "one" hashes a[i], "pair" hashes a[i] and a[i ^ bit], "merge"       *)
(* hashes a[i] and b[i]; the results go to dst.  leave is the end of a C    *)
(* function: its memcpys, then arena_off = saved.                           *)

Standalone(level, o)       == [fn |-> "standalone", level |-> level, out |-> o]
Connector(dim, in, o)      == [fn |-> "connector", dim |-> dim, in |-> in, out |-> o]
Connected(level, w, in, o) ==
  [fn |-> "connected", level |-> level, width |-> w, in |-> in, out |-> o]
Merged(dim, prim, ing, o)  ==
  [fn |-> "merged", dim |-> dim, primary |-> prim, ingress |-> ing, out |-> o]
Layer(rule, w, bit, a, b, dst) ==
  [fn |-> "layer", rule |-> rule, width |-> w, bit |-> bit, a |-> a, b |-> b,
   dst |-> dst, i |-> 0]
Leave(copies, saved)       == [fn |-> "leave", copies |-> copies, saved |-> saved]
SecondHalf                 == [fn |-> "second_half"]
Outputs                    == [fn |-> "outputs"]

\* Address of the k-th array of w words allocated from now on.
Alloc(k, w) == arena + arena_off + k * w

\* arena_alloc of k arrays of w words, and the work that follows.
Push(k, w, tasks) ==
  /\ arena_off' = arena_off + k * w
  /\ arena_hi' = Max({arena_hi, arena_off'})
  /\ todo' = tasks \o Tail(todo)
  /\ UNCHANGED <<path, m, next_id, arena, mem, node, out, challenge, rc>>

Top(fn) == todo # <<>> /\ Head(todo).fn = fn

----------------------------------------------------------------------------
(* Emitting nodes.                                                          *)

\* i & ~bit, i | bit and i ^ bit
BitClear(i, bit) == IF (i \div bit) % 2 = 1 THEN i - bit ELSE i
BitSet(i, bit)   == IF (i \div bit) % 2 = 1 THEN i ELSE i + bit
BitFlip(i, bit)  == IF (i \div bit) % 2 = 1 THEN i - bit ELSE i + bit

\* emit2's canonical order, lower id first
Sorted(p0, p1) == IF p0 > p1 THEN <<p1, p0>> ELSE <<p0, p1>>

\* Mutation of PairPreds: the in-place labeller does not order a pair.
MutPairPreds(t, i) ==
  IF path = "inplace"
  THEN <<mem[t.a + i], mem[t.a + BitFlip(i, t.bit)]>>
  ELSE Sorted(mem[t.a + i], mem[t.a + BitFlip(i, t.bit)])

\* The id-based paths compare ids, the in-place one relies on positions.
PairPreds(t, i) ==
  IF path = "inplace"
  THEN <<mem[t.a + BitClear(i, t.bit)], mem[t.a + BitSet(i, t.bit)]>>
  ELSE Sorted(mem[t.a + i], mem[t.a + BitFlip(i, t.bit)])

MergePreds(prim, ing) == IF path = "inplace" THEN <<prim, ing>> ELSE Sorted(prim, ing)

LayerPreds(t, i) ==
  CASE t.rule = "one"   -> <<mem[t.a + i]>>
    [] t.rule = "pair"  -> PairPreds(t, i)
    [] t.rule = "merge" -> MergePreds(mem[t.a + i], mem[t.b + i])

\* The next nodes get the predecessor lists in preds; the last one's label (or
\* id) goes to address dst, the ones before it stay in local variables.
EmitOne(preds, dst) ==
  LET k == Len(preds)
  IN  /\ next_id' = next_id + k
      /\ node' = [id \in DOMAIN node |->
                    IF id \in next_id .. next_id + k - 1
                    THEN preds[id - next_id + 1] ELSE node[id]]
      /\ mem' = [mem EXCEPT ![dst] = next_id + k - 1]
      /\ todo' = Tail(todo)
      /\ UNCHANGED <<path, m, arena, arena_off, arena_hi, out, challenge, rc>>

\* Nodes handed to one pose_label_node_many call; the edge path has no batches.
BatchLimit == IF path = "edges" THEN 1 ELSE LabelBatch

EmitBatch ==
  /\ Top("layer")
  /\ LET t     == Head(todo)
         batch == Min({BatchLimit, t.width - t.i})
     IN  /\ next_id' = next_id + batch
         /\ node' = [id \in DOMAIN node |->
                       IF id \in next_id .. next_id + batch - 1
                       THEN LayerPreds(t, t.i + id - next_id) ELSE node[id]]
         /\ mem' = [w \in DOMAIN mem |->
                      IF w \in t.dst + t.i .. t.dst + t.i + batch - 1
                      THEN next_id + w - (t.dst + t.i) ELSE mem[w]]
         /\ todo' = (IF t.i + batch < t.width
                     THEN <<[t EXCEPT !.i = t.i + batch]>> ELSE <<>>) \o Tail(todo)
  /\ UNCHANGED <<path, m, arena, arena_off, arena_hi, out, challenge, rc>>

----------------------------------------------------------------------------
(* The recursive components.                                                *)

\* The layers 1..dim of a butterfly whose layer 0 is in buf0; prev and curr
\* (buf0 and buf1) swap after every layer, and the last one goes to last.
\* Mutation of Butterfly: the strides grow instead of shrinking.
MutButterfly(dim, buf0, buf1, last) ==
  [k \in 1 .. dim |->
     Layer("pair", Pow2[dim], Pow2[k - 1],
           IF k % 2 = 1 THEN buf0 ELSE buf1, 0,
           IF k = dim THEN last ELSE IF k % 2 = 1 THEN buf1 ELSE buf0)]

Butterfly(dim, buf0, buf1, last) ==
  [k \in 1 .. dim |->
     Layer("pair", Pow2[dim], Pow2[dim - k],
           IF k % 2 = 1 THEN buf0 ELSE buf1, 0,
           IF k = dim THEN last ELSE IF k % 2 = 1 THEN buf1 ELSE buf0)]

\* Where the last layer of such a butterfly ends up when it is not redirected.
LastBuf(dim, buf0, buf1) == IF dim % 2 = 0 THEN buf0 ELSE buf1

EmitConnector ==
  /\ Top("connector")
  /\ LET t    == Head(todo)
         w    == Pow2[t.dim]
         prev == Alloc(0, w)
         curr == Alloc(1, w)
         last == LastBuf(t.dim, prev, curr)
     IN  Push(2, w, <<Layer("one", w, 0, t.in, 0, prev)>>
                    \o Butterfly(t.dim, prev, curr, last)
                    \o <<Leave({<<last, t.out, w>>}, arena_off)>>)

\* dim = 0: two nodes, the ingress one only in a local.
EmitMergedLeaf ==
  /\ Top("merged") /\ Head(todo).dim = 0
  /\ LET t == Head(todo)
     IN  EmitOne(<<<<mem[t.ingress]>>, MergePreds(mem[t.primary], next_id)>>, t.out)

EmitMerged ==
  /\ Top("merged") /\ Head(todo).dim > 0
  /\ LET t    == Head(todo)
         w    == Pow2[t.dim]
         ing0 == Alloc(0, w)
         ing1 == Alloc(1, w)
         ctr0 == Alloc(2, w)
         ctr1 == Alloc(3, w)
         ing  == LastBuf(t.dim, ing0, ing1)
     IN  Push(4, w, <<Layer("one", w, 0, t.ingress, 0, ing0)>>
                    \o Butterfly(t.dim, ing0, ing1, ing)
                    \o <<Layer("merge", w, 0, t.primary, ing, ctr0)>>
                    \o Butterfly(t.dim, ctr0, ctr1, t.out)
                    \o <<Leave({}, arena_off)>>)

EmitSource ==
  /\ Top("standalone") /\ Head(todo).level = 0
  /\ EmitOne(<< <<>> >>, Head(todo).out)

EmitStandalone ==
  /\ Top("standalone") /\ Head(todo).level > 0
  /\ LET t      == Head(todo)
         half   == Pow2[t.level - 1]
         left   == Alloc(0, half)
         center == Alloc(1, half)
         right  == Alloc(2, half)
     IN  Push(3, half, <<Standalone(t.level - 1, left),
                         Connector(t.level - 1, left, center),
                         Connected(t.level - 1, half, center, right),
                         Leave({<<left, t.out, half>>, <<right, t.out + half, half>>},
                               arena_off)>>)

EmitConnectedLeaf ==
  /\ Top("connected") /\ Head(todo).level = 0
  /\ EmitOne(<< <<mem[Head(todo).in]>> >>, Head(todo).out)

EmitConnected ==
  /\ Top("connected") /\ Head(todo).level > 0
  /\ LET t      == Head(todo)
         half   == t.width \div 2
         left   == Alloc(0, half)
         center == Alloc(1, half)
         right  == Alloc(2, half)
     IN  Push(3, half, <<Connected(t.level - 1, half, t.in, left),
                         Merged(t.level - 1, left, t.in + half, center),
                         Connected(t.level - 1, half, center, right),
                         Leave({<<left, t.out, half>>, <<right, t.out + half, half>>},
                               arena_off)>>)

\* The memory after the memcpys <<from, to, len>>, whose targets are disjoint.
Copied(copies) ==
  [w \in DOMAIN mem |->
     IF \E c \in copies : w \in c[2] .. c[2] + c[3] - 1
     THEN LET c == CHOOSE d \in copies : w \in d[2] .. d[2] + d[3] - 1
          IN  mem[c[1] + w - c[2]]
     ELSE mem[w]]

\* Mutation of LeaveFunction: the arena is not given back.
MutLeaveFunction ==
  /\ Top("leave")
  /\ mem' = Copied(Head(todo).copies)
  /\ todo' = Tail(todo)
  /\ UNCHANGED <<path, m, emitter, node, out, challenge, rc>>

LeaveFunction ==
  /\ Top("leave")
  /\ mem' = Copied(Head(todo).copies)
  /\ arena_off' = Head(todo).saved
  /\ todo' = Tail(todo)
  /\ UNCHANGED <<path, m, next_id, arena, arena_hi, node, out, challenge, rc>>

----------------------------------------------------------------------------
(* do_label, do_label_inplace and pose_graph_edges.                         *)

BadSize(k) == k = 0 \/ k > GraphMaxM

\* ok: the allocations of the call succeed (do_label_inplace makes none).
\* a: the challenge, Unset when the whole output set is wanted.
Begin(p, k, a, ok) ==
  /\ path = "none"
  /\ path' = p /\ m' = k /\ ask' = a /\ answer' = Unset
  /\ next_id' = 0 /\ arena' = 4 * Pow2[ParameterN(k)] /\ arena_off' = 0 /\ arena_hi' = 0
  /\ IF a >= k \/ BadSize(k) \/ ~ok
     THEN /\ rc' = -1 /\ todo' = <<>>
          /\ mem' = <<>> /\ node' = <<>> /\ out' = <<>>
     ELSE /\ rc' = 0
          /\ todo' = <<Standalone(ParameterN(k) + 1, 0), SecondHalf,
                       Standalone(ParameterN(k) + 1, 2 * Pow2[ParameterN(k)]), Outputs>>
          /\ mem' = [w \in 0 .. ScratchWords(p, k) - 1 |-> Unset]
          /\ node' = [id \in 0 .. ScratchNodeCount(k) - 1 |-> <<Unset>>]
          /\ out' = [r \in 0 .. k - 1 |-> Unset]

\* The edge recorder just goes on: it trusts next_id and arena_off to be right.
StartSecondHalf ==
  /\ Top("second_half")
  /\ next_id' = IF path = "edges" THEN next_id ELSE StandaloneNodeCount[ParameterN(m) + 1]
  /\ arena' = IF path = "label" THEN ArenaAddr + ArenaCap ELSE arena
  /\ arena_off' = IF path = "edges" THEN arena_off ELSE 0
  /\ todo' = Tail(todo)
  /\ UNCHANGED <<path, m, arena_hi, mem, node, out, challenge, rc>>

\* Mutation of WriteOutputs: the right copy contributes its first nodes.
MutWriteOutputs ==
  /\ Top("outputs")
  /\ out' = [r \in DOMAIN out |->
               IF r < HalfW THEN mem[LeftBase + HalfW + r]
                            ELSE mem[RightBase + (r - HalfW)]]
  /\ todo' = Tail(todo)
  /\ UNCHANGED <<path, m, emitter, mem, node, challenge, rc>>

\* Mutation of WriteOutputs: the ranks of the right copy are read from the left.
MutRepeatedOutputs ==
  /\ Top("outputs")
  /\ out' = [r \in DOMAIN out |-> mem[LeftBase + HalfW + (r % HalfW)]]
  /\ todo' = Tail(todo)
  /\ UNCHANGED <<path, m, emitter, mem, node, challenge, rc>>

\* Second half of left_base, then the first retained ones of the second half of
\* right_base (challenge_rank in the edge recorder).
WriteOutputs ==
  /\ Top("outputs")
  /\ out' = [r \in DOMAIN out |->
               IF r < HalfW THEN mem[LeftBase + HalfW + r]
                            ELSE mem[RightBase + HalfW + (r - HalfW)]]
  /\ todo' = Tail(todo)
  /\ UNCHANGED <<path, m, emitter, mem, node, challenge, rc>>

\* pose_graph_challenge copies one label out.
AnswerChallenge ==
  /\ path = "label" /\ todo = <<>> /\ rc = 0 /\ ask # Unset /\ answer = Unset
  /\ answer' = out[ask]
  /\ UNCHANGED <<path, m, todo, emitter, mem, node, out, ask, rc>>

resolve_chunk_blocks(chunk_blocks) ==
  IF chunk_blocks # 0 THEN chunk_blocks ELSE DefaultChunkBlocks

\* The block of a persisted super-chunk that holds each rank; a refused size
\* leaves the caller's array as it is.
pose_graph_challenge_node_ids(chunk_blocks) ==
  LET cb == resolve_chunk_blocks(chunk_blocks)
  IN  [r \in IF BadSize(cb) THEN {} ELSE 0 .. cb - 1 |-> r]

Return ==
  /\ rc = 0 /\ ask # Unset => answer # Unset
  /\ path # "none" /\ todo = <<>>
  /\ path' = "none" /\ m' = 0 /\ rc' = 0
  /\ next_id' = 0 /\ arena' = 0 /\ arena_off' = 0 /\ arena_hi' = 0
  /\ mem' = <<>> /\ node' = <<>> /\ out' = <<>> /\ ask' = Unset /\ answer' = Unset
  /\ UNCHANGED todo

Emit ==
  \/ EmitBatch \/ EmitConnector \/ EmitMergedLeaf \/ EmitMerged \/ EmitSource
  \/ EmitStandalone \/ EmitConnectedLeaf \/ EmitConnected \/ LeaveFunction

EmitNext ==
  \/ \E p \in Paths, k \in BlockCounts, a \in Challenges \cup {Unset}, ok \in BOOLEAN :
       /\ p = "inplace" => ok
       /\ p # "label" => a = Unset
       /\ Begin(p, k, a, ok)
  \/ Emit \/ StartSecondHalf \/ WriteOutputs \/ AnswerChallenge \/ Return

EmitSpec == EmitInit /\ [][EmitNext]_emitVars

----------------------------------------------------------------------------
(* Properties.                                                              *)

Running == path # "none" /\ rc = 0

\* The emitter's fields and the buffers have their types, and nothing is
\* written for a chunk that is refused.
EmitTypeOK ==
  /\ path \in Paths \cup {"none"}
  /\ next_id \in Nat /\ arena_off \in Nat /\ arena_hi \in Nat
  /\ \A w \in DOMAIN mem : mem[w] \in {Unset} \cup DOMAIN node
  /\ \A r \in DOMAIN out : out[r] \in {Unset} \cup DOMAIN node
  /\ rc \in {0, -1} /\ (rc = -1 => todo = <<>> /\ out = <<>>)

\* The bound behind POSE_ARENA_FACTOR and the assert of lc_arena_alloc: the
\* arena never holds more than 6.5 half_w words, so no buffer is carved outside
\* the scratch allocation.
ArenaHighWater ==
  Running => 2 * arena_hi <= 13 * HalfW /\ arena_hi <= ArenaCap

\* Where one copy of the graph ends the node counter and the arena are what the
\* edge recorder silently takes for granted and the labellers set by formula.
HalvesLineUp ==
  Running /\ (Top("second_half") \/ todo = <<>>) =>
    /\ arena_off = 0
    /\ next_id = IF todo = <<>> THEN ScratchNodeCount(m)
                 ELSE StandaloneNodeCount[ParameterN(m) + 1]

Emitted == {id \in DOMAIN node : node[id] # <<Unset>>}

\* The nodes are emitted in order and none is skipped; predecessors are emitted
\* before the node that reads them, and a pair is in canonical order, also where
\* the code orders it by position instead of id.
PredsCanonical ==
  Running =>
    /\ Emitted = 0 .. next_id - 1
    /\ \A id \in Emitted :
         /\ \A k \in DOMAIN node[id] : node[id][k] \in 0 .. id - 1
         /\ Len(node[id]) = 2 => node[id][1] < node[id][2]

\* What a completed call has visited, as pose_graph_edges lays it out.
RecordedEdges ==
  [pred |-> [i \in 1 .. ScratchNodeCount(m) |-> node[i - 1]],
   out  |-> [r \in 1 .. m |-> out[r - 1]]]

\* Every path delivers what the topology of the kernels is built on: each node
\* after its predecessors, and m different nodes as outputs, whatever m (not
\* only powers of two): no output block is a second copy of another.
EdgeListDelivered == Running /\ todo = <<>> => IsEdgeList(RecordedEdges, m)
============================================================================
