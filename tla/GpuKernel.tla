----------------------------- MODULE GpuKernel -----------------------------
(***************************************************************************)
(* The labelling kernels of common/src/cuda on one super-chunk:             *)
(*                                                                          *)
(*   "level"   k_label_level / k_label_all_levels, every node in its own    *)
(*             word of the scaffold, then k_extract_outputs;                *)
(*   "block", "warp"  k_label_chunk_block / _warp, recycled slots, the      *)
(*             nodes of a level spread over lanes, a barrier per level;     *)
(*   "thread"  k_label_chunk_thread, recycled slots, one lane.              *)
(*                                                                          *)
(* Within a level the lanes run in any order.  A lane reads its node's      *)
(* predecessors, later stores the label, later still copies it out of the   *)
(* slot; __syncthreads, __syncwarp, grid.sync or the end of the launch      *)
(* orders one level before the next.                                        *)
(*                                                                          *)
(* A label is the id of the node if every predecessor label that went into  *)
(* it was the right one, and Wrong otherwise.                               *)
(***************************************************************************)
EXTENDS SlotMap, FiniteSets

CONSTANTS
  Sizes,       \* chunk_blocks
  Lanes,       \* threads of a block, or lanes of a warp
  Edges(_)     \* what pose_graph_edges returns

ASSUME KernelAssumption == Sizes \subseteq Nat \ {0} /\ Lanes \in Nat \ {0}

\* What pose_graph_edges promises; LabelEmit's recorder delivers it.
ASSUME EdgesAssumption == \A cb \in Sizes : IsEdgeList(Edges(cb), cb)

\* half_w: the greatest power of two below cb, and 1 for one block.
HalfWidth(cb) ==
  CHOOSE h \in 1 .. cb : (\E n \in 0 .. 20 : h = 2^n) /\ 2 * h >= cb /\ (h = 1 \/ h < cb)

\* The graphs are narrow: at no level are more than 8 * half_w nodes alive.
ASSUME WidthAssumption ==
  \A cb \in Sizes :
    LET pred  == Edges(cb).pred
        level == Levels(pred)
        last  == LastUses(pred, level)
    IN  \A m \in 0 .. Max(Range(level)) :
          Cardinality(LiveAt(level, last, Len(pred), m)) <= 8 * HalfWidth(cb)

Strategies == {"level", "block", "warp", "thread"}

None  == -1
Wrong == -2
NoTopo == [pred |-> <<>>]

VARIABLES
  topo,                \* struct pose_hbm_topo on the device
  strategy,            \* the launch in progress ("none": there is none)
  lv,                  \* the level between the last barrier and the next
  lane,                \* per lane: its position in the level, and its phase
  scratch,             \* the labels in the slots
  persist              \* the labels in the persisted region, by rank

vars == <<topo, strategy, lv, lane, scratch, persist>>

Init ==
  /\ topo = NoTopo
  /\ strategy = "none" /\ lv = 0
  /\ lane = <<>> /\ scratch = <<>> /\ persist = <<>>

----------------------------------------------------------------------------
LaneCount(s) == IF s = "thread" THEN 1 ELSE Lanes

\* Every lane at its first node of a level.
LanesAtStart(s) ==
  [l \in 0 .. LaneCount(s) - 1 |-> [i |-> l, phase |-> "read", val |-> None]]

\* LEVEL keeps node id at word id, the others in their recycled slot.
SlotOf(id) == IF strategy = "level" THEN id ELSE topo.slot[id + 1]

\* Mutation of Words: every strategy allocates a slot pool.
MutWords(s) == topo.pool_size

Words(s) == IF s = "level" THEN Len(topo.pred) ELSE topo.pool_size

\* pose_graph_hbm_topo_build and _free: the topology depends on chunk_blocks
\* only and serves any number of launches.
BuildTopo(cb) ==
  /\ topo = NoTopo
  /\ topo' = Topology(Edges(cb))
  /\ UNCHANGED <<strategy, lv, lane, scratch, persist>>

FreeTopo ==
  /\ topo # NoTopo /\ strategy = "none"
  /\ topo' = NoTopo
  /\ UNCHANGED <<strategy, lv, lane, scratch, persist>>

\* The scratch of an earlier chunk or batch is reused as it is: it may hold
\* anything, and nothing in it is a label of this chunk.
Launch(s) ==
  /\ topo # NoTopo /\ strategy = "none"
  /\ strategy' = s /\ lv' = 0
  /\ lane' = LanesAtStart(s)
  /\ scratch' = [w \in 0 .. Words(s) - 1 |-> Wrong]
  /\ persist' = [r \in 0 .. Len(topo.out) - 1 |-> None]
  /\ UNCHANGED topo

LevelNodes == topo.order[lv + 1]
Working    == strategy # "none" /\ lv < topo.num_levels
NodeOf(l)  == LevelNodes[lane[l].i + 1]
InLevel(l) == lane[l].i < Len(LevelNodes)

\* The challenge rank of a node, None for an internal one.
RankOf(id) ==
  LET ranks == {r \in DOMAIN topo.out : topo.out[r] = id}
  IN  IF ranks = {} THEN None ELSE (CHOOSE r \in ranks : TRUE) - 1

\* label_node: the predecessors are loaded and hashed.
LaneRead(l) ==
  /\ Working /\ l \in DOMAIN lane
  /\ InLevel(l) /\ lane[l].phase = "read"
  /\ LET id == NodeOf(l)
         ps == topo.pred[id + 1]
     IN  lane' = [lane EXCEPT ![l].phase = "store",
                    ![l].val = IF \A k \in DOMAIN ps : scratch[SlotOf(ps[k])] = ps[k]
                               THEN id ELSE Wrong]
  /\ UNCHANGED <<topo, strategy, lv, scratch, persist>>

\* The per-chunk kernels copy an output node to its rank at once.
Copies(id) == strategy # "level" /\ RankOf(id) # None

\* i += blockDim.x, i += kWarpSize, t += gstride
Advance(l) == lane' = [lane EXCEPT ![l] = [i |-> lane[l].i + LaneCount(strategy),
                                           phase |-> "read", val |-> None]]

LaneStore(l) ==
  /\ Working /\ l \in DOMAIN lane
  /\ InLevel(l) /\ lane[l].phase = "store"
  /\ scratch' = [scratch EXCEPT ![SlotOf(NodeOf(l))] = lane[l].val]
  /\ IF Copies(NodeOf(l)) THEN lane' = [lane EXCEPT ![l].phase = "copy"]
                          ELSE Advance(l)
  /\ UNCHANGED <<topo, strategy, lv, persist>>

\* copy_label reads the slot again.
LaneCopy(l) ==
  /\ Working /\ l \in DOMAIN lane
  /\ InLevel(l) /\ lane[l].phase = "copy"
  /\ persist' = [persist EXCEPT ![RankOf(NodeOf(l))] = scratch[SlotOf(NodeOf(l))]]
  /\ Advance(l)
  /\ UNCHANGED <<topo, strategy, lv, scratch>>

\* Mutation of Barrier: one lane's arrival opens it.
MutBarrier ==
  /\ Working
  /\ \E l \in DOMAIN lane : ~InLevel(l)
  /\ lv' = lv + 1
  /\ lane' = LanesAtStart(strategy)
  /\ UNCHANGED <<topo, strategy, scratch, persist>>

\* Every lane has left its loop over the level.
Barrier ==
  /\ Working
  /\ \A l \in DOMAIN lane : ~InLevel(l)
  /\ lv' = lv + 1
  /\ lane' = LanesAtStart(strategy)
  /\ UNCHANGED <<topo, strategy, scratch, persist>>

\* k_extract_outputs, the second launch of LEVEL.
Extract ==
  /\ strategy = "level" /\ ~Working /\ lv = topo.num_levels
  /\ persist' = [r \in DOMAIN persist |-> scratch[topo.out[r + 1]]]
  /\ lv' = lv + 1
  /\ UNCHANGED <<topo, strategy, lane, scratch>>

KernelDone ==
  strategy # "none" /\ lv = topo.num_levels + (IF strategy = "level" THEN 1 ELSE 0)

\* cudaDeviceSynchronize returns.
Synchronize ==
  /\ KernelDone
  /\ strategy' = "none" /\ lv' = 0
  /\ lane' = <<>> /\ scratch' = <<>> /\ persist' = <<>>
  /\ UNCHANGED topo

LaneStep(l) == LaneRead(l) \/ LaneStore(l) \/ LaneCopy(l)

Next ==
  \/ \E cb \in Sizes : BuildTopo(cb)
  \/ FreeTopo
  \/ \E s \in Strategies : Launch(s)
  \/ \E l \in 0 .. Lanes - 1 : LaneStep(l)
  \/ Barrier \/ Extract \/ Synchronize

Spec == Init /\ [][Next]_vars

----------------------------------------------------------------------------
(* Properties.                                                              *)

\* The variables have their types and every slot is inside the pool.
TypeOK ==
  /\ strategy \in Strategies \cup {"none"}
  /\ lv \in Nat
  /\ \A w \in DOMAIN scratch : scratch[w] = Wrong \/ scratch[w] \in Nat
  /\ strategy # "none" =>
       /\ Len(topo.out) \in Sizes
       /\ \A id \in 0 .. Len(topo.pred) - 1 : SlotOf(id) \in DOMAIN scratch
       /\ DOMAIN persist = 0 .. Len(topo.out) - 1

\* A label that some node of this level or a later one still reads is intact in
\* its slot: recycling, with all lanes of a level writing at once, never
\* overwrites a live label.
LiveLabelsIntact ==
  Working =>
    \A id \in 0 .. Len(topo.pred) - 1 :
      topo.level[id + 1] < lv /\ topo.last[id + 1] >= lv
        => scratch[SlotOf(id)] = id

\* Every strategy persists exactly the labels of the CPU path: a rank is empty
\* or right at every moment, and all are right when the kernel is done.
PersistExact ==
  \A r \in DOMAIN persist :
    persist[r] = topo.out[r + 1] \/ (persist[r] = None /\ ~KernelDone)

\* pool_size is the peak number of simultaneously live nodes, as graph.h says,
\* and within the bound pose_graph_slot_map asserts.
PoolIsPeak ==
  topo # NoTopo /\ strategy = "none" =>
    LET live(m) == LiveAt(topo.level, topo.last, Len(topo.pred), m)
    IN  /\ topo.pool_size =
             Max({Cardinality(live(m)) : m \in 0 .. topo.num_levels - 1})
        /\ topo.pool_size <= 8 * HalfWidth(Len(topo.out))
============================================================================
