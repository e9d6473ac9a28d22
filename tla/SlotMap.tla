------------------------------ MODULE SlotMap ------------------------------
(***************************************************************************)
(* The seed-independent schedule of a graph: the dependency levels and the  *)
(* level-sorted order that pose_graph_hbm_topo_build uploads, and the       *)
(* scratch slots pose_graph_slot_map assigns.  pred is the sequence of      *)
(* predecessor lists of pose_graph_edges, node id at position id + 1.       *)
(***************************************************************************)
EXTENDS EdgeList, SequencesExt

\* The nodes of 0 .. N - 1 alive at level m: computed, and read there or later.
LiveAt(level, last, N, m) == {x \in 0 .. N - 1 : level[x + 1] <= m /\ m <= last[x + 1]}

\* What a loop over 1 .. n makes of base.
Loop(Body(_, _), base, n) ==
  LET after[i \in 0 .. n] == IF i = 0 THEN base
                              ELSE CHOOSE r \in {Body(s, i) : s \in {after[i - 1]}} : TRUE
  IN  after[n]

\* level[id]: 0 for a source, one more than its highest predecessor otherwise.
LevelOf(level, p) == IF p = <<>> THEN 0 ELSE 1 + Max({level[p[k] + 1] : k \in DOMAIN p})

Levels(pred) ==
  LET AddNode(level, i) == Append(level, LevelOf(level, pred[i]))
  IN  Loop(AddNode, <<>>, Len(pred))

\* last_use[id]: the highest level that reads the node, at least its own.
LastUses(pred, level) ==
  LET readers(i) == {q \in DOMAIN pred : i - 1 \in Range(pred[q])}
  IN  [i \in DOMAIN pred |-> Max({level[i]} \cup {level[q] : q \in readers(i)})]

\* The nodes whose entry in f is lv, in order of id: one bucket of the
\* counting sorts.
Bucket(f, lv) ==
  LET Pick(s, i) == IF f[i] = lv THEN Append(s, i - 1) ELSE s
  IN  Loop(Pick, <<>>, Len(f))

----------------------------------------------------------------------------
(* The slots: st.stack is free_stack, st.next is next_new.                  *)

\* A node takes the topmost free slot, or a new one when the stack is empty.
TakeSlot(st, id) ==
  IF st.stack # <<>>
  THEN [slot  |-> [st.slot EXCEPT ![id + 1] = Last(st.stack)],
        stack |-> Front(st.stack), next |-> st.next]
  ELSE [slot  |-> [st.slot EXCEPT ![id + 1] = st.next],
        stack |-> st.stack, next |-> st.next + 1]

FreeSlots(st, ids) ==
  [st EXCEPT !.stack = @ \o [k \in DOMAIN ids |-> st.slot[ids[k] + 1]]]

\* Mutation of SlotStep: a level's slots are reclaimed before it allocates.
MutSlotStep(st, born, dying) ==
  LET old == SelectSeq(dying, LAMBDA id : st.slot[id + 1] # -1)
      Take(s, k) == TakeSlot(s, born[k])
  IN  Loop(Take, FreeSlots(st, old), Len(born))

\* Mutation of SlotStep: no slot is ever reclaimed.
MutLeakSlots(st, born, dying) ==
  LET Take(s, k) == TakeSlot(s, born[k])
  IN  Loop(Take, st, Len(born))

\* One level: its nodes take their slots; then the slots of the nodes this level
\* read last are pushed.
SlotStep(st, born, dying) ==
  LET Take(s, k) == TakeSlot(s, born[k])
  IN  FreeSlots(Loop(Take, st, Len(born)), dying)

NoSlots(n) == [slot |-> [i \in 1 .. n |-> -1], stack |-> <<>>, next |-> 0]

\* The topology of a graph g = [pred, out]: what the driver keeps of it.
Topology(g) ==
  LET level == Levels(g.pred)
      last  == LastUses(g.pred, level)
      L     == 1 + Max(Range(level))
      born  == [lv \in 1 .. L |-> Bucket(level, lv - 1)]
      dying == [lv \in 1 .. L |-> Bucket(last, lv - 1)]
      Step(st, lv) == SlotStep(st, born[lv], dying[lv])
      map   == Loop(Step, NoSlots(Len(g.pred)), L)
  IN  [pred |-> g.pred, out |-> g.out, level |-> level, last |-> last,
       num_levels |-> L, order |-> born, slot |-> map.slot,
       pool_size |-> map.next]
============================================================================
