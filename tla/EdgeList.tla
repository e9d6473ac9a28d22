------------------------------ MODULE EdgeList ------------------------------
(***************************************************************************)
(* What pose_graph_edges returns for a chunk of cb blocks: the predecessor  *)
(* list of every node, node id at position id + 1, and the ids of the       *)
(* outputs by rank.  The emitters deliver it, the GPU topology relies on it.*)
(***************************************************************************)
EXTENDS Integers, Sequences

\* Predecessors have smaller ids: the order of emission is a schedule.
Acyclic(pred) ==
  /\ pred = [i \in 1 .. Len(pred) |-> pred[i]] /\ Len(pred) \in Nat
  /\ \A i \in 1 .. Len(pred) : pred[i] \in Seq(0 .. i - 2)

\* A node is emitted after its predecessors; the cb outputs are distinct nodes.
IsEdgeList(g, cb) ==
  /\ Acyclic(g.pred) /\ Len(g.pred) # 0
  /\ Len(g.out) = cb /\ g.out \in Seq(0 .. Len(g.pred) - 1)
  /\ \A i, j \in 1 .. cb : g.out[i] = g.out[j] => i = j
============================================================================
