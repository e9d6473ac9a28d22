----------------------------- MODULE LabelGraph -----------------------------
(***************************************************************************)
(* The graph pose-db-drg-v1 of a chunk of m blocks, without buffers: what   *)
(* pose_graph_edges returns.  A graph under construction is the sequence    *)
(* of its nodes' predecessor lists in order of emission, node id at         *)
(* position id + 1; a component is <<graph, the ids of its base nodes>>.    *)
(* LabelEmit's machine is checked against it and the GPU models use it as   *)
(* their topology.                                                          *)
(***************************************************************************)
EXTENDS Integers, Sequences

\* The ids the next w nodes get.
NewIds(g, w) == [i \in 1 .. w |-> Len(g) + i - 1]

\* One more layer, whose i-th node has the predecessors Preds(i), low id first.
AddLayer(g, w, Preds(_)) == <<g \o [i \in 1 .. w |-> Preds(i)], NewIds(g, w)>>

\* Build on a component: its graph and its base nodes are handed to Build.
Then(c, Build(_, _)) == CHOOSE r \in {Build(x[1], x[2]) : x \in {c}} : TRUE

Low2High(p, q) == IF p < q THEN <<p, q>> ELSE <<q, p>>

\* The position whose 0-based number differs in one bit.
Partner(i, bit) == IF ((i - 1) \div bit) % 2 = 0 THEN i + bit ELSE i - bit

\* Layers of pairs, at distance bit, bit/2, ..., 1.
RECURSIVE Wings(_, _, _)
Wings(g, ids, bit) ==
  IF bit = 0 THEN <<g, ids>>
  ELSE Then(AddLayer(g, Len(ids), LAMBDA i : Low2High(ids[i], ids[Partner(i, bit)])),
            LAMBDA g1, layer : Wings(g1, layer, bit \div 2))

\* A butterfly over ids: a copy of them, then the pair layers.
ConnectorOf(g, ids) ==
  Then(AddLayer(g, Len(ids), LAMBDA i : <<ids[i]>>),
       LAMBDA g1, layer : Wings(g1, layer, Len(layer) \div 2))

\* An ingress butterfly, and a center butterfly that mixes it with primary.
MergedOf(g, primary, ingress) ==
  Then(ConnectorOf(g, ingress), LAMBDA g1, ing :
  Then(AddLayer(g1, Len(ing), LAMBDA i : Low2High(primary[i], ing[i])),
       LAMBDA g2, layer : Wings(g2, layer, Len(layer) \div 2)))

RECURSIVE ConnectedOf(_, _)
ConnectedOf(g, ids) ==
  IF Len(ids) = 1 THEN <<Append(g, ids), NewIds(g, 1)>>
  ELSE LET half == Len(ids) \div 2
       IN  Then(ConnectedOf(g, SubSeq(ids, 1, half)), LAMBDA g1, left :
           Then(MergedOf(g1, left, SubSeq(ids, half + 1, 2 * half)), LAMBDA g2, mid :
           Then(ConnectedOf(g2, mid), LAMBDA g3, right : <<g3, left \o right>>)))

RECURSIVE StandaloneOf(_, _)
StandaloneOf(g, level) ==
  IF level = 0 THEN <<Append(g, <<>>), NewIds(g, 1)>>
  ELSE Then(StandaloneOf(g, level - 1), LAMBDA g1, left :
       Then(ConnectorOf(g1, left), LAMBDA g2, mid :
       Then(ConnectedOf(g2, mid), LAMBDA g3, right : <<g3, left \o right>>)))

\* The smallest n with 2^(n+1) >= m.
SmallestN(m) == CHOOSE n \in 0 .. 20 : 2^(n + 1) >= m /\ (n = 0 \/ 2^n < m)

\* Two standalone copies; the outputs are the second half of the left one's
\* base and as many of the right one's second half as m asks for.
GraphOf(m) ==
  LET half == 2^SmallestN(m)
  IN  Then(StandaloneOf(<<>>, SmallestN(m) + 1), LAMBDA g1, left :
      Then(StandaloneOf(g1, SmallestN(m) + 1), LAMBDA g2, right :
      [pred |-> g2,
       out  |-> SubSeq(left \o SubSeq(right, half + 1, 2 * half), half + 1, half + m)]))
============================================================================
