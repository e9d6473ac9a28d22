---------------------------- MODULE MCLabelEmit ----------------------------
(***************************************************************************)
(* The three emitters on every chunk size in BlockCounts, against the graph *)
(* that LabelGraph defines without memory.                                  *)
(***************************************************************************)
EXTENDS LabelEmit

G == INSTANCE LabelGraph

\* A power of two, the odd sizes around it, both ends and two refused sizes.
MCSizes == 0 .. 9 \cup {13, 16, 17, GraphMaxM, GraphMaxM + 1}

Graph == [k \in {s \in BlockCounts : ~BadSize(s)} |-> G!GraphOf(k)]

\* At every moment, on every path, the nodes emitted so far are exactly the
\* first ones of the graph, hashed from the right predecessors in the right
\* order: no live arena word is overwritten before its last reader, and the
\* full-scratch labeller, the in-place labeller and the edge recorder (hence
\* the GPU and the verifier) agree on every label.
GraphExact ==
  Running =>
    LET pred == Graph[m].pred
    IN  Emitted = 0 .. next_id - 1 /\ \A id \in Emitted : node[id] = pred[id + 1]

\* The caller gets the output set: rank r holds the r-th output's label.  The
\* verifier's answer to a challenge is the label the prover persists at the block
\* that pose_graph_challenge_node_ids names, for an explicit chunk size and for 0,
\* the default.
OutputSetExact ==
  Running /\ todo = <<>> =>
    /\ \A r \in DOMAIN out : out[r] = Graph[m].out[r + 1]
    /\ answer # Unset =>
         \A cb \in {m, 0} : resolve_chunk_blocks(cb) = m =>
           answer = Graph[m].out[pose_graph_challenge_node_ids(cb)[ask] + 1]

\* docs/labeling-explained.md, lines 189-190, on the challenge set: "The first
\* half of the base output nodes from the right standalone".
RightOutputsAreFirstHalf ==
  Running /\ todo = <<>> =>
    \A r \in DOMAIN out : r >= HalfW => out[r] = mem[RightBase + (r - HalfW)]
============================================================================
