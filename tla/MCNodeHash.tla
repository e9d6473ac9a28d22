---------------------------- MODULE MCNodeHash ----------------------------
(* Calls of one to six nodes, with indices on both sides of the 32-bit      *)
(* boundary (here Radix^4), for two chunks and every hash.                  *)
EXTENDS NodeHash

L(i) == << <<"label", i>>, <<"label'", i>> >>
Ids(first, n) == [i \in 1 .. n |-> first + i - 1]
Labels(first, n) == [i \in 1 .. n |-> L(first + i - 1)]

Call(fn, algo, ids, p0, p1, chunk) ==
  [fn |-> fn, algo |-> algo, is_source |-> FALSE, ids |-> ids, pred0s |-> p0,
   pred1s |-> p1, session |-> "session", chunk |-> chunk, m |-> 16, n |-> 3]

Source(c) == [c EXCEPT !.is_source = TRUE]

MCCalls ==
  { Call("many", "aes", Ids(13, 6), Labels(1, 6), Labels(7, 6), 0),
    Call("many", "aes", Ids(3, 4), Labels(1, 4), NULL, 17),
    Source(Call("node", "aes", <<200>>, NULL, NULL, 17)),
    Call("many", "sha256", Ids(15, 2), Labels(1, 2), <<NULL, L(5)>>, 0),
    Source(Call("node", "blake3", <<0>>, NULL, NULL, 0)),
    Call("many", "blake3", Ids(14, 4), Labels(1, 4), Labels(5, 4), 17),
    Source(Call("device", "blake3", <<255>>, NULL, NULL, 0)),
    Call("device", "blake3", <<15, 16>>, Labels(1, 2), NULL, 17) }
============================================================================
