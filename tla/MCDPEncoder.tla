----------------------------- MODULE MCDPEncoder -----------------------------
(* Tables on which the greedy parse is not the shortest one, with and      *)
(* without symbols for the single bytes, and lines of one and two chunks.  *)
EXTENDS DPEncoder

MCTables ==
  { <<>>, <<<<1>>>>,
    <<<<1, 2>>, <<2, 2, 2>>, <<1>>>>,
    <<<<1, 2>>, <<2, 1, 2>>, <<1, 2, 2>>>>,
    <<<<2, 2>>, <<1, 2, 2, 1>>, <<1, 2>>, <<2>>>> }

Upto(n) == UNION {[1..m -> {1, 2}] : m \in 0..n}

MCBatches ==
  {<<line>> : line \in Upto(6)} \cup {<<<<1, 2, 2, 1>>, line>> : line \in Upto(2)} \cup {<<>>}

=============================================================================
