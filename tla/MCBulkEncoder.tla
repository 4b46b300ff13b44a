---------------------------- MODULE MCBulkEncoder ----------------------------
(* Chunks of three bytes, so that lines of four take two, and two-line     *)
(* batches in which the first line leaves its bytes behind the second.     *)
EXTENDS BulkEncoder

MCBucket == [k \in Key3 |-> (k[1] + k[2] + k[3]) % 2]

MCCandidates == {<<1>>, <<1, 2>>, <<2, 1>>, <<1, 2, 1>>, <<2, 1, 2>>}

Upto(n) == UNION {[1..k -> Byte] : k \in 0..n}

MCBatches ==
  {<<line>> : line \in Upto(4)} \cup
  {<<<<1, 2, 1>>, line>> : line \in Upto(2)} \cup
  {<<<<2, 1, 0>>, line>> : line \in Upto(2)} \cup {<< >>}

=============================================================================
