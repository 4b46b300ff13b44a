---------------------------- MODULE MCSimdEncoder ----------------------------
(* Batches of up to three lines, empty, shorter than a job, and of several  *)
(* jobs; a batch of jobs ends at JobMax or because codeBase is full.        *)
EXTENDS SimdEncoder

Line(lens) == [len : lens, cost : {1, 2}]

MCBatches ==
  {<<a, b>> : a \in Line({0, 1, 5, 8, 12}), b \in Line({0, 4})} \cup
  {<<a, b, c>> : a \in Line({1, 2}), b \in Line({0, 1}), c \in Line({1, 3})}

=============================================================================
