------------------------------ MODULE MCTrainer ------------------------------
(* Samples of two lines, with and without an unused byte, in which symbols *)
(* of up to three bytes grow over four rounds, in either library; and, on  *)
(* its own, how the lines of a sample are chosen.                          *)
EXTENDS Trainer12, Sampling

MCBucket == [k \in Key3 |-> (k[1] + k[2] + 2 * k[3]) % 2]

MCBucket12 == [k \in [1..4 -> Byte] |-> (k[1] + 2 * k[3] + k[4]) % 3]

MCMinCount == <<0, 1, 1, 2>>

MCSamples8 ==
  {<<<<1, 2, 1, 2>>, line>> : line \in UNION {[1..n -> {1, 2}] : n \in 2..3}} \cup
  {<< >>,
   <<<<2, 0, 1>>, <<1, 1, 2, 1, 0>>>>,
   <<<<1, 2, 2>>, << >>, <<2, 1, 1, 2, 0>>>>,
   <<<<1, 2, 1, 2, 1, 2, 1, 2, 1, 0>>, <<0>>>>}

\* The last one is a line and a rest that some rounds skip.
MCSamples12 == {<<<<1, 2, 1, 2, 1, 2, 1, 0, 1>>>>, <<<<1, 2, 2, 1, 2, 2>>, <<2, 1, 2>>>>}

MCSamples == MCSamples8 \cup MCSamples12

MCOptions ==
  {{}, {"PRUNE"}, {"DP_TRAIN", "TRIPLES"}, {"DP_TRAIN", "TRIPLES", "PRUNE"},
   {"DP_TRAIN", "DP_ENCODE", "TRIPLES", "PRUNE"}}

\* Below the target and above it; empty lines; chunks of one byte, of which
\* the array of lengths may take too few.
MCLineLengths ==
  {<<0>>, <<2, 0, 2>>, <<7>>, <<0, 5, 0>>, <<1, 1, 1, 1, 1>>, <<9, 1>>, <<0, 4, 1, 0>>, <<7, 4>>}

\* either library, or the choice of a sample
MCInit ==
  \/ /\ Create12Init /\ sample \in MCSamples12
     /\ lenIn = << >> /\ chosen = << >> /\ filled = 0 /\ ownLens = FALSE /\ sampling = "none"
  \/ /\ CreateInit /\ sample \in MCSamples8 /\ map = M12!Cleared
     /\ lenIn = << >> /\ chosen = << >> /\ filled = 0 /\ ownLens = FALSE /\ sampling = "none"
  \/ /\ CreateInit /\ sample = << >> /\ flags = {} /\ zeroTerminated = 0 /\ map = M12!Cleared
     /\ SamplingInit

MCNext ==
  \/ sampling = "none" /\ Create12Next /\ UNCHANGED samplingVars
  \/ sampling = "none" /\ CreateNext /\ UNCHANGED <<map, samplingVars>>
  \/ SamplingNext /\ UNCHANGED create12Vars

MCSpec == MCInit /\ [][MCNext]_<<create12Vars, samplingVars>>

=============================================================================
