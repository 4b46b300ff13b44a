--------------------------- MODULE MCDecompressor ---------------------------
(* The decoder of the 8-bit library: words of four bytes, symbols of one   *)
(* and of three, every well-formed input of up to seven bytes, and sizes   *)
(* around the room of four words and around the length of the text.        *)
(* The codec of the 12-bit library: dictionaries in which strings of two,  *)
(* three and four bytes overlap and collide, in the indexes or past them,  *)
(* lines around the sixteen bytes (here eight) of the fast loop, and       *)
(* buffers that end anywhere.                                              *)
EXTENDS Codec12

MCSymbols == <<<<7>>, <<7, 8, 9>>>>

Raw(n) == UNION {[1..k -> {0, 1, Esc}] : k \in 0..n}

\* A byte after an escape is any byte; here it is one of the code bytes.
MCInputs == {codes \in Raw(7) : WellFormed(codes)}

MCBucket12 == [k \in [1..4 -> Byte12] |-> (k[1] + k[2] + 2 * k[3] + k[4]) % 4]

MCDictionaries ==
  {<< >>,
   <<<<1, 0>>, <<1, 0, 1>>, <<0, 1, 0, 1>>>>,
   <<<<1, 0, 1, 0>>, <<0, 1, 0>>, <<1, 1>>>>,
   <<<<1, 0, 1>>, <<0, 0, 1, 0>>, <<0, 1>>, <<1, 1, 1, 1>>>>,
   <<<<1, 0>>, <<1, 0, 0>>, <<0, 1, 1>>, <<0, 1, 1, 0>>>>}

MCLine(n) == [i \in 1..n |-> IF i % 2 = 1 \/ i = 6 THEN 1 ELSE 0]

MCBatches ==
  {<< >>, <<<<0, 0, 1, 0, 1, 1, 1, 1>>, << >>, <<0, 1>>>>, <<<<1>>, <<1, 1, 0>>>>} \cup
  {<<MCLine(n)>> : n \in 0..11} \cup {<<MCLine(n), MCLine(10)>> : n \in 3..5}

\* either library
MCInit ==
  \/ Init12
  \/ /\ DInit
     /\ map = M12!Cleared /\ lines = << >> /\ room = 0 /\ useDP = FALSE
     /\ line = 0 /\ cur = 0 /\ out = << >> /\ written = 0

Next8 == DNext /\ UNCHANGED encVars

MCNext == Next12 \/ Next8

MCSpec == MCInit /\ [][MCNext]_vars12 /\ WF_vars12(Next8)

=============================================================================
