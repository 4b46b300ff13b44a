------------------------------- MODULE MCPaper -------------------------------
(***************************************************************************)
(* The programs of fsst-paper/, checked together; a behaviour is of one of *)
(* them, the others stay as they begin.                                    *)
(***************************************************************************)
EXTENDS ExpansionMap, BottomUp, RowStore

VARIABLE program

\* cw.cpp: a text of which the DP and the greedy parse differ, since the
\* longest symbol is in the way; one with lines that are too short; and all
\* texts of six of two bytes, with other lines
MCCorpora ==
  {<<<<1, 1, 3, 2, 2>>>> \o [i \in 1..4 |-> <<1, 1, 3>>] \o [i \in 1..4 |-> <<3, 2, 2>>]
     \o [i \in 1..3 |-> <<1, 1>>],
   <<<<1, 2, 1, 2, 1, 2, 3>>, <<1, 2, 3, 1, 2, 3>>, <<1>>>>}
  \cup {<<a, b>> : a \in [1..6 -> {1, 3}], b \in {<<1, 1, 1, 1>>, <<1, 3, 3, 1, 3>>, <<3>>}}

\* vcw.cpp: texts shorter and longer than a word, in one string or two
MCInputs ==
  {<<a, <<1, 2, 1, 1, 2>>>> : a \in [1..3 -> {1, 2}]}
  \cup {<<<<1, 2, 1, 2, 1, 2, 2, 2, 1>>, <<1, 2, 2, 1, 2>>>>, <<<<1, 2>>>>, <<<<1, 1, 2>>, <<2>>>>}
MCGarbage == {<< >>, <<2, 2>>}
MCTails == {<<0, 1, 2, 1, 2, 1, 1>>, <<1, 1, 2, 1, 2, 1, 2>>}
MCTargets == <<2, 3, 4, 5, 5>>

\* filtertest.cpp: up to four rows, some of them empty
MCRows == {<< >>, <<<<1, 2>>>>, <<<<1, 2>>, << >>, <<3>>, <<4, 5, 6>>>>,
           <<<<1>>, <<2, 2>>, << >>, << >>, <<5>>>>}
MCHits == BoundedSeq(0..4, 3)

MCInit ==
  /\ program \in {"cw", "vcw", "filtertest"}
  /\ IF program = "cw" THEN InitMap
     ELSE /\ phase = "add" /\ lines = << >> /\ used = {} /\ data = << >> /\ suffixes = << >>
          /\ lcp = << >> /\ index = 0 /\ depth = 0 /\ begins = << >> /\ lists = << >>
          /\ candidates = {} /\ modified = {} /\ result = << >>
          /\ entries = << >> /\ table = << >> /\ greedy = FALSE /\ line = 0 /\ cur = 0 /\ code = << >>
  /\ IF program = "vcw" THEN InitBottomUp
     ELSE /\ stage = "idle" /\ texts = << >> /\ sample = << >> /\ behind = << >>
          /\ symbolMap = NewMap(<< >>) /\ bestMap = symbolMap /\ bestSize = 0
          /\ round = 1 /\ dist = 0 /\ coded = << >> /\ bulk = FALSE
  /\ IF program = "filtertest" THEN InitRows
     ELSE /\ layout = "none" /\ corpus = << >> /\ blockSize = 1 /\ stored = 0 /\ blocks = << >>
          /\ compressed = << >> /\ offsets = << >> /\ rowPtrs = << >> /\ hits = << >> /\ hit = 0
          /\ currentBlock = 0 /\ blockBuffer = << >> /\ target = << >>

MCNext ==
  \/ program = "cw" /\ NextMap /\ UNCHANGED <<bvars, rvars, program>>
  \/ program = "vcw" /\ NextBottomUp /\ UNCHANGED <<mvars, rvars, program>>
  \/ program = "filtertest" /\ NextRows /\ UNCHANGED <<mvars, bvars, program>>

MCSpec == MCInit /\ [][MCNext]_<<mvars, bvars, rvars, program>>

=============================================================================
