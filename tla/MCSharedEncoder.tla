--------------------------- MODULE MCSharedEncoder ---------------------------
(* Two encoders of the same table, made by fsst_duplicate(), each in a      *)
(* thread of its own, as fsst.h says they may be used.                      *)
EXTENDS DPEncoder

MCTables == { <<<<1, 2>>, <<1>>, <<2>>>> }
MCBatches == { <<<<1, 2>>>>, <<<<2, 1>>>> }

=============================================================================
