---------------------------- MODULE BlockFilter ----------------------------
(***************************************************************************)
(* What the fsst utility promises, with no threads and no buffers: it      *)
(* emits the blocks its input stands for, in order, each once, and ends    *)
(* successfully only after the last.  It may also be killed by an I/O      *)
(* error, and then leaves the first blocks only.                           *)
(***************************************************************************)
EXTENDS FsstFile

VARIABLES
  decompress,  \* -d on the command line?
  orig,        \* the original (uncompressed) file
  out,         \* the blocks written so far
  status

bvars == <<decompress, orig, out, status>>

Expected ==
  IF decompress THEN Blocks(orig)
  ELSE [k \in DOMAIN Blocks(orig) |-> Frame(Blocks(orig)[k])]

BInit ==
  /\ decompress \in BOOLEAN
  /\ orig \in Files
  /\ out = <<>>
  /\ status = "running"

Emit ==
  /\ status = "running"
  /\ Len(out) < Len(Expected)
  /\ out' = Append(out, Expected[Len(out) + 1])
  /\ UNCHANGED <<decompress, orig, status>>

Finish ==
  /\ status = "running"
  /\ ~(decompress /\ orig = <<>>)
  /\ Len(out) = Len(Expected)
  /\ status' = "done"
  /\ UNCHANGED <<decompress, orig, out>>

\* a compressed file without even a first length field
Refuse ==
  /\ status = "running"
  /\ decompress /\ orig = <<>>
  /\ status' = "refused"
  /\ UNCHANGED <<decompress, orig, out>>

Die ==
  /\ status = "running"
  /\ status' = "terminated"
  /\ UNCHANGED <<decompress, orig, out>>

BNext == Emit \/ Finish \/ Refuse \/ Die

\* what is never done, and with the fairness what is done in the end
BSafety == BInit /\ [][BNext]_bvars

BSpec == BSafety /\ WF_bvars(Emit \/ Finish \/ Refuse)
=============================================================================
