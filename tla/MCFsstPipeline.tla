--------------------------- MODULE MCFsstPipeline ---------------------------
(***************************************************************************)
(* A small instance of FsstPipeline: bytes have 3 values, so a 3-byte      *)
(* length counts to 26; blocks have 2 bytes; the files have 0 to 3 blocks, *)
(* the last one full or not.                                               *)
(***************************************************************************)
EXTENDS FsstPipelineInv

\* a stand-in codec: a 1-byte dictionary, then the bytes backwards
MCEncode(b) == <<2>> \o Reverse(b)
MCDecode(c) == IF c = <<>> THEN <<>> ELSE Reverse(Tail(c))

MCFiles == {<<>>, <<1>>, <<0, 1>>, <<0, 1, 2>>, <<2, 1, 0, 1>>, <<2, 2, 1, 0, 0>>}
=============================================================================
