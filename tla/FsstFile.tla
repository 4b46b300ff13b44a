------------------------------ MODULE FsstFile ------------------------------
(***************************************************************************)
(* The file format of the fsst utility (fsst.cpp): a compressed file is a  *)
(* sequence of blocks, each a 3-byte big-endian length that counts itself, *)
(* the exported dictionary and the compressed bytes of at most BlkSz bytes *)
(* of the original file.                                                   *)
(*                                                                         *)
(* The codec itself is a parameter here: Encode(b) stands for the exported *)
(* dictionary followed by the compressed form of block b, Decode undoes it.*)
(***************************************************************************)
EXTENDS Integers, Sequences, SequencesExt

CONSTANTS
  Base,        \* values a byte can have (256)
  BlkSz,       \* bytes read per block when compressing (FSST_MEMBUF - ...)
  Encode(_),   \* fsst_export \o Optfsst_compress on one block
  Decode(_),   \* fsst_import and fsst_decompress on one block
  Files        \* the original files considered

Byte == 0 .. Base - 1

LenField == 3

Serialize(l) == <<(l \div (Base * Base)) % Base, (l \div Base) % Base, l % Base>>

Deserialize(hi, mid, lo) == (hi * Base + mid) * Base + lo

\* one block as main() assembles it in front of the compressed bytes
Frame(b) == Serialize(LenField + Len(Encode(b))) \o Encode(b)

\* what a sequence of reads of at most BlkSz bytes returns before end of file
Blocks(f) ==
  [k \in 1 .. (Len(f) + BlkSz - 1) \div BlkSz |->
     SubSeq(f, (k - 1) * BlkSz + 1, IF k * BlkSz < Len(f) THEN k * BlkSz ELSE Len(f))]

Framed(f) == FlattenSeq([k \in DOMAIN Blocks(f) |-> Frame(Blocks(f)[k])])

ASSUME FormatAssumption ==
  /\ Base \in Nat \ {0, 1}
  /\ BlkSz \in Nat \ {0}
  /\ Files \subseteq Seq(Byte)

(* The codec makes bytes of bytes, a dictionary at the least, and decodes  *)
(* what it encoded; the length of a block "must fit 3 bytes", which BlkSz  *)
(* is chosen for.                                                          *)
ASSUME CodecAssumption ==
  \A f \in Files : \A k \in DOMAIN Blocks(f) :
    LET b == Blocks(f)[k] IN
      /\ Encode(b) \in Seq(Byte) \ {<<>>}
      /\ Decode(Encode(b)) = b
      /\ LenField + Len(Encode(b)) < Base * Base * Base
=============================================================================
