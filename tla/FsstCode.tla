------------------------------- MODULE FsstCode -------------------------------
(***************************************************************************)
(* "A compressed string is simply a string of 1-byte codes; except for     *)
(* code 255, which is followed by an uncompressed byte." (fsst.h)          *)
(* This is the last loop of fsst_decompress, the definition that the other *)
(* paths of the decoder and the encoders are compared with.                *)
(***************************************************************************)
EXTENDS Integers, Sequences, SequencesExt

Esc == 255    \* FSST_ESC

\* symbols[c + 1] is the string of code c.  A piece is [str, escaped].
Pieces(symbols, codes) ==
  LET from[i \in 1..Len(codes) + 2] ==
        IF i > Len(codes) THEN << >>
        ELSE IF codes[i] = Esc
        THEN <<[str |-> <<codes[i + 1]>>, escaped |-> TRUE]>> \o from[i + 2]
        ELSE <<[str |-> symbols[codes[i] + 1], escaped |-> FALSE]>> \o from[i + 1]
  IN from[1]

Text(pieces) == FlattenSeq([i \in 1..Len(pieces) |-> pieces[i].str])

\* Whether a code, or the end, is at position p: in a run of 255s each second
\* one is a plain byte, so that the run before p is of an even length.
CodeAt(codes, p) ==
  \E q \in 1..p :
    /\ q = 1 \/ codes[q - 1] # Esc
    /\ \A i \in q..p - 1 : codes[i] = Esc
    /\ (p - q) % 2 = 0

\* No code string ends in the middle of an escape.
WellFormed(codes) == CodeAt(codes, Len(codes) + 1)

=============================================================================
