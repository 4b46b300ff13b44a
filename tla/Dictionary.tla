----------------------------- MODULE Dictionary -----------------------------
(***************************************************************************)
(* fsst_export() and fsst_import() of libfsst.cpp: the symbol table on its *)
(* way from the encoder to the decoder.  Only the histogram of lengths and *)
(* the bytes of the symbols travel; the decoder counts on the final layout *)
(* to know which bytes belong to which code.                               *)
(***************************************************************************)
EXTENDS SymbolTable, SequencesExt

VARIABLES
  buf,       \* what fsst_export wrote, or NoBuffer
  decoder    \* the string of each code, or << >> before fsst_import

dictVars == <<buf, decoder>>

NoBuffer == [zeroTerminated |-> 0, lenHisto |-> NoSymbols, bytes |-> << >>]
Corrupt == <<99, 111, 114, 114, 117, 112, 116, 0>>    \* "corrupt"

DictInit == Init /\ buf = NoBuffer /\ decoder = << >>

Export ==
  /\ final
  /\ buf' = [zeroTerminated |-> zeroTerminated,
             lenHisto |-> lenHisto,
             bytes |-> FlattenSeq(SubSeq(symbols, zeroTerminated + 1, Len(symbols)))]
  /\ UNCHANGED <<decoder, tvars>>

\* (mutant) the runs in the order of the lengths: 1, 2, ..., MaxLen
RunsByLength(histo, zero) ==
  FlattenSeq([len \in 1..MaxLen |->
    [i \in 1..(IF len = 1 THEN histo[1] - zero ELSE histo[len]) |-> len]])

\* the lengths of the strings in the buffer: 2, 3, ..., MaxLen and then 1
Runs(histo, zero) ==
  FlattenSeq([l \in 1..MaxLen |->
    LET len == (l % MaxLen) + 1
        n == IF len = 1 THEN histo[1] - zero ELSE histo[len]
    IN [i \in 1..n |-> len]])

\* where the bytes of the i-th string start
Offset(runs, i) == SumFunctionOnSet(runs, 1..i - 1)

Import ==
  LET runs == Runs(buf.lenHisto, buf.zeroTerminated)
      read == [i \in 1..Len(runs) |->
                 SubSeq(buf.bytes, Offset(runs, i) + 1, Offset(runs, i) + runs[i])]
      known == (IF buf.zeroTerminated = 1 THEN <<<<0>>>> ELSE << >>) \o read
  IN
  /\ buf # NoBuffer
  /\ decoder' = known \o [i \in 1..255 - Len(known) |-> Corrupt]
  /\ UNCHANGED <<buf, tvars>>

DictNext ==
  \/ Next /\ UNCHANGED dictVars
  \/ Export
  \/ Import

DictSpec == DictInit /\ [][DictNext]_<<tvars, dictVars>>

\* The decoder knows every code as the encoder does, although no code and no
\* boundary between two symbols was written down, and it knows the codes the
\* encoder never emits to be corrupt.
DecoderKnowsEncoder ==
  decoder # << >> =>
    /\ Len(decoder) = 255
    /\ \A c \in 1..255 : decoder[c] = IF c <= Len(symbols) THEN symbols[c] ELSE Corrupt

=============================================================================
