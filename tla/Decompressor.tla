---------------------------- MODULE Decompressor ----------------------------
(***************************************************************************)
(* fsst_decompress() of fsst.h.  As long as there is room for four stores  *)
(* of a full word the decoder takes up to four codes at a time and writes  *)
(* whole words, of which only the length of the symbol counts; then it     *)
(* handles the last three codes without a loop; what is left, or does not  *)
(* fit, is copied byte by byte and cut off at size.  The return value is   *)
(* the full length, whatever was cut off.                                  *)
(***************************************************************************)
EXTENDS FsstCode, FiniteSets

CONSTANTS
  Word,     \* the bytes of a store (8 in the code)
  Symbols,  \* decoder->symbol and decoder->len: the string of each code
  Inputs,   \* compressed strings
  Sizes     \* the sizes of the output buffer

\* Every code of an input has a string: fsst_import gives one to the codes
\* that are not used, too.
ASSUME DecoderAssumption ==
  /\ Word \in Nat \ {0}
  /\ \A c \in DOMAIN Symbols : Len(Symbols[c]) \in 1..Word
  /\ Inputs \subseteq Seq(0..255)
  /\ \A in \in Inputs :
       /\ WellFormed(in)
       /\ \A i \in 1..Len(in) : in[i] # Esc => in[i] + 1 \in DOMAIN Symbols
  /\ Sizes \subseteq Nat \ {0}

VARIABLES
  strIn, size, zeroTerminated,
  at,      \* "fast", "tail", "slow" or "returned"
  todo,    \* what is left of an unrolled block: "code" or "escape", in order
  posIn, posOut,
  strOut,  \* the memory at and behind the output buffer
  high,    \* how far it was written
  read     \* how far the input was read

inputs == <<strIn, size, zeroTerminated>>
dvars == <<inputs, at, todo, posIn, posOut, strOut, high, read>>

Memory == 0..Max(Sizes) + 4 * Word

Unwritten == 256    \* a byte that no step has written

DInit ==
  /\ strIn \in Inputs
  /\ size \in Sizes
  /\ zeroTerminated \in BOOLEAN
  /\ at = "fast" /\ todo = << >>
  /\ posIn = 0 /\ posOut = 0
  /\ strOut = [i \in Memory |-> Unwritten]
  /\ high = 0 /\ read = 0

ByteAt(i) == strIn[i + 1]
Symbol == Symbols[ByteAt(posIn) + 1]

-----------------------------------------------------------------------------
(* The unrolled blocks                                                     *)

Codes(n) == [i \in 1..n |-> "code"]

\* escapeMask: the offsets of the escapes among the next four bytes
Escapes == {i \in 0..3 : ByteAt(posIn + i) = Esc}

\* (mutant) the codes before the escape, which is left for the next block
BlockBeforeEscape ==
  IF Escapes = {} THEN Codes(4) ELSE Codes(Min(Escapes))

\* the codes before the first escape, and the escape
Block ==
  IF Escapes = {} THEN Codes(4) ELSE Append(Codes(Min(Escapes)), "escape")

\* The last three bytes: after a pair that is two codes or ends with the
\* first escape, one more code if there is one.
TailBlock ==
  LET left == Len(strIn) - posIn
      pair == IF left < 2 THEN << >>
              ELSE IF ByteAt(posIn) = Esc THEN <<"escape">>
              ELSE IF ByteAt(posIn + 1) = Esc THEN <<"code", "escape">>
              ELSE <<"code", "code">>
      used == IF pair = <<"code", "escape">> THEN 3 ELSE IF left < 2 THEN 0 ELSE 2
  IN IF used < left THEN Append(pair, "code") ELSE pair

\* (mutant) room for one word and not for four
RoomForOne == posOut + Word <= size

RoomForWords == posOut + 4 * Word <= size

FastBlock ==
  /\ at = "fast" /\ todo = << >>
  /\ RoomForWords /\ posIn + 4 <= Len(strIn)
  /\ todo' = Block
  /\ read' = Max({read, posIn + 4})
  /\ UNCHANGED <<inputs, at, posIn, posOut, strOut, high>>

EndFast ==
  /\ at = "fast" /\ todo = << >>
  /\ ~(RoomForWords /\ posIn + 4 <= Len(strIn))
  /\ IF RoomForWords
     THEN at' = "tail" /\ todo' = TailBlock
     ELSE at' = "slow" /\ UNCHANGED todo
  /\ UNCHANGED <<inputs, posIn, posOut, strOut, high, read>>

EndTail ==
  /\ at = "tail" /\ todo = << >>
  /\ at' = "slow"
  /\ UNCHANGED <<inputs, todo, posIn, posOut, strOut, high, read>>

\* FSST_UNALIGNED_STORE: a whole word, padded with zeros
Stored(memory, pos, text) ==
  [i \in Memory |->
     IF i \in pos .. pos + Word - 1
     THEN IF i - pos < Len(text) THEN text[i - pos + 1] ELSE 0
     ELSE memory[i]]

StoreCode ==
  /\ todo # << >> /\ Head(todo) = "code"
  /\ strOut' = Stored(strOut, posOut, Symbol)
  /\ posIn' = posIn + 1
  /\ posOut' = posOut + Len(Symbol)
  /\ high' = Max({high, posOut + Word})
  /\ read' = Max({read, posIn + 1})
  /\ todo' = Tail(todo)
  /\ UNCHANGED <<inputs, at>>

StoreEscaped ==
  /\ todo # << >> /\ Head(todo) = "escape"
  /\ strOut' = [strOut EXCEPT ![posOut] = ByteAt(posIn + 1)]
  /\ posIn' = posIn + 2
  /\ posOut' = posOut + 1
  /\ high' = Max({high, posOut + 1})
  /\ read' = Max({read, posIn + 2})
  /\ todo' = Tail(todo)
  /\ UNCHANGED <<inputs, at>>

-----------------------------------------------------------------------------
(* byte by byte                                                            *)

\* only write if there is room
Copied(text) ==
  [i \in Memory |->
     IF i \in posOut .. Min({posOut + Len(text), size}) - 1
     THEN text[i - posOut + 1] ELSE strOut[i]]

Advance(text) == posOut + Len(text)

Copy(text, used) ==
  /\ strOut' = Copied(text)
  /\ posIn' = posIn + used
  /\ posOut' = Advance(text)
  /\ high' = Max({high, Min({posOut + Len(text), size})})
  /\ read' = Max({read, posIn + used})

Slow ==
  /\ at = "slow"
  /\ posIn < Len(strIn)
  /\ IF ByteAt(posIn) = Esc THEN Copy(<<ByteAt(posIn + 1)>>, 2) ELSE Copy(Symbol, 1)
  /\ UNCHANGED <<inputs, at, todo>>

Return ==
  /\ at = "slow"
  /\ posIn >= Len(strIn)
  /\ at' = "returned"
  /\ strOut' = IF posOut >= size /\ zeroTerminated
               THEN [strOut EXCEPT ![size - 1] = 0] ELSE strOut
  /\ UNCHANGED <<inputs, todo, posIn, posOut, high, read>>

DNext ==
  \/ FastBlock \/ EndFast \/ EndTail
  \/ StoreCode \/ StoreEscaped
  \/ Slow \/ Return

DSpec == DInit /\ [][DNext]_dvars /\ WF_dvars(DNext)

-----------------------------------------------------------------------------
(* Properties                                                              *)

Meaning == Text(Pieces(Symbols, strIn))

\* Neither the words that are stored whole nor the bytes that are read in
\* advance go beyond the two buffers.
InBounds == high <= size /\ read <= Len(strIn)

\* "OUT: bytesize of the decompressed string. If > size, the decoded output
\* is truncated to size", and then ends with a zero if the strings do.
ReturnsText ==
  at = "fast" =>
  <>(/\ at = "returned"
     /\ posOut = Len(Meaning)
     /\ \A i \in 1..Min({Len(Meaning), size}) :
          \/ strOut[i - 1] = Meaning[i]
          \/ zeroTerminated /\ i = size /\ strOut[i - 1] = 0)

=============================================================================
