------------------------------- MODULE Codec12 -------------------------------
(***************************************************************************)
(* The encoders and the decoder of the 12-bit library: compressBulk() and  *)
(* compressBulkDP() of libfsst12.cpp, and fsst_decompress() of fsst12.h.   *)
(* Two codes of 12 bits share three bytes; the last code of a line may     *)
(* have two bytes of its own.  A batch of lines is encoded, greedily or by *)
(* the DP; then a line that was completed is decoded with the exported and *)
(* imported dictionary.                                                    *)
(*                                                                         *)
(* The variables of the decoder are those of Decompressor.                 *)
(***************************************************************************)
EXTENDS Decompressor

CONSTANTS
  Byte12,         \* the bytes of the text
  MaxSymbols12,
  Bucket12,
  Dictionaries,   \* the strings that are entered in a map, in this order
  Batches,
  Rooms           \* the sizes of the encoder's output buffer

M12 == INSTANCE SymbolMap12 WITH
  Byte <- Byte12, MaxLen <- Word, MaxSymbols <- MaxSymbols12, Bucket <- Bucket12

\* Every string that is entered has two bytes or more, and there are codes
\* for all of them.
ASSUME CodecAssumption12 ==
  /\ 0 \in Byte12 /\ Byte12 \subseteq 0..255
  /\ MaxSymbols12 \in 0..3840
  /\ \A d \in Dictionaries : Len(d) <= MaxSymbols12
  /\ IsFiniteSet(Sizes)
  /\ Bucket12 = [w \in [1..4 -> Byte12] |-> Bucket12[w]]
  /\ Dictionaries \subseteq Seq(UNION {[1..n -> Byte12] : n \in 2..Word})
  /\ Batches \subseteq Seq(Seq(Byte12))
  /\ Rooms \subseteq Nat

VARIABLES
  map, lines, room, useDP,   \* the arguments
  line,                      \* curLine: the number of completed lines
  cur,                       \* the cursor within the next one
  out,                       \* the bytes of each line that was started
  written                    \* how far the output buffer was written

callVars == <<map, lines, room, useDP>>
encVars == <<callVars, line, cur, out, written>>
vars12 == <<dvars, encVars>>

\* The map that training makes of the strings d: past the indexes if its
\* options name the DP for both ends.  Those of a call are its own, and the
\* greedy encoder may be given such a map.
Filled(d, past) == FoldLeft(LAMBDA m, s : M12!Entered(m, s, past), M12!Cleared, d)

Init12 ==
  /\ map \in {Filled(d, past) : d \in Dictionaries, past \in BOOLEAN}
  /\ lines \in Batches
  /\ room \in Rooms
  /\ useDP \in BOOLEAN
  /\ line = 0 /\ cur = 0 /\ out = << >> /\ written = 0
  /\ at = "line12"
  /\ strIn = << >> /\ size = 0 /\ zeroTerminated = FALSE /\ todo = << >>
  /\ posIn = 0 /\ posOut = 0 /\ high = 0 /\ read = 0
  /\ strOut = [i \in Memory |-> Unwritten]

-----------------------------------------------------------------------------
(* Two codes in three bytes                                                *)

\* (mutant) the second code's bits in the order of the first one's
PackedSwapped(a, b) == <<a % 256, a \div 256 + 16 * (b \div 256), b % 256>>

\* a | b << 12, three bytes of it
Packed(a, b) == <<a % 256, a \div 256 + 16 * (b % 16), b \div 16>>

PackedOne(a) == <<a % 256, a \div 256>>

\* two codes out of 24 bits
Unpacked(bytes) ==
  LET word == bytes[1] + 256 * bytes[2] + 65536 * bytes[3]
  IN <<word % 4096, word \div 4096>>

-----------------------------------------------------------------------------
(* compressBulk                                                            *)

Text12 == lines[line + 1]
Rest == SubSeq(Text12, cur + 1, Min({Len(Text12), cur + Word}))
Written12 == SumFunction([l \in 1..Len(out) |-> Len(out[l])])

\* the code at the cursor, and the one after it
First == M12!Find(map, Rest)
CurAfterFirst == cur + Len(M12!Meaning(map, First))
Second == M12!Find(map, SubSeq(Text12, CurAfterFirst + 1, Min({Len(Text12), CurAfterFirst + Word})))
CurAfterSecond == CurAfterFirst + Len(M12!Meaning(map, Second))

StartLine12 ==
  /\ at = "line12" /\ line < Len(lines) /\ ~useDP
  /\ at' = "fast12" /\ cur' = 0 /\ out' = Append(out, << >>)
  /\ UNCHANGED <<inputs, todo, posIn, posOut, strOut, high, read, callVars, line, written>>

\* (mutant) room for what is kept, not for what is written
RoomForPair == Written12 + 3 <= room

\* a word of four bytes is written, of which two or three stay
RoomForCodes == Written12 + 8 <= room

FastLoop == cur + 2 * Word <= Len(Text12) /\ RoomForCodes

Put(bytes, next) ==
  /\ out' = [out EXCEPT ![Len(out)] = @ \o bytes]
  /\ written' = Max({written, Written12 + 4})
  /\ cur' = next

FastPair ==
  /\ at = "fast12" /\ FastLoop
  /\ Put(Packed(First, Second), CurAfterSecond)
  /\ UNCHANGED <<dvars, callVars, line>>

EndFast12 ==
  /\ at = "fast12" /\ ~FastLoop
  /\ at' = "tail12"
  /\ UNCHANGED <<inputs, todo, posIn, posOut, strOut, high, read, encVars>>

\* "u32 write would be out of bounds (out of output memory)"
OutOfMemory ==
  /\ at = "tail12" /\ cur < Len(Text12) /\ ~RoomForCodes
  /\ at' = "encoded"
  /\ UNCHANGED <<inputs, todo, posIn, posOut, strOut, high, read, encVars>>

TailCodes ==
  /\ at = "tail12" /\ cur < Len(Text12) /\ RoomForCodes
  /\ IF CurAfterFirst >= Len(Text12)
     THEN Put(PackedOne(First), CurAfterFirst)
     ELSE Put(Packed(First, Second), CurAfterSecond)
  /\ UNCHANGED <<dvars, callVars, line>>

EndLine12 ==
  /\ at = "tail12" /\ cur >= Len(Text12)
  /\ at' = "line12" /\ line' = line + 1
  /\ UNCHANGED <<inputs, todo, posIn, posOut, strOut, high, read, callVars, cur, out, written>>

Return12 ==
  /\ at = "line12" /\ line = Len(lines)
  /\ at' = "encoded"
  /\ UNCHANGED <<inputs, todo, posIn, posOut, strOut, high, read, encVars>>

-----------------------------------------------------------------------------
(* compressBulkDP: a line as a whole, since a single code may only end it  *)

DPStream(text) ==
  LET dp == M12!BuildDP(map, text)
      next(p) == p + Len(M12!Meaning(map, dp[p].choice))
      from[p \in 1..Len(text) + 1] ==
        IF p > Len(text) THEN << >>
        ELSE IF next(p) > Len(text) THEN PackedOne(dp[p].choice)
        ELSE Packed(dp[p].choice, dp[next(p)].choice) \o from[next(next(p))]
  IN from[1]

DPLine ==
  /\ at = "line12" /\ line < Len(lines) /\ useDP
  /\ IF 2 * Len(Text12) + 3 > room - Written12
     THEN at' = "encoded" /\ UNCHANGED <<line, out, written>>
     ELSE /\ out' = Append(out, DPStream(Text12))
          /\ written' = Written12 + Len(DPStream(Text12))
          /\ line' = line + 1
          /\ UNCHANGED at
  /\ UNCHANGED <<inputs, todo, posIn, posOut, strOut, high, read, callVars, cur>>

-----------------------------------------------------------------------------
(* fsst_decompress                                                         *)

\* symbol[code] and len[code] of a decoder made of the encoder
Symbol12(code) == M12!Imported(M12!Exported(map), code)

\* any completed line, any buffer
Decompress ==
  /\ at = "encoded"
  /\ \E l \in 1..line, s \in Sizes :
       /\ strIn' = out[l] /\ cur' = l
       /\ size' = s
  /\ at' = "pairs"
  /\ UNCHANGED <<zeroTerminated, todo, posIn, posOut, strOut, high, read,
                 callVars, line, out, written>>

Pair12 ==
  LET codes == Unpacked(SubSeq(strIn, posIn + 1, posIn + 3))
  IN <<Symbol12(codes[1]), Symbol12(codes[2])>>

RoomForTwoWords == posOut + 2 * Word <= size

\* four bytes are read, and two words stored
StorePair ==
  /\ at = "pairs" /\ RoomForTwoWords /\ posIn + 4 < Len(strIn)
  /\ LET second == posOut + Len(Pair12[1]) IN
       /\ strOut' = Stored(Stored(strOut, posOut, Pair12[1]), second, Pair12[2])
       /\ posOut' = second + Len(Pair12[2])
       /\ high' = Max({high, posOut + Word, second + Word})
  /\ posIn' = posIn + 3
  /\ read' = Max({read, posIn + 4})
  /\ UNCHANGED <<inputs, at, todo, encVars>>

EndPairs ==
  /\ at = "pairs" /\ ~(RoomForTwoWords /\ posIn + 4 < Len(strIn))
  /\ at' = "aligned"
  /\ UNCHANGED <<inputs, todo, posIn, posOut, strOut, high, read, encVars>>

\* write_two_codes_aligned(): byte by byte, cut off at size
CopyPair ==
  /\ at = "aligned" /\ posIn + 4 < Len(strIn)
  /\ Copy(Pair12[1] \o Pair12[2], 3)
  /\ UNCHANGED <<inputs, at, todo, encVars>>

\* "The number of bytes left can be 0, 2 or 3": no, one or two codes
Tail12 ==
  LET left == Len(strIn) - posIn IN
  /\ at = "aligned" /\ posIn + 4 >= Len(strIn)
  /\ CASE left = 0 -> UNCHANGED <<posIn, posOut, strOut, high, read>>
       [] left = 2 -> Copy(Symbol12((strIn[posIn + 1] + 256 * strIn[posIn + 2]) % 4096), 2)
       [] left = 3 -> Copy(Pair12[1] \o Pair12[2], 3)
  /\ at' = "returned12"
  /\ UNCHANGED <<inputs, todo, encVars>>

Next12 ==
  \/ StartLine12 \/ FastPair \/ EndFast12
  \/ OutOfMemory \/ TailCodes \/ EndLine12 \/ Return12
  \/ DPLine
  \/ Decompress \/ StorePair \/ EndPairs \/ CopyPair \/ Tail12

Spec12 == Init12 /\ [][Next12]_vars12

-----------------------------------------------------------------------------
(* Properties                                                              *)

\* Words of four bytes are written, of which three count, and nothing goes
\* beyond the buffer; but a buffer of "conservative space (7+2*inputlength)
\* for the first string" is enough for that string, by either encoder.
Room12 ==
  /\ written <= room
  /\ at = "encoded" /\ lines # << >> /\ room >= 7 + 2 * Len(lines[1]) => line > 0

\* the number of codes of the shortest parse: the least number of steps
\* from the start of the text to its end
FewestCodes(text) ==
  LET ends(p) == {p + Len(s) : s \in {t \in Range(map.symbols) :
                    M12!StartsWith(SubSeq(text, p + 1, Len(text)), t)}} \cup {p + 1}
      reach[n \in 0..Len(text)] ==
        IF n = 0 THEN {0} ELSE (UNION {ends(p) : p \in reach[n - 1]}) \cap (0..Len(text))
  IN Min({n \in 0..Len(text) : Len(text) \in reach[n]})

\* Whoever encoded it, a completed line comes back, as far as it fits, and
\* its full length; its stream ends with no, one or two codes, so that the
\* decoder does not run into its assertion; and the DP takes no more codes
\* than any parse needs.
LinesComeBack12 ==
  /\ at = "aligned" /\ posIn + 4 >= Len(strIn) => Len(strIn) - posIn \in {0, 2, 3}
  /\ at = "returned12" =>
       /\ posOut = Len(lines[cur])
       /\ \A i \in 1..Min({posOut, size}) : strOut[i - 1] = lines[cur][i]
  /\ useDP => \A l \in 1..line : Len(out[l]) = (3 * FewestCodes(lines[l]) + 1) \div 2

=============================================================================
