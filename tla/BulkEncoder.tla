----------------------------- MODULE BulkEncoder -----------------------------
(***************************************************************************)
(* compressBulk() of libfsst.cpp, the scalar compression of a batch of     *)
(* lines with a final table, in its three variants (the opt parameter).    *)
(*                                                                         *)
(* Each line is compressed in chunks of at most ChunkMax bytes.  A chunk   *)
(* is copied into buf and followed by the terminator; behind it are the    *)
(* bytes that an earlier, longer chunk left there.  A step reads MaxLen    *)
(* bytes at cur without looking at end, and takes the longest symbol.      *)
(***************************************************************************)
EXTENDS SymbolTable, FsstCode

CONSTANTS
  ChunkMax,   \* the bytes of a chunk (511 in the code)
  Batches,    \* the batches of lines a caller may pass
  Sizes       \* the sizes of the output buffer

ASSUME BulkAssumption ==
  /\ ChunkMax \in Nat \ {0}
  /\ Batches \subseteq Seq(Seq(Byte)) /\ Sizes \subseteq Nat

Opts == {"noSuffixOpt", "avoidBranch", "plain"}

VARIABLES
  at,       \* "table" before the call, "line", "chunk", "code", "returned"
  opt,      \* the variant chosen
  batch,    \* strIn and lenIn
  size,     \* the size of the output buffer
  curOff,   \* how much of the current line was compressed
  buf, cur, end,   \* the copy of the chunk, the cursor and the end of it
  out,      \* the output of each line started
  pos,      \* how much of the output buffer the codes take
  high,     \* how far the output buffer was written
  count     \* the return value, -1 before

evars == <<at, opt, batch, size, curOff, buf, cur, end, out, pos, high, count>>
bvars == <<tvars, evars>>

EInit ==
  /\ Init
  /\ at = "table" /\ opt = "plain" /\ batch = << >> /\ size = 0
  /\ curOff = 0 /\ buf = [i \in 0..ChunkMax + MaxLen |-> 0]
  /\ cur = 0 /\ end = 0
  /\ out = << >> /\ pos = 0 /\ high = 0 /\ count = -1

Zeros(line) == {i \in 1..Len(line) : line[i] = 0}

\* With zeroTerminated the lines end with the only zero they contain.
Legal(line) == zeroTerminated = 1 => Zeros(line) = {Len(line)}

Line == batch[Len(out)]

Call ==
  /\ at = "table" /\ final
  /\ batch' \in {b \in Batches : \A l \in 1..Len(b) : Legal(b[l])}
  /\ opt' \in Opts
  /\ size' \in Sizes
  /\ at' = "line"
  /\ UNCHANGED <<curOff, buf, cur, end, out, pos, high, count, tvars>>

\* the head of the for loop
StartLine ==
  /\ at = "line"
  /\ Len(out) < Len(batch)
  /\ out' = Append(out, << >>)
  /\ curOff' = 0
  /\ at' = "chunk"
  /\ UNCHANGED <<opt, batch, size, buf, cur, end, pos, high, count, tvars>>

Return ==
  /\ at = "line"
  /\ Len(out) = Len(batch)
  /\ count' = Len(batch)
  /\ at' = "returned"
  /\ UNCHANGED <<opt, batch, size, curOff, buf, cur, end, out, pos, high, tvars>>

-----------------------------------------------------------------------------
(* the do loop: one chunk                                                  *)

Chunk == Min({Len(Line) - curOff, ChunkMax})

\* (mutant) forgets that an escape takes two bytes
HasTightRoom(chunk) == chunk <= size - pos

\* (mutant) always asks for the worst case of a full chunk
HasFullRoom(chunk) == 2 * ChunkMax + 7 <= size - pos

HasRoom(chunk) == 2 * chunk + 7 <= size - pos

NoRoom ==
  /\ at = "chunk"
  /\ ~HasRoom(Chunk)
  /\ count' = Len(out) - 1
  /\ at' = "returned"
  /\ UNCHANGED <<opt, batch, size, curOff, buf, cur, end, out, pos, high, tvars>>

\* (mutant) no sentinel
CopyBare(chunk) ==
  buf' = [i \in DOMAIN buf |-> IF i < chunk THEN Line[curOff + i + 1] ELSE buf[i]]

\* memcpy, and the terminator as a sentinel
Copy(chunk) ==
  buf' = [i \in DOMAIN buf |->
            IF i < chunk THEN Line[curOff + i + 1]
            ELSE IF i = chunk THEN terminator ELSE buf[i]]

BeginChunk ==
  /\ at = "chunk"
  /\ HasRoom(Chunk)
  /\ Copy(Chunk)
  /\ cur' = 0 /\ end' = Chunk
  /\ at' = "code"
  /\ UNCHANGED <<opt, batch, size, curOff, out, pos, high, count, tvars>>

EndChunk ==
  /\ at = "code"
  /\ cur >= end
  /\ IF curOff + end < Len(Line)
     THEN curOff' = curOff + end /\ at' = "chunk"
     ELSE UNCHANGED curOff /\ at' = "line"
  /\ UNCHANGED <<opt, batch, size, buf, cur, end, out, pos, high, count, tvars>>

-----------------------------------------------------------------------------
(* compressVariant: one code                                               *)

Word == [i \in 1..MaxLen |-> buf[cur + i - 1]]
U8(code) == code % 256

ByteLim == Len(symbols) + zeroTerminated - lenHisto[1]

Short == shortCodes[<<Word[1], Word[2]>>]
Hashed == hashTab[BucketOf(Word)]
Matched == Hashed # Free /\ StartsWith(Word, Hashed.str)

\* a code, and the byte it escapes if it is one of the escapes
CodeOf(code) == IF code >= CodeBase THEN <<U8(code), Word[1]>> ELSE <<U8(code)>>

\* what a step writes, and the bytes it consumes
NoSuffix == [codes |-> <<U8(Short.code)>>, used |-> 2]
Long == [codes |-> <<U8(Hashed.code)>>, used |-> Len(Hashed.str)]
Predicated == [codes |-> CodeOf(Short.code), used |-> Short.len]
Pair == [codes |-> <<U8(Short.code)>>, used |-> 2]
Single == [codes |-> CodeOf(Short.code), used |-> 1]

\* (mutant) the early out taken for every two-byte code
ChoiceTooEarly ==
  IF opt = "noSuffixOpt" /\ U8(Short.code) < ByteLim THEN NoSuffix
  ELSE IF Matched THEN Long
  ELSE IF opt = "avoidBranch" THEN Predicated
  ELSE IF U8(Short.code) < ByteLim THEN Pair
  ELSE Single

Choice ==
  IF opt = "noSuffixOpt" /\ U8(Short.code) < suffixLim THEN NoSuffix
  ELSE IF Matched THEN Long
  ELSE IF opt = "avoidBranch" THEN Predicated
  ELSE IF U8(Short.code) < ByteLim THEN Pair
  ELSE Single

\* the early out does not write the byte after the code in advance
Reach(c) == IF opt = "noSuffixOpt" /\ U8(Short.code) < suffixLim THEN 1 ELSE 2

Emit ==
  /\ at = "code"
  /\ cur < end
  /\ LET c == Choice IN
     /\ out' = [out EXCEPT ![Len(out)] = @ \o c.codes]
     /\ pos' = pos + Len(c.codes)
     /\ cur' = cur + c.used
     /\ high' = Max({high, pos + Reach(c)})
  /\ UNCHANGED <<at, opt, batch, size, curOff, buf, end, count, tvars>>

ENext ==
  \/ Next /\ UNCHANGED evars
  \/ Call
  \/ StartLine
  \/ Return
  \/ NoRoom
  \/ BeginChunk
  \/ EndChunk
  \/ Emit

ESpec == EInit /\ [][ENext]_bvars

Parser == INSTANCE GreedyParser WITH
  dict <- IF at = "table" THEN {} ELSE Listed,
  parse <- [l \in 1..Len(out) |-> Pieces(symbols, out[l])]

-----------------------------------------------------------------------------
(* Properties                                                              *)

\* Nothing is written behind the end of the output buffer, the byte that a
\* step writes in advance included; and the MaxLen bytes that it reads at the
\* cursor do not go beyond the spare bytes of buf.
WithinBuffer ==
  /\ high <= size
  /\ at = "code" /\ cur < end => cur + MaxLen - 1 \in DOMAIN buf

\* "at least conservative space (7+2*inputlength) for the first string for
\* something to happen" (fsst.h): a line is refused only if the buffer is
\* smaller than that for the lines up to it.
ConservativeSpace ==
  at = "returned" /\ count < Len(batch) =>
    size < 7 + 2 * Len(FlattenSeq(SubSeq(batch, 1, count + 1)))

\* All three variants cut every line into the same greedy parse, chunk by
\* chunk, so that what they write stands for the line and is as short as a
\* greedy parse can be; neither the sentinel nor the bytes an earlier chunk
\* left behind it ever become part of a symbol.
IsGreedyParser == Parser!PSpec

=============================================================================
