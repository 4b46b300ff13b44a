-------------------------- MODULE BulkEncoderProofs --------------------------
(* Proofs about BulkEncoder for all tables, lines, sizes and variants: the  *)
(* room that is asked for a chunk is enough for its codes and for the byte  *)
(* that is written in advance, no load goes beyond buf, what is written is  *)
(* the greedy parse of the lines, and the documented space is enough.       *)
EXTENDS BulkEncoder, SymbolTableProofs

\* What the slots that a step looks at are good for, in a final table too,
\* where only the codes are different.
SlotsInv ==
  /\ IndexInv
  /\ terminator \in Byte
  /\ \A p \in Byte \X Byte : shortCodes[p].len \in 1..2
  /\ \A k \in Buckets : hashTab[k] = Free \/ Len(hashTab[k].str) \in Nat \ {0}

CursorTypes ==
  /\ batch \in Seq(Seq(Byte)) /\ size \in Nat
  /\ \E T : out \in Seq(T)
  /\ buf \in [0..ChunkMax + MaxLen -> Byte]
  /\ cur \in Nat /\ end \in 0..ChunkMax /\ curOff \in Nat
  /\ pos \in Nat /\ high \in Nat

\* the line in which the encoder is
LineInv ==
  /\ at \in {"chunk", "code"} => Len(out) \in 1..Len(batch)
  /\ at = "chunk" => curOff <= Len(batch[Len(out)])
  /\ at = "code" => curOff + end <= Len(batch[Len(out)])

\* What was asked for a chunk is spent two bytes for one: there is room for
\* the worst case of the rest of it, and seven bytes more.
RoomInv ==
  /\ at = "code" => pos + 7 <= size
  /\ at = "code" /\ cur < end => pos + 2 * (end - cur) + 7 <= size
  /\ high <= size
  /\ at = "table" => high = 0

BulkInv == SlotsInv /\ CursorTypes /\ LineInv /\ RoomInv

\* What the assumptions on the constants say.
LEMMA BulkConstants ==
  /\ ChunkMax \in Nat \ {0} /\ MaxLen \in Nat \ {0}
  /\ \A b \in Batches : b \in Seq(Seq(Byte))
  /\ \A n \in Sizes : n \in Nat
BY BulkAssumption, SizeAssumption

\* The greater of two numbers.
LEMMA GreaterOfTwo ==
  ASSUME NEW a \in Int, NEW b \in Int
  PROVE  Max({a, b}) = IF a >= b THEN a ELSE b
<1>1. \E x \in {a, b} : \A y \in {a, b} : x >= y
  OBVIOUS
<1>2. Max({a, b}) \in {a, b} /\ \A y \in {a, b} : Max({a, b}) >= y
  BY <1>1 DEF Max
<1> QED
  BY <1>2

\* A step that writes at most two bytes for at least one.
LEMMA RoomSpent ==
  ASSUME NEW p \in Nat, NEW c \in Nat, NEW e \in Nat, NEW s \in Nat, NEW q \in Nat, NEW d \in Nat,
         c < e, p + 2 * (e - c) + 7 <= s, q <= p + 2, d >= c + 1
  PROVE  q + 7 <= s /\ (d < e => q + 2 * (e - d) + 7 <= s)
<1>1. q + 2 * (e - c) + 5 <= s
  OBVIOUS
<1>2. e - c >= 1 /\ e - d <= (e - c) - 1
  OBVIOUS
<1> QED
  BY <1>1, <1>2

\* The lengths in the slots are those of the strings they were made for.
LEMMA SlotsOfTraining ==
  ASSUME IndexInv, ~final
  PROVE  SlotsInv
<1>1. TrainingTypes
  BY DEF IndexInv
<1>2. \A p \in Byte \X Byte : shortCodes[p].len \in 1..2
  BY <1>1 DEF TrainingTypes, CodeWord
<1>3. \A k \in Buckets : hashTab[k] = Free \/ Len(hashTab[k].str) \in Nat \ {0}
  <2> SUFFICES ASSUME NEW k \in Buckets, hashTab[k] # Free
               PROVE  Len(hashTab[k].str) \in Nat \ {0}
    OBVIOUS
  <2>1. hashTab[k].str \in Strings
    BY <1>1 DEF TrainingTypes, Entry
  <2> QED
    BY <2>1, StringFacts, SizeAssumption
<1> QED
  BY <1>1, <1>2, <1>3 DEF SlotsInv, TrainingTypes

\* finalize() changes the codes and leaves the strings in their slots.
LEMMA SlotsOfFinal ==
  ASSUME SlotsInv, Finalize
  PROVE  SlotsInv'
<1>1. TrainingTypes /\ ~final /\ final' /\ terminator' = terminator
  BY DEF SlotsInv, IndexInv, Finalize
<1>2. IndexInv'
  BY <1>1 DEF IndexInv
<1>3. \A w : Renumber(w) = [w EXCEPT !.code = NewCode(IndexOf(w.code))]
  BY DEF Renumber
<1> DEFINE newBytes == [b \in Byte |->
             IF byteCodes[b].code >= CodeBase THEN Renumber(byteCodes[b]) ELSE NoCode]
<1>4. \A w \in CodeWord : Renumber(w).len = w.len /\ w.len \in 1..2
  BY <1>3 DEF CodeWord
<1>5. \A b \in Byte : newBytes[b].len \in 1..2
  BY <1>1, <1>4 DEF TrainingTypes, NoCode
<1>6. \A p \in Byte \X Byte : shortCodes'[p].len \in 1..2
  <2> SUFFICES ASSUME NEW p \in Byte \X Byte PROVE shortCodes'[p].len \in 1..2
    OBVIOUS
  <2>1. shortCodes'[p] = IF shortCodes[p].code >= CodeBase
                         THEN Renumber(shortCodes[p]) ELSE newBytes[p[1]]
    BY DEF Finalize
  <2>2. shortCodes[p] \in CodeWord /\ p[1] \in Byte
    BY <1>1 DEF TrainingTypes
  <2> HIDE DEF newBytes
  <2> QED
    BY <2>1, <2>2, <1>4, <1>5
<1>7. \A k \in Buckets : hashTab'[k] = Free \/ Len(hashTab'[k].str) \in Nat \ {0}
  <2> SUFFICES ASSUME NEW k \in Buckets, hashTab[k] # Free
               PROVE  Len(hashTab'[k].str) \in Nat \ {0}
    BY DEF Finalize
  <2>1. hashTab'[k] = Renumber(hashTab[k])
    BY DEF Finalize
  <2>2. hashTab[k] \in [str : Strings, code : 0..CodeMask]
    BY <1>1 DEF TrainingTypes, Entry
  <2>3. hashTab'[k].str = hashTab[k].str
    BY <2>1, <2>2, <1>3
  <2> QED
    BY <2>3 DEF SlotsInv
<1> QED
  BY <1>1, <1>2, <1>6, <1>7 DEF SlotsInv

\* What a step of the table leaves of it.
LEMMA SlotsStep ==
  ASSUME SlotsInv, [Next]_tvars
  PROVE  SlotsInv'
<1>1. CASE Finalize
  BY <1>1, SlotsOfFinal
<1>2. CASE UNCHANGED tvars
  BY <1>2, IndexStep DEF SlotsInv, tvars, indexes, modes
<1>3. CASE Clear \/ \E s \in Candidates \cup {<<terminator>>} : Add(s)
  <2>1. ~final'
    BY <1>3 DEF Clear, Add, Insert, modes
  <2>2. IndexInv'
    BY IndexStep DEF SlotsInv
  <2>3. TrainingTypes'
    BY <2>1, <2>2 DEF IndexInv
  <2>4. \A p \in Byte \X Byte : shortCodes'[p].len \in 1..2
    BY <2>3 DEF TrainingTypes, CodeWord
  <2>5. \A k \in Buckets : hashTab'[k] = Free \/ Len(hashTab'[k].str) \in Nat \ {0}
    <3> SUFFICES ASSUME NEW k \in Buckets, hashTab'[k] # Free
                 PROVE  Len(hashTab'[k].str) \in Nat \ {0}
      OBVIOUS
    <3>1. hashTab'[k].str \in Strings
      BY <2>3 DEF TrainingTypes, Entry
    <3> QED
      BY <3>1, StringFacts, SizeAssumption
  <2> QED
    BY <2>2, <2>3, <2>4, <2>5 DEF SlotsInv, TrainingTypes
<1> QED
  BY <1>1, <1>2, <1>3 DEF Next

\* A step of the loop consumes at least one byte of the chunk and writes
\* one or two bytes.
LEMMA ChoiceFacts ==
  ASSUME SlotsInv, CursorTypes, cur < end
  PROVE  /\ Choice.used \in Nat \ {0}
         /\ Len(Choice.codes) \in 1..2
         /\ Reach(Choice) \in 1..2
<1>1. Word \in Strings /\ Word[1] \in Byte /\ Word[2] \in Byte
  <2>1. \A i \in 1..MaxLen : cur + i - 1 \in 0..ChunkMax + MaxLen
    BY BulkConstants DEF CursorTypes
  <2>2. Word \in [1..MaxLen -> Byte]
    BY <2>1 DEF Word, CursorTypes
  <2>3. MaxLen \in 1..MaxLen /\ 1 \in 1..MaxLen /\ 2 \in 1..MaxLen
    BY SizeAssumption
  <2> QED
    BY <2>2, <2>3 DEF Strings
<1>2. Short.len \in 1..2
  BY <1>1 DEF Short, SlotsInv
<1>3. BucketOf(Word) \in Buckets
  BY <1>1, KeyFacts
<1>4. Matched => Len(Hashed.str) \in Nat \ {0}
  BY <1>3 DEF Matched, Hashed, SlotsInv
<1>5. \A x, y : Len(<<x>>) = 1 /\ Len(<<x, y>>) = 2
  OBVIOUS
<1>6. \A code : Len(CodeOf(code)) \in 1..2
  BY <1>5 DEF CodeOf
<1>7. /\ NoSuffix.used = 2 /\ Pair.used = 2 /\ Single.used = 1
      /\ Predicated.used = Short.len /\ Long.used = Len(Hashed.str)
  BY DEF NoSuffix, Pair, Single, Predicated, Long
<1>8. \A c \in {NoSuffix, Pair, Single, Predicated, Long} : Len(c.codes) \in 1..2
  BY <1>5, <1>6 DEF NoSuffix, Pair, Single, Predicated, Long
<1>9. /\ Choice \in {NoSuffix, Pair, Single, Predicated, Long}
      /\ Choice = Long => Matched \/ Choice \in {NoSuffix, Pair, Single, Predicated}
  BY DEF Choice
<1>10. Reach(Choice) \in 1..2
  BY DEF Reach
<1>11. Choice.used \in Nat \ {0}
  BY <1>2, <1>4, <1>7, <1>9
<1> QED
  BY <1>8, <1>9, <1>10, <1>11

\* A chunk is what is left of the line, or as much as buf takes.
LEMMA ChunkFits ==
  ASSUME CursorTypes, LineInv, at = "chunk"
  PROVE  /\ Line \in Seq(Byte)
         /\ Chunk \in 0..ChunkMax /\ curOff + Chunk <= Len(Line)
<1>1. Line \in Seq(Byte)
  BY ElementOfSeq DEF Line, CursorTypes, LineInv
<1>2. Len(Line) \in Nat /\ curOff \in Nat /\ curOff <= Len(Line)
  BY <1>1 DEF Line, CursorTypes, LineInv
<1>3. Chunk = IF Len(Line) - curOff <= ChunkMax THEN Len(Line) - curOff ELSE ChunkMax
  BY <1>2, BulkConstants, LesserOfTwo DEF Chunk
<1> QED
  BY <1>1, <1>2, <1>3, BulkConstants

\* The invariant behind the buffers: it holds at first, and each step keeps it.
LEMMA BulkInitial == EInit => BulkInv
<1> SUFFICES ASSUME EInit PROVE BulkInv
  OBVIOUS
<1>1. SlotsInv
  <2>1. IndexInv /\ ~final
    BY InitIndex DEF EInit, Init
  <2> QED
    BY <2>1, SlotsOfTraining
<1>2. CursorTypes
  <2>1. << >> \in Seq(Seq(Byte))
    BY EmptySeq
  <2>2. 0 \in Byte
    BY ByteAssumption
  <2>3. \E T : out \in Seq(T)
    BY <2>1 DEF EInit
  <2> QED
    BY <2>1, <2>2, <2>3, BulkConstants DEF EInit, CursorTypes
<1>3. LineInv /\ RoomInv
  BY DEF EInit, LineInv, RoomInv
<1> QED
  BY <1>1, <1>2, <1>3 DEF BulkInv

LEMMA BulkStep == BulkInv /\ [ENext]_bvars => BulkInv'
<1> SUFFICES ASSUME BulkInv, [ENext]_bvars PROVE BulkInv'
  OBVIOUS
<1>0. SlotsInv /\ CursorTypes /\ LineInv /\ RoomInv
  BY DEF BulkInv
<1>a. SlotsInv'
  <2>1. [Next]_tvars
    BY DEF ENext, bvars, Call, StartLine, Return, NoRoom, BeginChunk, EndChunk, Emit
  <2> QED
    BY <2>1, <1>0, SlotsStep
<1>1. CASE (Next /\ UNCHANGED evars) \/ UNCHANGED bvars
  <2>1. UNCHANGED <<at, batch, size, curOff, buf, cur, end, out, pos, high>>
    BY <1>1 DEF evars, bvars
  <2> QED
    BY <1>0, <1>a, <2>1 DEF BulkInv, CursorTypes, LineInv, RoomInv
<1>2. CASE Call
  <2>1. /\ batch' \in Batches /\ size' \in Sizes
        /\ UNCHANGED <<curOff, buf, cur, end, out, pos, high>>
        /\ at = "table" /\ at' = "line"
    BY <1>2 DEF Call
  <2>2. high <= size'
    BY <1>0, <2>1, BulkConstants DEF RoomInv
  <2> QED
    BY <1>0, <1>a, <2>1, <2>2, BulkConstants DEF BulkInv, CursorTypes, LineInv, RoomInv
<1>3. CASE StartLine
  <2>1. /\ UNCHANGED <<batch, size, buf, cur, end, pos, high>>
        /\ at = "line" /\ at' = "chunk" /\ curOff' = 0
        /\ out' = Append(out, << >>) /\ Len(out) < Len(batch)
    BY <1>3 DEF StartLine
  <2>2. PICK T : out \in Seq(T)
    BY <1>0 DEF CursorTypes
  <2> DEFINE T2 == T \cup {<< >>}
  <2>3. out \in Seq(T2) /\ << >> \in T2
    BY <2>2
  <2>4. out' \in Seq(T2) /\ Len(out') = Len(out) + 1 /\ Len(out) \in Nat
    BY <2>1, <2>3, AppendProperties
  <2> HIDE DEF T2
  <2>5. CursorTypes'
    BY <1>0, <2>1, <2>4 DEF CursorTypes
  <2>6. Len(out') \in 1..Len(batch)
    BY <1>0, <2>1, <2>4 DEF CursorTypes
  <2>7. Len(batch[Len(out')]) \in Nat
    BY <1>0, <2>6, ElementOfSeq DEF CursorTypes
  <2> QED
    BY <1>0, <1>a, <2>1, <2>5, <2>6, <2>7 DEF BulkInv, LineInv, RoomInv
<1>4. CASE Return \/ NoRoom
  <2>1. /\ UNCHANGED <<batch, size, curOff, buf, cur, end, out, pos, high>>
        /\ at' = "returned"
    BY <1>4 DEF Return, NoRoom
  <2> QED
    BY <1>0, <1>a, <2>1 DEF BulkInv, CursorTypes, LineInv, RoomInv
<1>5. CASE BeginChunk
  <2>1. /\ UNCHANGED <<batch, size, curOff, out, pos, high>>
        /\ at = "chunk" /\ at' = "code" /\ cur' = 0 /\ end' = Chunk
        /\ HasRoom(Chunk) /\ Copy(Chunk)
    BY <1>5 DEF BeginChunk
  <2>2. Line \in Seq(Byte) /\ Chunk \in 0..ChunkMax /\ curOff + Chunk <= Len(Line)
    BY <1>0, <2>1, ChunkFits
  <2> DEFINE chunk == Chunk
  <2>3. buf' \in [0..ChunkMax + MaxLen -> Byte]
    <3>1. terminator \in Byte /\ DOMAIN buf = 0..ChunkMax + MaxLen
      BY <1>0 DEF SlotsInv, CursorTypes
    <3>2. \A i \in 0..ChunkMax + MaxLen : i < chunk => Line[curOff + i + 1] \in Byte
      <4> SUFFICES ASSUME NEW i \in 0..ChunkMax + MaxLen, i < chunk
                   PROVE  Line[curOff + i + 1] \in Byte
        OBVIOUS
      <4>1. curOff + i + 1 \in 1..Len(Line)
        BY <1>0, <2>2 DEF CursorTypes
      <4> QED
        BY <2>2, <4>1, ElementOfSeq
    <3>3. buf' = [i \in 0..ChunkMax + MaxLen |->
                    IF i < chunk THEN Line[curOff + i + 1]
                    ELSE IF i = chunk THEN terminator ELSE buf[i]]
      BY <2>1, <3>1 DEF Copy
    <3> HIDE DEF chunk
    <3> QED
      BY <1>0, <3>1, <3>2, <3>3 DEF CursorTypes
  <2>4. CursorTypes'
    BY <1>0, <2>1, <2>2, <2>3 DEF CursorTypes
  <2>5. LineInv'
    BY <1>0, <2>1, <2>2 DEF LineInv, Line
  <2>6. RoomInv'
    <3>1. 2 * chunk + 7 <= size - pos /\ chunk \in Nat /\ size \in Nat /\ pos \in Nat
      BY <1>0, <2>1, <2>2, BulkConstants DEF HasRoom, CursorTypes
    <3>2. cur' = 0 /\ end' = chunk /\ pos' = pos /\ size' = size /\ high' = high
      BY <2>1
    <3> HIDE DEF chunk
    <3>3. pos' + 7 <= size' /\ pos' + 2 * (end' - cur') + 7 <= size'
      BY <3>1, <3>2
    <3> QED
      BY <1>0, <2>1, <3>2, <3>3 DEF RoomInv
  <2> QED
    BY <1>a, <2>4, <2>5, <2>6 DEF BulkInv
<1>6. CASE EndChunk
  <2>1. /\ UNCHANGED <<batch, size, buf, cur, end, out, pos, high>>
        /\ at = "code"
        /\ \/ at' = "chunk" /\ curOff' = curOff + end
           \/ at' = "line" /\ curOff' = curOff
    BY <1>6 DEF EndChunk
  <2>2. curOff' \in Nat
    BY <1>0, <2>1, BulkConstants DEF CursorTypes
  <2> QED
    BY <1>0, <1>a, <2>1, <2>2 DEF BulkInv, CursorTypes, LineInv, RoomInv
<1>7. CASE Emit
  <2> DEFINE c == Choice
  <2>1. /\ UNCHANGED <<at, batch, size, curOff, buf, end>>
        /\ at = "code" /\ cur < end
        /\ out' = [out EXCEPT ![Len(out)] = @ \o c.codes]
        /\ pos' = pos + Len(c.codes) /\ cur' = cur + c.used
        /\ high' = Max({high, pos + Reach(c)})
    BY <1>7 DEF Emit
  <2>2. c.used \in Nat \ {0} /\ Len(c.codes) \in 1..2 /\ Reach(c) \in 1..2
    BY <1>0, <2>1, ChoiceFacts
  <2> HIDE DEF c
  <2>3. /\ cur \in Nat /\ end \in Nat /\ pos \in Nat /\ high \in Nat /\ size \in Nat
        /\ pos + 2 * (end - cur) + 7 <= size /\ high <= size
    BY <1>0, <2>1, BulkConstants DEF CursorTypes, RoomInv
  <2>4. /\ pos' \in Nat /\ cur' \in Nat /\ pos' <= pos + 2 /\ cur' >= cur + 1
    <3>1. PICK n \in 1..2 : pos' = pos + n
      BY <2>1, <2>2
    <3>2. PICK used \in Nat \ {0} : cur' = cur + used
      BY <2>1, <2>2
    <3> QED
      BY <3>1, <3>2, <2>3
  <2>5. high' \in Nat /\ high' <= size
    <3>1. high' = IF high >= pos + Reach(c) THEN high ELSE pos + Reach(c)
      BY <2>1, <2>2, <2>3, GreaterOfTwo
    <3> QED
      BY <3>1, <2>1, <2>2, <2>3
  <2>6. (\E T : out' \in Seq(T)) /\ Len(out') = Len(out)
    <3>1. PICK T : out \in Seq(T)
      BY <1>0 DEF CursorTypes
    <3> DEFINE e == out[Len(out)] \o c.codes
               T2 == T \cup {e}
    <3> HIDE DEF e
    <3>2. out \in Seq(T2) /\ e \in T2
      BY <3>1
    <3>3. Len(out) \in 1..Len(out)
      BY <1>0, <2>1 DEF LineInv
    <3>4. out' = [out EXCEPT ![Len(out)] = e]
      BY <2>1 DEF e
    <3> HIDE DEF T2
    <3> QED
      BY <3>2, <3>3, <3>4, ExceptSeq
  <2>7. CursorTypes'
    BY <1>0, <2>1, <2>4, <2>5, <2>6 DEF CursorTypes
  <2>8. LineInv'
    BY <1>0, <2>1, <2>6 DEF LineInv
  <2>9. RoomInv'
    <3>1. pos' + 7 <= size' /\ (cur' < end' => pos' + 2 * (end' - cur') + 7 <= size')
      <4>1. end' = end /\ size' = size /\ cur < end
        BY <2>1
      <4> QED
        BY <4>1, <2>3, <2>4, RoomSpent
    <3> QED
      BY <2>1, <2>5, <3>1 DEF RoomInv
  <2> QED
    BY <1>a, <2>7, <2>8, <2>9 DEF BulkInv
<1> QED
  BY <1>1, <1>2, <1>3, <1>4, <1>5, <1>6, <1>7 DEF ENext

\* For every table and all lines, in each variant: nothing is written behind
\* the end of the output buffer, and no load goes beyond buf.
THEOREM StaysWithinBuffer == ESpec => []WithinBuffer
<1>1. BulkInv => WithinBuffer
  <2> SUFFICES ASSUME BulkInv, at = "code", cur < end PROVE cur + MaxLen - 1 \in DOMAIN buf
    BY DEF BulkInv, RoomInv, WithinBuffer
  <2>1. /\ DOMAIN buf = 0..ChunkMax + MaxLen
        /\ cur \in Nat /\ end \in 0..ChunkMax
    BY DEF BulkInv, CursorTypes
  <2> QED
    BY <2>1, BulkConstants
<1> QED
  BY <1>1, BulkInitial, BulkStep, PTL DEF ESpec

-----------------------------------------------------------------------------
(* Each step makes the greedy choice, whatever the variant                 *)

\* The greedy choice for the word w: k bytes of it are the longest string of
\* the table that begins it, or one byte.
Greedy(w, k) ==
  /\ k \in 1..MaxLen
  /\ k = 1 \/ SubSeq(w, 1, k) \in Listed
  /\ \A n \in 1..MaxLen : n > k => SubSeq(w, 1, n) \notin Listed

\* codes stands for the first k bytes of w
Stands(codes, w, k) ==
  /\ codes \in Seq(0..255) /\ Len(codes) \in 1..2 /\ AfterCode(codes, 1) = Len(codes) + 1
  /\ PieceAt(symbols, codes, 1) = [str |-> SubSeq(w, 1, k), escaped |-> SubSeq(w, 1, k) \notin Listed]

\* The first bytes of the word.
LEMMA WordPrefix ==
  ASSUME NEW w \in [1..MaxLen -> Byte], NEW n \in 1..MaxLen
  PROVE  /\ SubSeq(w, 1, n) \in Seq(Byte) /\ Len(SubSeq(w, 1, n)) = n
         /\ \A i \in 1..n : SubSeq(w, 1, n)[i] = w[i]
<1>1. w \in Seq(Byte) /\ Len(w) = MaxLen /\ MaxLen \in Nat
  BY SizeAssumption
<1> QED BY <1>1

\* A string begins the word when it is the part of it with its length.
LEMMA WordStarts ==
  ASSUME NEW w \in [1..MaxLen -> Byte], NEW s \in Strings
  PROVE  StartsWith(w, s) <=> s = SubSeq(w, 1, Len(s))
<1>1. s \in Seq(Byte) /\ Len(s) \in 1..MaxLen
  BY StringFacts
<1>2. w \in Seq(Byte) /\ Len(w) = MaxLen /\ MaxLen \in Nat
  BY SizeAssumption
<1> DEFINE n == Len(s)
           p == SubSeq(w, 1, n)
<1>3. p \in Seq(Byte) /\ Len(p) = n /\ \A i \in 1..n : p[i] = w[i]
  BY <1>1, WordPrefix
<1> HIDE DEF p
<1>4. n <= Len(w) /\ n \in Nat
  BY <1>1, <1>2
<1>5. ASSUME StartsWith(w, s) PROVE s = p
  <2>1. \A i \in 1..n : s[i] = p[i]
    BY <1>3, <1>5 DEF StartsWith
  <2> QED BY <1>1, <1>3, <1>4, <2>1
<1>6. ASSUME s = p PROVE StartsWith(w, s)
  BY <1>3, <1>4, <1>6 DEF StartsWith
<1> QED BY <1>5, <1>6 DEF p

\* The index of the first two bytes.
LEMMA TwoPrefixes ==
  ASSUME NEW w \in [1..MaxLen -> Byte]
  PROVE  SubSeq(w, 1, 1) = <<w[1]>> /\ SubSeq(w, 1, 2) = <<w[1], w[2]>> /\ w[1] \in Byte /\ w[2] \in Byte
<1>1. w \in Seq(Byte) /\ Len(w) = MaxLen /\ MaxLen \in Nat /\ MaxLen >= 3
  BY SizeAssumption
<1>2. 1 \in 1..MaxLen /\ 2 \in 1..MaxLen
  BY <1>1
<1>3. w[1] \in Byte /\ w[2] \in Byte
  BY <1>2
<1> DEFINE a == SubSeq(w, 1, 1)
           b == SubSeq(w, 1, 2)
<1>4. /\ a \in Seq(Byte) /\ Len(a) = 1 /\ a[1] = w[1]
      /\ b \in Seq(Byte) /\ Len(b) = 2 /\ b[1] = w[1] /\ b[2] = w[2]
  BY <1>2, WordPrefix
<1> HIDE DEF a, b
<1>5. a = <<w[1]>> /\ b = <<w[1], w[2]>>
  BY <1>4
<1> QED BY <1>3, <1>5 DEF a, b

\* The facts about a final table that a probe needs.
LEMMA FinalFacts ==
  ASSUME FinalTable, final
  PROVE  /\ symbols \in Seq(Strings) /\ Len(symbols) \in 1..255
         /\ FinalSlots /\ FinalIndex /\ FinalLimits
         /\ \A i \in 1..Len(symbols) : Len(symbols[i]) > 1 =>
              \A j \in 1..Len(symbols[i]) : symbols[i][j] # terminator
         /\ terminator \in Byte /\ zeroTerminated \in {0, 1}
         /\ (zeroTerminated = 1 => terminator = 0 /\ symbols[1] = <<0>>)
         /\ \A s \in Listed : s \in Strings /\ \E c \in 1..Len(symbols) : symbols[c] = s
         /\ \A c \in 1..Len(symbols) : symbols[c] \in Strings /\ symbols[c] \in Listed
BY DEF FinalTable, Listed

\* A code of a listed string stands for it.
LEMMA CodeStands ==
  ASSUME FinalTable, final, NEW w \in [1..MaxLen -> Byte], NEW k \in 1..MaxLen,
         NEW c \in 1..Len(symbols), symbols[c] = SubSeq(w, 1, k)
  PROVE  Stands(<<c - 1>>, w, k) /\ SubSeq(w, 1, k) \in Listed
<1>1. Len(symbols) \in 1..255 /\ symbols[c] \in Listed
  BY FinalFacts
<1>2. PICK d \in 0..255 : d = c - 1 /\ d # Esc /\ d + 1 = c
  <2>0. \A n, x \in Int : n <= 255 /\ x >= 1 /\ x <= n => x - 1 \in 0..255 /\ x - 1 # 255 /\ (x - 1) + 1 = x
    OBVIOUS
  <2> DEFINE n == Len(symbols)
  <2>a. n \in 1..255 /\ c \in 1..n
    BY <1>1
  <2> HIDE DEF n
  <2>b. n \in Int /\ n <= 255 /\ c \in Int /\ c >= 1 /\ c <= n
    BY <2>a
  <2>1. c - 1 \in 0..255 /\ c - 1 # 255 /\ (c - 1) + 1 = c
    BY <2>0, <2>b
  <2>3. PICK d \in 0..255 : d = c - 1
    BY <2>1
  <2> QED BY <2>1, <2>3 DEF Esc
<1>3. AfterCode(<<d>>, 1) = 2 /\ Len(<<d>>) = 1 /\ <<d>> \in Seq(0..255) /\ <<d>>[1] = d
  BY <1>2 DEF AfterCode
<1>4. PieceAt(symbols, <<d>>, 1) = [str |-> symbols[c], escaped |-> FALSE]
  BY <1>2, <1>3 DEF PieceAt
<1>5. SubSeq(w, 1, k) \in Listed
  BY <1>1
<1> HIDE DEF Listed
<1>6. (SubSeq(w, 1, k) \notin Listed) = FALSE
  BY <1>5
<1>7. PieceAt(symbols, <<d>>, 1) = [str |-> SubSeq(w, 1, k), escaped |-> SubSeq(w, 1, k) \notin Listed]
  BY <1>4, <1>6, Zenon
<1>8. Stands(<<d>>, w, k)
  BY <1>3, <1>7 DEF Stands
<1> QED BY <1>2, <1>5, <1>8

\* An escape stands for a byte that is not listed.
LEMMA EscapeStands ==
  ASSUME NEW w \in [1..MaxLen -> Byte], SubSeq(w, 1, 1) \notin Listed
  PROVE  Stands(<<255, w[1]>>, w, 1)
<1> DEFINE b == w[1]
           codes == <<255, b>>
<1>1. SubSeq(w, 1, 1) = <<b>> /\ b \in 0..255
  BY TwoPrefixes, ByteAssumption
<1> HIDE DEF b
<1>2. codes \in Seq(0..255) /\ Len(codes) = 2 /\ codes[1] = Esc /\ codes[2] = b
  <2>1. \A x : <<255, x>>[1] = 255 /\ <<255, x>>[2] = x /\ Len(<<255, x>>) = 2
    OBVIOUS
  <2>2. codes \in Seq(0..255)
    BY <1>1
  <2> QED BY <2>1, <2>2 DEF Esc
<1> HIDE DEF codes
<1>3. AfterCode(codes, 1) = 3 /\ PieceAt(symbols, codes, 1) = [str |-> <<b>>, escaped |-> TRUE]
  <2>1. codes[1] = Esc /\ codes[1 + 1] = b /\ 1 + 2 = 3
    BY <1>2
  <2>2. AfterCode(codes, 1) = 3
    BY <2>1 DEF AfterCode
  <2>3. PieceAt(symbols, codes, 1) = [str |-> <<codes[1 + 1]>>, escaped |-> TRUE]
    BY <2>1 DEF PieceAt
  <2> QED BY <2>1, <2>2, <2>3
<1>4. (SubSeq(w, 1, 1) \notin Listed) = TRUE
  OBVIOUS
<1>5. PieceAt(symbols, codes, 1) = [str |-> SubSeq(w, 1, 1), escaped |-> SubSeq(w, 1, 1) \notin Listed]
  BY <1>1, <1>3, <1>4, Zenon
<1>6. Stands(codes, w, 1)
  BY <1>2, <1>3, <1>5 DEF Stands
<1> QED BY <1>6 DEF codes, b

\* No string of several bytes begins with the terminator.
LEMMA TerminatorAlone ==
  ASSUME FinalTable, final, NEW w \in [1..MaxLen -> Byte], w[1] = terminator,
         NEW n \in 1..MaxLen, n > 1
  PROVE  SubSeq(w, 1, n) \notin Listed
<1> SUFFICES ASSUME SubSeq(w, 1, n) \in Listed PROVE FALSE
  OBVIOUS
<1>1. PICK c \in 1..Len(symbols) : symbols[c] = SubSeq(w, 1, n)
  BY FinalFacts
<1>2. n \in Nat /\ 1 \in 1..n
  BY SizeAssumption
<1>3. Len(symbols[c]) = n /\ symbols[c][1] = terminator
  BY <1>1, <1>2, WordPrefix
<1>4. Len(symbols[c]) > 1 /\ 1 \in 1..Len(symbols[c])
  BY <1>2, <1>3
<1>5. \A j \in 1..Len(symbols[c]) : symbols[c][j] # terminator
  BY <1>4, FinalFacts
<1> QED BY <1>3, <1>4, <1>5

\* A listed string of more than two bytes that begins the word is the one in
\* the bucket of the word.
LEMMA LongIsHashed ==
  ASSUME FinalTable, final, NEW w \in [1..MaxLen -> Byte],
         NEW n \in 1..MaxLen, n > 2, SubSeq(w, 1, n) \in Listed
  PROVE  /\ hashTab[BucketOf(w)] # Free
         /\ hashTab[BucketOf(w)].str = SubSeq(w, 1, n)
         /\ StartsWith(w, hashTab[BucketOf(w)].str)
<1> DEFINE s == SubSeq(w, 1, n)
<1>1. PICK c \in 1..Len(symbols) : symbols[c] = s /\ s \in Strings
  BY FinalFacts
<1>2. Len(s) = n
  BY WordPrefix
<1>3. w \in Strings
  BY SizeAssumption DEF Strings
<1> HIDE DEF s
<1>4. StartsWith(w, s)
  BY <1>1, <1>2, WordStarts DEF s
<1>5. BucketOf(s) = BucketOf(w)
  BY <1>1, <1>2, <1>3, <1>4, SameBucket
<1>6. FinalIndex /\ Len(symbols[c]) > 2
  BY <1>1, <1>2, FinalFacts
<1>7. hashTab[BucketOf(s)] = [str |-> s, code |-> c - 1]
  BY <1>1, <1>6 DEF FinalIndex
<1>8. s # << >>
  BY <1>1, StringFacts
<1>9. hashTab[BucketOf(w)].str = s /\ hashTab[BucketOf(w)] # Free
  BY <1>5, <1>7, <1>8 DEF Free
<1> QED BY <1>4, <1>9 DEF s

\* A hit in the hash table is the greedy choice.
LEMMA HitIsGreedy ==
  ASSUME FinalTable, final, NEW w \in [1..MaxLen -> Byte],
         hashTab[BucketOf(w)] # Free, StartsWith(w, hashTab[BucketOf(w)].str)
  PROVE  \E k \in 3..MaxLen : \E c \in 1..Len(symbols) :
           /\ hashTab[BucketOf(w)] = [str |-> symbols[c], code |-> c - 1]
           /\ symbols[c] = SubSeq(w, 1, k) /\ Len(symbols[c]) = k
           /\ Greedy(w, k)
<1>1. w \in Strings
  BY SizeAssumption DEF Strings
<1>2. BucketOf(w) \in Buckets
  BY <1>1, KeyFacts
<1>3. PICK c \in 1..Len(symbols) : /\ hashTab[BucketOf(w)] = [str |-> symbols[c], code |-> c - 1]
                                   /\ Len(symbols[c]) > 2
  BY <1>2, FinalFacts DEF FinalSlots
<1>4. symbols[c] \in Strings /\ symbols[c] \in Listed
  BY FinalFacts
<1>5. PICK k \in 1..MaxLen : k = Len(symbols[c])
  BY <1>4, StringFacts
<1>a. hashTab[BucketOf(w)].str = symbols[c]
  BY <1>3
<1>6. symbols[c] = SubSeq(w, 1, k)
  <2>1. StartsWith(w, symbols[c])
    BY <1>a
  <2> QED BY <1>4, <1>5, <2>1, WordStarts
<1>7. k \in 3..MaxLen
  <2>1. k > 2 /\ MaxLen \in Nat
    BY <1>3, <1>5, SizeAssumption
  <2> QED BY <2>1
<1>8. ASSUME NEW n \in 1..MaxLen, n > k PROVE SubSeq(w, 1, n) \notin Listed
  <2> SUFFICES ASSUME SubSeq(w, 1, n) \in Listed PROVE FALSE
    OBVIOUS
  <2>1. n > 2
    <3>1. MaxLen \in Nat
      BY SizeAssumption
    <3> QED BY <1>7, <1>8, <3>1
  <2>2. symbols[c] = SubSeq(w, 1, n)
    BY <1>a, <2>1, LongIsHashed
  <2>3. Len(symbols[c]) = n
    BY <2>2, WordPrefix
  <2>4. n = k /\ n \in Int /\ k \in Int
    BY <1>5, <2>3, SizeAssumption
  <2> QED BY <1>8, <2>4
<1>9. Greedy(w, k)
  BY <1>4, <1>6, <1>8 DEF Greedy
<1> QED BY <1>3, <1>5, <1>6, <1>7, <1>9

\* What the two-byte index holds for the word: a pair, or else a single byte,
\* or else nothing.
LEMMA ShortKinds ==
  ASSUME FinalTable, final, NEW w \in [1..MaxLen -> Byte]
  PROVE  \/ \E c \in 1..Len(symbols) :
              symbols[c] = SubSeq(w, 1, 2) /\ shortCodes[<<w[1], w[2]>>] = [code |-> c - 1, len |-> 2]
         \/ /\ SubSeq(w, 1, 2) \notin Listed
            /\ \E c \in 1..Len(symbols) :
                 symbols[c] = SubSeq(w, 1, 1) /\ shortCodes[<<w[1], w[2]>>] = [code |-> c - 1, len |-> 1]
         \/ /\ SubSeq(w, 1, 2) \notin Listed /\ SubSeq(w, 1, 1) \notin Listed
            /\ shortCodes[<<w[1], w[2]>>] = NoCode
<1> DEFINE a == w[1]
           b == w[2]
<1>1. SubSeq(w, 1, 1) = <<a>> /\ SubSeq(w, 1, 2) = <<a, b>> /\ a \in Byte /\ b \in Byte
  BY TwoPrefixes
<1>2. FinalSlots /\ FinalIndex
  BY FinalFacts
<1> HIDE DEF a, b
<1>3. /\ Len(<<a>>) = 1 /\ <<a>>[1] = a
      /\ Len(<<a, b>>) = 2 /\ <<a, b>>[1] = a /\ <<a, b>>[2] = b
  OBVIOUS
<1>4. CASE \E c \in 1..Len(symbols) : symbols[c] = <<a, b>> /\ shortCodes[<<a, b>>] = [code |-> c - 1, len |-> 2]
  BY <1>1, <1>4 DEF a, b
<1>5. CASE shortCodes[<<a, b>>] = byteCodes[a]
  <2>1. byteCodes[a] = NoCode \/
          \E c \in 1..Len(symbols) : symbols[c] = <<a>> /\ byteCodes[a] = [code |-> c - 1, len |-> 1]
    BY <1>1, <1>2 DEF FinalSlots
  <2>2. byteCodes[a].len = 1
    <3>1. NoCode.len = 1 /\ \A x : [code |-> x, len |-> 1].len = 1
      BY DEF NoCode
    <3> QED BY <2>1, <3>1
  <2>3. <<a, b>> \notin Listed
    <3> SUFFICES ASSUME <<a, b>> \in Listed PROVE FALSE
      OBVIOUS
    <3>1. PICK c \in 1..Len(symbols) : symbols[c] = <<a, b>>
      BY FinalFacts
    <3>2. shortCodes[<<a, b>>] = [code |-> c - 1, len |-> 2]
      BY <1>2, <1>3, <3>1 DEF FinalIndex
    <3> QED BY <1>5, <2>2, <3>2
  <2>4. CASE \E c \in 1..Len(symbols) : symbols[c] = <<a>> /\ byteCodes[a] = [code |-> c - 1, len |-> 1]
    BY <1>1, <1>5, <2>3, <2>4 DEF a, b
  <2>5. CASE byteCodes[a] = NoCode
    <3>1. <<a>> \notin Listed
      <4> SUFFICES ASSUME <<a>> \in Listed PROVE FALSE
        OBVIOUS
      <4>1. PICK c \in 1..Len(symbols) : symbols[c] = <<a>>
        BY FinalFacts
      <4>2. byteCodes[a].code = c - 1
        BY <1>2, <1>3, <4>1 DEF FinalIndex
      <4>3. c - 1 = 511
        BY <2>5, <4>2 DEF NoCode, CodeMask
      <4>4. Len(symbols) \in 1..255
        BY FinalFacts
      <4> DEFINE n == Len(symbols)
      <4>5. n \in 1..255 /\ c \in 1..n
        BY <4>4
      <4> HIDE DEF n
      <4> QED BY <4>3, <4>5
    <3> QED BY <1>1, <1>5, <2>3, <2>5, <3>1 DEF a, b
  <2> QED BY <2>1, <2>4, <2>5
<1>6. shortCodes[<<a, b>>] = byteCodes[a] \/
        \E c \in 1..Len(symbols) : symbols[c] = <<a, b>> /\ shortCodes[<<a, b>>] = [code |-> c - 1, len |-> 2]
  BY <1>1, <1>2 DEF FinalSlots
<1> QED BY <1>4, <1>5, <1>6

\* The limits tell the codes apart.
LEMMA Limits ==
  ASSUME FinalTable, final
  PROVE  /\ ~(255 < suffixLim) /\ ~(255 < ByteLim)
         /\ \A c \in 1..Len(symbols) : c >= zeroTerminated + 1 =>
              /\ c - 1 < suffixLim => Len(symbols[c]) = 2 /\ \A s \in Listed : Len(s) > 2 => ~StartsWith(s, symbols[c])
              /\ c - 1 < ByteLim <=> Len(symbols[c]) # 1
         /\ \A c \in 1..Len(symbols) : c < zeroTerminated + 1 => c = 1 /\ zeroTerminated = 1
         /\ \A c \in 1..Len(symbols) : U8(c - 1) = c - 1 /\ ~(c - 1 >= CodeBase)
<1>1. FinalLimits /\ Len(symbols) \in 1..255 /\ zeroTerminated \in {0, 1}
  BY FinalFacts
<1> DEFINE n == Len(symbols)
<1>2. n \in 1..255 /\ suffixLim \in 0..n /\ lenHisto[1] \in zeroTerminated..n
  BY <1>1 DEF FinalLimits
<1>3. \A c \in 1..n : c >= zeroTerminated + 1 => c \in zeroTerminated + 1 .. n
  BY <1>1, <1>2
<1>4. /\ \A c \in zeroTerminated + 1 .. n : c - 1 < suffixLim =>
           Len(symbols[c]) = 2 /\ ~\E s \in Listed : Len(s) > 2 /\ StartsWith(s, symbols[c])
      /\ \A c \in zeroTerminated + 1 .. n : c - 1 < ByteLim <=> Len(symbols[c]) # 1
  BY <1>1 DEF FinalLimits, ByteLim
<1>5. ByteLim = n + zeroTerminated - lenHisto[1]
  BY DEF ByteLim
<1> HIDE DEF n
<1>6. ~(255 < suffixLim)
  BY <1>2
<1>7. ~(255 < ByteLim)
  BY <1>1, <1>2, <1>5
<1>8. \A c \in 1..n : U8(c - 1) = c - 1 /\ ~(c - 1 >= CodeBase)
  BY <1>2 DEF U8, CodeBase
<1>9. \A c \in 1..n : c < zeroTerminated + 1 => c = 1 /\ zeroTerminated = 1
  BY <1>1, <1>2
<1>10. \A c \in 1..n : c >= zeroTerminated + 1 =>
         /\ c - 1 < suffixLim => Len(symbols[c]) = 2 /\ \A s \in Listed : Len(s) > 2 => ~StartsWith(s, symbols[c])
         /\ c - 1 < ByteLim <=> Len(symbols[c]) # 1
  <2> SUFFICES ASSUME NEW c \in 1..n, c >= zeroTerminated + 1
               PROVE  /\ c - 1 < suffixLim => Len(symbols[c]) = 2 /\ \A s \in Listed : Len(s) > 2 => ~StartsWith(s, symbols[c])
                      /\ c - 1 < ByteLim <=> Len(symbols[c]) # 1
    OBVIOUS
  <2>1. c \in zeroTerminated + 1 .. n
    BY <1>3
  <2> HIDE DEF Listed
  <2> QED BY <1>4, <2>1
<1> QED BY <1>6, <1>7, <1>8, <1>9, <1>10 DEF n

\* What a choice that is right for the word w is.
Right(choice, w) ==
  \E k \in 1..MaxLen :
    /\ Greedy(w, k)
    /\ Stands(choice.codes, w, k)
    /\ choice.used = k \/ (k = 1 /\ choice.used = 2 /\ zeroTerminated = 1 /\ w[1] = 0)

\* A hit in the hash table is the greedy choice.
LEMMA LongIsRight ==
  ASSUME FinalTable, final, NEW w \in [1..MaxLen -> Byte], w = Word, Matched
  PROVE  Right(Long, w) /\ w[1] # terminator
<1>1. hashTab[BucketOf(w)] # Free /\ StartsWith(w, hashTab[BucketOf(w)].str) /\ Hashed = hashTab[BucketOf(w)]
  BY DEF Matched, Hashed
<1>2. PICK k \in 3..MaxLen, c \in 1..Len(symbols) :
           /\ hashTab[BucketOf(w)] = [str |-> symbols[c], code |-> c - 1]
           /\ symbols[c] = SubSeq(w, 1, k) /\ Len(symbols[c]) = k
           /\ Greedy(w, k)
  BY <1>1, HitIsGreedy
<1>3. k \in 1..MaxLen /\ k > 1
  BY SizeAssumption
<1>4. Stands(<<c - 1>>, w, k) /\ SubSeq(w, 1, k) \in Listed
  BY <1>2, <1>3, CodeStands
<1>5. Hashed.code = c - 1 /\ Len(Hashed.str) = k
  BY <1>1, <1>2
<1>6. Long = [codes |-> <<U8(Hashed.code)>>, used |-> Len(Hashed.str)]
  BY DEF Long
<1>7. U8(c - 1) = c - 1
  BY Limits
<1>8. Long.codes = <<c - 1>> /\ Long.used = k
  BY <1>5, <1>6, <1>7
<1>9. w[1] # terminator
  BY <1>3, <1>4, TerminatorAlone
<1> QED BY <1>2, <1>3, <1>4, <1>8, <1>9 DEF Right

\* Without a hit in the hash table no string of three or more bytes begins
\* the word.
LEMMA NoLong ==
  ASSUME FinalTable, final, NEW w \in [1..MaxLen -> Byte], w = Word, ~Matched
  PROVE  \A n \in 1..MaxLen : n > 2 => SubSeq(w, 1, n) \notin Listed
BY LongIsHashed DEF Matched, Hashed

\* When the two-byte index has a pair.
LEMMA PairChoice ==
  ASSUME FinalTable, final, NEW w \in [1..MaxLen -> Byte], w = Word,
         NEW c \in 1..Len(symbols), symbols[c] = SubSeq(w, 1, 2), Short = [code |-> c - 1, len |-> 2]
  PROVE  Right(Choice, w)
<1>1. 2 \in 1..MaxLen /\ 1 \in 1..MaxLen /\ MaxLen \in Nat
  BY SizeAssumption
<1>2. Stands(<<c - 1>>, w, 2) /\ SubSeq(w, 1, 2) \in Listed
  BY <1>1, CodeStands
<1>3. Len(symbols[c]) = 2
  BY <1>1, WordPrefix
<1>4. c >= zeroTerminated + 1
  <2> SUFFICES ASSUME ~(c >= zeroTerminated + 1) PROVE FALSE
    OBVIOUS
  <2>1. c < zeroTerminated + 1
    <3>1. zeroTerminated \in {0, 1} /\ c \in Int
      BY FinalFacts
    <3> QED BY <3>1
  <2>2. c = 1 /\ zeroTerminated = 1
    BY <2>1, Limits
  <2>3. symbols[1] = <<0>>
    BY <2>2, FinalFacts
  <2>4. Len(<<0>>) = 1
    OBVIOUS
  <2> QED BY <1>3, <2>2, <2>3, <2>4
<1>5. /\ U8(c - 1) = c - 1 /\ ~(c - 1 >= CodeBase)
      /\ c - 1 < suffixLim => \A s \in Listed : Len(s) > 2 => ~StartsWith(s, symbols[c])
      /\ c - 1 < ByteLim
  <2>1. U8(c - 1) = c - 1 /\ ~(c - 1 >= CodeBase)
    BY Limits
  <2>2. c - 1 < suffixLim => Len(symbols[c]) = 2 /\ \A s \in Listed : Len(s) > 2 => ~StartsWith(s, symbols[c])
    BY <1>4, Limits
  <2>3. c - 1 < ByteLim <=> Len(symbols[c]) # 1
    BY <1>4, Limits
  <2>4. Len(symbols[c]) # 1
    BY <1>3
  <2> HIDE DEF Listed
  <2> QED BY <2>1, <2>2, <2>3, <2>4
<1>6. Short.code = c - 1 /\ Short.len = 2
  OBVIOUS
<1>7. /\ NoSuffix = [codes |-> <<c - 1>>, used |-> 2]
      /\ Predicated = [codes |-> <<c - 1>>, used |-> 2]
      /\ Pair = [codes |-> <<c - 1>>, used |-> 2]
  BY <1>5, <1>6 DEF NoSuffix, Predicated, Pair, CodeOf
<1>8. ASSUME \A n \in 1..MaxLen : n > 2 => SubSeq(w, 1, n) \notin Listed,
             NEW choice, choice = [codes |-> <<c - 1>>, used |-> 2]
      PROVE  Right(choice, w)
  <2>1. Greedy(w, 2)
    BY <1>1, <1>2, <1>8 DEF Greedy
  <2>2. choice.codes = <<c - 1>> /\ choice.used = 2
    BY <1>8
  <2> QED BY <1>1, <1>2, <2>1, <2>2 DEF Right
<1>9. CASE opt = "noSuffixOpt" /\ U8(Short.code) < suffixLim
  <2>1. Choice = NoSuffix
    BY <1>9 DEF Choice
  <2>2. c - 1 < suffixLim
    BY <1>5, <1>6, <1>9
  <2>3. ASSUME NEW n \in 1..MaxLen, n > 2, SubSeq(w, 1, n) \in Listed PROVE FALSE
    <3> DEFINE s == SubSeq(w, 1, n)
               t == SubSeq(w, 1, 2)
    <3>1. /\ Len(s) = n /\ \A i \in 1..n : s[i] = w[i]
          /\ Len(t) = 2 /\ \A i \in 1..2 : t[i] = w[i]
      BY <1>1, WordPrefix
    <3> HIDE DEF s, t
    <3>2. \A i \in 1..2 : i \in 1..n
      BY <1>1, <2>3
    <3>3. StartsWith(s, t)
      BY <1>1, <2>3, <3>1, <3>2 DEF StartsWith
    <3>4. s \in Listed /\ Len(s) > 2 /\ symbols[c] = t
      BY <2>3, <3>1 DEF s, t
    <3> QED BY <1>5, <2>2, <3>3, <3>4
  <2> QED BY <1>7, <1>8, <2>1, <2>3
<1>10. CASE ~(opt = "noSuffixOpt" /\ U8(Short.code) < suffixLim) /\ Matched
  <2>1. Choice = Long
    BY <1>10 DEF Choice
  <2> QED BY <1>10, <2>1, LongIsRight
<1>11. CASE ~(opt = "noSuffixOpt" /\ U8(Short.code) < suffixLim) /\ ~Matched
  <2>1. \A n \in 1..MaxLen : n > 2 => SubSeq(w, 1, n) \notin Listed
    BY <1>11, NoLong
  <2>2. U8(Short.code) < ByteLim
    BY <1>5, <1>6
  <2>3. Choice = Predicated \/ Choice = Pair
    BY <1>11, <2>2 DEF Choice
  <2> QED BY <1>7, <1>8, <2>1, <2>3
<1> QED BY <1>9, <1>10, <1>11

\* When it has a single byte other than the terminator of code 0, or nothing.
LEMMA SingleChoice ==
  ASSUME FinalTable, final, NEW w \in [1..MaxLen -> Byte], w = Word,
         SubSeq(w, 1, 2) \notin Listed, NEW codes, Stands(codes, w, 1),
         CodeOf(Short.code) = codes, Short.len = 1,
         ~(U8(Short.code) < suffixLim), ~(U8(Short.code) < ByteLim)
  PROVE  Right(Choice, w)
<1>1. 1 \in 1..MaxLen /\ 2 \in 1..MaxLen /\ MaxLen \in Nat
  BY SizeAssumption
<1>2. CASE Matched
  <2>1. Choice = Long
    BY <1>2 DEF Choice
  <2> QED BY <1>2, <2>1, LongIsRight
<1>3. CASE ~Matched
  <2>1. Choice = Predicated \/ Choice = Single
    BY <1>3 DEF Choice
  <2>2. Choice.codes = codes /\ Choice.used = 1
    <3>1. Predicated = [codes |-> codes, used |-> 1] /\ Single = [codes |-> codes, used |-> 1]
      BY DEF Predicated, Single
    <3> QED BY <2>1, <3>1
  <2>3. \A n \in 1..MaxLen : n > 2 => SubSeq(w, 1, n) \notin Listed
    BY <1>3, NoLong
  <2>4. \A n \in 1..MaxLen : n > 1 => n = 2 \/ n > 2
    BY <1>1
  <2>5. Greedy(w, 1)
    BY <1>1, <2>3, <2>4 DEF Greedy
  <2> QED BY <1>1, <2>2, <2>5 DEF Right
<1> QED BY <1>2, <1>3

\* The terminator of zero-terminated strings, of code 0.
LEMMA TerminatorChoice ==
  ASSUME FinalTable, final, NEW w \in [1..MaxLen -> Byte], w = Word,
         zeroTerminated = 1, 1 \in 1..Len(symbols), symbols[1] = SubSeq(w, 1, 1),
         Short = [code |-> 0, len |-> 1]
  PROVE  Right(Choice, w)
<1>1. 1 \in 1..MaxLen /\ MaxLen \in Nat
  BY SizeAssumption
<1>2. w[1] = 0 /\ w[1] = terminator
  <2>1. SubSeq(w, 1, 1) = <<w[1]>> /\ symbols[1] = <<0>> /\ terminator = 0
    BY FinalFacts, TwoPrefixes
  <2>2. \A x, y : <<x>> = <<y>> => x = y
    OBVIOUS
  <2> QED BY <2>1, <2>2
<1>3. Stands(<<0>>, w, 1)
  <2>1. Stands(<<1 - 1>>, w, 1)
    BY <1>1, CodeStands
  <2>2. 1 - 1 = 0
    OBVIOUS
  <2> QED BY <2>1, <2>2
<1>4. ~Matched
  BY <1>2, LongIsRight
<1>5. Greedy(w, 1)
  <2>1. \A n \in 1..MaxLen : n > 1 => SubSeq(w, 1, n) \notin Listed
    BY <1>2, TerminatorAlone
  <2> QED BY <1>1, <2>1 DEF Greedy
<1>6. Short.code = 0 /\ Short.len = 1 /\ U8(0) = 0 /\ ~(0 >= CodeBase)
  BY DEF U8, CodeBase
<1>7. \A choice \in {NoSuffix, Predicated, Pair, Single} :
        choice.codes = <<0>> /\ choice.used \in {1, 2}
  BY <1>6 DEF NoSuffix, Predicated, Pair, Single, CodeOf
<1>8. Choice \in {NoSuffix, Predicated, Pair, Single}
  BY <1>4 DEF Choice
<1>9. Choice.codes = <<0>> /\ Choice.used \in {1, 2}
  BY <1>7, <1>8
<1> QED BY <1>1, <1>2, <1>3, <1>5, <1>9 DEF Right

\* In each of its variants the encoder makes the greedy choice.
LEMMA ChoiceIsGreedy ==
  ASSUME FinalTable, final, NEW w \in [1..MaxLen -> Byte], w = Word
  PROVE  Right(Choice, w)
<1>1. Short = shortCodes[<<w[1], w[2]>>]
  BY DEF Short
<1>2. CASE \E c \in 1..Len(symbols) : symbols[c] = SubSeq(w, 1, 2) /\ Short = [code |-> c - 1, len |-> 2]
  BY <1>2, PairChoice
<1>3. ASSUME SubSeq(w, 1, 2) \notin Listed, NEW c \in 1..Len(symbols), symbols[c] = SubSeq(w, 1, 1),
             Short = [code |-> c - 1, len |-> 1]
      PROVE  Right(Choice, w)
  <2>1. 1 \in 1..MaxLen
    BY SizeAssumption
  <2>2. Stands(<<c - 1>>, w, 1) /\ Len(symbols[c]) = 1
    <3>1. Stands(<<c - 1>>, w, 1)
      BY <1>3, <2>1, CodeStands
    <3>2. Len(SubSeq(w, 1, 1)) = 1
      BY <2>1, WordPrefix
    <3> QED BY <1>3, <3>1, <3>2
  <2>3. Short.code = c - 1 /\ Short.len = 1 /\ U8(c - 1) = c - 1 /\ ~(c - 1 >= CodeBase)
    BY <1>3, Limits
  <2>4. CodeOf(Short.code) = <<c - 1>>
    BY <2>3 DEF CodeOf
  <2>5. CASE c >= zeroTerminated + 1
    <3>1. ~(c - 1 < suffixLim) /\ ~(c - 1 < ByteLim)
      <4>1. c - 1 < suffixLim => Len(symbols[c]) = 2
        BY <2>5, Limits
      <4>2. c - 1 < ByteLim <=> Len(symbols[c]) # 1
        BY <2>5, Limits
      <4>3. Len(symbols[c]) # 2 /\ ~(Len(symbols[c]) # 1)
        BY <2>2
      <4> QED BY <4>1, <4>2, <4>3
    <3> QED BY <1>3, <2>2, <2>3, <2>4, <3>1, SingleChoice
  <2>6. CASE ~(c >= zeroTerminated + 1)
    <3>1. zeroTerminated \in {0, 1} /\ c \in Int
      BY FinalFacts
    <3>2. c < zeroTerminated + 1
      BY <2>6, <3>1
    <3>3. c = 1 /\ zeroTerminated = 1
      BY <3>2, Limits
    <3>4. c - 1 = 0
      BY <3>3
    <3> QED BY <1>3, <3>3, <3>4, TerminatorChoice
  <2> QED BY <2>5, <2>6
<1>4. ASSUME SubSeq(w, 1, 2) \notin Listed, SubSeq(w, 1, 1) \notin Listed, Short = NoCode
      PROVE  Right(Choice, w)
  <2>1. Stands(<<255, w[1]>>, w, 1)
    BY <1>4, EscapeStands
  <2>2. Short.code = 511 /\ Short.len = 1 /\ U8(511) = 255 /\ 511 >= CodeBase
    BY <1>4 DEF NoCode, CodeMask, U8, CodeBase
  <2>3. CodeOf(Short.code) = <<255, w[1]>>
    BY <2>2 DEF CodeOf
  <2>4. ~(U8(Short.code) < suffixLim) /\ ~(U8(Short.code) < ByteLim)
    BY <2>2, Limits
  <2> QED BY <1>4, <2>1, <2>2, <2>3, <2>4, SingleChoice
<1> QED BY <1>1, <1>2, <1>3, <1>4, ShortKinds

\* A cursor in a chunk is behind the chunks before it.
LEMMA Quotient ==
  ASSUME NEW c \in Nat \ {0}, NEW q \in Nat, NEW r \in Nat, r < c
  PROVE  (q * c + r) \div c = q
OBVIOUS

LEMMA NextMultiple ==
  ASSUME NEW c \in Nat, NEW q \in Nat
  PROVE  (q + 1) * c = q * c + c /\ q * c \in Nat
OBVIOUS

\* The operators of the abstract parser are those of the model.
LEMMA SameText == \A ps : Parser!Text(ps) = Text(ps)
BY DEF Parser!Text, Text, Parser!FlattenSeq, FlattenSeq

LEMMA SameLongest ==
  ASSUME NEW window, at # "table"
  PROVE  Parser!Longest(window) =
           LET found == {n \in 1..Len(window) : n = 1 \/ SubSeq(window, 1, n) \in Listed}
               str == SubSeq(window, 1, Max(found))
           IN [str |-> str, escaped |-> str \notin Listed]
BY DEF Parser!Longest, Parser!Max, Max

LEMMA SameWindow ==
  ASSUME NEW text, NEW n
  PROVE  Parser!Window(text, n) =
           SubSeq(text, n + 1, Min({Len(text), ((n \div ChunkMax) + 1) * ChunkMax}))
BY DEF Parser!Window, Parser!Min, Min

\* the lengths that the next piece of the window may have
FoundIn(window) == {n \in 1..Len(window) : n = 1 \/ SubSeq(window, 1, n) \in Listed}

\* w holds what is left of the chunk, and the sentinel
Holds(w, line, done, left) ==
  /\ line \in Seq(Byte) /\ done \in Nat /\ left \in Nat \ {0} /\ done + left <= Len(line)
  /\ \A i \in 1..MaxLen : i <= left => w[i] = line[done + i]
  /\ left + 1 \in 1..MaxLen => w[left + 1] = terminator

\* k bytes of w are the next piece of the line
Cuts(w, line, done, left, k) ==
  /\ k \in 1..left /\ Max(FoundIn(SubSeq(line, done + 1, done + left))) = k
  /\ SubSeq(SubSeq(line, done + 1, done + left), 1, k) = SubSeq(w, 1, k)
  /\ SubSeq(w, 1, k) = SubSeq(line, done + 1, done + k)

\* The greedy choice for the MaxLen bytes at the cursor does not go beyond
\* the end of the chunk, and is the one for what is left of the chunk.
LEMMA GreedyInWindow ==
  ASSUME FinalTable, final, NEW w \in [1..MaxLen -> Byte], NEW k, Greedy(w, k),
         NEW line, NEW done, NEW left, Holds(w, line, done, left)
  PROVE  Cuts(w, line, done, left, k)
<1> SUFFICES ASSUME line \in Seq(Byte), done \in Nat, left \in Nat \ {0}, done + left <= Len(line),
                    \A i \in 1..MaxLen : i <= left => w[i] = line[done + i],
                    left + 1 \in 1..MaxLen => w[left + 1] = terminator
             PROVE  Cuts(w, line, done, left, k)
  BY DEF Holds
<1> DEFINE window == SubSeq(line, done + 1, done + left)
           found == FoundIn(window)
<1>1. /\ window \in Seq(Byte) /\ Len(window) = left
      /\ \A i \in 1..left : window[i] = line[done + i]
  BY Slice
<1> HIDE DEF window
<1>2. /\ k \in 1..MaxLen /\ k \in Nat /\ MaxLen \in Nat
      /\ k = 1 \/ SubSeq(w, 1, k) \in Listed
      /\ \A n \in 1..MaxLen : n > k => SubSeq(w, 1, n) \notin Listed
  BY SizeAssumption DEF Greedy
<1>3. k <= left
  <2> SUFFICES ASSUME ~(k <= left) PROVE FALSE
    OBVIOUS
  <2>0. left \in Nat /\ left >= 1 /\ k > left /\ k <= MaxLen /\ k \in Nat
    BY <1>2
  <2>1. left + 1 \in 1..MaxLen /\ left + 1 \in 1..k /\ k > 1
    BY <1>2, <2>0
  <2>a. SubSeq(w, 1, k) \in Listed
    <3>1. k # 1
      BY <2>0
    <3> QED BY <1>2, <3>1
  <2>2. PICK c \in 1..Len(symbols) : symbols[c] = SubSeq(w, 1, k)
    BY <2>a, FinalFacts
  <2>3. Len(symbols[c]) = k /\ symbols[c][left + 1] = w[left + 1]
    <3>1. Len(SubSeq(w, 1, k)) = k /\ \A i \in 1..k : SubSeq(w, 1, k)[i] = w[i]
      BY <1>2, WordPrefix
    <3> QED BY <2>1, <2>2, <3>1
  <2>4. symbols[c][left + 1] # terminator
    BY <2>1, <2>3, FinalFacts
  <2> QED BY <2>1, <2>3, <2>4
<1>4. k \in 1..left
  BY <1>2, <1>3
<1>5. ASSUME NEW n \in 1..left, n \in 1..MaxLen
      PROVE  SubSeq(window, 1, n) = SubSeq(w, 1, n) /\ SubSeq(w, 1, n) = SubSeq(line, done + 1, done + n)
  <2> DEFINE a == SubSeq(window, 1, n)
             b == SubSeq(w, 1, n)
             c == SubSeq(line, done + 1, done + n)
  <2>1. a \in Seq(Byte) /\ Len(a) = n /\ \A i \in 1..n : a[i] = window[i]
    BY <1>1
  <2>2. b \in Seq(Byte) /\ Len(b) = n /\ \A i \in 1..n : b[i] = w[i]
    BY <1>5, WordPrefix
  <2>3. c \in Seq(Byte) /\ Len(c) = n /\ \A i \in 1..n : c[i] = line[done + i]
    <3>1. n \in Nat /\ done + n <= Len(line)
      OBVIOUS
    <3> QED BY <3>1, Slice
  <2> HIDE DEF a, b, c
  <2>4. \A i \in 1..n : window[i] = line[done + i] /\ w[i] = line[done + i]
    BY <1>1, <1>2, <1>5
  <2>5. a = b
    BY <2>1, <2>2, <2>4, SeqEqual
  <2>6. b = c
    BY <2>2, <2>3, <2>4, SeqEqual
  <2> QED BY <2>5, <2>6 DEF a, b, c
<1>6. k \in found
  BY <1>1, <1>2, <1>4, <1>5 DEF FoundIn
<1>7. ASSUME NEW n \in found PROVE n <= k
  <2>0. n \in 1..left /\ (n = 1 \/ SubSeq(window, 1, n) \in Listed)
    BY <1>1, <1>7 DEF FoundIn
  <2> SUFFICES ASSUME n > k PROVE FALSE
    BY <1>2, <2>0
  <2>1. n \in 1..left /\ SubSeq(window, 1, n) \in Listed
    <3>1. n # 1
      BY <1>2, <2>0
    <3> QED BY <2>0, <3>1
  <2>2. n \in 1..MaxLen
    <3>1. Len(SubSeq(window, 1, n)) = n
      BY <1>1, <2>1
    <3>2. SubSeq(window, 1, n) \in Strings
      BY <2>1, FinalFacts
    <3> QED BY <3>1, <3>2, StringFacts
  <2>3. SubSeq(w, 1, n) \in Listed
    BY <1>5, <2>1, <2>2
  <2> QED BY <1>2, <2>2, <2>3
<1>8. found \in SUBSET Int
  BY <1>1 DEF FoundIn
<1> HIDE DEF found
<1>9. Max(found) = k
  BY <1>6, <1>7, <1>8, MaxIs
<1> QED BY <1>2, <1>4, <1>5, <1>9 DEF window, found, Cuts

-----------------------------------------------------------------------------
(* The codes of the lines as pieces of their text                          *)

Piece == [str : Seq(Byte), escaped : BOOLEAN]

\* The codes stand for the first n bytes of the line.
StandsFor(listed, codes, line, n) ==
  /\ codes \in Seq(0..255) /\ Closed(codes)
  /\ Pieces(listed, codes) \in Seq(Piece)
  /\ Text(Pieces(listed, codes)) = SubSeq(line, 1, n)

LineParse(l, n) == StandsFor(symbols, out[l], batch[l], n)

\* A step may consume the sentinel too.
Consumed == IF cur <= end THEN cur ELSE end

ChunkCopied ==
  /\ end = IF Len(Line) - curOff <= ChunkMax THEN Len(Line) - curOff ELSE ChunkMax
  /\ \A i \in 0..end - 1 : buf[i] = Line[curOff + i + 1]
  /\ buf[end] = terminator

ParseInv ==
  /\ at = "table" => out = << >>
  /\ at # "table" => final /\ \A l \in 1..Len(batch) : Legal(batch[l])
  /\ at # "returned" => count = -1
  /\ at = "line" => Len(out) <= Len(batch)
  /\ \A l \in 1..Len(out) : l < Len(out) \/ at = "line" => LineParse(l, Len(batch[l]))
  /\ at = "chunk" => LineParse(Len(out), curOff)
  /\ at = "code" => LineParse(Len(out), curOff + Consumed) /\ ChunkCopied
  /\ at \in {"chunk", "code"} => \E q \in Nat : curOff = q * ChunkMax

\* The rest of the chunk is what the next piece may cover.
LEMMA WindowIsRest ==
  ASSUME CursorTypes, LineInv, ParseInv, at = "code", cur < end
  PROVE  /\ Line \in Seq(Byte) /\ curOff + end <= Len(Line)
         /\ Parser!Window(Line, curOff + cur) = SubSeq(Line, curOff + cur + 1, curOff + end)
<1>1. /\ batch \in Seq(Seq(Byte)) /\ cur \in Nat /\ end \in 0..ChunkMax /\ curOff \in Nat
      /\ ChunkMax \in Nat \ {0}
  BY BulkConstants DEF CursorTypes
<1>2. Line \in Seq(Byte) /\ curOff + end <= Len(Line)
  <2>1. Len(out) \in 1..Len(batch) /\ curOff + end <= Len(batch[Len(out)])
    BY DEF LineInv
  <2> QED BY <1>1, <2>1, ElementOfSeq DEF Line
<1> DEFINE line == Line
<1>3. line \in Seq(Byte) /\ Len(line) \in Nat /\ curOff + end <= Len(line)
  BY <1>2
<1>4. end = IF Len(line) - curOff <= ChunkMax THEN Len(line) - curOff ELSE ChunkMax
  BY DEF ParseInv, ChunkCopied
<1>5. PICK q \in Nat : curOff = q * ChunkMax
  BY DEF ParseInv
<1> HIDE DEF line
<1>6. (curOff + cur) \div ChunkMax = q
  <2>1. cur < ChunkMax
    BY <1>1
  <2>2. (q * ChunkMax + cur) \div ChunkMax = q
    BY <1>1, <2>1, Quotient
  <2> QED BY <1>5, <2>2
<1>7. (q + 1) * ChunkMax = curOff + ChunkMax
  BY <1>1, <1>5, NextMultiple
<1>8. Min({Len(line), curOff + ChunkMax}) = curOff + end
  <2>1. Min({Len(line), curOff + ChunkMax}) =
          IF Len(line) <= curOff + ChunkMax THEN Len(line) ELSE curOff + ChunkMax
    BY <1>1, <1>3, LesserOfTwo
  <2> QED BY <1>1, <1>3, <1>4, <2>1
<1>9. Parser!Window(line, curOff + cur) =
        SubSeq(line, curOff + cur + 1, Min({Len(line), (((curOff + cur) \div ChunkMax) + 1) * ChunkMax}))
  BY SameWindow
<1>10. Parser!Window(line, curOff + cur) = SubSeq(line, curOff + cur + 1, curOff + end)
  BY <1>6, <1>7, <1>8, <1>9
<1> QED BY <1>2, <1>10 DEF line

\* The bytes at the cursor are the rest of the chunk and the sentinel.
LEMMA WordIsRest ==
  ASSUME CursorTypes, LineInv, ParseInv, at = "code", cur < end
  PROVE  /\ Word \in [1..MaxLen -> Byte]
         /\ \A i \in 1..MaxLen : i <= end - cur => Word[i] = Line[curOff + cur + i]
         /\ end - cur + 1 \in 1..MaxLen => Word[end - cur + 1] = terminator
<1>1. /\ buf \in [0..ChunkMax + MaxLen -> Byte] /\ cur \in Nat /\ end \in 0..ChunkMax /\ curOff \in Nat
      /\ ChunkMax \in Nat \ {0} /\ MaxLen \in Nat
  BY BulkConstants, SizeAssumption DEF CursorTypes
<1>2. /\ \A i \in 0..end - 1 : buf[i] = Line[curOff + i + 1]
      /\ buf[end] = terminator
  BY DEF ParseInv, ChunkCopied
<1>3. \A i \in 1..MaxLen : cur + i - 1 \in 0..ChunkMax + MaxLen
  BY <1>1
<1>4. Word = [i \in 1..MaxLen |-> buf[cur + i - 1]]
  BY DEF Word
<1>5. Word \in [1..MaxLen -> Byte]
  BY <1>1, <1>3, <1>4
<1>6. ASSUME NEW i \in 1..MaxLen, i <= end - cur PROVE Word[i] = Line[curOff + cur + i]
  <2>1. cur + i - 1 \in 0..end - 1 /\ curOff + (cur + i - 1) + 1 = curOff + cur + i
    BY <1>1, <1>6
  <2>2. buf[cur + i - 1] = Line[curOff + (cur + i - 1) + 1]
    BY <1>2, <2>1
  <2>3. Word[i] = buf[cur + i - 1]
    BY <1>4
  <2> QED BY <2>1, <2>2, <2>3
<1>7. ASSUME end - cur + 1 \in 1..MaxLen PROVE Word[end - cur + 1] = terminator
  <2>1. cur + (end - cur + 1) - 1 = end
    BY <1>1
  <2>2. Word[end - cur + 1] = buf[cur + (end - cur + 1) - 1]
    BY <1>4, <1>7
  <2> QED BY <1>2, <2>1, <2>2
<1> QED BY <1>5, <1>6, <1>7

\* In zero-terminated mode only the last byte of a line is zero.
LEMMA ZeroIsLast ==
  ASSUME CursorTypes, LineInv, ParseInv, at = "code", cur < end,
         zeroTerminated = 1, Line[curOff + cur + 1] = 0
  PROVE  cur + 1 = end
<1>1. Line \in Seq(Byte) /\ curOff + end <= Len(Line) /\ cur \in Nat /\ curOff \in Nat /\ end \in Nat
  BY WindowIsRest, BulkConstants DEF CursorTypes
<1>2. Len(out) \in 1..Len(batch)
  BY DEF LineInv
<1>3. Zeros(Line) = {Len(Line)}
  BY <1>2 DEF ParseInv, Legal, Line
<1>4. curOff + cur + 1 \in 1..Len(Line)
  BY <1>1
<1>5. curOff + cur + 1 \in Zeros(Line)
  BY <1>4 DEF Zeros
<1>6. curOff + cur + 1 = Len(Line) /\ Len(Line) \in Nat
  BY <1>1, <1>3, <1>5
<1> QED BY <1>1, <1>6

\* What one step does to the codes of the line: it adds the next piece.
Added(l, e, n) ==
  /\ StandsFor(symbols, e, batch[l], curOff + n)
  /\ Pieces(symbols, e) = Append(Pieces(symbols, out[l]), Parser!Longest(Parser!Window(batch[l], curOff + cur)))

\* One step adds the parser's next piece, and consumes its bytes; the
\* sentinel that it may consume too is not counted.
LEMMA EmitParse ==
  ASSUME CursorTypes, LineInv, ParseInv, FinalTable, at = "code", cur < end
  PROVE  \E n \in cur + 1 .. end :
           /\ Added(Len(out), out[Len(out)] \o Choice.codes, n)
           /\ (IF cur + Choice.used <= end THEN cur + Choice.used ELSE end) = n
<1> DEFINE l == Len(out)
           w == Word
           done == curOff + cur
           left == end - cur
           codes == Choice.codes
           line == Line
           window == Parser!Window(line, done)
           found == FoundIn(window)
           before == Pieces(symbols, out[l])
<1>0. /\ cur \in Nat /\ end \in Nat /\ curOff \in Nat /\ done \in Nat /\ left \in Nat \ {0}
      /\ final /\ at # "table" /\ MaxLen \in Nat
  BY BulkConstants, SizeAssumption DEF CursorTypes, ParseInv
<1>1. line \in Seq(Byte) /\ done + left <= Len(line) /\ window = SubSeq(line, done + 1, done + left)
  <2>1. Line \in Seq(Byte) /\ curOff + end <= Len(Line) 
        /\ Parser!Window(Line, curOff + cur) = SubSeq(Line, curOff + cur + 1, curOff + end)
    BY WindowIsRest
  <2>2. done + left = curOff + end
    BY <1>0
  <2> QED BY <2>1, <2>2
<1>2. /\ w \in [1..MaxLen -> Byte]
      /\ \A i \in 1..MaxLen : i <= left => w[i] = line[done + i]
      /\ left + 1 \in 1..MaxLen => w[left + 1] = terminator
  BY WordIsRest
<1>3. Right(Choice, w)
  BY <1>0, <1>2, ChoiceIsGreedy
<1>4. PICK k \in 1..MaxLen : /\ Greedy(w, k) /\ Stands(codes, w, k)
                             /\ Choice.used = k \/ (k = 1 /\ Choice.used = 2 /\ zeroTerminated = 1 /\ w[1] = 0)
  BY <1>3 DEF Right
<1> DEFINE str == SubSeq(w, 1, k)
           piece == [str |-> str, escaped |-> str \notin Listed]
<1>5. /\ k \in 1..left /\ Max(found) = k
      /\ SubSeq(window, 1, k) = str
      /\ str = SubSeq(line, done + 1, done + k)
  <2> HIDE DEF w, done, left, line
  <2>1. Holds(w, line, done, left)
    BY <1>0, <1>1, <1>2 DEF Holds
  <2>2. Cuts(w, line, done, left, k)
    BY <1>0, <1>2, <1>4, <2>1, GreedyInWindow
  <2> QED BY <1>1, <2>2 DEF Cuts
<1>6. Parser!Longest(window) = piece
  <2>1. Parser!Longest(window) = LET s == SubSeq(window, 1, Max(found)) IN [str |-> s, escaped |-> s \notin Listed]
    BY <1>0, SameLongest DEF FoundIn
  <2>2. Parser!Longest(window) = [str |-> SubSeq(window, 1, Max(found)), escaped |-> SubSeq(window, 1, Max(found)) \notin Listed]
    BY <2>1
  <2>3. SubSeq(window, 1, Max(found)) = str
    BY <1>5
  <2> HIDE DEF window, str, found
  <2> QED BY <2>2, <2>3
<1>7. piece \in Piece /\ piece.str = str /\ str \in Seq(Byte)
  <2>1. str \in Seq(Byte)
    BY <1>2, <1>4, WordPrefix
  <2> HIDE DEF str
  <2> QED BY <2>1 DEF Piece
<1>8. /\ codes \in Seq(0..255) /\ Len(codes) \in 1..2 /\ AfterCode(codes, 1) = Len(codes) + 1
      /\ PieceAt(symbols, codes, 1) = piece
  BY <1>4 DEF Stands
<1>9. /\ out[l] \in Seq(0..255) /\ Closed(out[l])
      /\ before \in Seq(Piece) /\ Text(before) = SubSeq(line, 1, done)
  <2>1. LineParse(l, curOff + cur)
    BY <1>0 DEF ParseInv, Consumed
  <2> QED BY <2>1 DEF LineParse, StandsFor, Line
<1> DEFINE e == out[l] \o codes
<1> HIDE DEF piece
<1>10. Closed(e) /\ Pieces(symbols, e) = Append(before, piece) /\ e \in Seq(0..255)
  <2> HIDE DEF codes, l
  <2>1. Closed(out[l] \o codes) /\ Pieces(symbols, out[l] \o codes) = Append(Pieces(symbols, out[l]), PieceAt(symbols, codes, 1))
    BY <1>8, <1>9, PieceAppended
  <2> QED BY <1>8, <1>9, <2>1
<1>11. Append(before, piece) \in Seq(Piece)
  <2> HIDE DEF before
  <2> QED BY <1>7, <1>9
<1>12. Text(Append(before, piece)) = SubSeq(line, 1, done + k)
  <2> HIDE DEF before, str, line, done, left
  <2>1. Text(Append(before, piece)) = Text(before) \o str
    <3>1. \A i \in 1..Len(before) : before[i].str \in Seq(Byte)
      <4> SUFFICES ASSUME NEW i \in 1..Len(before) PROVE before[i].str \in Seq(Byte)
        OBVIOUS
      <4>1. before[i] \in Piece
        BY <1>9
      <4> QED BY <4>1 DEF Piece
    <3> QED BY <1>7, <1>9, <3>1, TextAppend
  <2>2. SubSeq(line, 1, done) \o SubSeq(line, done + 1, done + k) = SubSeq(line, 1, done + k)
    <3>1. k \in Nat /\ done + k <= Len(line)
      BY <1>0, <1>1, <1>5
    <3> QED BY <1>0, <1>1, <3>1, SliceAppended
  <2> QED BY <1>5, <1>9, <2>1, <2>2
<1> DEFINE n == cur + k
<1>13. n \in cur + 1 .. end /\ done + k = curOff + n
  BY <1>0, <1>4, <1>5
<1>14. (IF cur + Choice.used <= end THEN cur + Choice.used ELSE end) = n
  <2>1. CASE Choice.used = k
    BY <1>0, <1>13, <2>1
  <2>2. CASE k = 1 /\ Choice.used = 2 /\ zeroTerminated = 1 /\ w[1] = 0
    <3>1. Line[curOff + cur + 1] = 0
      <4>1. 1 \in 1..MaxLen /\ 1 <= left
        BY <1>0, <1>4
      <4> QED BY <1>2, <2>2, <4>1
    <3>2. cur + 1 = end
      BY <2>2, <3>1, ZeroIsLast
    <3> QED BY <1>0, <2>2, <3>2
  <2> QED BY <1>4, <2>1, <2>2
<1>15. Added(l, e, n)
  <2>1. Line = batch[l]
    BY DEF Line
  <2> HIDE DEF e, before, n, done, line, l, window
  <2>2. e \in Seq(0..255) /\ Closed(e) /\ Pieces(symbols, e) = Append(before, piece)
    BY <1>10
  <2>3. window = Parser!Window(batch[l], curOff + cur) /\ before = Pieces(symbols, out[l]) /\ line = batch[l]
    BY <2>1 DEF window, line, done, before
  <2> QED BY <1>6, <1>11, <1>12, <1>13, <2>2, <2>3 DEF Added, StandsFor
<1> QED BY <1>13, <1>14, <1>15

\* A final table does not change any more.
LEMMA FinalStays == final /\ [Next]_tvars => UNCHANGED tvars
BY DEF Next, Add, Insert, Clear, Finalize

\* A step of the encoder is one of the table, or leaves it alone.
LEMMA TableStep == [ENext]_bvars => [Next]_tvars
BY DEF ENext, bvars, Call, StartLine, Return, NoRoom, BeginChunk, EndChunk, Emit

\* Nothing was parsed at first, and a line starts with no codes.
LEMMA ParseInitial == EInit => ParseInv
<1> SUFFICES ASSUME EInit PROVE ParseInv
  OBVIOUS
<1>1. at = "table" /\ out = << >> /\ count = -1
  BY DEF EInit
<1> QED BY <1>1 DEF ParseInv

LEMMA NothingYet == \A listed, line : StandsFor(listed, << >>, line, 0)
<1> SUFFICES ASSUME NEW listed, NEW line PROVE StandsFor(listed, << >>, line, 0)
  OBVIOUS
<1>1. SubSeq(line, 1, 0) = << >>
  OBVIOUS
<1>2. << >> \in Seq(0..255) /\ << >> \in Seq(Piece)
  BY EmptySeq
<1>3. Pieces(listed, << >>) = << >> /\ Closed(<< >>) /\ Text(<< >>) = << >>
  BY ClosedEmpty, TextEmpty
<1> QED BY <1>1, <1>2, <1>3 DEF StandsFor

\* Each step keeps the codes the parse of what was consumed.
LEMMA ParseStep ==
  ASSUME CursorTypes, LineInv, ParseInv, FinalTable, [ENext]_bvars
  PROVE  ParseInv'
<1>0. at # "table" => UNCHANGED tvars
  <2> SUFFICES ASSUME at # "table" PROVE UNCHANGED tvars
    OBVIOUS
  <2>1. final
    BY DEF ParseInv
  <2> QED BY <2>1, TableStep, FinalStays
<1>a. at # "table" => UNCHANGED <<symbols, zeroTerminated, terminator, final>>
  BY <1>0 DEF tvars, indexes, modes
<1>1. CASE UNCHANGED evars
  <2>1. UNCHANGED <<at, batch, curOff, buf, cur, end, out, count>>
    BY <1>1 DEF evars
  <2>2. CASE at = "table"
    BY <2>1, <2>2 DEF ParseInv
  <2>3. CASE at # "table"
    <3>1. UNCHANGED <<symbols, zeroTerminated, terminator, final>>
      BY <1>a, <2>3
    <3> QED BY <2>1, <3>1 DEF ParseInv, LineParse, Legal, Zeros, ChunkCopied, Consumed, Line
  <2> QED BY <2>2, <2>3
<1>2. CASE Call
  <2>1. /\ at = "table" /\ at' = "line" /\ out = << >> /\ out' = << >> /\ count = -1 /\ count' = -1
        /\ UNCHANGED tvars /\ final
    BY <1>2 DEF Call, ParseInv
  <2>2. UNCHANGED <<zeroTerminated, final>>
    BY <2>1 DEF tvars, indexes, modes
  <2>3. \A l \in 1..Len(batch') : Legal(batch'[l])
    BY <1>2 DEF Call
  <2>4. \A l \in 1..Len(batch') : Legal(batch[l])'
    BY <2>2, <2>3 DEF Legal, Zeros
  <2>5. Len(out') = 0 /\ Len(batch') \in Nat
    <3>1. batch' \in Seq(Seq(Byte))
      BY <1>2, BulkConstants DEF Call
    <3> QED BY <2>1, <3>1
  <2> QED BY <2>1, <2>2, <2>4, <2>5 DEF ParseInv
<1>3. CASE StartLine
  <2>1. /\ at = "line" /\ at' = "chunk" /\ Len(out) < Len(batch)
        /\ out' = Append(out, << >>) /\ curOff' = 0
        /\ UNCHANGED <<batch, count>>
    BY <1>3 DEF StartLine
  <2>2. UNCHANGED <<symbols, zeroTerminated, final>>
    BY <1>a, <2>1
  <2>3. PICK T : out \in Seq(T)
    BY DEF CursorTypes
  <2> DEFINE T2 == T \cup {<< >>}
  <2>4. out \in Seq(T2) /\ << >> \in T2
    BY <2>3
  <2> HIDE DEF T2
  <2>5. /\ Len(out') = Len(out) + 1 /\ Len(out) \in Nat /\ out'[Len(out) + 1] = << >>
        /\ \A l \in 1..Len(out) : out'[l] = out[l]
    BY <2>1, <2>4, AppendProperties
  <2>6. ASSUME NEW l \in 1..Len(out'), l < Len(out')
        PROVE  StandsFor(symbols', out'[l], batch'[l], Len(batch'[l]))
    <3>1. l \in 1..Len(out)
      BY <2>5, <2>6
    <3>2. LineParse(l, Len(batch[l]))
      BY <2>1, <3>1 DEF ParseInv
    <3> QED BY <2>1, <2>2, <2>5, <3>1, <3>2 DEF LineParse
  <2>7. StandsFor(symbols', out'[Len(out')], batch'[Len(out')], 0)
    BY <2>5, NothingYet
  <2>8. final' /\ \A l \in 1..Len(batch') : Legal(batch[l])'
    BY <2>1, <2>2 DEF ParseInv, Legal, Zeros
  <2>9. 0 = 0 * ChunkMax /\ 0 \in Nat
    BY BulkConstants
  <2>10. count' = -1
    BY <2>1 DEF ParseInv
  <2> QED BY <2>1, <2>6, <2>7, <2>8, <2>9, <2>10 DEF ParseInv, LineParse
<1>4. CASE Return \/ NoRoom
  <2>1. /\ at \in {"line", "chunk"} /\ at' = "returned" /\ UNCHANGED <<batch, out>>
    BY <1>4 DEF Return, NoRoom
  <2>2. UNCHANGED <<symbols, zeroTerminated, final>>
    BY <1>a, <2>1
  <2>3. \A l \in 1..Len(out) : l < Len(out) => StandsFor(symbols, out[l], batch[l], Len(batch[l]))
    BY DEF ParseInv, LineParse
  <2>4. final' /\ \A l \in 1..Len(batch') : Legal(batch[l])'
    BY <2>1, <2>2 DEF ParseInv, Legal, Zeros
  <2> QED BY <2>1, <2>2, <2>3, <2>4 DEF ParseInv, LineParse
<1>5. CASE BeginChunk
  <2>1. /\ at = "chunk" /\ at' = "code" /\ cur' = 0 /\ end' = Chunk
        /\ UNCHANGED <<batch, out, curOff, count>>
        /\ Copy(Chunk)
    BY <1>5 DEF BeginChunk
  <2>2. UNCHANGED <<symbols, zeroTerminated, terminator, final>>
    BY <1>a, <2>1
  <2>3. \A l \in 1..Len(out) : l < Len(out) => StandsFor(symbols, out[l], batch[l], Len(batch[l]))
    BY DEF ParseInv, LineParse
  <2>4. final' /\ \A l \in 1..Len(batch') : Legal(batch[l])'
    BY <2>1, <2>2 DEF ParseInv, Legal, Zeros
  <2>5. Line \in Seq(Byte) /\ Chunk \in 0..ChunkMax /\ curOff + Chunk <= Len(Line)
    BY <2>1, ChunkFits
  <2>6. Chunk = IF Len(Line) - curOff <= ChunkMax THEN Len(Line) - curOff ELSE ChunkMax
    <3>1. Len(Line) \in Nat /\ curOff \in Nat /\ ChunkMax \in Nat
      BY <2>5, BulkConstants DEF CursorTypes
    <3>2. Len(Line) - curOff \in Int /\ ChunkMax \in Int
      BY <3>1
    <3> QED BY <3>2, LesserOfTwo DEF Chunk
  <2> DEFINE chunk == Chunk
  <2>7. /\ \A i \in 0..chunk - 1 : buf'[i] = Line[curOff + i + 1]
        /\ buf'[chunk] = terminator
    <3>1. DOMAIN buf = 0..ChunkMax + MaxLen
      BY DEF CursorTypes
    <3>2. buf' = [i \in 0..ChunkMax + MaxLen |->
                    IF i < chunk THEN Line[curOff + i + 1]
                    ELSE IF i = chunk THEN terminator ELSE buf[i]]
      BY <2>1, <3>1 DEF Copy
    <3>3. chunk \in 0..ChunkMax /\ ChunkMax \in Nat /\ MaxLen \in Nat
      BY <2>5, BulkConstants
    <3> HIDE DEF chunk
    <3>4. chunk \in 0..ChunkMax + MaxLen /\ \A i \in 0..chunk - 1 : i \in 0..ChunkMax + MaxLen /\ i < chunk
      BY <3>3
    <3>5. ~(chunk < chunk)
      BY <3>3
    <3> QED BY <3>2, <3>4, <3>5
  <2>8. ChunkCopied'
    <3>1. Line' = Line /\ end' = chunk /\ terminator' = terminator /\ curOff' = curOff
      BY <2>1, <2>2 DEF Line
    <3>2. chunk = IF Len(Line) - curOff <= ChunkMax THEN Len(Line) - curOff ELSE ChunkMax
      BY <2>6
    <3> HIDE DEF chunk
    <3> QED BY <2>7, <3>1, <3>2 DEF ChunkCopied
  <2>9. StandsFor(symbols', out'[Len(out')], batch'[Len(out')], curOff' + Consumed')
    <3>1. StandsFor(symbols, out[Len(out)], batch[Len(out)], curOff)
      BY <2>1 DEF ParseInv, LineParse
    <3>2. Consumed' = 0 /\ curOff' + 0 = curOff
      <4>1. 0 <= chunk
        BY <2>5, BulkConstants
      <4>2. curOff' + 0 = curOff
        BY <2>1 DEF CursorTypes
      <4> QED BY <2>1, <4>1, <4>2 DEF Consumed
    <3>3. curOff' + Consumed' = curOff
      BY <3>2
    <3> QED BY <2>1, <2>2, <3>1, <3>3
  <2>10. (\E q \in Nat : curOff' = q * ChunkMax) /\ count' = -1
    BY <2>1 DEF ParseInv
  <2> QED BY <2>1, <2>2, <2>3, <2>4, <2>8, <2>9, <2>10 DEF ParseInv, LineParse
<1>6. CASE EndChunk
  <2>1. /\ at = "code" /\ cur >= end /\ UNCHANGED <<batch, out, count>>
        /\ IF curOff + end < Len(Line)
           THEN curOff' = curOff + end /\ at' = "chunk"
           ELSE curOff' = curOff /\ at' = "line"
    BY <1>6 DEF EndChunk
  <2>2. UNCHANGED <<symbols, zeroTerminated, final>>
    BY <1>a, <2>1
  <2>3. \A l \in 1..Len(out) : l < Len(out) => StandsFor(symbols, out[l], batch[l], Len(batch[l]))
    BY DEF ParseInv, LineParse
  <2>4. final' /\ \A l \in 1..Len(batch') : Legal(batch[l])'
    BY <2>1, <2>2 DEF ParseInv, Legal, Zeros
  <2>5. cur \in Nat /\ end \in Nat /\ curOff \in Nat /\ ChunkMax \in Nat
    BY BulkConstants DEF CursorTypes
  <2>6. StandsFor(symbols, out[Len(out)], batch[Len(out)], curOff + end)
    <3>1. Consumed = end
      BY <2>1, <2>5 DEF Consumed
    <3> QED BY <2>1, <3>1 DEF ParseInv, LineParse
  <2>7. Line = batch[Len(out)] /\ Len(Line) \in Nat /\ curOff + end <= Len(Line) /\ Len(out) \in 1..Len(batch)
    <3>1. Len(out) \in 1..Len(batch) /\ curOff + end <= Len(batch[Len(out)])
      BY <2>1 DEF LineInv
    <3>2. Len(batch[Len(out)]) \in Nat
      BY <3>1, ElementOfSeq DEF CursorTypes
    <3> QED BY <3>1, <3>2 DEF Line
  <2>8. count' = -1
    BY <2>1 DEF ParseInv
  <2>9. CASE curOff + end < Len(Line)
    <3>1. end = ChunkMax
      BY <2>1, <2>5, <2>7, <2>9 DEF ParseInv, ChunkCopied
    <3>2. PICK q \in Nat : curOff = q * ChunkMax
      BY <2>1 DEF ParseInv
    <3>3. curOff' = (q + 1) * ChunkMax /\ q + 1 \in Nat
      <4>1. (q + 1) * ChunkMax = q * ChunkMax + ChunkMax
        BY <2>5, NextMultiple
      <4> QED BY <2>1, <2>9, <3>1, <3>2, <4>1
    <3>4. \E p \in Nat : curOff' = p * ChunkMax
      BY <3>3
    <3>5. StandsFor(symbols', out'[Len(out')], batch'[Len(out')], curOff')
      BY <2>1, <2>2, <2>6, <2>9
    <3>6. at' = "chunk"
      BY <2>1, <2>9
    <3> QED BY <2>1, <2>2, <2>3, <2>4, <2>8, <3>4, <3>5, <3>6 DEF ParseInv, LineParse
  <2>10. CASE ~(curOff + end < Len(Line))
    <3>1. at' = "line" /\ curOff + end = Len(Line)
      BY <2>1, <2>5, <2>7, <2>10
    <3>2. StandsFor(symbols, out[Len(out)], batch[Len(out)], Len(batch[Len(out)]))
      BY <2>6, <2>7, <3>1
    <3>3. Len(out') <= Len(batch')
      BY <2>1, <2>7 DEF CursorTypes
    <3>4. \A l \in 1..Len(out') : StandsFor(symbols', out'[l], batch'[l], Len(batch'[l]))
      <4>1. Len(out) \in Nat
        BY <2>7 DEF CursorTypes
      <4>2. \A l \in 1..Len(out) : l < Len(out) \/ l = Len(out)
        BY <4>1
      <4> QED BY <2>1, <2>2, <2>3, <3>2, <4>2
    <3> QED BY <2>4, <2>8, <3>1, <3>3, <3>4 DEF ParseInv, LineParse
  <2> QED BY <2>9, <2>10
<1>7. CASE Emit
  <2> DEFINE e == out[Len(out)] \o Choice.codes
  <2>1. /\ at = "code" /\ at' = "code" /\ cur < end /\ UNCHANGED <<batch, curOff, buf, end, count>>
        /\ out' = [out EXCEPT ![Len(out)] = e] /\ cur' = cur + Choice.used
    BY <1>7 DEF Emit
  <2>2. UNCHANGED <<symbols, zeroTerminated, terminator, final>>
    BY <1>a, <2>1
  <2>3. \A l \in 1..Len(out) : l < Len(out) => StandsFor(symbols, out[l], batch[l], Len(batch[l]))
    BY DEF ParseInv, LineParse
  <2>4. final' /\ \A l \in 1..Len(batch') : Legal(batch[l])'
    BY <2>1, <2>2 DEF ParseInv, Legal, Zeros
  <2>5. PICK n \in cur + 1 .. end :
           /\ Added(Len(out), e, n)
           /\ (IF cur + Choice.used <= end THEN cur + Choice.used ELSE end) = n
    BY <2>1, EmitParse
  <2>6. Consumed' = n
    BY <2>1, <2>5 DEF Consumed
  <2> HIDE DEF e
  <2>7. /\ Len(out') = Len(out) /\ Len(out) \in 1..Len(out)
        /\ out'[Len(out)] = e /\ \A l \in 1..Len(out) : l # Len(out) => out'[l] = out[l]
    <3>1. PICK T : out \in Seq(T)
      BY DEF CursorTypes
    <3> DEFINE T2 == T \cup {e}
    <3>2. out \in Seq(T2) /\ e \in T2
      BY <3>1
    <3>3. Len(out) \in 1..Len(out)
      BY <2>1, <3>1 DEF LineInv
    <3> HIDE DEF T2
    <3>4. \A l \in 1..Len(out) : out'[l] = IF l = Len(out) THEN e ELSE out[l]
      BY <2>1, <3>2
    <3>5. Len(out') = Len(out)
      BY <2>1, <3>2, <3>3, ExceptSeq
    <3> QED BY <3>3, <3>4, <3>5
  <2>8. ASSUME NEW l \in 1..Len(out'), l < Len(out')
        PROVE  StandsFor(symbols', out'[l], batch'[l], Len(batch'[l]))
    <3>1. l \in 1..Len(out) /\ l < Len(out) /\ l # Len(out)
      BY <2>7, <2>8
    <3> QED BY <2>1, <2>2, <2>3, <2>7, <3>1
  <2>9. StandsFor(symbols', out'[Len(out')], batch'[Len(out')], curOff' + Consumed')
    <3>1. StandsFor(symbols, e, batch[Len(out)], curOff + n)
      BY <2>5 DEF Added
    <3> QED BY <2>1, <2>2, <2>6, <2>7, <3>1
  <2>10. ChunkCopied'
    <3>1. Line' = Line
      BY <2>1, <2>7 DEF Line
    <3> QED BY <2>1, <2>2, <3>1 DEF ParseInv, ChunkCopied
  <2>11. (\E q \in Nat : curOff' = q * ChunkMax) /\ count' = -1
    BY <2>1 DEF ParseInv
  <2> QED BY <2>1, <2>4, <2>8, <2>9, <2>10, <2>11 DEF ParseInv, LineParse
<1> QED BY <1>1, <1>2, <1>3, <1>4, <1>5, <1>6, <1>7 DEF ENext, bvars

\* the variables of the parser
Dict == IF at = "table" THEN {} ELSE Listed
Parse == [l \in 1..Len(out) |-> Pieces(symbols, out[l])]

\* What the parser sees of the codes.
LEMMA ParseLength ==
  ASSUME NEW n \in Nat, NEW codes, NEW listed
  PROVE  /\ Len([l \in 1..n |-> Pieces(listed, codes[l])]) = n
         /\ \A i \in 1..n : [l \in 1..n |-> Pieces(listed, codes[l])][i] = Pieces(listed, codes[i])
OBVIOUS

LEMMA ParseFacts ==
  ASSUME CursorTypes
  PROVE  /\ Len(out) \in Nat /\ Len(Parse) = Len(out)
         /\ \A l \in 1..Len(out) : Parse[l] = Pieces(symbols, out[l])
<1> DEFINE n == Len(out)
<1>1. n \in Nat
  <2>1. PICK T : out \in Seq(T)
    BY DEF CursorTypes
  <2> QED BY <2>1
<1>2. Parse = [l \in 1..n |-> Pieces(symbols, out[l])]
  BY DEF Parse
<1>3. \A l \in 1..n : Parse[l] = Pieces(symbols, out[l])
  BY <1>2
<1> HIDE DEF n
<1>4. Len(Parse) = n
  BY <1>1, <1>2
<1> QED BY <1>1, <1>3, <1>4 DEF n

\* A line is complete when its codes stand for all of it.
LEMMA CompleteLine ==
  ASSUME CursorTypes, NEW l \in 1..Len(out), batch \in Seq(Seq(Byte)), l \in 1..Len(batch),
         LineParse(l, Len(batch[l]))
  PROVE  Parser!Complete(l)
<1>1. Len(Parse) = Len(out) /\ Parse[l] = Pieces(symbols, out[l])
  BY ParseFacts
<1>2. SubSeq(batch[l], 1, Len(batch[l])) = batch[l]
  <2>1. batch[l] \in Seq(Byte)
    BY ElementOfSeq
  <2> QED BY <2>1, SubSeqFull
<1>3. Text(Parse[l]) = batch[l]
  BY <1>1, <1>2 DEF LineParse, StandsFor
<1>4. Parser!Text(Parse[l]) = batch[l]
  BY <1>3, SameText
<1>5. l \in 1..Len(Parse)
  BY <1>1
<1> QED BY <1>4, <1>5 DEF Parser!Complete, Parse

\* The encoder starts as the parser does.
LEMMA RefineInit == EInit => Parser!PInit
<1> SUFFICES ASSUME EInit PROVE Parser!PInit
  OBVIOUS
<1>1. at = "table" /\ out = << >> /\ batch = << >> /\ count = -1
  BY DEF EInit
<1>2. Dict = {}
  BY <1>1 DEF Dict
<1>3. Len(out) = 0
  BY <1>1
<1>4. Parse = << >>
  <2>1. Parse = [l \in 1..0 |-> Pieces(symbols, out[l])]
    BY <1>3 DEF Parse
  <2> QED BY <2>1
<1> QED BY <1>1, <1>2, <1>4 DEF Parser!PInit, Dict, Parse

\* Each step of the encoder is one of the parser, or is not seen by it.
LEMMA RefineStep ==
  ASSUME BulkInv, BulkInv', ParseInv, FinalTable, [ENext]_bvars
  PROVE  Parser!PNext \/ UNCHANGED Parser!pvars
<1>0. CursorTypes /\ LineInv /\ CursorTypes'
  BY DEF BulkInv
<1>z. at # "table" => UNCHANGED <<symbols, zeroTerminated, terminator, final>> /\ Listed' = Listed /\ Listed # {}
  <2> SUFFICES ASSUME at # "table"
               PROVE  UNCHANGED <<symbols, zeroTerminated, terminator, final>> /\ Listed' = Listed /\ Listed # {}
    OBVIOUS
  <2>1. final
    BY DEF ParseInv
  <2>2. UNCHANGED tvars
    BY <2>1, TableStep, FinalStays
  <2>3. UNCHANGED <<symbols, zeroTerminated, terminator, final>>
    BY <2>2 DEF tvars, indexes, modes
  <2>4. Listed' = Listed
    BY <2>3 DEF Listed
  <2>5. Listed # {}
    <3>1. Len(symbols) \in 1..255
      BY <2>1, FinalFacts
    <3>0. \A n \in 1..255 : 1 \in 1..n
      OBVIOUS
    <3>2. 1 \in 1..Len(symbols)
      BY <3>0, <3>1
    <3> QED BY <2>1, <3>2, FinalFacts
  <2> QED BY <2>3, <2>4, <2>5
<1>f. Len(out) \in Nat /\ Len(Parse) = Len(out) /\ \A l \in 1..Len(out) : Parse[l] = Pieces(symbols, out[l])
  BY <1>0, ParseFacts
<1>g. /\ Len(out') \in Nat /\ Len(Parse') = Len(out')
      /\ \A l \in 1..Len(out') : Parse'[l] = Pieces(symbols', out'[l])
      /\ Parse' = [l \in 1..Len(out') |-> Pieces(symbols', out'[l])]
  <2>1. Len(out') \in Nat
    <3>1. PICK T : out' \in Seq(T)
      BY <1>0 DEF CursorTypes
    <3> QED BY <3>1
  <2>2. Parse' = [l \in 1..Len(out') |-> Pieces(symbols', out'[l])]
    BY DEF Parse
  <2> QED BY <2>1, <2>2, ParseLength
<1>k. ASSUME at # "table", at' # "table", UNCHANGED <<batch, out, count>>
      PROVE  UNCHANGED <<Dict, batch, Parse, count>>
  <2>1. Dict' = Dict
    BY <1>k, <1>z DEF Dict
  <2>2. Parse' = Parse
    BY <1>k, <1>z DEF Parse
  <2> QED BY <1>k, <2>1, <2>2
<1>s. UNCHANGED <<Dict, batch, Parse, count>> => UNCHANGED Parser!pvars
  BY DEF Parser!pvars, Dict, Parse
<1>1. CASE UNCHANGED evars
  <2>1. UNCHANGED <<at, batch, out, count>>
    BY <1>1 DEF evars
  <2>2. CASE at = "table"
    <3>1. Dict' = Dict
      BY <2>1, <2>2 DEF Dict
    <3>2. out = << >> /\ out' = << >>
      BY <2>1, <2>2 DEF ParseInv
    <3>3. Len(out) = 0 /\ Len(out') = 0
      BY <3>2
    <3>4. Parse' = Parse
      <4>1. Parse = << >>
        <5>1. Parse = [l \in 1..0 |-> Pieces(symbols, out[l])]
          BY <3>3 DEF Parse
        <5> QED BY <5>1
      <4>2. Parse' = << >>
        <5>1. Parse' = [l \in 1..0 |-> Pieces(symbols', out'[l])]
          BY <3>3 DEF Parse
        <5> QED BY <5>1
      <4> QED BY <4>1, <4>2
    <3> QED BY <1>s, <2>1, <3>1, <3>4
  <2>3. CASE at # "table"
    BY <1>s, <1>k, <2>1, <2>3
  <2> QED BY <2>2, <2>3
<1>2. CASE Call
  <2>1. /\ at = "table" /\ at' = "line" /\ UNCHANGED <<out, count, tvars>> /\ final
    BY <1>2 DEF Call
  <2>2. UNCHANGED symbols
    BY <2>1 DEF tvars, indexes, modes
  <2>3. Listed # {}
    <3>1. Len(symbols) \in 1..255
      BY <2>1, FinalFacts
    <3>0. \A n \in 1..255 : 1 \in 1..n
      OBVIOUS
    <3>2. 1 \in 1..Len(symbols)
      BY <3>0, <3>1
    <3> QED BY <2>1, <3>2, FinalFacts
  <2>4. Dict = {} /\ Dict' # {}
    BY <2>1, <2>2, <2>3 DEF Dict, Listed
  <2>5. Parse' = Parse
    BY <2>1, <2>2 DEF Parse
  <2>6. Parser!Given
    BY <2>1, <2>4, <2>5 DEF Parser!Given, Dict, Parse
  <2> QED BY <2>6 DEF Parser!PNext
<1>3. CASE StartLine
  <2>1. /\ at = "line" /\ at' = "chunk" /\ Len(out) < Len(batch)
        /\ out' = Append(out, << >>) /\ UNCHANGED <<batch, count>>
    BY <1>3 DEF StartLine
  <2>2. Dict' = Dict /\ symbols' = symbols
    BY <1>z, <2>1 DEF Dict
  <2>3. count = -1
    BY <2>1 DEF ParseInv
  <2>4. Parse # << >> => Parser!Complete(Len(Parse))
    <3> SUFFICES ASSUME Parse # << >> PROVE Parser!Complete(Len(Parse))
      OBVIOUS
    <3>1. Len(out) # 0
      <4> SUFFICES ASSUME Len(out) = 0 PROVE FALSE
        OBVIOUS
      <4>1. Parse = [l \in 1..0 |-> Pieces(symbols, out[l])]
        BY DEF Parse
      <4> QED BY <4>1
    <3>2. Len(out) \in 1..Len(out) /\ Len(batch) \in Nat /\ batch \in Seq(Seq(Byte))
      BY <1>0, <1>f, <3>1 DEF CursorTypes
    <3>3. Len(out) \in 1..Len(batch)
      BY <1>f, <2>1, <3>1, <3>2
    <3>4. LineParse(Len(out), Len(batch[Len(out)]))
      BY <2>1, <3>2 DEF ParseInv
    <3>5. Parser!Complete(Len(out))
      BY <1>0, <3>2, <3>3, <3>4, CompleteLine
    <3> QED BY <1>f, <3>5
  <2>5. Parse' = Append(Parse, << >>)
    <3> DEFINE n == Len(out)
    <3>1. PICK T : out \in Seq(T)
      BY <1>0 DEF CursorTypes
    <3> DEFINE T2 == T \cup {<< >>}
    <3>2. out \in Seq(T2) /\ << >> \in T2
      BY <3>1
    <3> HIDE DEF T2
    <3>3. /\ Len(out') = n + 1 /\ n \in Nat /\ out'[n + 1] = << >>
          /\ \A l \in 1..n : out'[l] = out[l]
      BY <2>1, <3>2, AppendProperties
    <3>4. Parse' = [l \in 1..n + 1 |-> Pieces(symbols, out'[l])]
      BY <1>g, <2>2, <3>3
    <3> DEFINE P(l) == Pieces(symbols, out[l])
               S == {P(l) : l \in 1..n} \cup {<< >>}
    <3>5. Parse = [l \in 1..n |-> P(l)]
      BY DEF Parse
    <3>6. Pieces(symbols, out'[n + 1]) = << >>
      BY <3>3, ClosedEmpty
    <3>7. \A l \in 1..n : P(l) \in S
      OBVIOUS
    <3>b. \A l \in 1..n : Pieces(symbols, out'[l]) = P(l)
      BY <3>3
    <3>c. << >> \in S
      OBVIOUS
    <3> HIDE DEF P, S, n
    <3>8. Parse \in Seq(S) /\ Len(Parse) = n /\ \A l \in 1..n : Parse[l] = P(l)
      BY <3>3, <3>5, <3>7
    <3>9. Append(Parse, << >>) \in Seq(S) /\ Len(Append(Parse, << >>)) = n + 1
          /\ Append(Parse, << >>)[n + 1] = << >> /\ \A l \in 1..n : Append(Parse, << >>)[l] = P(l)
      BY <3>8, <3>c, AppendProperties
    <3>10. Parse' \in Seq(S) /\ Len(Parse') = n + 1 /\ Parse'[n + 1] = << >> /\ \A l \in 1..n : Parse'[l] = P(l)
      <4>1. \A l \in 1..n + 1 : l \in 1..n \/ l = n + 1
        BY <3>3
      <4>2. \A l \in 1..n + 1 : Pieces(symbols, out'[l]) \in S
        BY <3>6, <3>b, <3>c, <3>7, <4>1
      <4>3. \A l \in 1..n : l \in 1..n + 1
        BY <3>3
      <4>4. n + 1 \in 1..n + 1 /\ n + 1 \in Nat
        BY <3>3
      <4>5. Parse'[n + 1] = << >>
        BY <3>4, <3>6, <4>4
      <4>6. \A l \in 1..n : Parse'[l] = P(l)
        BY <3>4, <3>b, <4>3
      <4>7. Parse' \in Seq(S) /\ Len(Parse') = n + 1
        BY <3>4, <4>2, <4>4
      <4> QED BY <4>5, <4>6, <4>7
    <3>11. \A l \in 1..n + 1 : Parse'[l] = Append(Parse, << >>)[l]
      <4>1. \A l \in 1..n + 1 : l \in 1..n \/ l = n + 1
        BY <3>3
      <4> QED BY <3>9, <3>10, <4>1
    <3> QED BY <3>9, <3>10, <3>11, SeqEqual
  <2>6. Len(Parse) < Len(batch)
    BY <1>f, <2>1
  <2>7. Parser!NextLine
    BY <2>1, <2>2, <2>3, <2>4, <2>5, <2>6 DEF Parser!NextLine, Dict, Parse
  <2> QED BY <2>7 DEF Parser!PNext
<1>4. CASE Return \/ NoRoom
  <2>1. /\ at \in {"line", "chunk"} /\ at' = "returned" /\ UNCHANGED <<batch, out>>
        /\ \/ at = "line" /\ Len(out) = Len(batch) /\ count' = Len(batch)
           \/ at = "chunk" /\ count' = Len(out) - 1
    BY <1>4 DEF Return, NoRoom
  <2>2. Dict' = Dict /\ Dict # {} /\ symbols' = symbols
    BY <1>z, <2>1 DEF Dict
  <2>3. Parse' = Parse
    BY <2>1, <2>2 DEF Parse
  <2>4. count = -1
    BY <2>1 DEF ParseInv
  <2>5. count' \in {Len(Parse) - 1, Len(Parse)} \cap Nat
    <3>1. at = "chunk" => Len(out) \in 1..Len(batch)
      BY <1>0 DEF LineInv
    <3>2. at = "chunk" => Len(out) - 1 \in Nat
      BY <1>f, <3>1
    <3> QED BY <1>f, <2>1, <3>2
  <2>6. ASSUME NEW l \in 1..count' PROVE Parser!Complete(l)
    <3>1. batch \in Seq(Seq(Byte)) /\ Len(batch) \in Nat
      BY <1>0 DEF CursorTypes
    <3>2. l \in 1..Len(out) /\ l \in 1..Len(batch) /\ (l < Len(out) \/ at = "line")
      <4>1. CASE at = "line" /\ Len(out) = Len(batch) /\ count' = Len(batch)
        BY <2>6, <4>1
      <4>2. CASE at = "chunk" /\ count' = Len(out) - 1
        <5>1. Len(out) \in 1..Len(batch)
          BY <1>0, <4>2 DEF LineInv
        <5> QED BY <1>f, <2>6, <3>1, <4>2, <5>1
      <4> QED BY <2>1, <4>1, <4>2
    <3>3. LineParse(l, Len(batch[l]))
      BY <3>2 DEF ParseInv
    <3> QED BY <1>0, <3>1, <3>2, <3>3, CompleteLine
  <2>7. Parser!Return
    BY <2>1, <2>2, <2>3, <2>4, <2>5, <2>6 DEF Parser!Return, Dict, Parse
  <2> QED BY <2>7 DEF Parser!PNext
<1>5. CASE BeginChunk \/ EndChunk
  <2>1. at # "table" /\ at' # "table" /\ UNCHANGED <<batch, out, count>>
    BY <1>5 DEF BeginChunk, EndChunk
  <2> QED BY <1>k, <1>s, <2>1
<1>6. CASE Emit
  <2> DEFINE l == Len(out)
             e == out[l] \o Choice.codes
             piece == Parser!Longest(Parser!Window(batch[l], curOff + cur))
  <2>1. /\ at = "code" /\ at' = "code" /\ cur < end /\ UNCHANGED <<batch, curOff, buf, end, count>>
        /\ out' = [out EXCEPT ![l] = e]
    BY <1>6 DEF Emit
  <2>2. Dict' = Dict /\ symbols' = symbols
    BY <1>z, <2>1 DEF Dict
  <2>3. count = -1
    BY <2>1 DEF ParseInv
  <2>4. Pieces(symbols, e) = Append(Pieces(symbols, out[l]), piece)
    <3>1. PICK n \in cur + 1 .. end : Added(l, e, n)
      BY <1>0, <2>1, EmitParse
    <3> QED BY <3>1 DEF Added
  <2>5. /\ l \in 1..Len(batch) /\ Line = batch[l] /\ batch[l] \in Seq(Byte)
        /\ curOff + end <= Len(batch[l]) /\ cur \in Nat /\ curOff \in Nat /\ end \in Nat
    <3>1. l \in 1..Len(batch) /\ curOff + end <= Len(batch[l])
      BY <1>0, <2>1 DEF LineInv
    <3> QED BY <1>0, <3>1, ElementOfSeq, BulkConstants DEF CursorTypes, Line
  <2>6. Text(Pieces(symbols, out[l])) = SubSeq(batch[l], 1, curOff + cur)
    <3>1. LineParse(l, curOff + Consumed) /\ Consumed = cur
      BY <2>1, <2>5 DEF ParseInv, Consumed
    <3> QED BY <3>1 DEF LineParse, StandsFor
  <2>7. l \in 1..l /\ Parse[l] = Pieces(symbols, out[l]) /\ Len(Parse) = l
    BY <1>f, <2>5
  <2>8. Parser!Text(Parse[l]) = SubSeq(batch[l], 1, curOff + cur)
    BY <2>6, <2>7, SameText
  <2>9. Len(Parser!Text(Parse[l])) = curOff + cur /\ curOff + cur < Len(batch[l])
    <3> DEFINE line == batch[l]
    <3>1. line \in Seq(Byte) /\ curOff + cur \in Nat /\ curOff + cur < Len(line)
      BY <2>1, <2>5
    <3> HIDE DEF line
    <3>2. Len(SubSeq(line, 1, curOff + cur)) = curOff + cur
      BY <3>1
    <3> QED BY <2>8, <3>1, <3>2 DEF line
  <2>10. ~Parser!Complete(l)
    <3> SUFFICES ASSUME Parser!Complete(l) PROVE FALSE
      OBVIOUS
    <3>1. Parser!Text(Parse[l]) = batch[l]
      BY DEF Parser!Complete, Parse
    <3>2. Len(batch[l]) = curOff + cur
      BY <2>9, <3>1
    <3> QED BY <2>5, <2>9, <3>2
  <2>11. Parse # << >>
    <3>1. Len(Parse) # 0
      BY <2>5, <2>7
    <3> QED BY <3>1
  <2> HIDE DEF e, piece
  <2>12. Parse' = [Parse EXCEPT ![l] = Append(@, piece)]
    <3>1. Len(out') = l /\ out'[l] = e /\ \A i \in 1..l : i # l => out'[i] = out[i]
      <4>1. PICK T : out \in Seq(T)
        BY <1>0 DEF CursorTypes
      <4> DEFINE T2 == T \cup {e}
      <4>2. out \in Seq(T2) /\ e \in T2
        BY <4>1
      <4> HIDE DEF T2
      <4>3. \A i \in 1..Len(out) : out'[i] = IF i = Len(out) THEN e ELSE out[i]
        BY <2>1, <4>2
      <4>4. Len(out') = Len(out)
        BY <2>1, <2>7, <4>2, ExceptSeq
      <4> QED BY <2>7, <4>3, <4>4
    <3>2. Parse' = [i \in 1..l |-> Pieces(symbols, out'[i])]
      BY <1>g, <2>2, <3>1
    <3>3. Parse = [i \in 1..l |-> Pieces(symbols, out[i])]
      BY DEF Parse
    <3>4. \A i \in 1..l : Pieces(symbols, out'[i]) = IF i = l THEN Append(Parse[l], piece) ELSE Parse[i]
      <4> TAKE i \in 1..l
      <4>1. CASE i = l
        BY <2>4, <2>7, <3>1, <4>1
      <4>2. CASE i # l
        BY <1>f, <3>1, <4>2
      <4> QED BY <4>1, <4>2
    <3> HIDE DEF l
    <3>5. DOMAIN Parse = 1..l
      BY <3>3
    <3>6. [Parse EXCEPT ![l] = Append(@, piece)] = [i \in 1..l |-> IF i = l THEN Append(Parse[l], piece) ELSE Parse[i]]
      BY <3>5
    <3> QED BY <3>2, <3>4, <3>6
  <2>13. Parser!NextPiece
    <3>1. piece = Parser!Longest(Parser!Window(batch[Len(Parse)], Len(Parser!Text(Parse[Len(Parse)]))))
      BY <2>7, <2>9 DEF piece
    <3>2. Parse' = [Parse EXCEPT ![Len(Parse)] = Append(@, Parser!Longest(Parser!Window(batch[Len(Parse)], Len(Parser!Text(Parse[Len(Parse)])))))]
      BY <2>7, <2>12, <3>1
    <3>3. ~Parser!Complete(Len(Parse))
      BY <2>7, <2>10
    <3> QED BY <2>1, <2>2, <2>3, <2>11, <3>2, <3>3 DEF Parser!NextPiece, Dict, Parse
  <2> QED BY <2>13 DEF Parser!PNext
<1> QED BY <1>1, <1>2, <1>3, <1>4, <1>5, <1>6 DEF ENext, bvars

\* The table, the lines so far and the cursors, together.
EncoderInv == BulkInv /\ HistoInv /\ SlotInv /\ FinalTable /\ ParseInv

\* The invariant behind the refinement.
LEMMA EncoderInitial == EInit => EncoderInv
<1>1. EInit => Init
  BY DEF EInit
<1> QED BY <1>1, BulkInitial, InitHisto, InitSlots, ParseInitial DEF EncoderInv

LEMMA EncoderStep == EncoderInv /\ [ENext]_bvars => EncoderInv'
<1> SUFFICES ASSUME EncoderInv, [ENext]_bvars PROVE EncoderInv'
  OBVIOUS
<1>1. BulkInv /\ HistoInv /\ SlotInv /\ FinalTable /\ ParseInv
  BY DEF EncoderInv
<1>2. [Next]_tvars /\ IndexInv /\ CursorTypes /\ LineInv
  BY <1>1, TableStep DEF BulkInv, SlotsInv
<1>3. BulkInv' /\ ParseInv'
  BY <1>1, <1>2, BulkStep, ParseStep
<1>4. HistoInv' /\ SlotInv' /\ FinalTable'
  BY <1>1, <1>2, HistoStep, SlotStep, FinalTableStep
<1> QED BY <1>3, <1>4 DEF EncoderInv

\* In each variant, for all tables and lines: the codes of every line are the
\* greedy parse of its chunks, with the table that finalize() has left.
THEOREM GreedyParse == ESpec => IsGreedyParser
<1>1. EncoderInv /\ EncoderInv' /\ [ENext]_bvars => [Parser!PNext]_(Parser!pvars)
  BY RefineStep DEF EncoderInv
<1> QED BY <1>1, RefineInit, EncoderInitial, EncoderStep, PTL DEF ESpec, IsGreedyParser, Parser!PSpec

-----------------------------------------------------------------------------
(* The space that is always enough                                         *)

\* What was written is no more than two bytes for each one consumed.
SpaceInv ==
  /\ at = "table" => pos = 0 /\ Len(out) = 0
  /\ at = "line" => pos <= 2 * LengthOf(batch, Len(out))
  /\ at = "chunk" => pos <= 2 * (LengthOf(batch, Len(out) - 1) + curOff)
  /\ at = "code" => pos <= 2 * (LengthOf(batch, Len(out) - 1) + curOff + Consumed)

\* The space used is bounded at first, and each step keeps the bound.
LEMMA SpaceInitial == EInit => SpaceInv /\ ConservativeSpace
<1> SUFFICES ASSUME EInit PROVE SpaceInv /\ ConservativeSpace
  OBVIOUS
<1>1. at = "table" /\ pos = 0 /\ out = << >>
  BY DEF EInit
<1>2. Len(out) = 0
  BY <1>1
<1> QED BY <1>1, <1>2 DEF SpaceInv, ConservativeSpace

\* The lengths up to the line in which the encoder is.
LEMMA LinesSoFar ==
  ASSUME CursorTypes, LineInv, at \in {"chunk", "code"}
  PROVE  /\ LengthOf(batch, Len(out) - 1) \in Nat /\ LengthOf(batch, Len(out)) \in Nat /\ Len(Line) \in Nat
         /\ LengthOf(batch, Len(out)) = LengthOf(batch, Len(out) - 1) + Len(Line)
<1> DEFINE o == Len(out)
<1>1. o \in 1..Len(batch) /\ batch \in Seq(Seq(Byte)) /\ Len(batch) \in Nat
  BY DEF LineInv, CursorTypes
<1>2. Line = batch[o]
  BY DEF Line
<1>3. Len(batch[o]) \in Nat
  BY <1>1, ElementOfSeq
<1> HIDE DEF o
<1>4. o - 1 \in 0..Len(batch) - 1 /\ (o - 1) + 1 = o /\ o \in 0..Len(batch) /\ o - 1 \in 0..Len(batch)
  BY <1>1
<1>5. LengthOf(batch, (o - 1) + 1) = LengthOf(batch, o - 1) + Len(batch[(o - 1) + 1])
  BY <1>1, <1>4, LengthOfPrefix
<1>6. LengthOf(batch, o - 1) \in Nat /\ LengthOf(batch, o) \in Nat
  BY <1>1, <1>4, LengthOfPrefix
<1>7. LengthOf(batch, o) = LengthOf(batch, o - 1) + Len(batch[o])
  BY <1>4, <1>5
<1> QED BY <1>2, <1>3, <1>6, <1>7 DEF o

LEMMA SpaceStep ==
  ASSUME BulkInv, BulkInv', ParseInv, FinalTable, SpaceInv, ConservativeSpace, [ENext]_bvars
  PROVE  SpaceInv' /\ ConservativeSpace'
<1>0. CursorTypes /\ LineInv /\ CursorTypes' /\ SlotsInv
  BY DEF BulkInv
<1>t. /\ cur \in Nat /\ end \in Nat /\ curOff \in Nat /\ pos \in Nat /\ size \in Nat /\ Len(out) \in Nat
      /\ batch \in Seq(Seq(Byte))
  <2>1. PICK T : out \in Seq(T)
    BY <1>0 DEF CursorTypes
  <2>2. Len(out) \in Nat
    BY <2>1
  <2> QED BY <1>0, <2>2, BulkConstants DEF CursorTypes
<1>1. CASE UNCHANGED evars
  <2>1. UNCHANGED <<at, batch, size, curOff, cur, end, out, pos, count>>
    BY <1>1 DEF evars
  <2>2. SpaceInv'
    BY <2>1 DEF SpaceInv, Consumed
  <2>3. ConservativeSpace'
    BY <2>1 DEF ConservativeSpace
  <2> QED BY <2>2, <2>3
<1>2. CASE Call
  <2>1. at = "table" /\ at' = "line" /\ UNCHANGED <<out, pos>>
    BY <1>2 DEF Call
  <2>2. pos' = 0 /\ Len(out') = 0
    BY <2>1 DEF SpaceInv
  <2>3. LengthOf(batch', 0) = 0
    BY <1>0, LengthOfPrefix DEF CursorTypes
  <2>4. pos' <= 2 * LengthOf(batch', Len(out'))
    BY <2>2, <2>3
  <2> QED BY <2>1, <2>4 DEF SpaceInv, ConservativeSpace
<1>3. CASE StartLine
  <2>1. at = "line" /\ at' = "chunk" /\ out' = Append(out, << >>) /\ curOff' = 0 /\ UNCHANGED <<batch, pos>>
        /\ Len(out) < Len(batch)
    BY <1>3 DEF StartLine
  <2>2. Len(out') - 1 = Len(out)
    <3>1. PICK T : out \in Seq(T)
      BY <1>0 DEF CursorTypes
    <3>2. out \in Seq(T \cup {<< >>})
      BY <3>1
    <3>3. Len(out') = Len(out) + 1
      BY <2>1, <3>2, AppendProperties
    <3> QED BY <1>t, <3>3
  <2>3. LengthOf(batch, Len(out)) \in Nat
    <3>1. Len(out) \in 0..Len(batch)
      BY <1>t, <2>1
    <3> QED BY <1>t, <3>1, LengthOfPrefix
  <2>4. pos <= 2 * LengthOf(batch, Len(out))
    BY <2>1 DEF SpaceInv
  <2>5. pos' <= 2 * (LengthOf(batch', Len(out') - 1) + curOff')
    BY <2>1, <2>2, <2>3, <2>4
  <2> QED BY <2>1, <2>5 DEF SpaceInv, ConservativeSpace
<1>4. CASE Return
  <2>1. at' = "returned" /\ count' = Len(batch) /\ UNCHANGED batch
    BY <1>4 DEF Return
  <2>2. Len(batch) \in Nat
    BY <1>t
  <2>3. ~(count' < Len(batch'))
    BY <2>1, <2>2
  <2> QED BY <2>1, <2>3 DEF SpaceInv, ConservativeSpace
<1>5. CASE NoRoom
  <2>1. at = "chunk" /\ at' = "returned" /\ count' = Len(out) - 1 /\ UNCHANGED <<batch, size>>
        /\ ~(2 * Chunk + 7 <= size - pos)
    BY <1>5 DEF NoRoom, HasRoom
  <2>2. /\ LengthOf(batch, Len(out) - 1) \in Nat /\ LengthOf(batch, Len(out)) \in Nat /\ Len(Line) \in Nat
        /\ LengthOf(batch, Len(out)) = LengthOf(batch, Len(out) - 1) + Len(Line)
    BY <1>0, <2>1, LinesSoFar
  <2>3. Chunk \in Nat /\ curOff + Chunk <= Len(Line)
    BY <1>0, <2>1, ChunkFits, BulkConstants
  <2>4. pos <= 2 * (LengthOf(batch, Len(out) - 1) + curOff)
    BY <2>1 DEF SpaceInv
  <2>5. size < 7 + 2 * LengthOf(batch, Len(out))
    <3>1. \A a, b, x, c, p, s, n \in Nat :
             ~(2 * c + 7 <= s - p) /\ p <= 2 * (a + x) /\ x + c <= n /\ b = a + n => s < 7 + 2 * b
      OBVIOUS
    <3> QED BY <1>t, <2>1, <2>2, <2>3, <2>4, <3>1
  <2>6. count' + 1 = Len(out)
    BY <1>t, <2>1
  <2>7. size' < 7 + 2 * Len(FlattenSeq(SubSeq(batch', 1, count' + 1)))
    BY <2>1, <2>5, <2>6 DEF LengthOf
  <2> QED BY <2>1, <2>7 DEF SpaceInv, ConservativeSpace
<1>6. CASE BeginChunk
  <2>1. /\ at = "chunk" /\ at' = "code" /\ cur' = 0 /\ end' = Chunk
        /\ UNCHANGED <<batch, out, curOff, pos>>
    BY <1>6 DEF BeginChunk
  <2>2. Consumed' = 0
    <3>1. Chunk \in Nat
      BY <1>0, <2>1, ChunkFits, BulkConstants
    <3> QED BY <2>1, <3>1 DEF Consumed
  <2>3. pos <= 2 * (LengthOf(batch, Len(out) - 1) + curOff)
    BY <2>1 DEF SpaceInv
  <2>4. LengthOf(batch, Len(out) - 1) \in Nat
    BY <1>0, <2>1, LinesSoFar
  <2>5. pos' <= 2 * (LengthOf(batch', Len(out') - 1) + curOff' + Consumed')
    BY <1>t, <2>1, <2>2, <2>3, <2>4
  <2> QED BY <2>1, <2>5 DEF SpaceInv, ConservativeSpace
<1>7. CASE EndChunk
  <2>1. /\ at = "code" /\ cur >= end /\ UNCHANGED <<batch, out, pos>>
        /\ IF curOff + end < Len(Line)
           THEN curOff' = curOff + end /\ at' = "chunk"
           ELSE curOff' = curOff /\ at' = "line"
    BY <1>7 DEF EndChunk
  <2>2. Consumed = end
    BY <1>t, <2>1 DEF Consumed
  <2>3. pos <= 2 * (LengthOf(batch, Len(out) - 1) + curOff + end)
    BY <2>1, <2>2 DEF SpaceInv
  <2>4. /\ LengthOf(batch, Len(out) - 1) \in Nat /\ LengthOf(batch, Len(out)) \in Nat /\ Len(Line) \in Nat
        /\ LengthOf(batch, Len(out)) = LengthOf(batch, Len(out) - 1) + Len(Line)
    BY <1>0, <2>1, LinesSoFar
  <2>5. curOff + end <= Len(Line)
    BY <1>0, <2>1 DEF LineInv, Line
  <2>6. at' = "chunk" => pos' <= 2 * (LengthOf(batch', Len(out') - 1) + curOff')
    BY <1>t, <2>1, <2>3, <2>4
  <2>7. pos' <= 2 * LengthOf(batch', Len(out'))
    <3>1. pos <= 2 * LengthOf(batch, Len(out))
      BY <1>t, <2>3, <2>4, <2>5
    <3> QED BY <2>1, <3>1
  <2>8. at' \in {"chunk", "line"}
    BY <2>1
  <2> QED BY <2>6, <2>7, <2>8 DEF SpaceInv, ConservativeSpace
<1>8. CASE Emit
  <2>1. /\ at = "code" /\ at' = "code" /\ cur < end /\ UNCHANGED <<batch, curOff, end>>
        /\ out' = [out EXCEPT ![Len(out)] = @ \o Choice.codes]
        /\ pos' = pos + Len(Choice.codes) /\ cur' = cur + Choice.used
    BY <1>8 DEF Emit
  <2>2. Consumed = cur
    BY <1>t, <2>1 DEF Consumed
  <2>3. PICK n \in cur + 1 .. end : (IF cur + Choice.used <= end THEN cur + Choice.used ELSE end) = n
    BY <1>0, <2>1, EmitParse
  <2>4. Consumed' = n
    BY <2>1, <2>3 DEF Consumed
  <2>5. Len(out') = Len(out)
    <3>1. PICK T : out \in Seq(T)
      BY <1>0 DEF CursorTypes
    <3> DEFINE e == out[Len(out)] \o Choice.codes
               T2 == T \cup {e}
    <3> HIDE DEF e
    <3>2. out \in Seq(T2) /\ e \in T2
      BY <3>1
    <3>3. Len(out) \in 1..Len(out)
      BY <1>0, <1>t, <2>1 DEF LineInv
    <3>4. out' = [out EXCEPT ![Len(out)] = e]
      BY <2>1 DEF e
    <3> HIDE DEF T2
    <3> QED BY <3>2, <3>3, <3>4, ExceptSeq
  <2>6. Len(Choice.codes) \in 1..2
    BY <1>0, <2>1, ChoiceFacts
  <2>7. pos <= 2 * (LengthOf(batch, Len(out) - 1) + curOff + cur)
    BY <2>1, <2>2 DEF SpaceInv
  <2>8. LengthOf(batch, Len(out) - 1) \in Nat
    BY <1>0, <2>1, LinesSoFar
  <2>9. pos + Len(Choice.codes) <= 2 * (LengthOf(batch, Len(out) - 1) + curOff + n)
    <3>1. \A p, a, x, c \in Nat : \A m \in Int : \A k \in 1..2 :
             p <= 2 * (a + x + c) /\ m >= c + 1 => p + k <= 2 * (a + x + m)
      OBVIOUS
    <3>2. n \in Int /\ n >= cur + 1
      BY <1>t, <2>3
    <3> QED BY <1>t, <2>6, <2>7, <2>8, <3>1, <3>2
  <2>10. pos' <= 2 * (LengthOf(batch', Len(out') - 1) + curOff' + Consumed')
    BY <2>1, <2>4, <2>5, <2>9
  <2> QED BY <2>1, <2>10 DEF SpaceInv, ConservativeSpace
<1> QED BY <1>1, <1>2, <1>3, <1>4, <1>5, <1>6, <1>7, <1>8 DEF ENext, bvars

\* No line is refused that the documented space is there for.
THEOREM NoLineRefused == ESpec => []ConservativeSpace
<1>1. EncoderInv /\ EncoderInv' /\ SpaceInv /\ ConservativeSpace /\ [ENext]_bvars
        => SpaceInv' /\ ConservativeSpace'
  BY SpaceStep DEF EncoderInv
<1> QED BY <1>1, SpaceInitial, EncoderInitial, EncoderStep, PTL DEF ESpec

=============================================================================
