-------------------------- MODULE SymbolTableProofs --------------------------
(* Proofs about SymbolTable for every set of bytes, every size and every   *)
(* hash function: the indexes and the list of symbols agree while a table  *)
(* is trained, so that a probe finds the longest match and clear() leaves  *)
(* an empty table.  And about Counters, for every size of the columns: the *)
(* scans give back what was counted.                                       *)
EXTENDS SymbolTable, Counters, DataLemmas

\* What a member of Strings is.
LEMMA StringFacts ==
  ASSUME NEW s \in Strings
  PROVE  s \in Seq(Byte) /\ Len(s) \in 1..MaxLen /\ \A i \in 1..Len(s) : s[i] \in Byte
<1>1. PICK n \in 1..MaxLen : s \in [1..n -> Byte]
  BY DEF Strings
<1>2. n \in Nat
  BY <1>1, SizeAssumption
<1>3. s \in Seq(Byte)
  BY <1>1, <1>2, SeqDef
<1>4. Len(s) = n
  BY <1>1, <1>2, <1>3, LenProperties
<1> QED
  BY <1>1, <1>2, <1>3, <1>4

\* A single byte is a string.
LEMMA ByteIsString ==
  ASSUME NEW b \in Byte
  PROVE  <<b>> \in Strings /\ Len(<<b>>) = 1 /\ <<b>>[1] = b
<1>1. <<b>> \in [1..1 -> Byte]
  OBVIOUS
<1>2. 1 \in 1..MaxLen
  BY SizeAssumption
<1> QED
  BY <1>1, <1>2 DEF Strings

\* The hash reads three bytes, whatever the string.
LEMMA KeyFacts ==
  ASSUME NEW s \in Strings
  PROVE  Key(s) \in Key3 /\ BucketOf(s) \in Buckets
<1>1. \A i \in 1..3 : i <= Len(s) => s[i] \in Byte
  BY StringFacts
<1>2. Key(s) \in Key3
  BY <1>1, ByteAssumption DEF Key, Key3
<1> QED
  BY <1>2 DEF BucketOf, Buckets

\* A string of three or more bytes is probed for where it was stored.
LEMMA SameBucket ==
  ASSUME NEW s \in Strings, NEW t \in Strings, Len(s) > 2, StartsWith(t, s)
  PROVE  BucketOf(s) = BucketOf(t)
<1>1. Len(s) \in Nat /\ Len(t) \in Nat
  BY StringFacts
<1>2. Len(s) <= Len(t) /\ \A i \in 1..3 : s[i] = t[i]
  BY <1>1 DEF StartsWith
<1>3. Key(s) = Key(t)
  BY <1>1, <1>2 DEF Key
<1> QED
  BY <1>3 DEF BucketOf

LEMMA InitIndex == Init => IndexInv
<1> SUFFICES ASSUME Init PROVE IndexInv
  OBVIOUS
<1>1. TrainingTypes
  <2>1. \A b \in Byte : Escape(b) \in CodeWord
    BY ByteAssumption DEF Escape, CodeWord, CodeMask
  <2>2. \A p \in Byte \X Byte : p[1] \in Byte
    OBVIOUS
  <2>3. terminator \in Byte
    BY ByteAssumption DEF Init
  <2>4. symbols \in Seq(Strings) /\ Len(symbols) = 0 /\ 0 <= MaxSymbols
    BY EmptySeq, SizeAssumption DEF Init
  <2>5. byteCodes \in [Byte -> CodeWord] /\ shortCodes \in [Byte \X Byte -> CodeWord]
    BY <2>1, <2>2 DEF Init
  <2>6. hashTab \in [Buckets -> Entry]
    BY DEF Init, Entry
  <2> QED
    BY <2>3, <2>4, <2>5, <2>6 DEF TrainingTypes
<1>2. EveryStringIndexed /\ ByteSlots /\ PairSlots /\ HashSlots
  BY DEF Init, EveryStringIndexed, ByteSlots, PairSlots, HashSlots
<1> QED
  BY <1>1, <1>2 DEF IndexInv

\* every slot in use is that of a listed string
SlotsListed == TrainingTypes /\ ByteSlots /\ PairSlots /\ HashSlots

\* What a new string does to a table whose slots are those of its symbols.
LEMMA InsertSlots ==
  ASSUME SlotsListed, NEW s \in Strings, Len(symbols) < MaxSymbols, Insert(s)
  PROVE  SlotsListed'
<1>1. TrainingTypes /\ ByteSlots /\ PairSlots /\ HashSlots
  BY DEF SlotsListed
<1>3. s \in Seq(Byte) /\ Len(s) \in 1..MaxLen /\ \A i \in 1..Len(s) : s[i] \in Byte
  BY StringFacts
<1>4. BucketOf(s) \in Buckets
  BY KeyFacts
<1>5. symbols \in Seq(Strings) /\ Len(symbols) \in Nat /\ Len(symbols) < MaxSymbols
  BY <1>1 DEF TrainingTypes
<1>6. /\ symbols' = Append(symbols, s)
      /\ Len(symbols') = Len(symbols) + 1
      /\ symbols' \in Seq(Strings)
      /\ symbols'[Len(symbols) + 1] = s
      /\ \A i \in 1..Len(symbols) : symbols'[i] = symbols[i]
  BY <1>5 DEF Insert
<1>7. NextCode \in 0..CodeMask /\ NextCode = CodeBase + Len(symbols)
  <2>1. \A n \in Nat : n < MaxSymbols => 256 + n \in 0..511
    BY SizeAssumption
  <2>2. 256 + Len(symbols) \in 0..511
    BY <1>5, <2>1
  <2> QED
    BY <2>2 DEF NextCode, CodeBase, CodeMask
<1>8. Index(s) /\ ~Taken(s)
  BY DEF Insert
<1>9. TrainingTypes'
  <2>1. byteCodes' \in [Byte -> CodeWord]
    BY <1>1, <1>3, <1>7, <1>8 DEF Index, TrainingTypes, CodeWord
  <2>2. shortCodes' \in [Byte \X Byte -> CodeWord]
    BY <1>1, <1>3, <1>7, <1>8 DEF Index, TrainingTypes, CodeWord
  <2>3. hashTab' \in [Buckets -> Entry]
    BY <1>1, <1>4, <1>7, <1>8 DEF Index, TrainingTypes, Entry
  <2>4. terminator' \in Byte
    BY <1>1 DEF Insert, modes, TrainingTypes
  <2>5. MaxSymbols \in Nat
    BY SizeAssumption
  <2>6. Len(symbols') <= MaxSymbols
    BY <1>5, <1>6, <2>5
  <2> QED
    BY <1>6, <2>1, <2>2, <2>3, <2>4, <2>6 DEF TrainingTypes
<1>11. ByteSlots'
  <2> SUFFICES ASSUME NEW b \in Byte
               PROVE  byteCodes'[b] = Escape(b) \/
                      \E i \in 1..Len(symbols) + 1 :
                        symbols'[i] = <<b>> /\ byteCodes'[b].code = CodeBase + i - 1
    BY <1>6 DEF ByteSlots, Escape
  <2>1. CASE Len(s) = 1 /\ s[1] = b
    <3>1. s = <<b>>
      BY <2>1, <1>3
    <3>2. byteCodes'[b].code = NextCode
      BY <2>1, <1>1, <1>8 DEF Index, TrainingTypes
    <3> QED
      BY <3>1, <3>2, <1>5, <1>6, <1>7 DEF CodeBase
  <2>2. CASE ~(Len(s) = 1 /\ s[1] = b)
    <3>1. byteCodes'[b] = byteCodes[b]
      BY <2>2, <1>1, <1>3, <1>8 DEF Index, TrainingTypes
    <3>2. CASE byteCodes[b] = Escape(b)
      BY <3>1, <3>2
    <3>3. CASE byteCodes[b] # Escape(b)
      <4>1. PICK i \in 1..Len(symbols) :
              symbols[i] = <<b>> /\ byteCodes[b].code = CodeBase + i - 1
        BY <3>3, <1>1 DEF ByteSlots
      <4>2. i \in 1..Len(symbols) + 1 /\ symbols'[i] = symbols[i]
        BY <1>5, <1>6
      <4> QED
        BY <3>1, <4>1, <4>2
    <3> QED
      BY <3>2, <3>3
  <2> QED
    BY <2>1, <2>2
<1>12. PairSlots'
  <2> SUFFICES ASSUME NEW b \in Byte, NEW c \in Byte
               PROVE  shortCodes'[<<b, c>>] = Escape(b) \/
                      \E i \in 1..Len(symbols) + 1 :
                        symbols'[i] = <<b, c>> /\ shortCodes'[<<b, c>>].code = CodeBase + i - 1
    BY <1>6 DEF PairSlots, Escape
  <2>1. CASE Len(s) = 2 /\ s[1] = b /\ s[2] = c
    <3>1. s = <<b, c>>
      BY <2>1, <1>3
    <3>2. shortCodes'[<<b, c>>].code = NextCode
      BY <2>1, <1>1, <1>8 DEF Index, TrainingTypes
    <3> QED
      BY <3>1, <3>2, <1>5, <1>6, <1>7 DEF CodeBase
  <2>2. CASE ~(Len(s) = 2 /\ s[1] = b /\ s[2] = c)
    <3>1. shortCodes'[<<b, c>>] = shortCodes[<<b, c>>]
      BY <2>2, <1>1, <1>3, <1>8 DEF Index, TrainingTypes
    <3>2. CASE shortCodes[<<b, c>>] = Escape(b)
      BY <3>1, <3>2
    <3>3. CASE shortCodes[<<b, c>>] # Escape(b)
      <4>1. PICK i \in 1..Len(symbols) :
              symbols[i] = <<b, c>> /\ shortCodes[<<b, c>>].code = CodeBase + i - 1
        BY <3>3, <1>1 DEF PairSlots
      <4>2. i \in 1..Len(symbols) + 1 /\ symbols'[i] = symbols[i]
        BY <1>5, <1>6
      <4> QED
        BY <3>1, <4>1, <4>2
    <3> QED
      BY <3>2, <3>3
  <2> QED
    BY <2>1, <2>2
<1>13. HashSlots'
  <2> SUFFICES ASSUME NEW k \in Buckets
               PROVE  hashTab'[k] = Free \/
                      \E i \in 1..Len(symbols) + 1 :
                        /\ hashTab'[k] = [str |-> symbols'[i], code |-> CodeBase + i - 1]
                        /\ Len(symbols'[i]) > 2
                        /\ BucketOf(symbols'[i]) = k
    BY <1>6 DEF HashSlots, BucketOf, Key, Free
  <2>1. CASE Len(s) > 2 /\ BucketOf(s) = k
    <3>1. hashTab'[k] = [str |-> s, code |-> NextCode]
      BY <2>1, <1>1, <1>8 DEF Index, TrainingTypes
    <3>2. NextCode = CodeBase + (Len(symbols) + 1) - 1
      BY <1>5, <1>7 DEF CodeBase
    <3>3. Len(symbols) + 1 \in 1..Len(symbols) + 1
      BY <1>5
    <3>4. hashTab'[k] = [str |-> symbols'[Len(symbols) + 1],
                         code |-> CodeBase + (Len(symbols) + 1) - 1]
      BY <3>1, <3>2, <1>6
    <3> QED
      BY <2>1, <3>3, <3>4, <1>6
  <2>2. CASE ~(Len(s) > 2 /\ BucketOf(s) = k)
    <3>1. hashTab'[k] = hashTab[k]
      BY <2>2, <1>1, <1>4, <1>8 DEF Index, TrainingTypes
    <3>2. CASE hashTab[k] = Free
      BY <3>1, <3>2
    <3>3. CASE hashTab[k] # Free
      <4>1. PICK i \in 1..Len(symbols) :
              /\ hashTab[k] = [str |-> symbols[i], code |-> CodeBase + i - 1]
              /\ Len(symbols[i]) > 2
              /\ BucketOf(symbols[i]) = k
        BY <3>3, <1>1 DEF HashSlots
      <4>2. i \in 1..Len(symbols) + 1 /\ symbols'[i] = symbols[i]
        BY <1>5, <1>6
      <4> QED
        BY <3>1, <4>1, <4>2
    <3> QED
      BY <3>2, <3>3
  <2> QED
    BY <2>1, <2>2
<1> QED
  BY <1>9, <1>11, <1>12, <1>13 DEF SlotsListed

\* What a new string does to a table whose indexes agree with its symbols.
LEMMA InsertStep ==
  ASSUME IndexInv, NEW s \in Strings, ~final, Len(symbols) < MaxSymbols, Insert(s)
  PROVE  IndexInv'
<1>0. ~final /\ ~final'
  BY DEF Insert, modes
<1>1. TrainingTypes /\ EveryStringIndexed /\ ByteSlots /\ PairSlots /\ HashSlots
  BY <1>0 DEF IndexInv
<1>3. s \in Seq(Byte) /\ Len(s) \in 1..MaxLen /\ \A i \in 1..Len(s) : s[i] \in Byte
  BY StringFacts
<1>4. BucketOf(s) \in Buckets
  BY KeyFacts
<1>5. symbols \in Seq(Strings) /\ Len(symbols) \in Nat /\ Len(symbols) < MaxSymbols
  BY <1>1 DEF TrainingTypes
<1>6. /\ symbols' = Append(symbols, s)
      /\ Len(symbols') = Len(symbols) + 1
      /\ symbols' \in Seq(Strings)
      /\ symbols'[Len(symbols) + 1] = s
      /\ \A i \in 1..Len(symbols) : symbols'[i] = symbols[i]
  BY <1>5 DEF Insert
<1>7. NextCode \in 0..CodeMask /\ NextCode = CodeBase + Len(symbols)
  <2>1. \A n \in Nat : n < MaxSymbols => 256 + n \in 0..511
    BY SizeAssumption
  <2>2. 256 + Len(symbols) \in 0..511
    BY <1>5, <2>1
  <2> QED
    BY <2>2 DEF NextCode, CodeBase, CodeMask
<1>8. Index(s) /\ ~Taken(s)
  BY DEF Insert
<1>9. SlotsListed'
  BY <1>1, InsertSlots DEF SlotsListed
<1>10. EveryStringIndexed'
  <2> SUFFICES ASSUME NEW i \in 1..Len(symbols) + 1, NEW t, t = symbols'[i]
               PROVE  /\ Len(t) = 1 => byteCodes'[t[1]].code = CodeBase + i - 1
                      /\ Len(t) = 2 => shortCodes'[<<t[1], t[2]>>].code = CodeBase + i - 1
                      /\ Len(t) > 2 => hashTab'[BucketOf(t)] = [str |-> t, code |-> CodeBase + i - 1]
    BY <1>6 DEF EveryStringIndexed, BucketOf, Key
  <2>1. CASE i = Len(symbols) + 1
    <3>1. t = s /\ CodeBase + i - 1 = NextCode
      BY <2>1, <1>5, <1>6, <1>7 DEF CodeBase
    <3>2. Len(t) = 1 => byteCodes'[t[1]].code = NextCode
      BY <3>1, <1>1, <1>3, <1>8 DEF Index, TrainingTypes
    <3>3. Len(t) = 2 => shortCodes'[<<t[1], t[2]>>].code = NextCode
      BY <3>1, <1>1, <1>3, <1>8 DEF Index, TrainingTypes
    <3>4. Len(t) > 2 => hashTab'[BucketOf(t)] = [str |-> t, code |-> NextCode]
      BY <3>1, <1>1, <1>4, <1>8 DEF Index, TrainingTypes
    <3> QED
      BY <3>1, <3>2, <3>3, <3>4
  <2>2. CASE i \in 1..Len(symbols)
    <3>1. t = symbols[i] /\ t \in Strings
      BY <2>2, <1>5, <1>6
    <3>2. Len(t) \in 1..MaxLen /\ \A j \in 1..Len(t) : t[j] \in Byte
      BY <3>1, StringFacts
    <3>3. BucketOf(t) \in Buckets
      BY <3>1, KeyFacts
    <3>4. /\ Len(t) = 1 => byteCodes[t[1]].code = CodeBase + i - 1
          /\ Len(t) = 2 => shortCodes[<<t[1], t[2]>>].code = CodeBase + i - 1
          /\ Len(t) > 2 => hashTab[BucketOf(t)] = [str |-> t, code |-> CodeBase + i - 1]
      BY <2>2, <3>1, <1>1 DEF EveryStringIndexed
    <3>5. CodeBase + i - 1 >= CodeBase
      BY <2>2 DEF CodeBase
    <3>6. Len(t) = 1 => byteCodes'[t[1]].code = CodeBase + i - 1
      <4> SUFFICES ASSUME Len(t) = 1 PROVE byteCodes'[t[1]] = byteCodes[t[1]]
        BY <3>4
      <4>1. ~(Len(s) = 1 /\ s[1] = t[1])
        BY <1>8, <3>4, <3>5 DEF Taken
      <4> QED
        BY <4>1, <1>1, <1>3, <1>8, <3>2 DEF Index, TrainingTypes
    <3>7. Len(t) = 2 => shortCodes'[<<t[1], t[2]>>].code = CodeBase + i - 1
      <4> SUFFICES ASSUME Len(t) = 2
                   PROVE  shortCodes'[<<t[1], t[2]>>] = shortCodes[<<t[1], t[2]>>]
        BY <3>4
      <4>1. ~(Len(s) = 2 /\ <<s[1], s[2]>> = <<t[1], t[2]>>)
        BY <1>8, <3>4, <3>5 DEF Taken
      <4> QED
        BY <4>1, <1>1, <1>3, <1>8, <3>2 DEF Index, TrainingTypes
    <3>8. Len(t) > 2 => hashTab'[BucketOf(t)] = [str |-> t, code |-> CodeBase + i - 1]
      <4> SUFFICES ASSUME Len(t) > 2 PROVE hashTab'[BucketOf(t)] = hashTab[BucketOf(t)]
        BY <3>4
      <4>1. [str |-> t, code |-> CodeBase + i - 1] # Free
        BY <3>2 DEF Free
      <4>2. Len(s) > 2 => hashTab[BucketOf(s)] = Free
        BY <1>8, <1>3 DEF Taken
      <4>3. ~(Len(s) > 2 /\ BucketOf(s) = BucketOf(t))
        BY <4>1, <4>2, <3>4
      <4> QED
        BY <4>3, <1>1, <1>4, <1>8, <3>3 DEF Index, TrainingTypes
    <3> QED
      BY <3>6, <3>7, <3>8
  <2> QED
    BY <2>1, <2>2, <1>5
<1> QED
  BY <1>9, <1>10 DEF IndexInv, SlotsListed

LEMMA AddStep ==
  ASSUME IndexInv, NEW s \in Candidates \cup {<<terminator>>}, Add(s)
  PROVE  IndexInv'
<1>1. ~final /\ Len(symbols) < MaxSymbols /\ Insert(s)
  BY DEF Add
<1>2. s \in Strings
  BY <1>1, CandidateAssumption, ByteIsString DEF IndexInv, TrainingTypes
<1> QED
  BY <1>1, <1>2, InsertStep

\* clear() resets every slot that is in use.
LEMMA ClearSlots ==
  ASSUME SlotsListed, Clear
  PROVE  /\ SlotsListed'
         /\ \A b \in Byte : byteCodes'[b] = Escape(b)
         /\ \A p \in Byte \X Byte : shortCodes'[p] = Escape(p[1])
         /\ \A k \in Buckets : hashTab'[k] = Free
<1>1. TrainingTypes /\ ByteSlots /\ PairSlots /\ HashSlots
  BY DEF SlotsListed
<1>2. \A b \in Byte : byteCodes'[b] = Escape(b)
  BY <1>1 DEF ByteSlots, Clear, Listed
<1>3. ASSUME NEW p \in Byte \X Byte PROVE shortCodes'[p] = Escape(p[1])
  <2>1. PICK b \in Byte, c \in Byte : p = <<b, c>>
    OBVIOUS
  <2>2. shortCodes[p] = Escape(b) \/ p \in Listed
    BY <2>1, <1>1 DEF PairSlots, Listed
  <2> QED
    BY <2>1, <2>2 DEF Clear
<1>4. ASSUME NEW k \in Buckets PROVE hashTab'[k] = Free
  <2>1. hashTab[k] = Free \/ \E s \in Listed : Len(s) > 2 /\ BucketOf(s) = k
    BY <1>1 DEF HashSlots, Listed
  <2> QED
    BY <2>1 DEF Clear
<1>5. symbols' = << >>
  BY DEF Clear
<1>6. TrainingTypes'
  <2>1. \A b \in Byte : Escape(b) \in CodeWord
    BY ByteAssumption DEF Escape, CodeWord, CodeMask
  <2>2. \A p \in Byte \X Byte : p[1] \in Byte
    OBVIOUS
  <2>3. byteCodes' \in [Byte -> CodeWord]
    BY <1>2, <2>1 DEF Clear
  <2>4. shortCodes' \in [Byte \X Byte -> CodeWord]
    BY <1>3, <2>1, <2>2 DEF Clear
  <2>5. hashTab' \in [Buckets -> Entry]
    BY <1>4 DEF Clear, Entry
  <2>6. terminator' \in Byte
    BY <1>1 DEF Clear, modes, TrainingTypes
  <2> QED
    BY <1>5, <2>3, <2>4, <2>5, <2>6, SizeAssumption DEF TrainingTypes
<1>8. ByteSlots' /\ PairSlots' /\ HashSlots'
  BY <1>2, <1>3, <1>4 DEF ByteSlots, PairSlots, HashSlots, Escape, Free
<1> QED
  BY <1>2, <1>3, <1>4, <1>6, <1>8 DEF SlotsListed

LEMMA ClearStep ==
  ASSUME IndexInv, Clear
  PROVE  /\ IndexInv'
         /\ \A b \in Byte : byteCodes'[b] = Escape(b)
         /\ \A p \in Byte \X Byte : shortCodes'[p] = Escape(p[1])
         /\ \A k \in Buckets : hashTab'[k] = Free
<1>1. SlotsListed
  BY DEF Clear, IndexInv, SlotsListed
<1>2. EveryStringIndexed'
  BY DEF Clear, EveryStringIndexed
<1> QED
  BY <1>1, <1>2, ClearSlots DEF IndexInv, SlotsListed

\* finalize() ends the training: IndexInv says nothing of what follows.
LEMMA IndexStep == IndexInv /\ [Next]_tvars => IndexInv'
<1> SUFFICES ASSUME IndexInv, [Next]_tvars PROVE IndexInv'
  OBVIOUS
<1>1. ASSUME NEW s \in Candidates \cup {<<terminator>>}, Add(s) PROVE IndexInv'
  BY <1>1, AddStep
<1>2. CASE Clear
  BY <1>2, ClearStep
<1>3. CASE Finalize
  BY <1>3 DEF Finalize, IndexInv
<1>4. CASE UNCHANGED tvars
  BY <1>4 DEF tvars, indexes, modes, IndexInv, TrainingTypes, EveryStringIndexed,
              ByteSlots, PairSlots, HashSlots
<1> QED
  BY <1>1, <1>2, <1>3, <1>4 DEF Next

\* While a table is trained its indexes and its list of symbols agree, with
\* collisions, rejected strings and any number of clear().
THEOREM Invariance == Spec => []IndexInv
BY InitIndex, IndexStep, PTL DEF Spec

\* The indexes alone decide what a probe finds: the longest match.
LEMMA ProbeFindsLongest ==
  ASSUME IndexInv, ~final, NEW text \in Strings
  PROVE  /\ StartsWith(text, Meaning(Find(text)))
         /\ \A s \in Listed : StartsWith(text, s) =>
              Find(text) >= CodeBase /\ Len(s) <= Len(Meaning(Find(text)))
<1> DEFINE e == hashTab[BucketOf(text)]
           hit == e # Free /\ StartsWith(text, e.str)
<1>1. TrainingTypes /\ EveryStringIndexed /\ ByteSlots /\ PairSlots /\ HashSlots
  BY DEF IndexInv
<1>2. Len(text) \in Nat /\ Len(text) >= 1 /\ \A i \in 1..Len(text) : text[i] \in Byte
  BY StringFacts, SizeAssumption
<1>3. BucketOf(text) \in Buckets
  BY KeyFacts
<1>4. ASSUME NEW i \in 1..Len(symbols)
      PROVE  /\ symbols[i] \in Strings /\ Len(symbols[i]) \in Nat /\ Len(symbols[i]) >= 1
             /\ CodeBase + i - 1 >= CodeBase
             /\ Meaning(CodeBase + i - 1) = symbols[i]
  <2>1. symbols[i] \in Strings
    BY <1>1 DEF TrainingTypes
  <2>2. CodeBase + i - 1 >= CodeBase /\ CodeBase + i - 1 - CodeBase + 1 = i
    BY DEF CodeBase
  <2>3. Meaning(CodeBase + i - 1) = symbols[i]
    BY <2>2 DEF Meaning, IndexOf, CodeBase
  <2> QED
    BY <2>1, <2>2, <2>3, StringFacts, SizeAssumption
<1>5. ASSUME NEW s \in Listed, StartsWith(text, s), Len(s) > 2
      PROVE  hit /\ e.str = s
  <2>1. PICK i \in 1..Len(symbols) : s = symbols[i]
    BY DEF Listed
  <2>2. s \in Strings
    BY <2>1, <1>4
  <2>3. BucketOf(s) = BucketOf(text)
    BY <1>5, <2>2, SameBucket
  <2>4. e = [str |-> s, code |-> CodeBase + i - 1]
    BY <1>1, <1>5, <2>1, <2>3 DEF EveryStringIndexed
  <2>5. s # << >>
    BY <1>5
  <2> QED
    BY <1>5, <2>4, <2>5 DEF Free
<1>6. CASE hit
  <2>1. PICK i \in 1..Len(symbols) :
          e = [str |-> symbols[i], code |-> CodeBase + i - 1] /\ Len(symbols[i]) > 2
    BY <1>1, <1>3, <1>6 DEF HashSlots
  <2>2. Find(text) = CodeBase + i - 1
    BY <1>6, <2>1 DEF Find
  <2>3. Meaning(Find(text)) = symbols[i] /\ Find(text) >= CodeBase
    BY <2>2, <1>4
  <2>4. ASSUME NEW s \in Listed, StartsWith(text, s) PROVE Len(s) <= Len(symbols[i])
    <3>1. Len(s) \in Nat
      BY <1>4 DEF Listed
    <3>2. Len(s) > 2 => s = symbols[i]
      BY <2>4, <1>5, <2>1
    <3> QED
      BY <3>1, <3>2, <2>1, <1>4
  <2> QED
    BY <1>6, <2>1, <2>3, <2>4
<1>7. CASE ~hit /\ Len(text) >= 2 /\ shortCodes[<<text[1], text[2]>>].code >= CodeBase
  <2>1. text[1] \in Byte /\ text[2] \in Byte
    BY <1>2, <1>7
  <2>2. shortCodes[<<text[1], text[2]>>] # Escape(text[1])
    <3>1. \A b \in Byte : ~(Escape(b).code >= CodeBase)
      BY ByteAssumption DEF Escape, CodeBase
    <3> QED
      BY <1>7, <2>1, <3>1
  <2>3. PICK i \in 1..Len(symbols) :
          /\ symbols[i] = <<text[1], text[2]>>
          /\ shortCodes[<<text[1], text[2]>>].code = CodeBase + i - 1
    BY <1>1, <2>1, <2>2 DEF PairSlots
  <2>4. Find(text) = CodeBase + i - 1
    BY <1>7, <2>3 DEF Find
  <2>5. Meaning(Find(text)) = <<text[1], text[2]>> /\ Find(text) >= CodeBase
    BY <1>4, <2>3, <2>4
  <2>6. StartsWith(text, <<text[1], text[2]>>)
    BY <1>7 DEF StartsWith
  <2>7. ASSUME NEW s \in Listed, StartsWith(text, s) PROVE Len(s) <= 2
    <3>1. Len(s) \in Nat
      BY <1>4 DEF Listed
    <3> QED
      BY <3>1, <1>5, <1>7, <2>7
  <2> QED
    BY <2>5, <2>6, <2>7
<1>8. CASE ~hit /\ ~(Len(text) >= 2 /\ shortCodes[<<text[1], text[2]>>].code >= CodeBase)
  <2>1. Find(text) = byteCodes[text[1]].code /\ text[1] \in Byte
    BY <1>2, <1>8 DEF Find
  <2>2. StartsWith(text, <<text[1]>>)
    BY <1>2 DEF StartsWith
  <2>3. Meaning(Find(text)) = <<text[1]>>
    <3>1. CASE byteCodes[text[1]] = Escape(text[1])
      BY <2>1, <3>1, ByteAssumption DEF Meaning, Escape, CodeBase
    <3>2. CASE byteCodes[text[1]] # Escape(text[1])
      <4>1. PICK i \in 1..Len(symbols) :
              symbols[i] = <<text[1]>> /\ byteCodes[text[1]].code = CodeBase + i - 1
        BY <1>1, <2>1, <3>2 DEF ByteSlots
      <4> QED
        BY <2>1, <4>1, <1>4
    <3> QED
      BY <3>1, <3>2
  <2>4. ASSUME NEW s \in Listed, StartsWith(text, s)
        PROVE  Find(text) >= CodeBase /\ Len(s) = 1
    <3>1. PICK i \in 1..Len(symbols) : s = symbols[i]
      BY DEF Listed
    <3>2. Len(s) \in Nat /\ Len(s) >= 1 /\ Len(s) <= 2
      BY <3>1, <1>4, <1>5, <1>8, <2>4
    <3>3. Len(s) # 2
      <4> SUFFICES ASSUME Len(s) = 2 PROVE FALSE
        OBVIOUS
      <4>1. Len(text) >= 2 /\ s[1] = text[1] /\ s[2] = text[2]
        BY <1>2, <2>4 DEF StartsWith
      <4>2. shortCodes[<<text[1], text[2]>>].code = CodeBase + i - 1
        BY <1>1, <3>1, <4>1 DEF EveryStringIndexed
      <4> QED
        BY <1>4, <1>8, <4>1, <4>2
    <3>4. Len(s) = 1
      <4>1. \A n \in Nat : n >= 1 /\ n <= 2 /\ n # 2 => n = 1
        OBVIOUS
      <4> QED
        BY <3>2, <3>3, <4>1
    <3>5. s[1] = text[1]
      BY <2>4, <3>4 DEF StartsWith
    <3>6. byteCodes[text[1]].code = CodeBase + i - 1
      BY <1>1, <3>1, <3>4, <3>5 DEF EveryStringIndexed
    <3> QED
      BY <1>4, <2>1, <3>4, <3>6
  <2>5. Len(<<text[1]>>) = 1
    OBVIOUS
  <2>6. \A s \in Listed : StartsWith(text, s) =>
          Find(text) >= CodeBase /\ Len(s) <= Len(<<text[1]>>)
    BY <2>4, <2>5
  <2> QED
    BY <2>2, <2>3, <2>6
<1> QED
  BY <1>6, <1>7, <1>8

\* findLongestSymbol() returns the longest listed string that begins the
\* text, for every hash function and every history of the table.
THEOREM FindsLongest == Spec => []LongestMatch
<1>1. IndexInv => LongestMatch
  BY ProbeFindsLongest DEF LongestMatch
<1> QED
  BY <1>1, Invariance, PTL

\* clear() erases only the slots of the listed symbols, and no other slot
\* is in use.
THEOREM ClearLeavesNothing == Spec => ClearForgets
<1>1. IndexInv /\ [Next]_tvars =>
        [Clear => /\ \A b \in Byte : byteCodes'[b] = Escape(b)
                  /\ \A p \in Byte \X Byte : shortCodes'[p] = Escape(p[1])
                  /\ \A k \in Buckets : hashTab'[k] = Free]_tvars
  BY ClearStep
<1> QED
  BY <1>1, Invariance, PTL DEF Spec, ClearForgets

-----------------------------------------------------------------------------
(* finalize(): the new codes are the positions of the symbols in an order  *)
(* on them, hence a permutation, and that order is the layout.             *)

\* the symbols of one length
OfLength(l) == {i \in 1..Len(symbols) : Len(symbols[i]) = l}

\* What finalize() needs besides the indexes: the first symbol is the
\* terminator, zero in zero-terminated mode, and lenHisto counts.
HistoInv ==
  ~final => /\ zeroTerminated \in {0, 1}
            /\ zeroTerminated = 1 => terminator = 0
            /\ symbols # << >> => symbols[1] = <<terminator>>
            /\ DOMAIN lenHisto = 1..MaxLen
            /\ \A l \in 1..MaxLen : lenHisto[l] = Cardinality(OfLength(l))

\* the order of the final codes: the two-byte symbols that nothing extends,
\* those that something does (backwards), length 3 up to MaxLen, length 1
Class(i) ==
  IF Len(symbols[i]) = 2 THEN (IF Extended(i) THEN 2 ELSE 1)
  ELSE IF Len(symbols[i]) = 1 THEN MaxLen + 1 ELSE Len(symbols[i])

Precedes(k, i) ==
  \/ Class(k) < Class(i)
  \/ Class(k) = Class(i) /\ IF Class(i) = 2 THEN i <= k ELSE k <= i

\* the symbols up to i in that order
UpTo(i) == {k \in Renumbered : Precedes(k, i)}

\* what finalize() needs of the symbols: they are strings, and no two alike
ListInv ==
  ~final => /\ symbols \in Seq(Strings) /\ Len(symbols) <= MaxSymbols
            /\ \A i, j \in 1..Len(symbols) : symbols[i] = symbols[j] => i = j

\* A string that is indexed has one number.
LEMMA IndexedOnce == IndexInv => ListInv
<1> SUFFICES ASSUME IndexInv, ~final PROVE ListInv
  BY DEF ListInv
<1>1. TrainingTypes /\ EveryStringIndexed /\ symbols \in Seq(Strings)
      /\ Len(symbols) <= MaxSymbols
  BY DEF IndexInv, TrainingTypes
<1>3. \A i \in 1..Len(symbols) : symbols[i] \in Strings /\ Len(symbols[i]) \in 1..MaxLen
  BY <1>1, StringFacts
<1>4. ASSUME NEW i \in 1..Len(symbols), NEW j \in 1..Len(symbols), symbols[i] = symbols[j]
      PROVE  i = j
  <2>1. /\ Len(symbols[i]) = 1 => CodeBase + i - 1 = CodeBase + j - 1
        /\ Len(symbols[i]) = 2 => CodeBase + i - 1 = CodeBase + j - 1
    BY <1>1, <1>4 DEF EveryStringIndexed
  <2>2. Len(symbols[i]) > 2 => CodeBase + i - 1 = CodeBase + j - 1
    <3>1. ASSUME Len(symbols[i]) > 2
          PROVE  [str |-> symbols[i], code |-> CodeBase + i - 1] = [str |-> symbols[i], code |-> CodeBase + j - 1]
      BY <1>1, <1>4, <3>1 DEF EveryStringIndexed
    <3>2. \A s, a, b : [str |-> s, code |-> a] = [str |-> s, code |-> b] => a = b
      OBVIOUS
    <3> QED BY <3>1, <3>2
  <2>3. Len(symbols[i]) = 1 \/ Len(symbols[i]) = 2 \/ Len(symbols[i]) > 2
    <3>1. Len(symbols[i]) \in 1..MaxLen
      BY <1>3
    <3>2. \A x, m : m \in Nat /\ x \in 1..m => x = 1 \/ x = 2 \/ x > 2
      OBVIOUS
    <3> QED BY <3>1, <3>2, SizeAssumption
  <2>4. CodeBase + i - 1 = CodeBase + j - 1
    BY <2>1, <2>2, <2>3
  <2> QED BY <2>4 DEF CodeBase
<1> QED BY <1>1, <1>4 DEF ListInv

\* There are as many strings as symbols.
LEMMA ListCounted ==
  ASSUME ListInv, ~final
  PROVE  Cardinality(Listed) = Len(symbols) /\ Len(symbols) \in Nat
<1>1. symbols \in Seq(Strings) /\ \A i, j \in 1..Len(symbols) : symbols[i] = symbols[j] => i = j
  BY DEF ListInv
<1>2. PICK n \in Nat : n = Len(symbols)
  BY <1>1
<1> DEFINE f == [i \in 1..n |-> symbols[i]]
<1>3. f \in Bijection(1..n, Listed)
  <2>1. \A i \in 1..n : f[i] = symbols[i]
    OBVIOUS
  <2>2. \A i, j \in 1..n : symbols[i] = symbols[j] => i = j
    BY <1>1, <1>2
  <2>3. \A x : x \in Listed <=> \E i \in 1..n : x = symbols[i]
    BY <1>2 DEF Listed
  <2>4. f \in [1..n -> Listed]
    BY <2>3
  <2> HIDE DEF f
  <2>5. f \in Injection(1..n, Listed)
    BY <2>1, <2>2, <2>4 DEF Injection, IsInjective
  <2>6. f \in Surjection(1..n, Listed)
    BY <2>1, <2>3, <2>4 DEF Surjection
  <2> QED BY <2>5, <2>6 DEF Bijection
<1>4. IsFiniteSet(1..n) /\ Cardinality(1..n) = n
  BY FS_Interval
<1> HIDE DEF f
<1>5. Cardinality(Listed) = n
  <2>1. f \in Surjection(1..n, Listed) /\ f \in Injection(1..n, Listed)
    BY <1>3 DEF Bijection
  <2>2. Cardinality(Listed) = Cardinality(1..n) <=> f \in Injection(1..n, Listed)
    BY <1>4, <2>1, FS_Surjection, SMTT(20)
  <2> QED BY <1>4, <2>1, <2>2
<1> QED BY <1>2, <1>5

\* What is known of the table when finalize() is called.
LEMMA TableFacts ==
  ASSUME ListInv, HistoInv, ~final
  PROVE  /\ Len(symbols) \in Nat /\ Len(symbols) <= 255 /\ zeroTerminated \in {0, 1}
         /\ \A i \in 1..Len(symbols) : symbols[i] \in Strings /\ Len(symbols[i]) \in 1..MaxLen
         /\ \A i, j \in 1..Len(symbols) : symbols[i] = symbols[j] => i = j
         /\ Renumbered \subseteq 1..Len(symbols) /\ IsFiniteSet(Renumbered)
         /\ zeroTerminated = 1 /\ symbols # << >> => Len(symbols[1]) = 1 /\ 1 \in 1..Len(symbols)
         /\ symbols # << >> => Cardinality(Renumbered) = Len(symbols) - zeroTerminated
<1>1. /\ zeroTerminated \in {0, 1} /\ symbols \in Seq(Strings) /\ Len(symbols) \in Nat
      /\ Len(symbols) <= MaxSymbols
  BY DEF ListInv, HistoInv
<1>2. Len(symbols) <= 255
  <2>1. \A x, m : x \in Nat /\ m \in 1..255 /\ x <= m => x <= 255
    OBVIOUS
  <2> QED BY <1>1, <2>1, SizeAssumption
<1>3. \A i \in 1..Len(symbols) : symbols[i] \in Strings /\ Len(symbols[i]) \in 1..MaxLen
  BY <1>1, StringFacts
<1>4. \A i, j \in 1..Len(symbols) : symbols[i] = symbols[j] => i = j
  BY DEF ListInv
<1>5. Renumbered \subseteq 1..Len(symbols)
  BY <1>1 DEF Renumbered
<1>6. IsFiniteSet(1..Len(symbols)) /\ IsFiniteSet(Renumbered)
  <2>1. IsFiniteSet(1..Len(symbols))
    BY <1>1, FS_Interval
  <2>2. Renumbered \in SUBSET (1..Len(symbols))
    BY <1>5
  <2>3. IsFiniteSet(Renumbered)
    BY <2>1, <2>2, FS_Subset
  <2> QED BY <2>1, <2>3
<1>7. ASSUME symbols # << >>
      PROVE  /\ 1 \in 1..Len(symbols) /\ Cardinality(Renumbered) = Len(symbols) - zeroTerminated
             /\ Len(symbols[1]) = 1
  <2>1. Len(symbols) # 0
    BY <1>1, <1>7, EmptySeq
  <2>2. zeroTerminated + 1 \in Int /\ Len(symbols) \in Int
    BY <1>1
  <2>3. Cardinality(Renumbered) =
          IF zeroTerminated + 1 > Len(symbols) THEN 0 ELSE Len(symbols) - (zeroTerminated + 1) + 1
    BY <2>2, FS_Interval DEF Renumbered
  <2>4. symbols[1] = <<terminator>>
    BY <1>7 DEF HistoInv
  <2> QED BY <1>1, <2>1, <2>3, <2>4
<1> QED BY <1>1, <1>2, <1>3, <1>4, <1>5, <1>6, <1>7

\* A length of two or more is that of renumbered symbols only.
LEMMA LongerAreRenumbered ==
  ASSUME ListInv, HistoInv, ~final, symbols # << >>, NEW l \in 2..MaxLen
  PROVE  /\ OfLength(l) = {k \in Renumbered : Len(symbols[k]) = l}
         /\ lenHisto[l] = Cardinality(OfLength(l)) /\ IsFiniteSet(OfLength(l))
<1>1. l \in 1..MaxLen /\ l # 1
  BY SizeAssumption
<1>2. lenHisto[l] = Cardinality(OfLength(l))
  BY <1>1 DEF HistoInv
<1>3. ASSUME NEW k \in 1..Len(symbols), Len(symbols[k]) = l PROVE k \in Renumbered
  <2>1. k = 1 => zeroTerminated # 1
    BY <1>1, <1>3, TableFacts
  <2> QED BY <2>1, TableFacts DEF Renumbered
<1>4. OfLength(l) = {k \in Renumbered : Len(symbols[k]) = l}
  BY <1>3, TableFacts DEF OfLength
<1>5. IsFiniteSet(OfLength(l))
  BY <1>4, TableFacts, FS_Subset
<1> QED BY <1>2, <1>4, <1>5

\* rsum[] counts: the codes of length l start behind those of lengths 2 to l - 1.
LEMMA Starts ==
  ASSUME ListInv, HistoInv, ~final, symbols # << >>, NEW l \in 2..MaxLen + 1
  PROVE  Start(l) = zeroTerminated +
           Cardinality({k \in Renumbered : 2 <= Len(symbols[k]) /\ Len(symbols[k]) < l})
<1> DEFINE Shorter(m) == {k \in Renumbered : 2 <= Len(symbols[k]) /\ Len(symbols[k]) < m}
           P == {m \in Nat : m \in 0..MaxLen - 1 =>
                   SumFunctionOnSet(lenHisto, 2..m + 1) = Cardinality(Shorter(m + 2))}
<1>0. MaxLen \in Nat /\ MaxLen >= 3
  BY SizeAssumption
<1>1. \A k \in Renumbered : Len(symbols[k]) \in Nat
  BY <1>0, TableFacts
<1>2. 0 \in P
  <2>1. 2..0 + 1 = {} /\ Shorter(0 + 2) = {}
    BY <1>1
  <2> QED BY <2>1, SumEmpty, FS_EmptySet
<1>3. ASSUME NEW m \in Nat, m \in P PROVE m + 1 \in P
  <2> SUFFICES ASSUME m + 1 \in 0..MaxLen - 1
               PROVE  SumFunctionOnSet(lenHisto, 2..m + 1 + 1) = Cardinality(Shorter(m + 1 + 2))
    OBVIOUS
  <2>1. SumFunctionOnSet(lenHisto, 2..m + 1) = Cardinality(Shorter(m + 2))
    <3>1. m \in 0..MaxLen - 1
      BY <1>0
    <3> QED BY <1>3, <3>1
  <2>2. m + 2 \in 2..MaxLen /\ m + 1 + 1 = m + 2 /\ m + 1 + 2 = m + 3
    BY <1>0
  <2>3. /\ OfLength(m + 2) = {k \in Renumbered : Len(symbols[k]) = m + 2}
        /\ lenHisto[m + 2] = Cardinality(OfLength(m + 2)) /\ IsFiniteSet(OfLength(m + 2))
    BY <2>2, LongerAreRenumbered
  <2>4. \A y \in 2..m + 1 : lenHisto[y] \in Int
    <3> TAKE y \in 2..m + 1
    <3>1. y \in 2..MaxLen
      BY <2>2, <1>0
    <3>2. lenHisto[y] = Cardinality(OfLength(y)) /\ IsFiniteSet(OfLength(y))
      BY <3>1, LongerAreRenumbered
    <3> QED BY <3>2, FS_CardinalityType
  <2>5. lenHisto[m + 2] \in Int
    BY <2>3, FS_CardinalityType
  <2>6. SumFunctionOnSet(lenHisto, 2..m + 2) = lenHisto[m + 2] + SumFunctionOnSet(lenHisto, 2..m + 1)
    <3>1. 2..m + 2 = (2..m + 1) \cup {m + 2} /\ m + 2 \notin 2..m + 1
      OBVIOUS
    <3>2. IsFiniteSet(2..m + 1)
      BY FS_Interval
    <3> QED BY <2>4, <2>5, <3>1, <3>2, SumAdd
  <2>7. Cardinality(Shorter(m + 3)) = Cardinality(Shorter(m + 2)) + Cardinality(OfLength(m + 2))
    <3>1. Shorter(m + 2) \cup OfLength(m + 2) = Shorter(m + 3) /\ Shorter(m + 2) \cap OfLength(m + 2) = {}
      BY <1>1, <2>3
    <3>2. Shorter(m + 3) \subseteq Renumbered
      OBVIOUS
    <3>3. IsFiniteSet(Shorter(m + 3))
      BY <3>2, TableFacts, FS_Subset
    <3> HIDE DEF Shorter
    <3> QED BY <3>1, <3>3, TwoParts
  <2> HIDE DEF Shorter
  <2>8. Cardinality(Shorter(m + 2)) \in Int
    <3>1. Shorter(m + 2) \subseteq Renumbered
      BY DEF Shorter
    <3>2. IsFiniteSet(Shorter(m + 2))
      BY <3>1, TableFacts, FS_Subset
    <3> QED BY <3>2, FS_CardinalityType
  <2> QED BY <2>1, <2>2, <2>3, <2>5, <2>6, <2>7, <2>8
<1>4. Nat \subseteq P
  <2> HIDE DEF P
  <2> QED BY <1>2, <1>3, Induction
<1>5. l - 2 \in Nat /\ l - 2 \in 0..MaxLen - 1 /\ (l - 2) + 1 = l - 1 /\ (l - 2) + 2 = l /\ l # 1
  BY <1>0
<1>6. SumFunctionOnSet(lenHisto, 2..(l - 2) + 1) = Cardinality(Shorter((l - 2) + 2))
  <2>1. \A m \in Nat : m \in 0..MaxLen - 1 =>
          SumFunctionOnSet(lenHisto, 2..m + 1) = Cardinality(Shorter(m + 2))
    BY <1>4
  <2> HIDE DEF Shorter, P
  <2> QED BY <1>5, <2>1
<1> QED BY <1>5, <1>6 DEF Start

\* The branches of finalize()'s renumbering.
LEMMA NewCodeCases ==
  ASSUME NEW i \in Renumbered, i \in Nat, zeroTerminated \in Nat
  PROVE  /\ Len(symbols[i]) = 2 /\ ~Extended(i) =>
              NewCode(i) = Start(2) + Cardinality({k \in Renumbered : k <= i /\ Len(symbols[k]) = 2 /\ ~Extended(k)}) - 1
         /\ Len(symbols[i]) = 2 /\ Extended(i) =>
              NewCode(i) = Start(3) - Cardinality({k \in Renumbered : k <= i /\ Len(symbols[k]) = 2 /\ Extended(k)})
         /\ Len(symbols[i]) # 2 =>
              NewCode(i) = Start(Len(symbols[i]))
                           + Cardinality({k \in Renumbered : k <= i /\ Len(symbols[k]) = Len(symbols[i])}) - 1
<1>1. ~(i <= zeroTerminated)
  BY DEF Renumbered
<1> QED BY <1>1 DEF NewCode, Count

\* Every class is a number, and only some lengths have each.
LEMMA ClassFacts ==
  ASSUME ListInv, HistoInv, ~final, NEW k \in Renumbered
  PROVE  /\ Class(k) \in Nat /\ k \in Nat /\ Len(symbols[k]) \in 1..MaxLen
         /\ Len(symbols[k]) \in Nat /\ Len(symbols[k]) >= 1 /\ Len(symbols[k]) <= MaxLen
         /\ Len(symbols[k]) = 1 \/ Len(symbols[k]) = 2 \/ Len(symbols[k]) > 2
         /\ Class(k) = 1 <=> Len(symbols[k]) = 2 /\ ~Extended(k)
         /\ Class(k) = 2 <=> Len(symbols[k]) = 2 /\ Extended(k)
         /\ Class(k) = MaxLen + 1 <=> Len(symbols[k]) = 1
         /\ Len(symbols[k]) > 2 => Class(k) = Len(symbols[k])
         /\ Class(k) > 2 => Len(symbols[k]) # 2
         /\ Class(k) >= 1 /\ Class(k) <= MaxLen + 1
<1>1. k \in Nat /\ Len(symbols[k]) \in 1..MaxLen
  <2>1. k \in 1..Len(symbols) /\ Len(symbols[k]) \in 1..MaxLen /\ Len(symbols) \in Nat
    BY TableFacts
  <2> QED BY <2>1
<1>2. MaxLen \in Nat /\ MaxLen >= 3
  BY SizeAssumption
<1>3. \A l \in 1..MaxLen :
        /\ l \in Nat /\ l >= 1 /\ l <= MaxLen /\ (l = 1 \/ l = 2 \/ l > 2)
        /\ MaxLen + 1 \in Nat /\ MaxLen + 1 > 2 /\ l # MaxLen + 1
        /\ l > 2 => l # 1 /\ l # 2
  BY <1>2
<1>4. Class(k) = IF Len(symbols[k]) = 2 THEN (IF Extended(k) THEN 2 ELSE 1)
                 ELSE IF Len(symbols[k]) = 1 THEN MaxLen + 1 ELSE Len(symbols[k])
  BY DEF Class
<1> DEFINE l == Len(symbols[k])
<1>5. /\ l \in 1..MaxLen /\ l \in Nat /\ l >= 1 /\ l <= MaxLen /\ (l = 1 \/ l = 2 \/ l > 2)
      /\ MaxLen + 1 \in Nat /\ MaxLen + 1 > 2 /\ l # MaxLen + 1
      /\ l > 2 => l # 1 /\ l # 2
  BY <1>1, <1>3
<1> HIDE DEF Class, l
<1>6. CASE l = 1
  <2>1. Class(k) = MaxLen + 1
    BY <1>4, <1>6 DEF l
  <2> QED BY <1>1, <1>2, <1>5, <1>6, <2>1 DEF l
<1>7. CASE l = 2 /\ Extended(k)
  <2>1. Class(k) = 2
    BY <1>4, <1>7 DEF l
  <2> QED BY <1>1, <1>2, <1>5, <1>7, <2>1 DEF l
<1>8. CASE l = 2 /\ ~Extended(k)
  <2>1. Class(k) = 1
    BY <1>4, <1>8 DEF l
  <2> QED BY <1>1, <1>2, <1>5, <1>8, <2>1 DEF l
<1>9. CASE l > 2
  <2>1. Class(k) = l
    BY <1>4, <1>5, <1>9 DEF l
  <2> QED BY <1>1, <1>2, <1>5, <1>9, <2>1 DEF l
<1> QED BY <1>5, <1>6, <1>7, <1>8, <1>9

\* The codes in the classes below class c.
LEMMA NewCodeIsRank ==
  ASSUME ListInv, HistoInv, ~final, symbols # << >>, NEW i \in Renumbered
  PROVE  /\ NewCode(i) = zeroTerminated + Cardinality(UpTo(i)) - 1
         /\ UpTo(i) \in SUBSET Renumbered /\ IsFiniteSet(UpTo(i)) /\ i \in UpTo(i)
<1> DEFINE Until == {k \in Renumbered : Class(k) = Class(i) /\ k <= i}
           From == {k \in Renumbered : Class(k) = Class(i) /\ i <= k}
           Before == {k \in Renumbered : Class(k) < Class(i)}
           Same == {k \in Renumbered : Class(k) = Class(i)}
           Long(l) == {k \in Renumbered : 2 <= Len(symbols[k]) /\ Len(symbols[k]) < l}
           l == Len(symbols[i])
<1>0. /\ zeroTerminated \in Nat /\ IsFiniteSet(Renumbered) /\ MaxLen \in Nat /\ MaxLen >= 3
      /\ 2 \in 2..MaxLen + 1 /\ 3 \in 2..MaxLen + 1
  BY TableFacts, SizeAssumption
<1>1. \A k \in Renumbered :
         /\ Class(k) \in Nat /\ k \in Nat /\ Len(symbols[k]) \in 1..MaxLen
         /\ Len(symbols[k]) \in Nat /\ Len(symbols[k]) >= 1 /\ Len(symbols[k]) <= MaxLen
         /\ Len(symbols[k]) = 1 \/ Len(symbols[k]) = 2 \/ Len(symbols[k]) > 2
         /\ Class(k) = 1 <=> Len(symbols[k]) = 2 /\ ~Extended(k)
         /\ Class(k) = 2 <=> Len(symbols[k]) = 2 /\ Extended(k)
         /\ Class(k) = MaxLen + 1 <=> Len(symbols[k]) = 1
         /\ Len(symbols[k]) > 2 => Class(k) = Len(symbols[k])
         /\ Class(k) >= 1 /\ Class(k) <= MaxLen + 1
         /\ Class(k) > 2 => Len(symbols[k]) # 2
  BY ClassFacts
<1>2. UpTo(i) \in SUBSET Renumbered /\ IsFiniteSet(UpTo(i)) /\ i \in UpTo(i)
  <2>1. UpTo(i) \in SUBSET Renumbered /\ i \in UpTo(i)
    BY <1>1 DEF UpTo, Precedes
  <2> QED BY <1>0, <2>1, FS_Subset
<1>3. \A m \in 2..MaxLen + 1 : Start(m) = zeroTerminated + Cardinality(Long(m))
  BY Starts
<1>4. CASE Class(i) = 1
  <2>1. NewCode(i) = Start(2) + Cardinality({k \in Renumbered : k <= i /\ Len(symbols[k]) = 2 /\ ~Extended(k)}) - 1
    BY <1>0, <1>1, <1>4, NewCodeCases
  <2>2. {k \in Renumbered : k <= i /\ Len(symbols[k]) = 2 /\ ~Extended(k)} = UpTo(i)
    <3> SUFFICES ASSUME NEW k \in Renumbered
                 PROVE  k <= i /\ Len(symbols[k]) = 2 /\ ~Extended(k) <=> Precedes(k, i)
      BY DEF UpTo
    <3>1. k <= i /\ Class(k) = 1 <=> Precedes(k, i)
      BY <1>1, <1>4 DEF Precedes
    <3> QED BY <1>1, <3>1
  <2>3. Long(2) = {}
    BY <1>0, <1>1
  <2>4. Start(2) = zeroTerminated
    BY <1>0, <1>3, <2>3, FS_EmptySet
  <2> QED BY <1>2, <2>1, <2>2, <2>4
<1>5. CASE Class(i) = 2
  <2>1. NewCode(i) = Start(3) - Cardinality({k \in Renumbered : k <= i /\ Len(symbols[k]) = 2 /\ Extended(k)})
    BY <1>0, <1>1, <1>5, NewCodeCases
  <2>2. {k \in Renumbered : k <= i /\ Len(symbols[k]) = 2 /\ Extended(k)} = Until
    BY <1>1, <1>5
  <2>3. Long(3) = Before \cup Same /\ Before \cap Same = {}
    <3>1. \A k \in Renumbered : (2 <= Len(symbols[k]) /\ Len(symbols[k]) < 3) <=> (Class(k) = 1 \/ Class(k) = 2)
      <4> TAKE k \in Renumbered
      <4>1. (2 <= Len(symbols[k]) /\ Len(symbols[k]) < 3) <=> Len(symbols[k]) = 2
        <5>1. Len(symbols[k]) \in Nat
          BY <1>1
        <5>2. \A x \in Nat : (2 <= x /\ x < 3) <=> x = 2
          OBVIOUS
        <5> QED BY <5>1, <5>2
      <4>2. Len(symbols[k]) = 2 <=> (Class(k) = 1 \/ Class(k) = 2)
        BY <1>1
      <4> QED BY <4>1, <4>2
    <3>2. \A k \in Renumbered : Class(k) < Class(i) <=> Class(k) = 1
      BY <1>1, <1>5
    <3> QED BY <1>5, <3>1, <3>2
  <2>4. UpTo(i) = Before \cup From /\ Before \cap From = {}
    BY <1>1, <1>5 DEF UpTo, Precedes
  <2>5. Same \cup {i} = Same /\ Same = Until \cup (From \ {i}) /\ Until \cap (From \ {i}) = {} /\ i \in From
    BY <1>1
  <2>6. Long(3) \in SUBSET Renumbered /\ Same \in SUBSET Renumbered
    OBVIOUS
  <2>7. IsFiniteSet(Long(3)) /\ IsFiniteSet(Same)
    BY <1>0, <2>6, FS_Subset
  <2>8. Start(3) = zeroTerminated + Cardinality(Long(3))
    BY <1>0, <1>3
  <2> HIDE DEF Before, Same, Until, From, Long
  <2>9. Cardinality(Long(3)) = Cardinality(Before) + Cardinality(Same) /\ Cardinality(Before) \in Nat
    BY <2>3, <2>7, TwoParts
  <2>10. Cardinality(Same) = Cardinality(Until) + Cardinality(From \ {i})
         /\ Cardinality(Until) \in Nat /\ Cardinality(From \ {i}) \in Nat /\ IsFiniteSet(From \ {i})
    BY <2>5, <2>7, TwoParts
  <2>11. Cardinality(From) = Cardinality(From \ {i}) + 1
    <3>1. From = (From \ {i}) \cup {i} /\ i \notin From \ {i}
      BY <2>5
    <3> QED BY <2>10, <3>1, FS_AddElement
  <2>12. Cardinality(UpTo(i)) = Cardinality(Before) + Cardinality(From)
    BY <1>2, <2>4, TwoParts
  <2>13. NewCode(i) = (zeroTerminated + (Cardinality(Before) + (Cardinality(Until) + Cardinality(From \ {i})))) - Cardinality(Until)
    BY <2>1, <2>2, <2>8, <2>9, <2>10
  <2>14. Cardinality(UpTo(i)) = Cardinality(Before) + (Cardinality(From \ {i}) + 1)
    BY <2>11, <2>12
  <2>15. \A z, b, u, f \in Nat : (z + (b + (u + f))) - u = z + (b + (f + 1)) - 1
    OBVIOUS
  <2>16. NewCode(i) = zeroTerminated + (Cardinality(Before) + (Cardinality(From \ {i}) + 1)) - 1
    BY <1>0, <2>9, <2>10, <2>13, <2>15
  <2> QED BY <1>2, <2>14, <2>16
<1>6. CASE Class(i) > 2
  <2>1. l # 2 /\ NewCode(i) = Start(l) + Cardinality({k \in Renumbered : k <= i /\ Len(symbols[k]) = l}) - 1
    BY <1>0, <1>1, <1>6, NewCodeCases
  <2>2. {k \in Renumbered : k <= i /\ Len(symbols[k]) = l} = Until
    <3>1. \A k \in Renumbered : Len(symbols[k]) = l <=> Class(k) = Class(i)
      <4> TAKE k \in Renumbered
      <4>1. /\ Len(symbols[k]) \in 1..MaxLen /\ l \in 1..MaxLen /\ l # 2
        BY <1>1, <2>1
      <4>2. CASE l = 1
        BY <1>1, <4>2
      <4>3. CASE l > 2
        <5>1. Class(i) = l /\ l # MaxLen + 1
          BY <1>0, <1>1, <4>1, <4>3
        <5>2. CASE Len(symbols[k]) = 1
          BY <1>1, <5>1, <5>2
        <5>3. CASE Len(symbols[k]) = 2
          BY <1>1, <1>6, <4>1, <5>3
        <5>4. CASE Len(symbols[k]) > 2
          BY <1>1, <5>1, <5>4
        <5> QED BY <1>1, <5>2, <5>3, <5>4
      <4> QED BY <1>1, <4>1, <4>2, <4>3
    <3> QED BY <3>1
  <2>3. UpTo(i) = Before \cup Until /\ Before \cap Until = {}
    BY <1>1, <1>6 DEF UpTo, Precedes
  <2>4. Start(l) = zeroTerminated + Cardinality(Before)
    <3>1. CASE l > 2
      <4>1. Class(i) = l /\ l \in 2..MaxLen + 1
        BY <1>0, <1>1, <3>1
      <4>2. \A k \in Renumbered : 2 <= Len(symbols[k]) /\ Len(symbols[k]) < l <=> Class(k) < l
        <5> TAKE k \in Renumbered
        <5>1. Len(symbols[k]) \in 1..MaxLen /\ l \in 1..MaxLen
          BY <1>1
        <5>2. CASE Len(symbols[k]) = 1
          BY <1>0, <1>1, <5>1, <5>2
        <5>3. CASE Len(symbols[k]) = 2
          <6>1. Class(k) = 1 \/ Class(k) = 2
            BY <1>1, <5>3
          <6> QED BY <3>1, <5>3, <6>1
        <5>4. CASE Len(symbols[k]) > 2
          BY <1>1, <5>1, <5>4
        <5> QED BY <1>1, <5>2, <5>3, <5>4
      <4>3. Long(l) = Before
        BY <4>1, <4>2
      <4> HIDE DEF Long, Before
      <4> QED BY <1>3, <4>1, <4>3
    <3>2. CASE l = 1
      <4> DEFINE Ones == {k \in Renumbered : Len(symbols[k]) = 1}
      <4>1. Class(i) = MaxLen + 1
        BY <1>1, <3>2
      <4>2. Renumbered = Before \cup Ones /\ Before \cap Ones = {}
        <5>1. \A k \in Renumbered : Class(k) < Class(i) <=> Len(symbols[k]) # 1
          BY <1>0, <1>1, <4>1
        <5> QED BY <5>1
      <4>3. OfLength(1) = Ones \cup (1..zeroTerminated) /\ Ones \cap (1..zeroTerminated) = {}
        <5>1. zeroTerminated \in {0, 1} /\ Len(symbols) \in Nat
          BY TableFacts
        <5>2. zeroTerminated = 1 => Len(symbols[1]) = 1 /\ 1 \in 1..Len(symbols)
          BY TableFacts
        <5>3. \A k : k \in Renumbered <=> k \in zeroTerminated + 1..Len(symbols)
          BY DEF Renumbered
        <5> QED BY <5>1, <5>2, <5>3 DEF OfLength
      <4>4. lenHisto[1] = Cardinality(OfLength(1)) /\ IsFiniteSet(OfLength(1))
        <5>1. OfLength(1) \in SUBSET (1..Len(symbols)) /\ 1 \in 1..MaxLen
          BY <1>0 DEF OfLength
        <5>2. IsFiniteSet(1..Len(symbols))
          BY TableFacts, FS_Interval
        <5>3. IsFiniteSet(OfLength(1))
          BY <5>1, <5>2, FS_Subset
        <5> QED BY <5>1, <5>3 DEF HistoInv
      <4>5. Cardinality(1..zeroTerminated) = zeroTerminated
        BY <1>0, TableFacts, FS_Interval
      <4>6. Cardinality(Renumbered) = Len(symbols) - zeroTerminated
        BY TableFacts
      <4> HIDE DEF Before, Ones
      <4>7. lenHisto[1] = Cardinality(Ones) + zeroTerminated /\ Cardinality(Ones) \in Nat
        <5>1. IsFiniteSet(Ones \cup (1..zeroTerminated))
          BY <4>3, <4>4
        <5>2. /\ Cardinality(Ones \cup (1..zeroTerminated)) = Cardinality(Ones) + Cardinality(1..zeroTerminated)
              /\ Cardinality(Ones) \in Nat
          BY <4>3, <5>1, TwoParts
        <5> QED BY <4>3, <4>4, <4>5, <5>2
      <4>8. Len(symbols) - zeroTerminated = Cardinality(Before) + Cardinality(Ones) /\ Cardinality(Before) \in Nat
        BY <1>0, <4>2, <4>6, TwoParts
      <4>9. Start(l) = Len(symbols) - (lenHisto[1] - zeroTerminated)
        BY <3>2 DEF Start
      <4>10. Start(l) = Len(symbols) - ((Cardinality(Ones) + zeroTerminated) - zeroTerminated)
        BY <4>7, <4>9
      <4>11. \A n, z, b, o \in Nat : n - z = b + o => n - ((o + z) - z) = z + b
        OBVIOUS
      <4>12. Len(symbols) \in Nat
        BY TableFacts
      <4>13. Len(symbols) - ((Cardinality(Ones) + zeroTerminated) - zeroTerminated) = zeroTerminated + Cardinality(Before)
        <5>1. zeroTerminated \in Nat /\ Cardinality(Before) \in Nat /\ Cardinality(Ones) \in Nat
          BY <1>0, <4>7, <4>8
        <5>2. Len(symbols) - zeroTerminated = Cardinality(Before) + Cardinality(Ones)
          BY <4>8
        <5> QED BY <4>11, <4>12, <5>1, <5>2
      <4> QED BY <4>10, <4>13
    <3>3. l = 1 \/ l = 2 \/ l > 2
      BY <1>1
    <3> QED BY <2>1, <3>1, <3>2, <3>3
  <2>5. Until \in SUBSET Renumbered /\ Before \in SUBSET Renumbered
    OBVIOUS
  <2> HIDE DEF Before, Until, l
  <2>6. Cardinality(UpTo(i)) = Cardinality(Before) + Cardinality(Until)
        /\ Cardinality(Before) \in Nat /\ Cardinality(Until) \in Nat
    BY <1>2, <2>3, TwoParts
  <2>7. \A z, b, u \in Nat : (z + b) + u - 1 = z + (b + u) - 1
    OBVIOUS
  <2>8. NewCode(i) = (zeroTerminated + Cardinality(Before)) + Cardinality(Until) - 1
    BY <2>1, <2>2, <2>4
  <2> QED BY <1>0, <1>2, <2>6, <2>7, <2>8
<1>7. Class(i) = 1 \/ Class(i) = 2 \/ Class(i) > 2
  BY <1>1
<1> QED BY <1>4, <1>5, <1>6, <1>7

\* The new codes follow that order.
LEMMA NewCodesInOrder ==
  ASSUME ListInv, HistoInv, ~final, symbols # << >>,
         NEW k \in Renumbered, NEW i \in Renumbered, k # i, Precedes(k, i)
  PROVE  NewCode(k) < NewCode(i)
<1>1. \A j \in Renumbered : Class(j) \in Nat /\ j \in Nat
  BY ClassFacts
<1>2. UpTo(k) \in SUBSET UpTo(i)
  <2>1. ASSUME NEW j \in Renumbered, Precedes(j, k) PROVE Precedes(j, i)
    <3>1. Class(j) < Class(k) \/ Class(j) = Class(k)
      BY <2>1 DEF Precedes
    <3>2. Class(k) < Class(i) \/ Class(k) = Class(i)
      BY DEF Precedes
    <3>3. CASE Class(j) = Class(k) /\ Class(k) = Class(i)
      <4>1. IF Class(i) = 2 THEN i <= k ELSE k <= i
        BY <1>1, <3>3 DEF Precedes
      <4>2. IF Class(i) = 2 THEN k <= j ELSE j <= k
        BY <1>1, <2>1, <3>3 DEF Precedes
      <4>3. IF Class(i) = 2 THEN i <= j ELSE j <= i
        BY <1>1, <4>1, <4>2
      <4> QED BY <3>3, <4>3 DEF Precedes
    <3>4. CASE ~(Class(j) = Class(k) /\ Class(k) = Class(i))
      <4>1. Class(j) < Class(i)
        BY <1>1, <3>1, <3>2, <3>4
      <4> QED BY <4>1 DEF Precedes
    <3> QED BY <3>3, <3>4
  <2> QED BY <2>1 DEF UpTo
<1>3. i \notin UpTo(k)
  BY <1>1 DEF UpTo, Precedes
<1>4. /\ NewCode(i) = zeroTerminated + Cardinality(UpTo(i)) - 1 /\ IsFiniteSet(UpTo(i)) /\ i \in UpTo(i)
      /\ NewCode(k) = zeroTerminated + Cardinality(UpTo(k)) - 1 /\ IsFiniteSet(UpTo(k))
  BY NewCodeIsRank
<1>5. Cardinality(UpTo(k)) <= Cardinality(UpTo(i)) /\ Cardinality(UpTo(k)) # Cardinality(UpTo(i))
  BY <1>2, <1>3, <1>4, FS_Subset
<1>6. Cardinality(UpTo(k)) \in Nat /\ Cardinality(UpTo(i)) \in Nat
  BY <1>4, FS_CardinalityType
<1>7. zeroTerminated \in Nat
  BY TableFacts
<1>8. \A z, a, b \in Nat : a <= b /\ a # b => z + a - 1 < z + b - 1
  OBVIOUS
<1>9. zeroTerminated + Cardinality(UpTo(k)) - 1 < zeroTerminated + Cardinality(UpTo(i)) - 1
  BY <1>5, <1>6, <1>7, <1>8
<1> QED BY <1>4, <1>9

\* Of two symbols one precedes the other.
LEMMA OneOrTheOther ==
  ASSUME ListInv, HistoInv, ~final, NEW k \in Renumbered, NEW i \in Renumbered
  PROVE  Precedes(k, i) \/ Precedes(i, k)
<1>1. Class(k) \in Nat /\ k \in Nat /\ Class(i) \in Nat /\ i \in Nat
  BY ClassFacts
<1> QED BY <1>1 DEF Precedes

\* A new code is one of the numbers that the terminator leaves.
LEMMA NewCodeRange ==
  ASSUME ListInv, HistoInv, ~final, symbols # << >>, NEW i \in Renumbered
  PROVE  NewCode(i) \in zeroTerminated .. Len(symbols) - 1
<1>1. /\ NewCode(i) = zeroTerminated + Cardinality(UpTo(i)) - 1
      /\ UpTo(i) \in SUBSET Renumbered /\ IsFiniteSet(UpTo(i)) /\ i \in UpTo(i)
  BY NewCodeIsRank
<1>2. Cardinality(Renumbered) = Len(symbols) - zeroTerminated /\ IsFiniteSet(Renumbered)
      /\ Len(symbols) \in Nat /\ zeroTerminated \in Nat
  BY TableFacts
<1>3. Cardinality(UpTo(i)) \in Nat /\ Cardinality(UpTo(i)) <= Cardinality(Renumbered)
  BY <1>1, <1>2, FS_CardinalityType, FS_Subset
<1>4. Cardinality(UpTo(i)) # 0
  BY <1>1, FS_EmptySet
<1>5. \A z, n, c \in Nat : c # 0 /\ c <= n - z => z + c - 1 \in z .. n - 1
  OBVIOUS
<1>6. zeroTerminated + Cardinality(UpTo(i)) - 1 \in zeroTerminated .. Len(symbols) - 1
  BY <1>2, <1>3, <1>4, <1>5
<1> QED BY <1>1, <1>6

\* Renumbering permutes: every code belongs to exactly one symbol.
LEMMA NewCodesPermute ==
  ASSUME ListInv, HistoInv, ~final, symbols # << >>
  PROVE  /\ \A i \in 1..Len(symbols) : NewCode(i) \in 0 .. Len(symbols) - 1
         /\ \A i, k \in 1..Len(symbols) : NewCode(i) = NewCode(k) => i = k
         /\ \A c \in 1..Len(symbols) : \E i \in 1..Len(symbols) : NewCode(i) = c - 1
         /\ zeroTerminated = 1 => NewCode(1) = 0
         /\ \A i \in 1..Len(symbols) : NewCode(i) >= zeroTerminated <=> i \in Renumbered
         /\ \A i \in Renumbered : NewCode(i) \in zeroTerminated .. Len(symbols) - 1
<1>1. /\ Len(symbols) \in Nat /\ zeroTerminated \in {0, 1} /\ Renumbered \subseteq 1..Len(symbols)
      /\ IsFiniteSet(Renumbered) /\ Cardinality(Renumbered) = Len(symbols) - zeroTerminated
  BY TableFacts
<1>2. \A i \in 1..Len(symbols) : i \in Renumbered \/ (i = 1 /\ zeroTerminated = 1)
  BY <1>1 DEF Renumbered
<1>3. zeroTerminated = 1 => NewCode(1) = 0 /\ 1 \notin Renumbered
  BY <1>1 DEF NewCode, Renumbered
<1>4. \A i \in Renumbered : NewCode(i) \in zeroTerminated .. Len(symbols) - 1
  BY NewCodeRange
<1>5. Len(symbols) # 0
  <2>1. symbols \in Seq(Strings)
    BY DEF ListInv
  <2> QED BY <2>1, EmptySeq
<1>6. \A i \in 1..Len(symbols) : NewCode(i) \in 0 .. Len(symbols) - 1
  <2> TAKE i \in 1..Len(symbols)
  <2>1. CASE i \in Renumbered
    <3>1. NewCode(i) \in zeroTerminated .. Len(symbols) - 1
      BY <1>4, <2>1
    <3> QED BY <1>1, <3>1
  <2>2. CASE i = 1 /\ zeroTerminated = 1
    <3>1. NewCode(i) = 0
      BY <1>3, <2>2
    <3> QED BY <1>1, <1>5, <3>1
  <2> QED BY <1>2, <2>1, <2>2
<1>7. ASSUME NEW i \in Renumbered, NEW k \in Renumbered, NewCode(i) = NewCode(k) PROVE i = k
  <2> SUFFICES ASSUME i # k PROVE FALSE
    OBVIOUS
  <2>1. NewCode(i) < NewCode(k) \/ NewCode(k) < NewCode(i)
    BY OneOrTheOther, NewCodesInOrder
  <2>2. NewCode(i) \in zeroTerminated .. Len(symbols) - 1 /\ NewCode(k) \in zeroTerminated .. Len(symbols) - 1
    BY <1>4
  <2>3. \A a \in zeroTerminated .. Len(symbols) - 1 : ~(a < a)
    BY <1>1
  <2> QED BY <1>7, <2>1, <2>2, <2>3
<1>8. \A i \in 1..Len(symbols) : NewCode(i) >= zeroTerminated <=> i \in Renumbered
  <2> TAKE i \in 1..Len(symbols)
  <2>1. i \in Renumbered => NewCode(i) >= zeroTerminated
    <3>1. \A a \in zeroTerminated .. Len(symbols) - 1 : a >= zeroTerminated
      BY <1>1
    <3> QED BY <1>4, <3>1
  <2>2. i = 1 /\ zeroTerminated = 1 => ~(NewCode(i) >= zeroTerminated)
    BY <1>3
  <2> QED BY <1>2, <1>3, <2>1, <2>2
<1>9. ASSUME NEW i \in 1..Len(symbols), NEW k \in 1..Len(symbols), NewCode(i) = NewCode(k)
      PROVE  i = k
  <2>1. i \in Renumbered <=> k \in Renumbered
    BY <1>8, <1>9
  <2> QED BY <1>2, <1>7, <1>9, <2>1
<1>10. ASSUME NEW c \in 1..Len(symbols) PROVE \E i \in 1..Len(symbols) : NewCode(i) = c - 1
  <2>1. CASE c - 1 < zeroTerminated
    <3>1. zeroTerminated = 1 /\ c = 1
      BY <1>1, <2>1
    <3> QED BY <1>3, <3>1
  <2>2. CASE ~(c - 1 < zeroTerminated)
    <3> DEFINE T == zeroTerminated .. Len(symbols) - 1
               f == [i \in Renumbered |-> NewCode(i)]
    <3>1. f \in [Renumbered -> T]
      BY <1>4
    <3>2. f \in Injection(Renumbered, T)
      BY <1>7, <3>1 DEF Injection, IsInjective
    <3>3. IsFiniteSet(T) /\ Cardinality(T) = Len(symbols) - zeroTerminated
      <4>1. zeroTerminated \in Int /\ Len(symbols) - 1 \in Int
        BY <1>1
      <4>2. IsFiniteSet(T) /\ Cardinality(T) = IF zeroTerminated > Len(symbols) - 1 THEN 0
                                               ELSE Len(symbols) - 1 - zeroTerminated + 1
        BY <4>1, FS_Interval
      <4> QED BY <1>1, <1>5, <4>2
    <3>4. f \in Surjection(Renumbered, T)
      <4> HIDE DEF f, T
      <4> QED BY <1>1, <3>2, <3>3, FS_Injection
    <3>5. c - 1 \in T
      BY <1>1, <2>2
    <3>6. \E i \in Renumbered : f[i] = c - 1
      BY <3>4, <3>5 DEF Surjection
    <3> QED BY <1>1, <3>6
  <2> QED BY <2>1, <2>2
<1> QED BY <1>3, <1>4, <1>6, <1>8, <1>9, <1>10

\* What finalize() leaves: symbol i is found at its new code.
LEMMA FinalSymbols ==
  ASSUME ListInv, HistoInv, Finalize
  PROVE  /\ symbols' \in Seq(Strings) /\ Len(symbols') = Len(symbols)
         /\ \A i \in 1..Len(symbols) : NewCode(i) + 1 \in 1..Len(symbols) /\ symbols'[NewCode(i) + 1] = symbols[i]
         /\ \A c \in 1..Len(symbols) : \E i \in 1..Len(symbols) : c = NewCode(i) + 1
         /\ Listed' = Listed
<1>0. ~final /\ symbols # << >>
  BY DEF Finalize
<1>1. /\ \A i \in 1..Len(symbols) : NewCode(i) \in 0 .. Len(symbols) - 1
      /\ \A i, k \in 1..Len(symbols) : NewCode(i) = NewCode(k) => i = k
      /\ \A c \in 1..Len(symbols) : \E i \in 1..Len(symbols) : NewCode(i) = c - 1
  BY <1>0, NewCodesPermute
<1>2. Len(symbols) \in Nat /\ \A i \in 1..Len(symbols) : symbols[i] \in Strings
  BY <1>0, TableFacts
<1>3. \A a \in 0 .. Len(symbols) - 1 : a + 1 \in 1..Len(symbols) /\ (a + 1) - 1 = a
  BY <1>2
<1>4. \A i \in 1..Len(symbols) : RenumberedTo(NewCode(i)) = symbols[i]
  <2> TAKE i \in 1..Len(symbols)
  <2>1. {k \in 1..Len(symbols) : NewCode(k) = NewCode(i)} = {i}
    BY <1>1
  <2>2. (CHOOSE k \in {i} : TRUE) = i
    OBVIOUS
  <2> QED BY <2>1, <2>2 DEF RenumberedTo
<1>5. symbols' = [c \in 1..Len(symbols) |-> RenumberedTo(c - 1)]
  BY DEF Finalize
<1>6. \A i \in 1..Len(symbols) : NewCode(i) + 1 \in 1..Len(symbols) /\ symbols'[NewCode(i) + 1] = symbols[i]
  <2> TAKE i \in 1..Len(symbols)
  <2>1. NewCode(i) + 1 \in 1..Len(symbols) /\ (NewCode(i) + 1) - 1 = NewCode(i)
    BY <1>1, <1>3
  <2> QED BY <1>4, <1>5, <2>1
<1>7. \A c \in 1..Len(symbols) : \E i \in 1..Len(symbols) : c = NewCode(i) + 1
  <2> TAKE c \in 1..Len(symbols)
  <2>1. PICK i \in 1..Len(symbols) : NewCode(i) = c - 1
    BY <1>1
  <2>2. NewCode(i) + 1 = c
    BY <1>2, <2>1
  <2> QED BY <2>2
<1>8. symbols' \in [1..Len(symbols) -> Strings]
  <2>1. \A c \in 1..Len(symbols) : RenumberedTo(c - 1) \in Strings
    <3> TAKE c \in 1..Len(symbols)
    <3>1. PICK i \in 1..Len(symbols) : NewCode(i) = c - 1
      BY <1>1
    <3> QED BY <1>2, <1>4, <3>1
  <2> QED BY <1>5, <2>1
<1>9. symbols' \in Seq(Strings) /\ Len(symbols') = Len(symbols)
  <2>1. Len(symbols) \in Nat
    BY <1>2
  <2>2. \A S, f : \A n \in Nat : f \in [1..n -> S] => f \in Seq(S)
    BY SeqDef
  <2>3. symbols' \in Seq(Strings)
    BY <1>8, <2>1, <2>2
  <2>4. DOMAIN symbols' = 1..Len(symbols) /\ DOMAIN symbols' = 1..Len(symbols') /\ Len(symbols') \in Nat
    BY <1>8, <2>3, LenProperties
  <2>5. \A m, n \in Nat : 1..m = 1..n => m = n
    <3> SUFFICES ASSUME NEW m \in Nat, NEW n \in Nat, 1..m = 1..n PROVE m = n
      OBVIOUS
    <3>1. (m # 0 => m \in 1..m) /\ (n # 0 => n \in 1..n)
      OBVIOUS
    <3> QED BY <3>1
  <2> QED BY <2>1, <2>3, <2>4, <2>5
<1>10. Listed' = Listed
  <2>1. \A c \in 1..Len(symbols) : \E i \in 1..Len(symbols) : symbols'[c] = symbols[i]
    BY <1>6, <1>7
  <2>2. \A i \in 1..Len(symbols) : \E c \in 1..Len(symbols) : symbols[i] = symbols'[c]
    BY <1>6
  <2>3. Listed' = {symbols'[c] : c \in 1..Len(symbols)}
    BY <1>9 DEF Listed
  <2>4. \A x : x \in Listed' <=> \E c \in 1..Len(symbols) : x = symbols'[c]
    BY <2>3
  <2>5. \A x : x \in Listed <=> \E i \in 1..Len(symbols) : x = symbols[i]
    BY DEF Listed
  <2>6. ASSUME NEW x \in Listed' PROVE x \in Listed
    <3>1. PICK c \in 1..Len(symbols) : x = symbols'[c]
      BY <2>4
    <3>2. PICK i \in 1..Len(symbols) : symbols'[c] = symbols[i]
      BY <2>1
    <3> QED BY <2>5, <3>1, <3>2, Zenon
  <2>7. ASSUME NEW x \in Listed PROVE x \in Listed'
    <3>1. PICK i \in 1..Len(symbols) : x = symbols[i]
      BY <2>5
    <3>2. PICK c \in 1..Len(symbols) : symbols[i] = symbols'[c]
      BY <2>2
    <3> QED BY <2>4, <3>1, <3>2, Zenon
  <2> QED BY <2>6, <2>7
<1> QED BY <1>6, <1>7, <1>9, <1>10

\* The two-byte symbols that nothing extends get the lowest codes.
LEMMA AloneComeFirst ==
  ASSUME ListInv, HistoInv, ~final, symbols # << >>, NEW i \in Renumbered
  PROVE  NewCode(i) < Start(2) + Cardinality({k \in Renumbered : Len(symbols[k]) = 2 /\ ~Extended(k)})
           <=> Len(symbols[i]) = 2 /\ ~Extended(i)
<1> DEFINE A == {k \in Renumbered : Len(symbols[k]) = 2 /\ ~Extended(k)}
<1>0. zeroTerminated \in Nat /\ IsFiniteSet(Renumbered) /\ 2 \in 2..MaxLen + 1
  BY TableFacts, SizeAssumption
<1>1. \A k \in Renumbered : /\ Class(k) = 1 <=> k \in A
                            /\ Class(k) \in Nat /\ Class(k) >= 1 /\ k \in Nat /\ Len(symbols[k]) \in Nat
  BY ClassFacts
<1>2. Start(2) = zeroTerminated
  <2> DEFINE None == {k \in Renumbered : 2 <= Len(symbols[k]) /\ Len(symbols[k]) < 2}
  <2>1. None = {}
    BY <1>1
  <2>2. Start(2) = zeroTerminated + Cardinality(None)
    BY <1>0, Starts
  <2>3. Cardinality(None) = 0
    BY <2>1, FS_EmptySet
  <2> HIDE DEF None
  <2> QED BY <1>0, <2>2, <2>3
<1>3. /\ NewCode(i) = zeroTerminated + Cardinality(UpTo(i)) - 1
      /\ UpTo(i) \in SUBSET Renumbered /\ IsFiniteSet(UpTo(i)) /\ i \in UpTo(i)
  BY NewCodeIsRank
<1>4. A \in SUBSET Renumbered
  OBVIOUS
<1> HIDE DEF A
<1>5. IsFiniteSet(A) /\ Cardinality(A) \in Nat /\ Cardinality(UpTo(i)) \in Nat
  BY <1>0, <1>3, <1>4, FS_Subset, FS_CardinalityType
<1>6. CASE i \in A
  <2>1. UpTo(i) \in SUBSET A
    BY <1>1, <1>6 DEF UpTo, Precedes
  <2>2. Cardinality(UpTo(i)) <= Cardinality(A)
    BY <1>5, <2>1, FS_Subset
  <2>3. \A z, u, a \in Nat : u <= a => z + u - 1 < z + a
    OBVIOUS
  <2>4. NewCode(i) < Start(2) + Cardinality(A)
    BY <1>0, <1>2, <1>3, <1>5, <2>2, <2>3
  <2> QED BY <1>6, <2>4 DEF A
<1>7. CASE i \notin A
  <2>1. A \cup {i} \in SUBSET UpTo(i)
    BY <1>1, <1>3, <1>4, <1>7 DEF UpTo, Precedes
  <2>2. Cardinality(A \cup {i}) = Cardinality(A) + 1
    BY <1>5, <1>7, FS_AddElement
  <2>3. Cardinality(A) + 1 <= Cardinality(UpTo(i))
    BY <1>3, <2>1, <2>2, FS_Subset
  <2>4. \A z, u, a \in Nat : a + 1 <= u => ~(z + u - 1 < z + a)
    OBVIOUS
  <2>5. ~(NewCode(i) < Start(2) + Cardinality(A))
    BY <1>0, <1>2, <1>3, <1>5, <2>3, <2>4
  <2> QED BY <1>7, <2>5 DEF A
<1> QED BY <1>6, <1>7

\* Among different strings, only a longer one extends a string of two bytes.
LEMMA ExtendedByLonger ==
  ASSUME ListInv, HistoInv, ~final, NEW i \in 1..Len(symbols), Len(symbols[i]) = 2
  PROVE  Extended(i) <=> \E s \in Listed : Len(s) > 2 /\ StartsWith(s, symbols[i])
<1>1. /\ \A k \in 1..Len(symbols) : symbols[k] \in Strings
      /\ \A k, j \in 1..Len(symbols) : symbols[k] = symbols[j] => k = j
  BY TableFacts
<1>2. \A k \in 1..Len(symbols) : symbols[k] \in Seq(Byte) /\ Len(symbols[k]) \in Nat
  BY <1>1, StringFacts
<1>3. ASSUME Extended(i) PROVE \E s \in Listed : Len(s) > 2 /\ StartsWith(s, symbols[i])
  <2>1. PICK k \in 1..Len(symbols) :
          k # i /\ Len(symbols[k]) > 1 /\ \A j \in 1..2 : symbols[k][j] = symbols[i][j]
    BY <1>3 DEF Extended
  <2>2. Len(symbols[k]) # 2
    <3> SUFFICES ASSUME Len(symbols[k]) = 2 PROVE FALSE
      OBVIOUS
    <3>1. symbols[k] = symbols[i]
      <4>1. symbols[k] \in Seq(Byte) /\ symbols[i] \in Seq(Byte)
        BY <1>2
      <4>2. \A j \in 1..Len(symbols[k]) : symbols[k][j] = symbols[i][j]
        BY <2>1
      <4>3. Len(symbols[k]) = Len(symbols[i])
        OBVIOUS
      <4> QED BY <4>1, <4>2, <4>3, SeqEqual
    <3> QED BY <1>1, <2>1, <3>1
  <2>3. \A n \in Nat : n > 1 /\ n # 2 => n > 2 /\ 2 <= n
    OBVIOUS
  <2>4. Len(symbols[k]) > 2 /\ StartsWith(symbols[k], symbols[i])
    BY <1>2, <2>1, <2>2, <2>3 DEF StartsWith
  <2> QED BY <2>4 DEF Listed
<1>4. ASSUME NEW s \in Listed, Len(s) > 2, StartsWith(s, symbols[i]) PROVE Extended(i)
  <2>1. PICK k \in 1..Len(symbols) : s = symbols[k]
    BY DEF Listed
  <2>2. k # i
    <3>1. Len(symbols[k]) # Len(symbols[i])
      <4>1. Len(symbols[k]) > 2
        BY <1>4, <2>1
      <4>2. ~(2 > 2)
        OBVIOUS
      <4> QED BY <4>1, <4>2
    <3> QED BY <3>1
  <2>3. Len(symbols[k]) > 1
    BY <1>2, <1>4, <2>1
  <2>4. \A j \in 1..2 : symbols[k][j] = symbols[i][j]
    BY <1>4, <2>1 DEF StartsWith
  <2> QED BY <2>2, <2>3, <2>4 DEF Extended
<1> QED BY <1>3, <1>4

\* finalize() orders the symbols by their lengths, single bytes last.
LEMMA FinalOrder ==
  ASSUME ListInv, HistoInv, Finalize
  PROVE  \A c, d \in zeroTerminated + 1 .. Len(symbols) :
           c < d => \/ Len(symbols'[d]) = 1
                    \/ Len(symbols'[c]) # 1 /\ Len(symbols'[c]) <= Len(symbols'[d])
<1>0. /\ ~final /\ symbols # << >> /\ zeroTerminated' = zeroTerminated
      /\ suffixLim' = Start(2) + Cardinality({i \in Renumbered : Len(symbols[i]) = 2 /\ ~Extended(i)})
  BY DEF Finalize
<1>1. /\ Len(symbols') = Len(symbols)
      /\ \A i \in 1..Len(symbols) : NewCode(i) + 1 \in 1..Len(symbols) /\ symbols'[NewCode(i) + 1] = symbols[i]
      /\ \A c \in 1..Len(symbols) : \E i \in 1..Len(symbols) : c = NewCode(i) + 1
      /\ Listed' = Listed
  BY FinalSymbols
<1>2. /\ \A i \in 1..Len(symbols) : NewCode(i) \in 0 .. Len(symbols) - 1
      /\ \A i, k \in 1..Len(symbols) : NewCode(i) = NewCode(k) => i = k
      /\ zeroTerminated = 1 => NewCode(1) = 0
      /\ \A i \in 1..Len(symbols) : NewCode(i) >= zeroTerminated <=> i \in Renumbered
  BY <1>0, NewCodesPermute
<1>3. /\ Len(symbols) \in Nat /\ zeroTerminated \in {0, 1}
      /\ \A i \in 1..Len(symbols) : symbols[i] \in Strings /\ Len(symbols[i]) \in 1..MaxLen
      /\ 1 \in 1..Len(symbols) \/ zeroTerminated # 1
  BY <1>0, TableFacts
<1>4. /\ \A i \in 1..Len(symbols) : NewCode(i) \in Int
  BY <1>2, <1>3
\* the symbol behind a code that is not the terminator's
<1>5. ASSUME NEW c \in zeroTerminated + 1 .. Len(symbols)
      PROVE  \E i \in Renumbered : i \in 1..Len(symbols) /\ c = NewCode(i) + 1 /\ symbols'[c] = symbols[i]
  <2>1. c \in 1..Len(symbols) /\ c \in Int /\ c >= zeroTerminated + 1
    BY <1>3
  <2>2. PICK i \in 1..Len(symbols) : c = NewCode(i) + 1
    BY <1>1, <2>1
  <2>3. NewCode(i) >= zeroTerminated
    <3>1. NewCode(i) \in Int
      BY <1>4
    <3> QED BY <1>3, <2>1, <2>2, <3>1
  <2> QED BY <1>1, <1>2, <2>2, <2>3
<1>6. ASSUME NEW c \in zeroTerminated + 1 .. Len(symbols), NEW d \in zeroTerminated + 1 .. Len(symbols), c < d
      PROVE  \/ Len(symbols'[d]) = 1
             \/ Len(symbols'[c]) # 1 /\ Len(symbols'[c]) <= Len(symbols'[d])
  <2>1. PICK k \in Renumbered : k \in 1..Len(symbols) /\ c = NewCode(k) + 1 /\ symbols'[c] = symbols[k]
    BY <1>5
  <2>2. PICK i \in Renumbered : i \in 1..Len(symbols) /\ d = NewCode(i) + 1 /\ symbols'[d] = symbols[i]
    BY <1>5
  <2>3. NewCode(k) < NewCode(i)
    <3>1. NewCode(k) \in Int /\ NewCode(i) \in Int /\ NewCode(k) + 1 < NewCode(i) + 1
      BY <1>4, <1>6, <2>1, <2>2
    <3> QED BY <3>1
  <2>4. k # i /\ ~(NewCode(i) < NewCode(k))
    <3>1. NewCode(k) \in Int /\ NewCode(i) \in Int
      BY <1>4, <2>1, <2>2
    <3> QED BY <2>3, <3>1
  <2>5. Precedes(k, i)
    BY <1>0, <2>4, OneOrTheOther, NewCodesInOrder
  <2>6. \A j \in {i, k} : Class(j) \in Nat /\ Len(symbols[j]) \in 1..MaxLen
    BY <1>0, ClassFacts
  <2>7. Class(k) <= Class(i)
    BY <2>5, <2>6 DEF Precedes
  <2>8. Class(i) <= 2 => Len(symbols[i]) = 2
    <3>1. /\ Class(i) = 1 <=> Len(symbols[i]) = 2 /\ ~Extended(i)
          /\ Class(i) = 2 <=> Len(symbols[i]) = 2 /\ Extended(i)
          /\ Class(i) >= 1 /\ Class(i) \in Nat
      BY <1>0, ClassFacts
    <3> QED BY <3>1
  <2> DEFINE l(j) == Len(symbols[j])
  <2>9. \A j \in {i, k} : /\ l(j) \in Nat /\ l(j) >= 1 /\ l(j) <= MaxLen
                          /\ l(j) = 1 => Class(j) = MaxLen + 1
                          /\ l(j) = 2 => Class(j) = 1 \/ Class(j) = 2
                          /\ l(j) > 2 => Class(j) = l(j)
    BY <1>0, ClassFacts
  <2>10. l(i) = 1 \/ (l(k) # 1 /\ l(k) <= l(i))
    <3> HIDE DEF l
    <3>1. MaxLen \in Nat /\ MaxLen >= 3
      BY SizeAssumption
    <3>2. Class(k) \in Nat /\ Class(i) \in Nat
      BY <2>6
    <3>3. CASE l(i) = 1
      BY <3>3
    <3>4. CASE l(i) = 2
      <4>1. Class(i) = 1 \/ Class(i) = 2
        BY <2>9, <3>4
      <4>2. Class(k) <= 2
        BY <2>7, <3>2, <4>1
      <4> QED BY <2>9, <3>1, <3>2, <3>4, <4>2
    <3>5. CASE l(i) > 2
      <4>1. Class(i) = l(i) /\ l(i) <= MaxLen /\ l(i) \in Nat
        BY <2>9, <3>5
      <4>2. Class(k) <= l(i)
        BY <2>7, <4>1
      <4>3. l(k) # 1
        BY <2>9, <3>1, <3>2, <4>1, <4>2
      <4> QED BY <2>9, <3>1, <3>2, <3>5, <4>1, <4>2, <4>3
    <3> QED BY <2>9, <3>3, <3>4, <3>5
  <2> QED BY <2>1, <2>2, <2>10
<1> QED BY <1>6

\* finalize() establishes the layout.
LEMMA FinalizeStep ==
  ASSUME IndexInv, HistoInv, Finalize
  PROVE  /\ FinalLayout'
         /\ {symbols'[c] : c \in 1..Len(symbols')} = Listed
         /\ zeroTerminated = 1 => symbols'[1] = <<0>>
<1> ListInv
  BY IndexedOnce
<1>0. /\ ~final /\ symbols # << >> /\ zeroTerminated' = zeroTerminated
      /\ suffixLim' = Start(2) + Cardinality({i \in Renumbered : Len(symbols[i]) = 2 /\ ~Extended(i)})
  BY DEF Finalize
<1>1. /\ Len(symbols') = Len(symbols)
      /\ \A i \in 1..Len(symbols) : NewCode(i) + 1 \in 1..Len(symbols) /\ symbols'[NewCode(i) + 1] = symbols[i]
      /\ \A c \in 1..Len(symbols) : \E i \in 1..Len(symbols) : c = NewCode(i) + 1
      /\ Listed' = Listed
  BY FinalSymbols
<1>2. /\ \A i \in 1..Len(symbols) : NewCode(i) \in 0 .. Len(symbols) - 1
      /\ \A i, k \in 1..Len(symbols) : NewCode(i) = NewCode(k) => i = k
      /\ zeroTerminated = 1 => NewCode(1) = 0
      /\ \A i \in 1..Len(symbols) : NewCode(i) >= zeroTerminated <=> i \in Renumbered
  BY <1>0, NewCodesPermute
<1>3. /\ Len(symbols) \in Nat /\ zeroTerminated \in {0, 1}
      /\ \A i \in 1..Len(symbols) : symbols[i] \in Strings /\ Len(symbols[i]) \in 1..MaxLen
      /\ 1 \in 1..Len(symbols) \/ zeroTerminated # 1
  BY <1>0, TableFacts
<1>4. /\ \A i \in 1..Len(symbols) : NewCode(i) \in Int
  BY <1>2, <1>3
\* the symbol behind a code that is not the terminator's
<1>5. ASSUME NEW c \in zeroTerminated + 1 .. Len(symbols)
      PROVE  \E i \in Renumbered : i \in 1..Len(symbols) /\ c = NewCode(i) + 1 /\ symbols'[c] = symbols[i]
  <2>1. c \in 1..Len(symbols) /\ c \in Int /\ c >= zeroTerminated + 1
    BY <1>3
  <2>2. PICK i \in 1..Len(symbols) : c = NewCode(i) + 1
    BY <1>1, <2>1
  <2>3. NewCode(i) >= zeroTerminated
    <3>1. NewCode(i) \in Int
      BY <1>4
    <3> QED BY <1>3, <2>1, <2>2, <3>1
  <2> QED BY <1>1, <1>2, <2>2, <2>3
<1>6. ASSUME NEW c \in zeroTerminated + 1 .. Len(symbols), NEW d \in zeroTerminated + 1 .. Len(symbols), c < d
      PROVE  \/ Len(symbols'[d]) = 1
             \/ Len(symbols'[c]) # 1 /\ Len(symbols'[c]) <= Len(symbols'[d])
  BY <1>6, FinalOrder
<1>7. ASSUME NEW c \in zeroTerminated + 1 .. Len(symbols)
      PROVE  c - 1 < suffixLim' <=>
               /\ Len(symbols'[c]) = 2
               /\ ~\E s \in Listed : Len(s) > 2 /\ StartsWith(s, symbols'[c])
  <2>1. PICK i \in Renumbered : i \in 1..Len(symbols) /\ c = NewCode(i) + 1 /\ symbols'[c] = symbols[i]
    BY <1>5
  <2>2. c - 1 = NewCode(i)
    <3>1. NewCode(i) \in Int
      BY <1>4, <2>1
    <3> QED BY <2>1, <3>1
  <2>3. NewCode(i) < suffixLim' <=> Len(symbols[i]) = 2 /\ ~Extended(i)
    BY <1>0, AloneComeFirst
  <2>4. Len(symbols[i]) = 2 =>
          (Extended(i) <=> \E s \in Listed : Len(s) > 2 /\ StartsWith(s, symbols[i]))
    BY <1>0, <2>1, ExtendedByLonger
  <2> QED BY <2>1, <2>2, <2>3, <2>4
<1>8. ASSUME NEW c \in 1..Len(symbols), NEW s, s = symbols'[c]
      PROVE  /\ Len(s) = 1 => c - 1 = byteCodes'[s[1]].code
             /\ Len(s) = 2 => c - 1 = shortCodes'[<<s[1], s[2]>>].code
             /\ Len(s) > 2 => c - 1 = hashTab'[BucketOf(s)].code
             /\ Len(s) = 1 \/ Len(s) = 2 \/ Len(s) > 2
  <2>1. PICK i \in 1..Len(symbols) : c = NewCode(i) + 1
    BY <1>1
  <2>2. s = symbols[i] /\ s \in Strings /\ c - 1 = NewCode(i)
    <3>1. NewCode(i) \in Int
      BY <1>4, <2>1
    <3>2. c - 1 = NewCode(i)
      BY <2>1, <3>1
    <3>3. symbols'[NewCode(i) + 1] = symbols[i]
      BY <1>1
    <3>4. s = symbols[i]
      BY <1>8, <2>1, <3>3
    <3> QED BY <1>3, <3>2, <3>4
  <2>3. /\ Len(s) = 1 => byteCodes[s[1]].code = CodeBase + i - 1
        /\ Len(s) = 2 => shortCodes[<<s[1], s[2]>>].code = CodeBase + i - 1
        /\ Len(s) > 2 => hashTab[BucketOf(s)] = [str |-> s, code |-> CodeBase + i - 1]
    BY <1>0, <2>2 DEF IndexInv, EveryStringIndexed
  <2>4. CodeBase + i - 1 >= CodeBase /\ IndexOf(CodeBase + i - 1) = i
    BY DEF CodeBase, IndexOf
  <2>5. Len(s) \in Nat /\ (Len(s) = 1 \/ Len(s) = 2 \/ Len(s) > 2) /\ \A j \in 1..Len(s) : s[j] \in Byte
    <3>1. Len(s) \in 1..MaxLen /\ MaxLen \in Nat
      BY <1>3, <2>2, SizeAssumption
    <3>2. \A n \in 1..MaxLen : n \in Nat /\ (n = 1 \/ n = 2 \/ n > 2)
      BY <3>1
    <3>3. \A j \in 1..Len(s) : s[j] \in Byte
      BY <2>2, StringFacts
    <3> QED BY <3>1, <3>2, <3>3
  <2>6. BucketOf(s) \in Buckets
    BY <2>2, KeyFacts
  <2>7. byteCodes \in [Byte -> CodeWord] /\ shortCodes \in [Byte \X Byte -> CodeWord]
    BY <1>0 DEF IndexInv, TrainingTypes
  <2>8. \A w \in CodeWord : Renumber(w).code = NewCode(IndexOf(w.code))
    BY DEF Renumber, CodeWord
  <2>9. ASSUME Len(s) = 1 PROVE byteCodes'[s[1]].code = NewCode(i)
    <3>1. s[1] \in Byte /\ byteCodes[s[1]].code = CodeBase + i - 1 /\ byteCodes[s[1]] \in CodeWord
      BY <2>3, <2>5, <2>7, <2>9
    <3>2. byteCodes'[s[1]] = Renumber(byteCodes[s[1]])
      BY <2>4, <3>1 DEF Finalize
    <3> QED BY <2>4, <2>8, <3>1, <3>2
  <2>10. ASSUME Len(s) = 2 PROVE shortCodes'[<<s[1], s[2]>>].code = NewCode(i)
    <3>1. /\ <<s[1], s[2]>> \in Byte \X Byte /\ shortCodes[<<s[1], s[2]>>].code = CodeBase + i - 1
          /\ shortCodes[<<s[1], s[2]>>] \in CodeWord
      BY <2>3, <2>5, <2>7, <2>10
    <3>2. shortCodes'[<<s[1], s[2]>>] = Renumber(shortCodes[<<s[1], s[2]>>])
      BY <2>4, <3>1 DEF Finalize
    <3> QED BY <2>4, <2>8, <3>1, <3>2
  <2>11. ASSUME Len(s) > 2 PROVE hashTab'[BucketOf(s)].code = NewCode(i)
    <3>1. hashTab[BucketOf(s)] = [str |-> s, code |-> CodeBase + i - 1] /\ s # << >>
      BY <2>3, <2>11
    <3>2. hashTab[BucketOf(s)] # Free
      BY <3>1 DEF Free
    <3>3. hashTab'[BucketOf(s)] = Renumber(hashTab[BucketOf(s)])
      BY <2>6, <3>2 DEF Finalize
    <3>4. Renumber([str |-> s, code |-> CodeBase + i - 1]).code = NewCode(IndexOf(CodeBase + i - 1))
      BY DEF Renumber
    <3> QED BY <2>4, <3>1, <3>3, <3>4
  <2> QED BY <2>2, <2>5, <2>9, <2>10, <2>11
<1>9. FinalLayout'
  <2>1. \A c, d \in zeroTerminated' + 1 .. Len(symbols') :
          c < d => \/ Len(symbols'[d]) = 1
                   \/ Len(symbols'[c]) # 1 /\ Len(symbols'[c]) <= Len(symbols'[d])
    BY <1>0, <1>1, <1>6
  <2>2. \A c \in zeroTerminated' + 1 .. Len(symbols') :
          c - 1 < suffixLim' <=>
            /\ Len(symbols'[c]) = 2
            /\ ~\E s \in Listed' : Len(s) > 2 /\ StartsWith(s, symbols'[c])
    BY <1>0, <1>1, <1>7
  <2>3. \A c \in 1..Len(symbols') :
          c - 1 = CASE Len(symbols'[c]) = 1 -> byteCodes'[symbols'[c][1]].code
                    [] Len(symbols'[c]) = 2 -> shortCodes'[<<symbols'[c][1], symbols'[c][2]>>].code
                    [] OTHER                -> hashTab'[BucketOf(symbols'[c])].code
    BY <1>1, <1>8
  <2> QED BY <2>1, <2>2, <2>3 DEF FinalLayout, StartsWith, BucketOf, Key
<1>10. {symbols'[c] : c \in 1..Len(symbols')} = Listed
  BY <1>1 DEF Listed
<1>11. zeroTerminated = 1 => symbols'[1] = <<0>>
  <2> SUFFICES ASSUME zeroTerminated = 1 PROVE symbols'[1] = <<0>>
    OBVIOUS
  <2>1. symbols[1] = <<0>>
    BY <1>0 DEF HistoInv
  <2>2. NewCode(1) + 1 = 1 /\ 1 \in 1..Len(symbols)
    BY <1>2, <1>3
  <2>3. symbols'[NewCode(1) + 1] = symbols[1]
    BY <1>1, <2>2
  <2> QED BY <2>1, <2>2, <2>3
<1> QED BY <1>9, <1>10, <1>11

LEMMA InitHisto == Init => HistoInv
<1> SUFFICES ASSUME Init PROVE HistoInv
  OBVIOUS
<1>1. symbols = << >> /\ lenHisto = [l \in 1..MaxLen |-> 0] /\ zeroTerminated \in {0, 1}
      /\ (zeroTerminated = 1 => terminator = 0)
  BY DEF Init, NoSymbols
<1>2. \A l \in 1..MaxLen : lenHisto[l] = 0 /\ OfLength(l) = {}
  BY <1>1 DEF OfLength
<1>3. Cardinality({}) = 0
  BY FS_EmptySet
<1> QED BY <1>1, <1>2, <1>3 DEF HistoInv

\* The histogram counts a string that is appended.
LEMMA AppendHisto ==
  ASSUME HistoInv, ~final, symbols \in Seq(Strings), NEW s \in Strings,
         symbols' = Append(symbols, s), lenHisto' = [lenHisto EXCEPT ![Len(s)] = @ + 1],
         UNCHANGED <<terminator, zeroTerminated, final>>, symbols = << >> => s = <<terminator>>
  PROVE  HistoInv'
<1>1. /\ ~final /\ symbols' = Append(symbols, s) /\ lenHisto' = [lenHisto EXCEPT ![Len(s)] = @ + 1]
      /\ UNCHANGED <<terminator, zeroTerminated, final>> /\ (symbols = << >> => s = <<terminator>>)
  OBVIOUS
<1>2. /\ zeroTerminated \in {0, 1} /\ (zeroTerminated = 1 => terminator = 0)
      /\ (symbols # << >> => symbols[1] = <<terminator>>) /\ DOMAIN lenHisto = 1..MaxLen
      /\ \A l \in 1..MaxLen : lenHisto[l] = Cardinality(OfLength(l))
  BY <1>1 DEF HistoInv
<1>3. symbols \in Seq(Strings) /\ Len(symbols) \in Nat
  OBVIOUS
<1>5. Len(s) \in 1..MaxLen
  BY StringFacts
<1>6. /\ Len(symbols') = Len(symbols) + 1 /\ symbols'[Len(symbols) + 1] = s
      /\ \A i \in 1..Len(symbols) : symbols'[i] = symbols[i]
      /\ symbols' \in Seq(Strings)
  BY <1>1, <1>3
<1>7. symbols'[1] = <<terminator>>
  <2>1. CASE symbols = << >>
    BY <1>1, <1>6, <2>1
  <2>2. CASE symbols # << >>
    <3>1. 1 \in 1..Len(symbols)
      <4>1. Len(symbols) # 0
        BY <1>3, <2>2, EmptySeq
      <4> QED BY <1>3, <4>1
    <3> QED BY <1>2, <1>6, <2>2, <3>1
  <2> QED BY <2>1, <2>2
<1>8. ASSUME NEW l \in 1..MaxLen PROVE lenHisto'[l] = Cardinality(OfLength(l)')
  <2>1. IsFiniteSet(OfLength(l))
    <3>1. OfLength(l) \in SUBSET (1..Len(symbols)) /\ IsFiniteSet(1..Len(symbols))
      BY <1>3, FS_Interval DEF OfLength
    <3> QED BY <3>1, FS_Subset
  <2>2. OfLength(l)' = {i \in 1..Len(symbols) + 1 : Len(symbols'[i]) = l}
    BY <1>6 DEF OfLength
  <2>3. \A i \in 1..Len(symbols) + 1 : i \in 1..Len(symbols) \/ i = Len(symbols) + 1
    BY <1>3
  <2>4. Len(symbols) + 1 \notin 1..Len(symbols) /\ Len(symbols) + 1 \in 1..Len(symbols) + 1
        /\ 1..Len(symbols) \subseteq 1..Len(symbols) + 1
    BY <1>3
  <2>5. CASE Len(s) = l
    <3>1. \A i : i \in OfLength(l)' <=> i \in OfLength(l) \cup {Len(symbols) + 1}
      BY <1>6, <2>2, <2>3, <2>4, <2>5 DEF OfLength
    <3>2. OfLength(l)' = OfLength(l) \cup {Len(symbols) + 1}
      BY <3>1
    <3>3. Len(symbols) + 1 \notin OfLength(l)
      BY <2>4 DEF OfLength
    <3>4. Cardinality(OfLength(l)') = Cardinality(OfLength(l)) + 1
      BY <2>1, <3>2, <3>3, FS_AddElement
    <3>5. lenHisto'[l] = lenHisto[l] + 1
      BY <1>1, <1>2, <2>5
    <3> QED BY <1>2, <3>4, <3>5
  <2>6. CASE Len(s) # l
    <3>1. \A i : i \in OfLength(l)' <=> i \in OfLength(l)
      BY <1>6, <2>2, <2>3, <2>4, <2>6 DEF OfLength
    <3>2. OfLength(l)' = OfLength(l)
      BY <3>1
    <3>3. lenHisto'[l] = lenHisto[l]
      BY <1>1, <1>2, <2>6
    <3> QED BY <1>2, <3>2, <3>3
  <2> QED BY <2>5, <2>6
<1>9. DOMAIN lenHisto' = 1..MaxLen
  BY <1>1, <1>2
<1> QED BY <1>1, <1>2, <1>7, <1>8, <1>9 DEF HistoInv

\* add() counts the string it lists.
LEMMA AddHisto ==
  ASSUME IndexInv, HistoInv, NEW s \in Candidates \cup {<<terminator>>}, Add(s)
  PROVE  HistoInv'
<1>1. /\ ~final /\ symbols' = Append(symbols, s) /\ lenHisto' = [lenHisto EXCEPT ![Len(s)] = @ + 1]
      /\ UNCHANGED <<terminator, zeroTerminated, final>> /\ (symbols = << >> => s = <<terminator>>)
  BY DEF Add, Insert, Proposed, modes
<1>2. symbols \in Seq(Strings)
  BY <1>1 DEF IndexInv, TrainingTypes
<1>3. s \in Strings
  BY <1>1, CandidateAssumption, ByteIsString DEF IndexInv, TrainingTypes
<1> QED BY <1>1, <1>2, <1>3, AppendHisto

LEMMA ClearHisto ==
  ASSUME HistoInv, Clear
  PROVE  HistoInv'
<1>1. /\ ~final /\ symbols' = << >> /\ lenHisto' = [l \in 1..MaxLen |-> 0]
      /\ UNCHANGED <<terminator, zeroTerminated, final>>
  BY DEF Clear, NoSymbols, modes
<1>2. zeroTerminated \in {0, 1} /\ (zeroTerminated = 1 => terminator = 0)
  BY <1>1 DEF HistoInv
<1>3. \A l \in 1..MaxLen : lenHisto'[l] = 0 /\ OfLength(l)' = {}
  BY <1>1 DEF OfLength
<1>4. Cardinality({}) = 0
  BY FS_EmptySet
<1>5. DOMAIN lenHisto' = 1..MaxLen
  BY <1>1
<1> QED BY <1>1, <1>2, <1>3, <1>4, <1>5 DEF HistoInv

LEMMA HistoStep == IndexInv /\ HistoInv /\ [Next]_tvars => HistoInv'
<1> SUFFICES ASSUME IndexInv, HistoInv, [Next]_tvars PROVE HistoInv'
  OBVIOUS
<1>1. ASSUME NEW s \in Candidates \cup {<<terminator>>}, Add(s) PROVE HistoInv'
  BY <1>1, AddHisto
<1>2. CASE Clear
  BY <1>2, ClearHisto
<1>3. CASE Finalize
  BY <1>3 DEF Finalize, HistoInv
<1>4. CASE UNCHANGED tvars
  BY <1>4 DEF tvars, indexes, modes, HistoInv, OfLength
<1> QED BY <1>1, <1>2, <1>3, <1>4 DEF Next

\* Nothing changes a final table, and only finalize() makes one.
LEMMA LayoutStep == IndexInv /\ HistoInv /\ FinalLayout /\ [Next]_tvars => FinalLayout'
<1> SUFFICES ASSUME IndexInv, HistoInv, FinalLayout, [Next]_tvars PROVE FinalLayout'
  OBVIOUS
<1>1. ASSUME NEW s \in Candidates \cup {<<terminator>>}, Add(s) PROVE FinalLayout'
  <2>1. ~final'
    BY <1>1 DEF Add, Insert, modes
  <2> QED BY <2>1 DEF FinalLayout
<1>2. CASE Clear
  <2>1. ~final'
    BY <1>2 DEF Clear, modes
  <2> QED BY <2>1 DEF FinalLayout
<1>3. CASE Finalize
  BY <1>3, FinalizeStep
<1>4. CASE UNCHANGED tvars
  BY <1>4 DEF tvars, indexes, modes, FinalLayout, Listed, StartsWith, BucketOf, Key
<1> QED BY <1>1, <1>2, <1>3, <1>4 DEF Next

LEMMA InitLayout == Init => FinalLayout
BY DEF Init, FinalLayout

\* The counts that finalize() numbers by, and that the terminator is the
\* first symbol: an invariant with IndexInv.
THEOREM HistogramCounts == Spec => []HistoInv
<1>1. IndexInv /\ HistoInv /\ [Next]_tvars => HistoInv'
  BY HistoStep
<1> QED BY InitHisto, <1>1, Invariance, PTL DEF Spec

\* The layout that compressBulk() relies on ...
THEOREM Layout == Spec => []FinalLayout
<1>1. IndexInv /\ HistoInv /\ FinalLayout /\ [Next]_tvars => FinalLayout'
  BY LayoutStep
<1> QED BY InitLayout, <1>1, Invariance, HistogramCounts, PTL DEF Spec

\* ... and finalize() only permutes.
THEOREM Permutes == Spec => FinalizeKeepsSymbols
<1>1. IndexInv /\ HistoInv /\ [Next]_tvars =>
        [Finalize => /\ {symbols'[c] : c \in 1..Len(symbols')} = Listed
                     /\ zeroTerminated = 1 => symbols'[1] = <<0>>]_tvars
  BY FinalizeStep
<1> QED BY <1>1, Invariance, HistogramCounts, PTL DEF Spec, FinalizeKeepsSymbols

LEMMA InitTypes == Init => TypeOK
<1> SUFFICES ASSUME Init PROVE TypeOK
  OBVIOUS
<1>1. TrainingTypes
  BY InitIndex DEF Init, IndexInv
<1>2. lenHisto \in [1..MaxLen -> 0..MaxSymbols]
  <2>1. 0 \in 0..MaxSymbols
    BY SizeAssumption
  <2> QED BY <2>1 DEF Init, NoSymbols
<1>3. suffixLim \in 0..CodeMask + 1 /\ zeroTerminated \in {0, 1} /\ final \in BOOLEAN
  <2>1. CodeMask + 1 \in 0..CodeMask + 1
    BY DEF CodeMask
  <2> QED BY <2>1 DEF Init
<1> QED BY <1>1, <1>2, <1>3 DEF TypeOK, TrainingTypes

\* A code is renumbered within its width.
LEMMA RenumberTypes ==
  ASSUME IndexInv, HistoInv, ~final, symbols # << >>
  PROVE  \A i \in 1..Len(symbols) : /\ NewCode(i) \in 0..CodeMask
                                    /\ IndexOf(CodeBase + i - 1) = i
<1> ListInv
  BY IndexedOnce
<1>1. \A i \in 1..Len(symbols) : NewCode(i) \in 0 .. Len(symbols) - 1
  BY NewCodesPermute
<1>2. Len(symbols) \in Nat /\ Len(symbols) <= 255
  BY TableFacts
<1>3. \A a \in 0 .. Len(symbols) - 1 : a \in 0..CodeMask
  BY <1>2 DEF CodeMask
<1> QED BY <1>1, <1>3 DEF IndexOf, CodeBase

LEMMA FinalizeTypes ==
  ASSUME IndexInv, HistoInv, TypeOK, Finalize
  PROVE  TypeOK'
<1> ListInv
  BY IndexedOnce
<1>0. ~final /\ symbols # << >>
  BY DEF Finalize
<1>1. TrainingTypes /\ ByteSlots /\ PairSlots /\ HashSlots
  BY <1>0 DEF IndexInv
<1>2. symbols' \in Seq(Strings) /\ Len(symbols') = Len(symbols)
  BY FinalSymbols
<1>3. \A i \in 1..Len(symbols) : NewCode(i) \in 0..CodeMask /\ IndexOf(CodeBase + i - 1) = i
  BY <1>0, RenumberTypes
<1>4. ASSUME NEW w \in CodeWord, NEW i \in 1..Len(symbols), w.code = CodeBase + i - 1
      PROVE  Renumber(w) \in CodeWord
  <2>1. Renumber(w) = [w EXCEPT !.code = NewCode(i)]
    BY <1>3, <1>4 DEF Renumber
  <2> QED BY <1>3, <2>1 DEF CodeWord
<1>5. NoCode \in CodeWord
  BY DEF NoCode, CodeWord, CodeMask
<1>6. ASSUME NEW b \in Byte, byteCodes[b].code >= CodeBase PROVE Renumber(byteCodes[b]) \in CodeWord
  <2>1. byteCodes[b] # Escape(b)
    <3>1. ~(Escape(b).code >= CodeBase)
      BY ByteAssumption DEF Escape, CodeBase
    <3> QED BY <1>6, <3>1
  <2>2. PICK i \in 1..Len(symbols) : byteCodes[b].code = CodeBase + i - 1
    BY <1>1, <2>1 DEF ByteSlots
  <2>3. byteCodes[b] \in CodeWord
    BY <1>1 DEF TrainingTypes
  <2> QED BY <1>4, <2>2, <2>3
<1>7. byteCodes' \in [Byte -> CodeWord]
  <2>1. byteCodes' = [b \in Byte |-> IF byteCodes[b].code >= CodeBase THEN Renumber(byteCodes[b]) ELSE NoCode]
    BY DEF Finalize
  <2> QED BY <1>5, <1>6, <2>1
<1>8. shortCodes' \in [Byte \X Byte -> CodeWord]
  <2>1. shortCodes' = [p \in Byte \X Byte |-> IF shortCodes[p].code >= CodeBase THEN Renumber(shortCodes[p])
                                              ELSE byteCodes'[p[1]]]
    BY DEF Finalize
  <2>2. ASSUME NEW p \in Byte \X Byte, shortCodes[p].code >= CodeBase PROVE Renumber(shortCodes[p]) \in CodeWord
    <3>1. PICK b \in Byte, c \in Byte : p = <<b, c>>
      OBVIOUS
    <3>2. shortCodes[<<b, c>>] # Escape(b)
      <4>1. ~(Escape(b).code >= CodeBase)
        BY ByteAssumption DEF Escape, CodeBase
      <4> QED BY <2>2, <3>1, <4>1
    <3>3. PICK i \in 1..Len(symbols) : shortCodes[<<b, c>>].code = CodeBase + i - 1
      BY <1>1, <3>2 DEF PairSlots
    <3>4. shortCodes[p] \in CodeWord
      BY <1>1 DEF TrainingTypes
    <3> QED BY <1>4, <3>1, <3>3, <3>4
  <2>3. \A p \in Byte \X Byte : byteCodes'[p[1]] \in CodeWord
    BY <1>7
  <2> QED BY <2>1, <2>2, <2>3
<1>9. hashTab' \in [Buckets -> Entry]
  <2>1. hashTab' = [k \in Buckets |-> IF hashTab[k] = Free THEN Free ELSE Renumber(hashTab[k])]
    BY DEF Finalize
  <2>2. Free \in Entry
    BY DEF Entry
  <2>3. ASSUME NEW k \in Buckets, hashTab[k] # Free PROVE Renumber(hashTab[k]) \in Entry
    <3>1. PICK i \in 1..Len(symbols) : hashTab[k] = [str |-> symbols[i], code |-> CodeBase + i - 1]
      BY <1>1, <2>3 DEF HashSlots
    <3>2. symbols[i] \in Strings
      BY <1>1 DEF TrainingTypes
    <3>3. Renumber(hashTab[k]) = [str |-> symbols[i], code |-> NewCode(i)]
      BY <1>3, <3>1 DEF Renumber
    <3> QED BY <1>3, <3>2, <3>3 DEF Entry
  <2> QED BY <2>1, <2>2, <2>3
<1>10. suffixLim' \in 0..CodeMask + 1
  <2> DEFINE A == {i \in Renumbered : Len(symbols[i]) = 2 /\ ~Extended(i)}
             None == {k \in Renumbered : 2 <= Len(symbols[k]) /\ Len(symbols[k]) < 2}
  <2>1. suffixLim' = Start(2) + Cardinality(A)
    BY DEF Finalize
  <2>2. Start(2) = zeroTerminated + Cardinality(None)
    <3>1. 2 \in 2..MaxLen + 1
      BY SizeAssumption
    <3> QED BY <1>0, <3>1, Starts
  <2>3. /\ IsFiniteSet(Renumbered) /\ Cardinality(Renumbered) = Len(symbols) - zeroTerminated
        /\ Len(symbols) \in Nat /\ Len(symbols) <= 255 /\ zeroTerminated \in {0, 1}
        /\ Renumbered \subseteq 1..Len(symbols)
        /\ \A i \in 1..Len(symbols) : Len(symbols[i]) \in 1..MaxLen
    BY <1>0, TableFacts
  <2>4. None = {}
    <3>1. \A i \in Renumbered : Len(symbols[i]) \in Nat
      BY <2>3, SizeAssumption
    <3> QED BY <3>1
  <2>5. Cardinality(None) = 0
    BY <2>4, FS_EmptySet
  <2>6. A \in SUBSET Renumbered
    OBVIOUS
  <2> HIDE DEF A, None
  <2>7. Cardinality(A) <= Cardinality(Renumbered) /\ Cardinality(A) \in Nat
    BY <2>3, <2>6, FS_Subset, FS_CardinalityType
  <2>8. \A z, n, a \in Nat : a <= n - z /\ n <= 255 => z + 0 + a \in 0..512
    OBVIOUS
  <2>9. zeroTerminated \in Nat /\ Cardinality(A) <= Len(symbols) - zeroTerminated
    BY <2>3, <2>7
  <2>10. zeroTerminated + 0 + Cardinality(A) \in 0..512
    <3>1. zeroTerminated \in Nat /\ Len(symbols) \in Nat /\ Cardinality(A) \in Nat
      BY <2>3, <2>7
    <3>2. Len(symbols) <= 255
      BY <2>3
    <3> QED BY <2>8, <2>9, <3>1, <3>2
  <2>11. suffixLim' = zeroTerminated + 0 + Cardinality(A)
    BY <2>1, <2>2, <2>5
  <2> QED BY <2>10, <2>11 DEF CodeMask
<1>11. final' \in BOOLEAN /\ UNCHANGED <<lenHisto, terminator, zeroTerminated>>
  BY DEF Finalize
<1> QED BY <1>2, <1>7, <1>8, <1>9, <1>10, <1>11 DEF TypeOK

LEMMA TypeStep == IndexInv /\ HistoInv /\ TypeOK /\ [Next]_tvars => TypeOK'
<1> SUFFICES ASSUME IndexInv, HistoInv, TypeOK, [Next]_tvars PROVE TypeOK'
  OBVIOUS
<1>0. IndexInv' /\ HistoInv'
  BY IndexStep, HistoStep
<1>1. ASSUME ~final, ~final', UNCHANGED modes, lenHisto' \in [1..MaxLen -> Nat] PROVE TypeOK'
  <2>1. TrainingTypes'
    BY <1>0, <1>1 DEF IndexInv
  <2>2. lenHisto' \in [1..MaxLen -> 0..MaxSymbols]
    <3>1. MaxSymbols \in Nat /\ Len(symbols') \in Nat /\ Len(symbols') <= MaxSymbols
      BY <2>1, SizeAssumption DEF TrainingTypes
    <3>2. ASSUME NEW l \in 1..MaxLen PROVE lenHisto'[l] \in 0..MaxSymbols
      <4>1. OfLength(l)' \in SUBSET (1..Len(symbols'))
        BY DEF OfLength
      <4>2. IsFiniteSet(1..Len(symbols')) /\ Cardinality(1..Len(symbols')) = Len(symbols')
        BY <3>1, SizeOfRange
      <4>3. Cardinality(OfLength(l)') <= Len(symbols') /\ Cardinality(OfLength(l)') \in Nat
        BY <4>1, <4>2, FS_Subset, FS_CardinalityType
      <4>4. lenHisto'[l] = Cardinality(OfLength(l)')
        BY <1>0, <1>1 DEF HistoInv
      <4> QED BY <3>1, <4>3, <4>4
    <3> QED BY <1>1, <3>2
  <2>3. UNCHANGED <<suffixLim, zeroTerminated, final>>
    BY <1>1 DEF modes
  <2> QED BY <2>1, <2>2, <2>3 DEF TypeOK, TrainingTypes
<1>2. ASSUME NEW s \in Candidates \cup {<<terminator>>}, Add(s) PROVE TypeOK'
  <2>1. ~final /\ UNCHANGED modes /\ lenHisto' = [lenHisto EXCEPT ![Len(s)] = @ + 1]
    BY <1>2 DEF Add, Insert
  <2>2. lenHisto \in [1..MaxLen -> Nat]
    BY SizeAssumption DEF TypeOK
  <2>3. lenHisto' \in [1..MaxLen -> Nat]
    <3>1. \A n \in Nat : n + 1 \in Nat
      OBVIOUS
    <3>2. \A l \in 1..MaxLen : lenHisto'[l] \in Nat
      BY <2>1, <2>2, <3>1
    <3>3. lenHisto' = [l \in 1..MaxLen |-> lenHisto'[l]]
      BY <2>1, <2>2
    <3> QED BY <3>2, <3>3
  <2> QED BY <1>1, <2>1, <2>3 DEF modes
<1>3. CASE Clear
  <2>1. ~final /\ UNCHANGED modes /\ lenHisto' = [l \in 1..MaxLen |-> 0]
    BY <1>3 DEF Clear, NoSymbols
  <2>2. lenHisto' \in [1..MaxLen -> Nat]
    BY <2>1
  <2> QED BY <1>1, <2>1, <2>2 DEF modes
<1>4. CASE Finalize
  BY <1>4, FinalizeTypes
<1>5. CASE UNCHANGED tvars
  BY <1>5 DEF tvars, indexes, modes, TypeOK
<1> QED BY <1>2, <1>3, <1>4, <1>5 DEF Next

\* Every field keeps its type and its width.
THEOREM TypeCorrect == Spec => []TypeOK
<1>1. IndexInv /\ HistoInv /\ TypeOK /\ [Next]_tvars => TypeOK'
  BY TypeStep
<1> QED BY InitTypes, <1>1, Invariance, HistogramCounts, PTL DEF Spec

-----------------------------------------------------------------------------
(* What the encoders may rely on in a final table.                         *)

\* While the table is trained: what a slot says of the length of its string,
\* and that no string of several bytes contains the terminator.
SlotInv ==
  ~final => /\ \A b \in Byte : byteCodes[b].len = 1
            /\ \A b, c \in Byte : shortCodes[<<b, c>>] = Escape(b) \/ shortCodes[<<b, c>>].len = 2
            /\ \A i \in 1..Len(symbols) : Len(symbols[i]) > 1 =>
                 \A j \in 1..Len(symbols[i]) : symbols[i][j] # terminator

\* Afterwards: the codes are those of the strings, and each slot in use
\* belongs to a listed string.
FinalSlots ==
  /\ \A b \in Byte : byteCodes[b] = NoCode \/
       \E c \in 1..Len(symbols) : symbols[c] = <<b>> /\ byteCodes[b] = [code |-> c - 1, len |-> 1]
  /\ \A b, d \in Byte : shortCodes[<<b, d>>] = byteCodes[b] \/
       \E c \in 1..Len(symbols) : symbols[c] = <<b, d>> /\ shortCodes[<<b, d>>] = [code |-> c - 1, len |-> 2]
  /\ \A k \in Buckets : hashTab[k] = Free \/
       \E c \in 1..Len(symbols) : /\ hashTab[k] = [str |-> symbols[c], code |-> c - 1]
                                  /\ Len(symbols[c]) > 2 /\ BucketOf(symbols[c]) = k

FinalIndex ==
  \A c \in 1..Len(symbols) : LET s == symbols[c] IN
    /\ Len(s) = 1 => byteCodes[s[1]].code = c - 1
    /\ Len(s) = 2 => shortCodes[<<s[1], s[2]>>] = [code |-> c - 1, len |-> 2]
    /\ Len(s) > 2 => hashTab[BucketOf(s)] = [str |-> s, code |-> c - 1]

\* the numbers the encoders compare codes with
FinalLimits ==
  /\ suffixLim \in 0..Len(symbols)
  /\ lenHisto[1] \in zeroTerminated..Len(symbols)
  /\ \A c \in zeroTerminated + 1 .. Len(symbols) :
       /\ c - 1 < suffixLim <=>
            /\ Len(symbols[c]) = 2
            /\ ~\E s \in Listed : Len(s) > 2 /\ StartsWith(s, symbols[c])
       /\ c - 1 < Len(symbols) + zeroTerminated - lenHisto[1] <=> Len(symbols[c]) # 1

FinalTable ==
  final =>
    /\ symbols \in Seq(Strings) /\ Len(symbols) \in 1..255
    /\ FinalSlots /\ FinalIndex /\ FinalLimits
    /\ \A i \in 1..Len(symbols) : Len(symbols[i]) > 1 =>
         \A j \in 1..Len(symbols[i]) : symbols[i][j] # terminator
    /\ terminator \in Byte /\ zeroTerminated \in {0, 1}
    /\ zeroTerminated = 1 => terminator = 0 /\ symbols[1] = <<0>>

LEMMA InitSlots == Init => SlotInv /\ FinalTable
<1> SUFFICES ASSUME Init PROVE SlotInv /\ FinalTable
  OBVIOUS
<1>1. ~final /\ symbols = << >> /\ byteCodes = [b \in Byte |-> Escape(b)]
      /\ shortCodes = [p \in Byte \X Byte |-> Escape(p[1])]
  BY DEF Init
<1>2. \A b \in Byte : byteCodes[b].len = 1
  BY <1>1 DEF Escape
<1>3. \A b, c \in Byte : shortCodes[<<b, c>>] = Escape(b)
  BY <1>1
<1> QED BY <1>1, <1>2, <1>3 DEF SlotInv, FinalTable

LEMMA AddSlots ==
  ASSUME IndexInv, SlotInv, NEW s \in Candidates \cup {<<terminator>>}, Add(s)
  PROVE  SlotInv'
<1>1. /\ ~final /\ ~final' /\ terminator' = terminator /\ Index(s) /\ symbols' = Append(symbols, s)
      /\ \A i \in 1..Len(s) : s[i] = terminator => Len(s) = 1
  BY DEF Add, Insert, Proposed, modes
<1>2. TrainingTypes
  BY <1>1 DEF IndexInv
<1>3. s \in Strings
  BY <1>2, CandidateAssumption, ByteIsString DEF TrainingTypes
<1>4. symbols \in Seq(Strings) /\ Len(symbols) \in Nat
  BY <1>2 DEF TrainingTypes
<1>5. /\ Len(symbols') = Len(symbols) + 1 /\ symbols'[Len(symbols) + 1] = s
      /\ \A i \in 1..Len(symbols) : symbols'[i] = symbols[i]
  BY <1>1, <1>3, <1>4
<1>6. /\ \A b \in Byte : byteCodes[b].len = 1
      /\ \A b, c \in Byte : shortCodes[<<b, c>>] = Escape(b) \/ shortCodes[<<b, c>>].len = 2
      /\ \A i \in 1..Len(symbols) : Len(symbols[i]) > 1 =>
           \A j \in 1..Len(symbols[i]) : symbols[i][j] # terminator
  BY <1>1 DEF SlotInv
<1>7. \A b \in Byte : byteCodes'[b].len = 1
  BY <1>1, <1>2, <1>6 DEF Index, TrainingTypes
<1>8. ASSUME NEW b \in Byte, NEW c \in Byte
      PROVE  shortCodes'[<<b, c>>] = Escape(b) \/ shortCodes'[<<b, c>>].len = 2
  BY <1>1, <1>2, <1>6 DEF Index, TrainingTypes
<1>9. ASSUME NEW i \in 1..Len(symbols), Len(symbols'[i]) > 1
      PROVE \A j \in 1..Len(symbols'[i]) : symbols'[i][j] # terminator
  BY <1>5, <1>6, <1>9
<1>10. ASSUME Len(s) > 1 PROVE \A j \in 1..Len(s) : s[j] # terminator
  <2>1. Len(s) # 1
    <3>1. \A m, n \in Nat : n \in 1..m /\ n > 1 => n # 1
      OBVIOUS
    <3>2. Len(s) \in 1..MaxLen /\ Len(s) \in Nat /\ MaxLen \in Nat
      BY <1>3, StringFacts, SizeAssumption
    <3> QED BY <1>10, <3>1, <3>2
  <2> QED BY <1>1, <2>1
<1>11. \A i \in 1..Len(symbols) + 1 : i \in 1..Len(symbols) \/ i = Len(symbols) + 1
  BY <1>4
<1>12. \A i \in 1..Len(symbols') : Len(symbols'[i]) > 1 =>
         \A j \in 1..Len(symbols'[i]) : symbols'[i][j] # terminator'
  <2> TAKE i \in 1..Len(symbols')
  <2>1. CASE i \in 1..Len(symbols)
    BY <1>1, <1>9, <2>1
  <2>2. CASE i = Len(symbols) + 1
    <3>1. symbols'[i] = s
      BY <1>5, <2>2
    <3> QED BY <1>1, <1>10, <3>1
  <2> QED BY <1>5, <1>11, <2>1, <2>2
<1> QED BY <1>7, <1>8, <1>12 DEF SlotInv, Escape

LEMMA SlotStep == IndexInv /\ SlotInv /\ [Next]_tvars => SlotInv'
<1> SUFFICES ASSUME IndexInv, SlotInv, [Next]_tvars PROVE SlotInv'
  OBVIOUS
<1>1. ASSUME NEW s \in Candidates \cup {<<terminator>>}, Add(s) PROVE SlotInv'
  BY <1>1, AddSlots
<1>2. CASE Clear
  <2>1. /\ \A b \in Byte : byteCodes'[b] = Escape(b)
        /\ \A p \in Byte \X Byte : shortCodes'[p] = Escape(p[1])
    BY <1>2, ClearStep
  <2>2. symbols' = << >>
    BY <1>2 DEF Clear
  <2>3. \A b \in Byte : byteCodes'[b].len = 1
    <3>1. \A b \in Byte : Escape(b).len = 1
      BY DEF Escape
    <3> QED BY <2>1, <3>1
  <2>4. \A b, c \in Byte : shortCodes'[<<b, c>>] = Escape(b)
    BY <2>1
  <2> QED BY <2>2, <2>3, <2>4 DEF SlotInv, Escape
<1>3. CASE Finalize
  BY <1>3 DEF Finalize, SlotInv
<1>4. CASE UNCHANGED tvars
  BY <1>4 DEF tvars, indexes, modes, SlotInv
<1> QED BY <1>1, <1>2, <1>3, <1>4 DEF Next

\* Symbols of one byte get the highest codes.
LEMMA SinglesComeLast ==
  ASSUME ListInv, HistoInv, ~final, symbols # << >>
  PROVE  /\ lenHisto[1] \in zeroTerminated..Len(symbols)
         /\ \A i \in Renumbered :
              NewCode(i) < Len(symbols) + zeroTerminated - lenHisto[1] <=> Len(symbols[i]) # 1
<1> DEFINE Ones == {k \in Renumbered : Len(symbols[k]) = 1}
           Others == {k \in Renumbered : Len(symbols[k]) # 1}
<1>0. /\ Len(symbols) \in Nat /\ zeroTerminated \in {0, 1} /\ IsFiniteSet(Renumbered)
      /\ Cardinality(Renumbered) = Len(symbols) - zeroTerminated /\ Renumbered \subseteq 1..Len(symbols)
      /\ zeroTerminated = 1 => Len(symbols[1]) = 1 /\ 1 \in 1..Len(symbols)
      /\ MaxLen \in Nat /\ MaxLen >= 3
  BY TableFacts, SizeAssumption
<1>1. OfLength(1) = Ones \cup (1..zeroTerminated) /\ Ones \cap (1..zeroTerminated) = {}
  <2>1. \A k : k \in Renumbered <=> k \in zeroTerminated + 1..Len(symbols)
    BY DEF Renumbered
  <2> QED BY <1>0, <2>1 DEF OfLength
<1>2. Renumbered = Ones \cup Others /\ Ones \cap Others = {}
  OBVIOUS
<1>3. IsFiniteSet(OfLength(1)) /\ lenHisto[1] = Cardinality(OfLength(1))
  <2>1. OfLength(1) \in SUBSET (1..Len(symbols)) /\ 1 \in 1..MaxLen
    BY <1>0 DEF OfLength
  <2>2. IsFiniteSet(OfLength(1))
    BY <1>0, <2>1, SizeOfRange, FS_Subset
  <2> QED BY <2>1, <2>2 DEF HistoInv
<1> HIDE DEF Ones, Others
<1>4. /\ Cardinality(Renumbered) = Cardinality(Ones) + Cardinality(Others)
      /\ Cardinality(Ones) \in Nat /\ Cardinality(Others) \in Nat
      /\ IsFiniteSet(Ones) /\ IsFiniteSet(Others)
  <2>1. IsFiniteSet(Ones \cup Others)
    BY <1>0, <1>2
  <2>2. /\ Cardinality(Ones \cup Others) = Cardinality(Ones) + Cardinality(Others)
        /\ Cardinality(Ones) \in Nat /\ Cardinality(Others) \in Nat
        /\ IsFiniteSet(Ones) /\ IsFiniteSet(Others)
    BY <1>2, <2>1, TwoParts
  <2> QED BY <1>2, <2>2
<1>5. lenHisto[1] = Cardinality(Ones) + zeroTerminated
  <2>1. IsFiniteSet(Ones \cup (1..zeroTerminated))
    BY <1>1, <1>3
  <2>2. Cardinality(Ones \cup (1..zeroTerminated)) = Cardinality(Ones) + Cardinality(1..zeroTerminated)
    BY <1>1, <2>1, TwoParts
  <2>3. Cardinality(1..zeroTerminated) = zeroTerminated
    <3>1. zeroTerminated \in Nat
      BY <1>0
    <3> QED BY <3>1, SizeOfRange
  <2> QED BY <1>1, <1>3, <2>2, <2>3
<1>6. \A n, z, a, b \in Nat : n - z = a + b => a + z \in z..n /\ n + z - (a + z) = z + b
  OBVIOUS
<1>7. lenHisto[1] \in zeroTerminated..Len(symbols)
      /\ Len(symbols) + zeroTerminated - lenHisto[1] = zeroTerminated + Cardinality(Others)
  <2>1. zeroTerminated \in Nat /\ Len(symbols) - zeroTerminated = Cardinality(Ones) + Cardinality(Others)
    BY <1>0, <1>4
  <2>2. /\ Cardinality(Ones) + zeroTerminated \in zeroTerminated..Len(symbols)
        /\ Len(symbols) + zeroTerminated - (Cardinality(Ones) + zeroTerminated) = zeroTerminated + Cardinality(Others)
    BY <1>0, <1>4, <1>6, <2>1
  <2> QED BY <1>5, <2>2
<1>8. ASSUME NEW i \in Renumbered
      PROVE  NewCode(i) < zeroTerminated + Cardinality(Others) <=> Len(symbols[i]) # 1
  <2>1. \A k \in Renumbered : /\ Class(k) = MaxLen + 1 <=> Len(symbols[k]) = 1
                              /\ Class(k) \in Nat /\ Class(k) <= MaxLen + 1 /\ k \in Nat
    BY ClassFacts
  <2>2. /\ NewCode(i) = zeroTerminated + Cardinality(UpTo(i)) - 1
        /\ UpTo(i) \in SUBSET Renumbered /\ IsFiniteSet(UpTo(i)) /\ i \in UpTo(i)
    BY NewCodeIsRank
  <2>3. Cardinality(UpTo(i)) \in Nat /\ zeroTerminated \in Nat
    BY <1>0, <2>2, FS_CardinalityType
  <2>4. CASE Len(symbols[i]) # 1
    <3>1. UpTo(i) \in SUBSET Others
      <4>1. \A k \in UpTo(i) : Class(k) <= Class(i)
        BY <2>1, <2>2 DEF UpTo, Precedes
      <4>2. Class(i) < MaxLen + 1
        BY <1>0, <2>1, <2>4
      <4>3. \A k \in UpTo(i) : Class(k) # MaxLen + 1
        BY <1>0, <2>1, <2>2, <4>1, <4>2
      <4> QED BY <2>1, <2>2, <4>3 DEF Others
    <3>2. Cardinality(UpTo(i)) <= Cardinality(Others)
      BY <1>4, <3>1, FS_Subset
    <3>3. \A z, u, a \in Nat : u <= a => z + u - 1 < z + a
      OBVIOUS
    <3>4. NewCode(i) < zeroTerminated + Cardinality(Others)
      BY <1>4, <2>2, <2>3, <3>2, <3>3
    <3> QED BY <2>4, <3>4
  <2>5. CASE Len(symbols[i]) = 1
    <3>1. Others \cup {i} \in SUBSET UpTo(i)
      <4>1. ASSUME NEW k \in Others PROVE k \in UpTo(i)
        <5>1. k \in Renumbered /\ Class(k) # MaxLen + 1
          BY <2>1 DEF Others
        <5>2. Class(k) < Class(i)
          BY <1>0, <2>1, <2>5, <5>1
        <5> QED BY <5>1, <5>2 DEF UpTo, Precedes
      <4> QED BY <2>2, <4>1
    <3>2. i \notin Others
      BY <2>5 DEF Others
    <3>3. Cardinality(Others \cup {i}) = Cardinality(Others) + 1
      BY <1>4, <3>2, FS_AddElement
    <3>4. Cardinality(Others) + 1 <= Cardinality(UpTo(i))
      BY <2>2, <3>1, <3>3, FS_Subset
    <3>5. \A z, u, a \in Nat : a + 1 <= u => ~(z + u - 1 < z + a)
      OBVIOUS
    <3>6. ~(NewCode(i) < zeroTerminated + Cardinality(Others))
      BY <1>4, <2>2, <2>3, <3>4, <3>5
    <3> QED BY <2>5, <3>6
  <2> QED BY <2>4, <2>5
<1> QED BY <1>7, <1>8

LEMMA FinalizeSlots ==
  ASSUME IndexInv, HistoInv, SlotInv, Finalize
  PROVE  (FinalSlots /\ FinalIndex)'
<1> ListInv
  BY IndexedOnce
<1>0. ~final /\ symbols # << >>
  BY DEF Finalize
<1>1. TrainingTypes /\ EveryStringIndexed /\ ByteSlots /\ PairSlots /\ HashSlots
  BY <1>0 DEF IndexInv
<1>2. /\ symbols' \in Seq(Strings) /\ Len(symbols') = Len(symbols)
      /\ \A i \in 1..Len(symbols) : NewCode(i) + 1 \in 1..Len(symbols) /\ symbols'[NewCode(i) + 1] = symbols[i]
      /\ \A c \in 1..Len(symbols) : \E i \in 1..Len(symbols) : c = NewCode(i) + 1
  BY FinalSymbols
<1>3. \A i \in 1..Len(symbols) : NewCode(i) \in 0 .. Len(symbols) - 1
  BY <1>0, NewCodesPermute
<1>4. Len(symbols) \in Nat /\ \A i \in 1..Len(symbols) : symbols[i] \in Strings /\ Len(symbols[i]) \in 1..MaxLen
  BY <1>0, TableFacts
<1>b. \A a, x \in Int : x = a + 1 => x - 1 = a
  OBVIOUS
<1>c. \A i \in 1..Len(symbols) : NewCode(i) \in Int
  BY <1>3, <1>4
<1>5. \A i \in 1..Len(symbols) : /\ NewCode(i) + 1 - 1 = NewCode(i)
                                 /\ CodeBase + i - 1 >= CodeBase /\ IndexOf(CodeBase + i - 1) = i
  <2> TAKE i \in 1..Len(symbols)
  <2>1. NewCode(i) \in Int
    BY <1>3, <1>4
  <2> QED BY <2>1 DEF IndexOf, CodeBase
<1>a. ASSUME NEW i \in 1..Len(symbols)
      PROVE  \E c \in 1..Len(symbols) : symbols'[c] = symbols[i] /\ c - 1 = NewCode(i)
  <2>1. NewCode(i) + 1 \in 1..Len(symbols) /\ symbols'[NewCode(i) + 1] = symbols[i]
    BY <1>2
  <2>2. PICK c \in Int : c = NewCode(i) + 1
    BY <2>1
  <2>3. c - 1 = NewCode(i)
    <3>1. NewCode(i) \in Int
      BY <1>c
    <3> QED BY <1>b, <2>2, <3>1
  <2>4. c \in 1..Len(symbols) /\ symbols'[c] = symbols[i]
    BY <2>1, <2>2
  <2> QED BY <2>3, <2>4
<1>6. /\ \A b \in Byte : byteCodes[b].len = 1
      /\ \A b, c \in Byte : shortCodes[<<b, c>>] = Escape(b) \/ shortCodes[<<b, c>>].len = 2
  BY <1>0 DEF SlotInv
<1>7. \A b \in Byte : ~(Escape(b).code >= CodeBase)
  BY ByteAssumption DEF Escape, CodeBase
<1>8. /\ \A b \in Byte : byteCodes'[b] = IF byteCodes[b].code >= CodeBase THEN Renumber(byteCodes[b]) ELSE NoCode
      /\ \A p \in Byte \X Byte : shortCodes'[p] = IF shortCodes[p].code >= CodeBase THEN Renumber(shortCodes[p])
                                                  ELSE byteCodes'[p[1]]
      /\ \A k \in Buckets : hashTab'[k] = IF hashTab[k] = Free THEN Free ELSE Renumber(hashTab[k])
  BY DEF Finalize
<1>9. ASSUME NEW w \in CodeWord, NEW i \in 1..Len(symbols), w.code = CodeBase + i - 1
      PROVE  Renumber(w) = [code |-> NewCode(i), len |-> w.len]
  <2>1. Renumber(w) = [w EXCEPT !.code = NewCode(i)]
    BY <1>5, <1>9 DEF Renumber
  <2> QED BY <2>1 DEF CodeWord
<1>10. ASSUME NEW b \in Byte
       PROVE  byteCodes'[b] = NoCode \/
              \E c \in 1..Len(symbols) : symbols'[c] = <<b>> /\ byteCodes'[b] = [code |-> c - 1, len |-> 1]
  <2>1. CASE byteCodes[b].code >= CodeBase
    <3>1. PICK i \in 1..Len(symbols) : symbols[i] = <<b>> /\ byteCodes[b].code = CodeBase + i - 1
      BY <1>1, <1>7, <2>1 DEF ByteSlots
    <3>2. byteCodes[b] \in CodeWord
      BY <1>1 DEF TrainingTypes
    <3>3. byteCodes'[b] = [code |-> NewCode(i), len |-> 1]
      BY <1>6, <1>8, <1>9, <2>1, <3>1, <3>2
    <3>4. PICK c \in 1..Len(symbols) : symbols'[c] = symbols[i] /\ c - 1 = NewCode(i)
      BY <1>a
    <3> QED BY <3>1, <3>3, <3>4
  <2>2. CASE ~(byteCodes[b].code >= CodeBase)
    BY <1>8, <2>2
  <2> QED BY <2>1, <2>2
<1>11. ASSUME NEW b \in Byte, NEW d \in Byte
       PROVE  shortCodes'[<<b, d>>] = byteCodes'[b] \/
              \E c \in 1..Len(symbols) : symbols'[c] = <<b, d>> /\ shortCodes'[<<b, d>>] = [code |-> c - 1, len |-> 2]
  <2>0. <<b, d>> \in Byte \X Byte /\ <<b, d>>[1] = b
    OBVIOUS
  <2>1. CASE shortCodes[<<b, d>>].code >= CodeBase
    <3>0. shortCodes[<<b, d>>] # Escape(b)
      BY <1>7, <2>1
    <3>1. PICK i \in 1..Len(symbols) : symbols[i] = <<b, d>> /\ shortCodes[<<b, d>>].code = CodeBase + i - 1
      BY <1>1, <3>0 DEF PairSlots
    <3>2. shortCodes[<<b, d>>] \in CodeWord /\ shortCodes[<<b, d>>].len = 2
      BY <1>1, <1>6, <2>0, <3>0 DEF TrainingTypes
    <3>3. Renumber(shortCodes[<<b, d>>]) = [code |-> NewCode(i), len |-> 2]
      BY <1>9, <3>1, <3>2
    <3>4. shortCodes'[<<b, d>>] = [code |-> NewCode(i), len |-> 2]
      BY <1>8, <2>0, <2>1, <3>3
    <3>5. PICK c \in 1..Len(symbols) : symbols'[c] = symbols[i] /\ c - 1 = NewCode(i)
      BY <1>a
    <3> QED BY <3>1, <3>4, <3>5
  <2>2. CASE ~(shortCodes[<<b, d>>].code >= CodeBase)
    BY <1>8, <2>0, <2>2
  <2> QED BY <2>1, <2>2
<1>12. ASSUME NEW s, NEW i \in 1..Len(symbols)
       PROVE  Renumber([str |-> s, code |-> CodeBase + i - 1]) = [str |-> s, code |-> NewCode(i)]
  BY <1>5 DEF Renumber
<1>13. ASSUME NEW k \in Buckets
       PROVE  hashTab'[k] = Free \/
              \E c \in 1..Len(symbols) : /\ hashTab'[k] = [str |-> symbols'[c], code |-> c - 1]
                                         /\ Len(symbols'[c]) > 2 /\ BucketOf(symbols'[c]) = k
  <2>1. CASE hashTab[k] # Free
    <3>1. PICK i \in 1..Len(symbols) : /\ hashTab[k] = [str |-> symbols[i], code |-> CodeBase + i - 1]
                                       /\ Len(symbols[i]) > 2 /\ BucketOf(symbols[i]) = k
      BY <1>1, <2>1 DEF HashSlots
    <3>2. hashTab'[k] = [str |-> symbols[i], code |-> NewCode(i)]
      BY <1>8, <1>12, <2>1, <3>1
    <3>3. PICK c \in 1..Len(symbols) : symbols'[c] = symbols[i] /\ c - 1 = NewCode(i)
      BY <1>a
    <3>4. BucketOf(symbols'[c]) = k /\ Len(symbols'[c]) > 2
      BY <3>1, <3>3
    <3> QED BY <3>2, <3>3, <3>4
  <2>2. CASE hashTab[k] = Free
    BY <1>8, <2>2
  <2> QED BY <2>1, <2>2
<1>14. FinalSlots'
  <2>1. NoCode' = NoCode /\ Free' = Free /\ Buckets' = Buckets
    BY DEF NoCode, Free, Buckets
  <2>2. Len(symbols') = Len(symbols)
    BY <1>2
  <2>3. \A b \in Byte : byteCodes'[b] = NoCode \/
          \E c \in 1..Len(symbols') : symbols'[c] = <<b>> /\ byteCodes'[b] = [code |-> c - 1, len |-> 1]
    BY <1>10, <2>2
  <2>4. \A b, d \in Byte : shortCodes'[<<b, d>>] = byteCodes'[b] \/
          \E c \in 1..Len(symbols') : symbols'[c] = <<b, d>> /\ shortCodes'[<<b, d>>] = [code |-> c - 1, len |-> 2]
    BY <1>11, <2>2
  <2>5. \A k \in Buckets : hashTab'[k] = Free \/
          \E c \in 1..Len(symbols') : /\ hashTab'[k] = [str |-> symbols'[c], code |-> c - 1]
                                       /\ Len(symbols'[c]) > 2 /\ BucketOf(symbols'[c]) = k
    BY <1>13, <2>2
  <2> QED BY <2>1, <2>3, <2>4, <2>5 DEF FinalSlots
<1>15. ASSUME NEW c \in 1..Len(symbols), NEW s, s = symbols'[c]
       PROVE  /\ Len(s) = 1 => byteCodes'[s[1]].code = c - 1
              /\ Len(s) = 2 => shortCodes'[<<s[1], s[2]>>] = [code |-> c - 1, len |-> 2]
              /\ Len(s) > 2 => hashTab'[BucketOf(s)] = [str |-> s, code |-> c - 1]
  <2>1. PICK i \in 1..Len(symbols) : c = NewCode(i) + 1
    BY <1>2
  <2>2. c - 1 = NewCode(i)
    <3>1. NewCode(i) \in Int /\ c \in Int
      BY <1>c
    <3> QED BY <1>b, <2>1, <3>1
  <2>3. s = symbols[i] /\ s \in Strings
    <3>1. symbols'[NewCode(i) + 1] = symbols[i]
      BY <1>2
    <3> QED BY <1>4, <1>15, <2>1, <3>1
  <2>4. /\ Len(s) = 1 => byteCodes[s[1]].code = CodeBase + i - 1
        /\ Len(s) = 2 => shortCodes[<<s[1], s[2]>>].code = CodeBase + i - 1
        /\ Len(s) > 2 => hashTab[BucketOf(s)] = [str |-> s, code |-> CodeBase + i - 1]
    BY <1>1, <2>3 DEF EveryStringIndexed
  <2>5. \A j \in 1..Len(s) : s[j] \in Byte
    BY <2>3, StringFacts
  <2>6. ASSUME Len(s) = 1 PROVE byteCodes'[s[1]].code = NewCode(i)
    <3>1. s[1] \in Byte /\ byteCodes[s[1]].code = CodeBase + i - 1 /\ byteCodes[s[1]] \in CodeWord
      BY <1>1, <2>4, <2>5, <2>6 DEF TrainingTypes
    <3>2. byteCodes'[s[1]] = Renumber(byteCodes[s[1]])
      BY <1>5, <1>8, <3>1
    <3> QED BY <1>9, <3>1, <3>2
  <2>7. ASSUME Len(s) = 2 PROVE shortCodes'[<<s[1], s[2]>>] = [code |-> NewCode(i), len |-> 2]
    <3>1. /\ s[1] \in Byte /\ s[2] \in Byte /\ <<s[1], s[2]>> \in Byte \X Byte
          /\ shortCodes[<<s[1], s[2]>>].code = CodeBase + i - 1
          /\ shortCodes[<<s[1], s[2]>>] \in CodeWord
      BY <1>1, <2>4, <2>5, <2>7 DEF TrainingTypes
    <3>2. shortCodes'[<<s[1], s[2]>>] = Renumber(shortCodes[<<s[1], s[2]>>])
      BY <1>5, <1>8, <3>1
    <3>3. shortCodes[<<s[1], s[2]>>] # Escape(s[1])
      BY <1>5, <1>7, <3>1
    <3>4. shortCodes[<<s[1], s[2]>>].len = 2
      BY <1>6, <3>1, <3>3
    <3> QED BY <1>9, <3>1, <3>2, <3>4
  <2>8. ASSUME Len(s) > 2 PROVE hashTab'[BucketOf(s)] = [str |-> s, code |-> NewCode(i)]
    <3>1. hashTab[BucketOf(s)] = [str |-> s, code |-> CodeBase + i - 1] /\ s # << >> /\ BucketOf(s) \in Buckets
      BY <2>3, <2>4, <2>8, KeyFacts
    <3>2. hashTab[BucketOf(s)] # Free
      BY <3>1 DEF Free
    <3> QED BY <1>8, <1>12, <3>1, <3>2
  <2> QED BY <2>2, <2>6, <2>7, <2>8
<1>16. FinalIndex'
  BY <1>2, <1>15 DEF FinalIndex, BucketOf, Key
<1> QED BY <1>14, <1>16

LEMMA FinalizeTable ==
  ASSUME IndexInv, HistoInv, SlotInv, Finalize
  PROVE  FinalTable'
<1> ListInv
  BY IndexedOnce
<1>0. /\ ~final /\ symbols # << >>
      /\ UNCHANGED <<lenHisto, terminator, zeroTerminated>>
      /\ suffixLim' = Start(2) + Cardinality({i \in Renumbered : Len(symbols[i]) = 2 /\ ~Extended(i)})
  BY DEF Finalize
<1>1. /\ symbols' \in Seq(Strings) /\ Len(symbols') = Len(symbols)
      /\ \A i \in 1..Len(symbols) : NewCode(i) + 1 \in 1..Len(symbols) /\ symbols'[NewCode(i) + 1] = symbols[i]
      /\ \A c \in 1..Len(symbols) : \E i \in 1..Len(symbols) : c = NewCode(i) + 1
      /\ Listed' = Listed
  BY FinalSymbols
<1>2. /\ Len(symbols) \in Nat /\ Len(symbols) <= 255 /\ zeroTerminated \in {0, 1} /\ IsFiniteSet(Renumbered)
      /\ Cardinality(Renumbered) = Len(symbols) - zeroTerminated
      /\ zeroTerminated = 1 => 1 \in 1..Len(symbols)
  BY <1>0, TableFacts
<1>3. /\ FinalLayout'
      /\ zeroTerminated = 1 => symbols'[1] = <<0>>
  BY FinalizeStep
<1>4. FinalSlots' /\ FinalIndex'
  BY FinalizeSlots
<1>5. TrainingTypes /\ symbols \in Seq(Strings)
  BY <1>0 DEF IndexInv, TrainingTypes
<1>6. Len(symbols') \in 1..255
  <2>1. Len(symbols) # 0
    BY <1>0, <1>5, EmptySeq
  <2>2. \A n \in Nat : n # 0 /\ n <= 255 => n \in 1..255
    OBVIOUS
  <2> QED BY <1>1, <1>2, <2>1, <2>2
<1>7. final'
  BY DEF Finalize
<1>8. terminator' \in Byte /\ zeroTerminated' \in {0, 1}
      /\ (zeroTerminated' = 1 => terminator' = 0 /\ symbols'[1] = <<0>>)
  <2>1. zeroTerminated = 1 => terminator = 0
    BY <1>0 DEF HistoInv
  <2> QED BY <1>0, <1>2, <1>3, <1>5, <2>1 DEF TrainingTypes
<1>9. ASSUME NEW c \in 1..Len(symbols'), Len(symbols'[c]) > 1
      PROVE  \A j \in 1..Len(symbols'[c]) : symbols'[c][j] # terminator'
  <2>1. PICK i \in 1..Len(symbols) : c = NewCode(i) + 1
    BY <1>1
  <2>2. symbols'[c] = symbols[i]
    BY <1>1, <2>1
  <2>3. \A k \in 1..Len(symbols) : Len(symbols[k]) > 1 =>
          \A j \in 1..Len(symbols[k]) : symbols[k][j] # terminator
    BY <1>0 DEF SlotInv
  <2> QED BY <1>0, <1>9, <2>2, <2>3
<1>10. suffixLim' \in 0..Len(symbols')
  <2> DEFINE A == {i \in Renumbered : Len(symbols[i]) = 2 /\ ~Extended(i)}
  <2>1. A \in SUBSET Renumbered
    OBVIOUS
  <2> HIDE DEF A
  <2>2. IsFiniteSet(A) /\ Cardinality(A) <= Cardinality(Renumbered)
    BY <1>2, <2>1, FS_Subset
  <2>3. Cardinality(A) \in Nat
    BY <2>2, FS_CardinalityType
  <2>4. Start(2) = zeroTerminated
    <3>1. 2 \in 2..MaxLen + 1
      BY SizeAssumption
    <3>2. Start(2) = zeroTerminated +
            Cardinality({k \in Renumbered : 2 <= Len(symbols[k]) /\ Len(symbols[k]) < 2})
      BY <1>0, <3>1, Starts
    <3>3. \A k \in Renumbered : Len(symbols[k]) \in Nat
      BY <1>0, ClassFacts
    <3>4. \A k \in Renumbered : ~(2 <= Len(symbols[k]) /\ Len(symbols[k]) < 2)
      BY <3>3
    <3>5. {k \in Renumbered : 2 <= Len(symbols[k]) /\ Len(symbols[k]) < 2} = {}
      BY <3>4
    <3>6. Start(2) = zeroTerminated + 0
      BY <3>2, <3>5, FS_EmptySet
    <3> QED BY <1>2, <3>6
  <2>5. suffixLim' = zeroTerminated + Cardinality(A)
    BY <1>0, <2>4 DEF A
  <2>6. \A z, a, n, r \in Int : a <= r /\ r = n - z => z + a <= n
    OBVIOUS
  <2>7. suffixLim' <= Len(symbols) /\ suffixLim' \in Nat
    BY <1>2, <2>2, <2>3, <2>5
  <2> QED BY <1>1, <1>2, <2>7
<1>11. lenHisto[1] \in zeroTerminated..Len(symbols)
       /\ \A i \in Renumbered :
              NewCode(i) < Len(symbols) + zeroTerminated - lenHisto[1] <=> Len(symbols[i]) # 1
  BY <1>0, SinglesComeLast
<1>12. ASSUME NEW c \in zeroTerminated + 1 .. Len(symbols)
       PROVE  c - 1 < Len(symbols) + zeroTerminated - lenHisto[1] <=> Len(symbols'[c]) # 1
  <2>1. c \in 1..Len(symbols) /\ c \in Int /\ c - 1 >= zeroTerminated
    BY <1>2
  <2>2. PICK i \in 1..Len(symbols) : c = NewCode(i) + 1
    BY <1>1, <2>1
  <2>3. NewCode(i) \in Int /\ (NewCode(i) >= zeroTerminated <=> i \in Renumbered)
    <3>1. /\ NewCode(i) \in 0..Len(symbols) - 1
          /\ NewCode(i) >= zeroTerminated <=> i \in Renumbered
      BY <1>0, NewCodesPermute
    <3> QED BY <1>2, <3>1
  <2>4. c - 1 = NewCode(i)
    <3>1. \A a, x \in Int : x = a + 1 => x - 1 = a
      OBVIOUS
    <3> QED BY <2>1, <2>2, <2>3, <3>1
  <2>5. i \in Renumbered
    BY <2>1, <2>3, <2>4
  <2>6. symbols'[c] = symbols[i]
    BY <1>1, <2>2
  <2> QED BY <1>11, <2>4, <2>5, <2>6
<1>13. \A c \in zeroTerminated' + 1 .. Len(symbols') :
         c - 1 < Len(symbols') + zeroTerminated' - lenHisto'[1] <=> Len(symbols'[c]) # 1
  BY <1>0, <1>1, <1>12
<1>14. \A c \in zeroTerminated' + 1 .. Len(symbols') :
         c - 1 < suffixLim' <=>
            /\ Len(symbols'[c]) = 2
            /\ ~\E s \in Listed' : Len(s) > 2 /\ StartsWith(s, symbols'[c])
  BY <1>3, <1>7 DEF FinalLayout, StartsWith
<1>15. FinalLimits'
  <2>1. lenHisto'[1] \in zeroTerminated'..Len(symbols')
    BY <1>0, <1>1, <1>11
  <2> QED BY <1>10, <1>13, <1>14, <2>1 DEF FinalLimits, StartsWith
<1> QED BY <1>1, <1>4, <1>6, <1>8, <1>9, <1>15 DEF FinalTable

LEMMA FinalTableStep == IndexInv /\ HistoInv /\ SlotInv /\ FinalTable /\ [Next]_tvars => FinalTable'
<1> SUFFICES ASSUME IndexInv, HistoInv, SlotInv, FinalTable, [Next]_tvars PROVE FinalTable'
  OBVIOUS
<1>1. CASE Finalize
  BY <1>1, FinalizeTable
<1>2. CASE Clear \/ \E s \in Candidates \cup {<<terminator>>} : Add(s)
  <2>1. ~final'
    BY <1>2 DEF Clear, Add, Insert, modes
  <2> QED BY <2>1 DEF FinalTable
<1>3. CASE UNCHANGED tvars
  <2>1. UNCHANGED <<symbols, byteCodes, shortCodes, hashTab, lenHisto, suffixLim,
                    terminator, zeroTerminated, final>>
    BY <1>3 DEF tvars, indexes, modes
  <2>2. FinalSlots' = FinalSlots
    BY <2>1 DEF FinalSlots, BucketOf, Key, Buckets, Free, NoCode
  <2>3. FinalIndex' = FinalIndex
    BY <2>1 DEF FinalIndex, BucketOf, Key
  <2>4. FinalLimits' = FinalLimits
    BY <2>1 DEF FinalLimits, Listed, StartsWith
  <2> QED BY <2>1, <2>2, <2>3, <2>4 DEF FinalTable
<1> QED BY <1>1, <1>2, <1>3 DEF Next

\* What the encoders rely on: in a final table each slot in use holds the code
\* of its own string, each string is found in its slot, no longer string
\* contains the terminator, and the two limits tell the lengths apart.
THEOREM FinalTables == Spec => []FinalTable
<1>1. Init => SlotInv /\ FinalTable
  BY InitSlots
<1>2. IndexInv /\ SlotInv /\ [Next]_tvars => SlotInv'
  BY SlotStep
<1>3. IndexInv /\ HistoInv /\ SlotInv /\ FinalTable /\ [Next]_tvars => FinalTable'
  BY FinalTableStep
<1> QED BY <1>1, <1>2, <1>3, Invariance, HistogramCounts, PTL DEF Spec

-----------------------------------------------------------------------------
(* What a decoder can count on                                             *)

\* What the decoder counts on besides the layout: the histogram is that of
\* the final symbols, and zero keeps code 0 in zero-terminated mode.
FinalCounts ==
  final => /\ DOMAIN lenHisto = 1..MaxLen
           /\ \A l \in 1..MaxLen : lenHisto[l] = Cardinality(OfLength(l))
           /\ zeroTerminated = 1 => symbols[1] = <<0>>

\* finalize() counts every symbol once, and puts zero first.
LEMMA FinalizeCounts ==
  ASSUME ListInv, HistoInv, Finalize
  PROVE  FinalCounts'
<1>0. /\ ~final /\ symbols # << >>
      /\ UNCHANGED <<lenHisto, zeroTerminated>>
  BY DEF Finalize
<1>1. /\ symbols' \in Seq(Strings) /\ Len(symbols') = Len(symbols)
      /\ \A i \in 1..Len(symbols) : NewCode(i) + 1 \in 1..Len(symbols) /\ symbols'[NewCode(i) + 1] = symbols[i]
      /\ \A c \in 1..Len(symbols) : \E i \in 1..Len(symbols) : c = NewCode(i) + 1
  BY FinalSymbols
<1>2. /\ \A i \in 1..Len(symbols) : NewCode(i) \in 0 .. Len(symbols) - 1
      /\ \A i, k \in 1..Len(symbols) : NewCode(i) = NewCode(k) => i = k
      /\ zeroTerminated = 1 => NewCode(1) = 0
  BY <1>0, NewCodesPermute
<1>3. /\ DOMAIN lenHisto = 1..MaxLen
      /\ \A l \in 1..MaxLen : lenHisto[l] = Cardinality(OfLength(l))
      /\ zeroTerminated = 1 => symbols[1] = <<0>> /\ 1 \in 1..Len(symbols)
  BY <1>0, TableFacts DEF HistoInv
<1>4. ASSUME NEW l \in 1..MaxLen
      PROVE  Cardinality(OfLength(l)) = Cardinality({c \in 1..Len(symbols') : Len(symbols'[c]) = l})
  <2> DEFINE A == OfLength(l)
             B == {c \in 1..Len(symbols') : Len(symbols'[c]) = l}
             f == [i \in A |-> NewCode(i) + 1]
  <2>1. \A i \in A : i \in 1..Len(symbols) /\ Len(symbols[i]) = l
    BY DEF OfLength
  <2>2. \A i \in A : NewCode(i) + 1 \in B
    <3>1. \A i \in 1..Len(symbols) : NewCode(i) + 1 \in 1..Len(symbols') /\ symbols'[NewCode(i) + 1] = symbols[i]
      BY <1>1
    <3> QED BY <2>1, <3>1
  <2>3. f \in [A -> B]
    <3> HIDE DEF A, B
    <3> QED BY <2>2
  <2>4. \A i, k \in A : f[i] = f[k] => i = k
    <3> HIDE DEF A, B
    <3> SUFFICES ASSUME NEW i \in A, NEW k \in A, NewCode(i) + 1 = NewCode(k) + 1 PROVE i = k
      OBVIOUS
    <3>1. NewCode(i) \in Int /\ NewCode(k) \in Int
      BY <1>2, <2>1
    <3>2. NewCode(i) = NewCode(k)
      BY <3>1
    <3> QED BY <1>2, <2>1, <3>2
  <2>5. \A c \in B : \E i \in A : f[i] = c
    <3> SUFFICES ASSUME NEW c \in B PROVE \E i \in A : f[i] = c
      OBVIOUS
    <3>1. PICK i \in 1..Len(symbols) : c = NewCode(i) + 1
      BY <1>1
    <3>2. symbols'[c] = symbols[i] /\ Len(symbols'[c]) = l
      BY <1>1, <3>1
    <3>3. i \in A
      BY <3>2 DEF OfLength
    <3> HIDE DEF A, B
    <3> QED BY <3>1, <3>3
  <2>6. f \in Bijection(A, B)
    <3> HIDE DEF f, A, B
    <3> QED BY <2>3, <2>4, <2>5 DEF Bijection, Injection, Surjection, IsInjective
  <2>7. IsFiniteSet(A)
    <3>1. A \in SUBSET (1..Len(symbols)) /\ Len(symbols) \in Nat
      BY <1>0, TableFacts, <2>1
    <3> HIDE DEF A
    <3> QED BY <3>1, SizeOfRange, FS_Subset
  <2> HIDE DEF A, B, f
  <2>8. Cardinality(A) = Cardinality(B)
    BY <2>6, <2>7, FS_Bijection DEF ExistsBijection
  <2> QED BY <2>8 DEF A, B
<1>5. zeroTerminated = 1 => symbols'[1] = <<0>>
  <2> SUFFICES ASSUME zeroTerminated = 1 PROVE symbols'[1] = <<0>>
    OBVIOUS
  <2>1. NewCode(1) + 1 = 1
    BY <1>2
  <2> QED BY <1>1, <1>3, <2>1
<1>6. \A l \in 1..MaxLen : lenHisto'[l] = Cardinality({c \in 1..Len(symbols') : Len(symbols'[c]) = l})
  BY <1>0, <1>3, <1>4
<1> QED BY <1>0, <1>3, <1>5, <1>6 DEF FinalCounts, OfLength

\* No operation comes after finalize() but clear().
LEMMA CountsStep == IndexInv /\ HistoInv /\ FinalCounts /\ [Next]_tvars => FinalCounts'
<1> SUFFICES ASSUME IndexInv, HistoInv, FinalCounts, [Next]_tvars PROVE FinalCounts'
  OBVIOUS
<1>1. CASE Finalize
  BY <1>1, IndexedOnce, FinalizeCounts
<1>2. CASE \E s \in Candidates \cup {<<terminator>>} : Add(s)
  <2>1. ~final'
    BY <1>2 DEF Add, Insert, modes
  <2> QED BY <2>1 DEF FinalCounts
<1>3. CASE Clear
  <2>1. ~final'
    BY <1>3 DEF Clear, modes
  <2> QED BY <2>1 DEF FinalCounts
<1>4. CASE UNCHANGED tvars
  BY <1>4 DEF tvars, indexes, modes, FinalCounts, OfLength
<1> QED BY <1>1, <1>2, <1>3, <1>4 DEF Next

-----------------------------------------------------------------------------
(* What a loop over GetNext meets                                          *)

\* GetNext skips no counter that is not zero, and tells what it lands on.
Reads(getNext, v) ==
  \A c \in AllCodes : LET r == getNext[c] IN
    /\ r = [code |-> r.code, count |-> r.count]
    /\ r.code \in c..c + 2 * ReadSize - 1
    /\ \A d \in AllCodes : c <= d /\ d < r.code => v[d] = 0
    /\ r.count = IF r.code < NCodes THEN v[r.code] ELSE 0

\* the recursion of Scan
ScanFrom(f, getNext) ==
  f = [c \in 0..NCodes + 2 * ReadSize |->
        IF c >= NCodes THEN << >>
        ELSE LET r == getNext[c] IN
             (IF r.count = 0 THEN << >> ELSE <<r>>) \o f[r.code + 1]]

\* what GetNext returns when it finds one
Readings == [code : AllCodes, count : Nat \ {0}]

\* A scan that starts at c and meets all the counters from there that are not
\* zero, in order.
MeetsFrom(scan, v, c) ==
  /\ scan \in Seq(Readings)
  /\ \A i, j \in 1..Len(scan) : i < j => scan[i].code < scan[j].code
  /\ \A i \in 1..Len(scan) : c <= scan[i].code /\ scan[i].count = v[scan[i].code]
  /\ \A d \in AllCodes : c <= d /\ v[d] > 0 => \E i \in 1..Len(scan) : scan[i].code = d

\* The recursion of Scan ends, as every step of it goes up.
LEMMA ScanExists ==
  ASSUME NEW getNext, NEW v, Reads(getNext, v)
  PROVE  \E f : ScanFrom(f, getNext) /\ Scan(getNext) = f[0]
<1>0. NCodes \in Nat /\ ReadSize \in Nat /\ NCodes > 0 /\ ReadSize > 1
  BY CountersAssumption
<1> DEFINE last == NCodes + 2 * ReadSize
           Dom(k) == {c \in 0..last : c + k >= NCodes}
           Body(f, c) == IF c >= NCodes THEN << >>
                         ELSE (IF getNext[c].count = 0 THEN << >> ELSE <<getNext[c]>>) \o f[getNext[c].code + 1]
           P == {k \in Nat : \E f : f = [c \in Dom(k) |-> Body(f, c)]}
<1>1. \A c \in 0..last : ~(c >= NCodes) =>
        getNext[c].code \in Int /\ getNext[c].code + 1 \in 0..last /\ getNext[c].code >= c
  <2> TAKE c \in 0..last
  <2> SUFFICES ASSUME ~(c >= NCodes) PROVE getNext[c].code \in Int /\ getNext[c].code + 1 \in 0..last /\ getNext[c].code >= c
    OBVIOUS
  <2>1. c \in AllCodes /\ c \in Nat /\ c < NCodes
    BY <1>0 DEF AllCodes
  <2>2. getNext[c].code \in c..c + 2 * ReadSize - 1
    BY <2>1 DEF Reads
  <2> DEFINE x == getNext[c].code
             w == 2 * ReadSize
  <2>3. w \in Nat /\ x \in c..c + w - 1 /\ last = NCodes + w
    BY <1>0, <2>2
  <2> HIDE DEF x, w, last
  <2>4. x \in Int /\ x + 1 \in 0..last /\ x >= c
    BY <1>0, <2>1, <2>3
  <2> QED BY <2>4 DEF x
<1>2. 0 \in P
  <2> DEFINE f == [c \in Dom(0) |-> << >>]
  <2>1. \A c \in Dom(0) : c >= NCodes
    OBVIOUS
  <2>2. f = [c \in Dom(0) |-> Body(f, c)]
    BY <2>1
  <2> QED BY <2>2
<1>3. ASSUME NEW k \in Nat, k \in P PROVE k + 1 \in P
  <2>1. PICK f : f = [c \in Dom(k) |-> Body(f, c)]
    BY <1>3
  <2> DEFINE h == [c \in Dom(k + 1) |-> IF c \in Dom(k) THEN f[c] ELSE Body(f, c)]
  <2>2. \A c \in Dom(k) : c \in Dom(k + 1) /\ f[c] = Body(f, c)
    <3>1. \A c \in Dom(k) : c \in Dom(k + 1)
      BY <1>0
    <3>2. \A c \in Dom(k) : f[c] = Body(f, c)
      <4> DEFINE g == [c \in Dom(k) |-> Body(f, c)]
      <4>1. \A c \in Dom(k) : g[c] = Body(f, c)
        OBVIOUS
      <4>2. f = g
        BY <2>1
      <4> HIDE DEF g
      <4> QED BY <4>1, <4>2
    <3> QED BY <3>1, <3>2
  <2>3. \A c \in Dom(k + 1) : h[c] = Body(f, c)
    BY <2>2
  <2>4. \A c \in Dom(k + 1) : ~(c >= NCodes) => getNext[c].code + 1 \in Dom(k)
    <3> TAKE c \in Dom(k + 1)
    <3> SUFFICES ASSUME ~(c >= NCodes) PROVE getNext[c].code + 1 \in Dom(k)
      OBVIOUS
    <3> DEFINE x == getNext[c].code
    <3>1. x + 1 \in 0..last /\ x >= c /\ c \in Nat /\ c + (k + 1) >= NCodes
      BY <1>1
    <3> HIDE DEF x, last
    <3>2. (x + 1) + k >= NCodes
      <4>1. x \in Int
        BY <1>1 DEF x
      <4> QED BY <1>0, <3>1, <4>1
    <3> QED BY <3>1, <3>2 DEF x
  <2>5. \A c \in Dom(k) : h[c] = f[c]
    BY <2>2
  <2>6. \A c \in Dom(k + 1) : Body(h, c) = Body(f, c)
    <3> HIDE DEF h, Dom
    <3> QED BY <2>4, <2>5
  <2>7. h = [c \in Dom(k + 1) |-> Body(h, c)]
    <3>1. \A c \in Dom(k + 1) : h[c] = Body(h, c)
      BY <2>3, <2>6
    <3>2. h = [c \in Dom(k + 1) |-> h[c]]
      OBVIOUS
    <3> HIDE DEF h, Dom, Body
    <3> QED BY <3>1, <3>2
  <2> HIDE DEF h, Dom, Body
  <2>8. \E g : g = [c \in Dom(k + 1) |-> Body(g, c)]
    BY <2>7
  <2> QED BY <2>8
<1>4. NCodes \in P
  <2> HIDE DEF P
  <2>1. Nat \subseteq P
    BY <1>2, <1>3, Induction
  <2> QED BY <1>0, <2>1
<1>5. Dom(NCodes) = 0..last
  BY <1>0
<1>6. \E f : f = [c \in 0..last |-> Body(f, c)]
  <2>1. \E f : f = [c \in Dom(NCodes) |-> Body(f, c)]
    BY <1>4
  <2> HIDE DEF Dom, Body
  <2> QED BY <1>5, <2>1
<1>7. \E f : ScanFrom(f, getNext)
  BY <1>6 DEF ScanFrom
<1> DEFINE F == CHOOSE f : ScanFrom(f, getNext)
<1>8. ScanFrom(F, getNext)
  BY <1>7
<1>9. Scan(getNext) = F[0]
  BY DEF Scan, ScanFrom
<1> QED BY <1>8, <1>9

\* A counter that is not zero comes before those behind it.
LEMMA MeetsMore ==
  ASSUME NEW v, NEW c \in Nat, NEW x \in AllCodes, NEW n \in Nat \ {0}, c <= x, n = v[x],
         \A d \in AllCodes : c <= d /\ d < x => v[d] = 0,
         NEW s, NEW j \in Nat, j = x + 1, MeetsFrom(s, v, j)
  PROVE  MeetsFrom(<<[code |-> x, count |-> n]>> \o s, v, c)
<1> DEFINE T == Readings
           r == [code |-> x, count |-> n]
           one == <<r>>
           m == Len(s)
           q == one \o s
<1>0. AllCodes \subseteq Nat
  BY CountersAssumption DEF AllCodes
<1>1. /\ s \in Seq(T)
      /\ \A i, k \in 1..m : i < k => s[i].code < s[k].code
      /\ \A i \in 1..m : j <= s[i].code /\ s[i].count = v[s[i].code]
      /\ \A d \in AllCodes : j <= d /\ v[d] > 0 => \E i \in 1..m : s[i].code = d
  BY DEF MeetsFrom
<1>2. r \in T /\ r.code = x /\ r.count = n
  BY DEF Readings
<1> HIDE DEF r
<1>3. one \in Seq(T) /\ Len(one) = 1 /\ one[1] = r
  <2> HIDE DEF T
  <2> QED BY <1>2
<1>4. q \in Seq(T) /\ Len(q) = 1 + m /\ q[1] = r /\ \A i \in 1..m : q[i + 1] = s[i]
  <2> HIDE DEF T, one
  <2> QED BY <1>1, <1>3, OneBefore
<1>5. m \in Nat
  BY <1>1
<1>6. \A i \in 1..m : s[i].code \in Nat
  <2>1. \A t \in T : t.code \in Nat
    BY <1>0 DEF Readings
  <2>2. \A i \in 1..m : s[i] \in T
    BY <1>1
  <2> HIDE DEF T
  <2> QED BY <2>1, <2>2
<1> HIDE DEF q, m, T, one
<1>7. \A i \in 1..1 + m : i = 1 \/ (i # 1 /\ i - 1 \in 1..m /\ (i - 1) + 1 = i)
  BY <1>5
<1>8. ASSUME NEW i \in 1..1 + m, i # 1
      PROVE  \E k \in 1..m : q[i] = s[k] /\ i = k + 1
  <2> DEFINE k == i - 1
  <2>1. k \in 1..m /\ i = k + 1
    BY <1>7, <1>8
  <2> HIDE DEF k
  <2> QED BY <1>4, <2>1
<1>9. ASSUME NEW i \in 1..1 + m, NEW k \in 1..1 + m, i < k
      PROVE  q[i].code < q[k].code
  <2>0. k # 1
    BY <1>5, <1>9
  <2>1. PICK b \in 1..m : q[k] = s[b] /\ k = b + 1
    BY <1>8, <2>0
  <2>2. CASE i = 1
    <3>1. j <= s[b].code /\ s[b].code \in Nat /\ q[i].code = x
      BY <1>1, <1>2, <1>4, <1>6, <2>2
    <3>2. x < s[b].code
      BY <1>0, <3>1
    <3> QED BY <2>1, <3>1, <3>2
  <2>3. CASE i # 1
    <3>1. PICK a \in 1..m : q[i] = s[a] /\ i = a + 1
      BY <1>8, <2>3
    <3>2. a < b
      BY <1>5, <1>9, <2>1, <3>1
    <3> QED BY <1>1, <2>1, <3>1, <3>2
  <2> QED BY <2>2, <2>3
<1>10. ASSUME NEW i \in 1..1 + m PROVE c <= q[i].code /\ q[i].count = v[q[i].code]
  <2>1. CASE i = 1
    BY <1>2, <1>4, <2>1
  <2>2. CASE i # 1
    <3>1. PICK a \in 1..m : q[i] = s[a]
      BY <1>8, <2>2
    <3>2. j <= s[a].code /\ s[a].code \in Nat /\ s[a].count = v[s[a].code]
      BY <1>1, <1>6
    <3>3. c <= s[a].code
      BY <1>0, <3>2
    <3> QED BY <3>1, <3>2, <3>3
  <2> QED BY <2>1, <2>2
<1>11. ASSUME NEW d \in AllCodes, c <= d, v[d] > 0 PROVE \E i \in 1..1 + m : q[i].code = d
  <2>1. CASE d < x
    BY <1>11, <2>1
  <2>2. CASE d = x
    <3>1. 1 \in 1..1 + m /\ q[1].code = d
      BY <1>2, <1>4, <1>5, <2>2
    <3> QED BY <3>1
  <2>3. CASE d > x
    <3>1. j <= d
      BY <1>0, <2>3
    <3>2. PICK a \in 1..m : s[a].code = d
      BY <1>1, <1>11, <3>1
    <3>3. a + 1 \in 1..1 + m /\ q[a + 1] = s[a]
      BY <1>4, <1>5
    <3> QED BY <3>2, <3>3
  <2> QED BY <1>0, <2>1, <2>2, <2>3
<1>12. Len(q) = 1 + m
  BY <1>4
<1>13. MeetsFrom(q, v, c)
  BY <1>4, <1>9, <1>10, <1>11, <1>12 DEF MeetsFrom, T
<1> QED BY <1>13 DEF q, one, r

\* The loop meets every counter that is not zero, in order.
LEMMA ScanMeets ==
  ASSUME NEW getNext, NEW v \in [AllCodes -> Nat], Reads(getNext, v)
  PROVE  MeetsFrom(Scan(getNext), v, 0)
<1>0. NCodes \in Nat /\ ReadSize \in Nat /\ NCodes > 0 /\ ReadSize > 1
  BY CountersAssumption
<1> DEFINE w == 2 * ReadSize
           last == NCodes + w
<1>1. PICK f : ScanFrom(f, getNext) /\ Scan(getNext) = f[0]
  BY ScanExists
<1>2. w \in Nat /\ w > 0
  BY <1>0
<1>3. \A c \in 0..last :
        /\ c >= NCodes => f[c] = << >>
        /\ ~(c >= NCodes) =>
             f[c] = (IF getNext[c].count = 0 THEN << >> ELSE <<getNext[c]>>) \o f[getNext[c].code + 1]
  <2> DEFINE h == [c \in 0..last |->
        IF c >= NCodes THEN << >>
        ELSE LET r == getNext[c] IN
             (IF r.count = 0 THEN << >> ELSE <<r>>) \o f[r.code + 1]]
  <2>1. f = h
    BY <1>1 DEF ScanFrom
  <2>2. \A c \in 0..last :
        /\ c >= NCodes => h[c] = << >>
        /\ ~(c >= NCodes) =>
             h[c] = (IF getNext[c].count = 0 THEN << >> ELSE <<getNext[c]>>) \o f[getNext[c].code + 1]
    OBVIOUS
  <2> HIDE DEF h
  <2> QED BY <2>1, <2>2
<1> DEFINE P == {k \in Nat : \A c \in 0..last : c + k >= NCodes => MeetsFrom(f[c], v, c)}
<1>4. \A c \in 0..last : c >= NCodes => MeetsFrom(f[c], v, c)
  <2> SUFFICES ASSUME NEW c \in 0..last, c >= NCodes PROVE MeetsFrom(f[c], v, c)
    OBVIOUS
  <2>1. f[c] = << >>
    BY <1>3
  <2>2. \A d \in AllCodes : ~(c <= d)
    BY <1>0, <1>2 DEF AllCodes
  <2>3. f[c] \in Seq(Readings) /\ Len(f[c]) = 0
    BY <2>1, EmptySeq
  <2>4. \A i \in 1..0 : FALSE
    OBVIOUS
  <2> QED BY <2>2, <2>3, <2>4 DEF MeetsFrom
<1>5. 0 \in P
  <2>1. \A c \in 0..last : c + 0 >= NCodes => c >= NCodes
    BY <1>0, <1>2
  <2> QED BY <1>4, <2>1
<1>6. ASSUME NEW k \in Nat, k \in P PROVE k + 1 \in P
  <2> SUFFICES ASSUME NEW c \in 0..last, c + (k + 1) >= NCodes PROVE MeetsFrom(f[c], v, c)
    OBVIOUS
  <2>1. CASE c >= NCodes
    BY <1>4, <2>1
  <2>2. CASE ~(c >= NCodes)
    <3> DEFINE x == getNext[c].code
               n == getNext[c].count
               j == x + 1
    <3>1. c \in AllCodes /\ c \in Nat
      BY <1>0, <1>2, <2>2 DEF AllCodes
    <3>2. /\ getNext[c] = [code |-> x, count |-> n]
          /\ x \in c..c + w - 1
          /\ \A d \in AllCodes : c <= d /\ d < x => v[d] = 0
          /\ n = IF x < NCodes THEN v[x] ELSE 0
      BY <3>1 DEF Reads
    <3>3. f[c] = (IF n = 0 THEN << >> ELSE <<getNext[c]>>) \o f[j]
      BY <1>3, <2>2
    <3> HIDE DEF x, n, w
    <3>4. x \in Nat /\ c <= x /\ j \in 0..last /\ j + k >= NCodes /\ j \in Nat
      BY <1>0, <1>2, <2>2, <3>1, <3>2
    <3> HIDE DEF j, last
    <3>5. MeetsFrom(f[j], v, j)
      BY <1>6, <3>4
    <3>6. CASE n = 0
      <4>1. f[j] \in Seq(Readings)
        BY <3>5 DEF MeetsFrom
      <4>2. f[c] = f[j]
        BY <3>3, <3>6, <4>1, ConcatEmptySeq
      <4>3. c <= j
        BY <3>1, <3>4 DEF j
      <4>4. \A i \in 1..Len(f[j]) : c <= f[j][i].code
        <5> TAKE i \in 1..Len(f[j])
        <5>1. f[j][i] \in Readings /\ j <= f[j][i].code
          BY <3>5, <4>1 DEF MeetsFrom
        <5>2. f[j][i].code \in Nat
          BY <1>0, <5>1 DEF AllCodes, Readings
        <5> QED BY <3>1, <3>4, <4>3, <5>1, <5>2
      <4>5. ASSUME NEW d \in AllCodes, c <= d, v[d] > 0 PROVE j <= d
        <5>1. d \in Nat /\ ~(d < x)
          BY <1>0, <3>2, <4>5 DEF AllCodes
        <5>2. d # x
          BY <1>0, <3>2, <3>6, <4>5 DEF AllCodes
        <5> QED BY <3>4, <5>1, <5>2 DEF j
      <4> QED BY <3>5, <4>2, <4>4, <4>5 DEF MeetsFrom
    <3>7. CASE n # 0
      <4>1. x < NCodes /\ n = v[x]
        BY <3>2, <3>7
      <4>2. x \in AllCodes
        BY <1>0, <3>4, <4>1 DEF AllCodes
      <4>3. n \in Nat \ {0}
        BY <3>7, <4>1, <4>2
      <4>4. f[c] = <<[code |-> x, count |-> n]>> \o f[j]
        BY <3>2, <3>3, <3>7
      <4>5. MeetsFrom(<<[code |-> x, count |-> n]>> \o f[j], v, c)
        <5>1. j = x + 1
          BY DEF j
        <5> QED BY <3>1, <3>2, <3>4, <3>5, <4>1, <4>2, <4>3, <5>1, MeetsMore
      <4> QED BY <4>4, <4>5
    <3> QED BY <3>6, <3>7
  <2> QED BY <2>1, <2>2
<1>7. Nat \subseteq P
  <2> HIDE DEF P
  <2> QED BY <1>5, <1>6, Induction
<1>8. MeetsFrom(f[0], v, 0)
  <2>1. NCodes \in P
    BY <1>0, <1>7
  <2>2. 0 \in 0..last /\ 0 + NCodes >= NCodes
    BY <1>0, <1>2
  <2> HIDE DEF last
  <2> QED BY <2>1, <2>2
<1> QED BY <1>1, <1>8

\* Then it meets what it should.
LEMMA MeetsAsExpected ==
  ASSUME NEW v \in [AllCodes -> Nat], NEW scan, MeetsFrom(scan, v, 0)
  PROVE  Expect(scan, v)
<1>0. AllCodes \subseteq Nat
  BY CountersAssumption DEF AllCodes
<1> DEFINE A == {<<scan[i].code, scan[i].count>> : i \in 1..Len(scan)}
           B == {<<c, v[c]>> : c \in {d \in AllCodes : v[d] > 0}}
<1>1. /\ scan \in Seq(Readings)
      /\ \A i, j \in 1..Len(scan) : i < j => scan[i].code < scan[j].code
      /\ \A i \in 1..Len(scan) : scan[i].count = v[scan[i].code]
      /\ \A d \in AllCodes : 0 <= d /\ v[d] > 0 => \E i \in 1..Len(scan) : scan[i].code = d
  BY DEF MeetsFrom
<1>2. \A i \in 1..Len(scan) : scan[i].code \in AllCodes /\ scan[i].count \in Nat \ {0}
  <2> TAKE i \in 1..Len(scan)
  <2>1. scan[i] \in Readings
    BY <1>1
  <2> QED BY <2>1 DEF Readings
<1>3. ASSUME NEW i \in 1..Len(scan) PROVE <<scan[i].code, scan[i].count>> \in B
  <2> DEFINE c == scan[i].code
  <2>1. c \in AllCodes /\ scan[i].count = v[c] /\ v[c] > 0
    BY <1>1, <1>2
  <2> HIDE DEF c
  <2>2. <<c, v[c]>> \in B
    BY <2>1
  <2> QED BY <2>1, <2>2 DEF c
<1>4. ASSUME NEW c \in AllCodes, v[c] > 0 PROVE <<c, v[c]>> \in A
  <2>1. PICK i \in 1..Len(scan) : scan[i].code = c
    BY <1>0, <1>1, <1>4
  <2>2. scan[i].count = v[c]
    BY <1>1, <2>1
  <2> QED BY <2>1, <2>2
<1>5. A \subseteq B
  <2> HIDE DEF B
  <2> QED BY <1>3
<1>6. B \subseteq A
  <2> HIDE DEF A
  <2> QED BY <1>4
<1>7. A = B
  <2> HIDE DEF A, B
  <2> QED BY <1>5, <1>6
<1> QED BY <1>1, <1>7 DEF Expect

-----------------------------------------------------------------------------
(* What GetNext reads                                                      *)

\* Skip stops at the first counter in use, or at the last one it looks at.
LEMMA SkipFacts ==
  ASSUME NEW c \in Nat, NEW n \in Nat \ {0}, NEW used
  PROVE  /\ Skip(c, n, used) \in c..c + n - 1
         /\ \A d \in c..c + n - 1 : d < Skip(c, n, used) => d \notin used
         /\ Skip(c, n, used) \notin used => \A d \in c..c + n - 1 : d \notin used
<1> DEFINE S == c..c + n - 1
           metSoFar == used \cap S
<1>1. CASE metSoFar = {}
  <2>1. Skip(c, n, used) = c + n - 1
    BY <1>1 DEF Skip
  <2>2. \A d \in S : d \notin used
    BY <1>1
  <2>3. c + n - 1 \in S
    OBVIOUS
  <2> HIDE DEF S
  <2> QED BY <2>1, <2>2, <2>3 DEF S
<1>2. CASE metSoFar # {}
  <2> DEFINE least == CHOOSE i \in metSoFar : \A j \in metSoFar : i <= j
  <2>1. Skip(c, n, used) = least
    BY <1>2 DEF Skip
  <2>2. metSoFar \subseteq Nat
    OBVIOUS
  <2>3. \E i \in metSoFar : \A j \in metSoFar : i <= j
    <3> HIDE DEF metSoFar
    <3> QED BY <1>2, <2>2, LeastNatural
  <2>4. least \in metSoFar /\ \A j \in metSoFar : least <= j
    <3> HIDE DEF metSoFar
    <3> QED BY <2>3
  <2>5. least \in S /\ least \in used /\ least \in Nat
    BY <2>2, <2>4
  <2>6. ASSUME NEW d \in S, d < least PROVE d \notin used
    <3> SUFFICES ASSUME d \in used PROVE FALSE
      OBVIOUS
    <3>1. d \in metSoFar /\ d \in Nat
      OBVIOUS
    <3>2. least <= d
      BY <2>4, <3>1
    <3> HIDE DEF least
    <3> QED BY <2>5, <2>6, <3>1, <3>2
  <2> HIDE DEF least, metSoFar, S
  <2> QED BY <2>1, <2>5, <2>6 DEF S
<1> QED BY <1>1, <1>2

\* used are the counters among c..c+n-1 whose high column is not zero
InUse(used, high, c, n) == \A d \in c..c + n - 1 : d \in used <=> high[d] # 0

ZeroTogether(high, v) == \A d \in AllCodes : high[d] = 0 <=> v[d] = 0

\* x is within reach of c, and no counter before it was left out
Lands(x, c, v) ==
  /\ x \in c..c + 2 * ReadSize - 1
  /\ \A d \in AllCodes : c <= d /\ d < x => v[d] = 0
  /\ x < NCodes => x \in AllCodes

\* GetNext(c), where Skip looks at n counters.
LEMMA NextReads ==
  ASSUME NEW c \in AllCodes, NEW n \in 1..2 * ReadSize, NEW high, NEW used, NEW v \in [AllCodes -> Nat],
         InUse(used, high, c, n), ZeroTogether(high, v)
  PROVE  Lands(Skip(c, n, used), c, v)
<1> DEFINE x == Skip(c, n, used)
<1> USE DEF InUse, ZeroTogether
<1>0. NCodes \in Nat /\ ReadSize \in Nat /\ ReadSize > 1 /\ AllCodes = 0..NCodes - 1
  BY CountersAssumption DEF AllCodes
<1> DEFINE w == 2 * ReadSize
<1>1. w \in Nat /\ n \in 1..w
  BY <1>0
<1> HIDE DEF w
<1>2. c \in Nat /\ n \in Nat \ {0} /\ n <= w
  BY <1>0, <1>1
<1>3. /\ x \in c..c + n - 1
      /\ \A d \in c..c + n - 1 : d < x => d \notin used
  BY <1>2, SkipFacts
<1>4. x \in c..c + w - 1 /\ x \in Nat
  BY <1>1, <1>2, <1>3
<1>5. ASSUME NEW d \in AllCodes, c <= d, d < x PROVE v[d] = 0
  <2>1. d \in c..c + n - 1
    BY <1>0, <1>2, <1>3, <1>5
  <2> QED BY <1>3, <1>5, <2>1
<1>6. x < NCodes => x \in AllCodes
  BY <1>0, <1>4
<1> QED BY <1>4, <1>5, <1>6 DEF w, Lands

\* What the columns say of a counter
Column1(v) ==
  \A d \in AllCodes : /\ count1High[d] = 0 <=> v[d] = 0
                      /\ v[d] # 0 => Value(count1High[d], count1Low[d]) = v[d]

Column2(v) ==
  \A d \in AllCodes : /\ High2At(d) = 0 <=> v[d] = 0
                      /\ v[d] # 0 => Value(High2At(d), count2Low[d]) = v[d]

\* count1GetNext() skips by words and may read over the end of its column.
LEMMA Column1Reads ==
  ASSUME NEW v \in [AllCodes -> Nat], Column1(v)
  PROVE  Reads([c \in AllCodes |-> Count1GetNext(c)], v)
<1>0. NCodes \in Nat /\ ReadSize \in Nat /\ ReadSize > 1 /\ AllCodes = 0..NCodes - 1
  BY CountersAssumption DEF AllCodes
<1> SUFFICES ASSUME NEW c \in AllCodes
             PROVE  /\ Count1GetNext(c) = [code |-> Count1GetNext(c).code, count |-> Count1GetNext(c).count]
                    /\ Count1GetNext(c).code \in c..c + 2 * ReadSize - 1
                    /\ \A d \in AllCodes : c <= d /\ d < Count1GetNext(c).code => v[d] = 0
                    /\ Count1GetNext(c).count = IF Count1GetNext(c).code < NCodes THEN v[Count1GetNext(c).code] ELSE 0
  BY DEF Reads
<1> DEFINE used == {i \in c..c + ReadSize - 1 : High1At(i) # 0}
           x == Skip(c, ReadSize, used)
           n == IF x >= NCodes \/ High1At(x) = 0 THEN 0 ELSE Value(High1At(x), count1Low[x])
           high == [d \in 0..NCodes + 2 * ReadSize |-> High1At(d)]
<1>1. Count1GetNext(c) = [code |-> x, count |-> n]
  BY DEF Count1GetNext
<1>2. /\ x \in c..c + 2 * ReadSize - 1
      /\ \A d \in AllCodes : c <= d /\ d < x => v[d] = 0
      /\ x < NCodes => x \in AllCodes
  <2>1. ReadSize \in 1..2 * ReadSize
    BY <1>0
  <2>2. InUse(used, high, c, ReadSize)
    BY <1>0 DEF InUse
  <2>3. ZeroTogether(high, v)
    <3>1. \A d \in AllCodes : d \in 0..NCodes + 2 * ReadSize /\ High1At(d) = count1High[d]
      BY <1>0 DEF High1At
    <3> QED BY <3>1 DEF Column1, ZeroTogether
  <2> HIDE DEF used, high
  <2> QED BY <2>1, <2>2, <2>3, NextReads DEF Lands
<1>3. n = IF x < NCodes THEN v[x] ELSE 0
  <2>1. x \in Int
    BY <1>0, <1>2
  <2> HIDE DEF x
  <2>2. CASE x < NCodes
    <3>1. x \in AllCodes /\ ~(x >= NCodes)
      BY <1>0, <1>2, <2>1, <2>2
    <3>2. High1At(x) = count1High[x]
      BY <2>2 DEF High1At
    <3> QED BY <2>2, <3>1, <3>2 DEF Column1
  <2>3. CASE ~(x < NCodes)
    <3>1. x >= NCodes
      BY <1>0, <2>1, <2>3
    <3> QED BY <2>3, <3>1
  <2> QED BY <2>2, <2>3
<1> HIDE DEF x, n
<1>4. Count1GetNext(c).code = x /\ Count1GetNext(c).count = n
  BY <1>1
<1> QED BY <1>1, <1>2, <1>3, <1>4

\* count2GetNext() skips by words of half bytes.
LEMMA Column2Reads ==
  ASSUME NEW v \in [AllCodes -> Nat], Column2(v)
  PROVE  Reads([c \in AllCodes |-> Count2GetNext(c)], v)
<1>0. NCodes \in Nat /\ ReadSize \in Nat /\ ReadSize > 1 /\ AllCodes = 0..NCodes - 1
  BY CountersAssumption DEF AllCodes
<1> SUFFICES ASSUME NEW c \in AllCodes
             PROVE  /\ Count2GetNext(c) = [code |-> Count2GetNext(c).code, count |-> Count2GetNext(c).count]
                    /\ Count2GetNext(c).code \in c..c + 2 * ReadSize - 1
                    /\ \A d \in AllCodes : c <= d /\ d < Count2GetNext(c).code => v[d] = 0
                    /\ Count2GetNext(c).count = IF Count2GetNext(c).code < NCodes THEN v[Count2GetNext(c).code] ELSE 0
  BY DEF Reads
<1> DEFINE used == {i \in c..c + 2 * ReadSize - 1 : High2At(i) # 0}
           size == 2 * ReadSize - (c % 2)
           x == Skip(c, size, used)
           n == IF x >= NCodes \/ High2At(x) = 0 THEN 0 ELSE Value(High2At(x), count2Low[x])
           high == [d \in 0..NCodes + 2 * ReadSize |-> High2At(d)]
<1>1. Count2GetNext(c) = [code |-> x, count |-> n]
  BY DEF Count2GetNext
<1>2. /\ x \in c..c + 2 * ReadSize - 1
      /\ \A d \in AllCodes : c <= d /\ d < x => v[d] = 0
      /\ x < NCodes => x \in AllCodes
  <2>1. size \in 1..2 * ReadSize
    <3>1. c \in Nat /\ c % 2 \in 0..1
      BY <1>0
    <3> QED BY <1>0, <3>1
  <2>2. InUse(used, high, c, size)
    <3>1. c \in Nat /\ c <= NCodes
      BY <1>0
    <3> HIDE DEF size
    <3> QED BY <1>0, <2>1, <3>1 DEF InUse
  <2>3. ZeroTogether(high, v)
    <3>1. \A d \in AllCodes : d \in 0..NCodes + 2 * ReadSize
      BY <1>0
    <3> QED BY <3>1 DEF Column2, ZeroTogether
  <2> HIDE DEF used, high, size
  <2> QED BY <2>1, <2>2, <2>3, NextReads DEF Lands
<1>3. n = IF x < NCodes THEN v[x] ELSE 0
  <2>1. x \in Int
    <3> HIDE DEF x
    <3> QED BY <1>0, <1>2
  <2> HIDE DEF x
  <2>2. CASE x < NCodes
    <3>1. x \in AllCodes /\ ~(x >= NCodes)
      BY <1>0, <1>2, <2>1, <2>2
    <3> QED BY <2>2, <3>1 DEF Column2
  <2>3. CASE ~(x < NCodes)
    <3>1. x >= NCodes
      BY <1>0, <2>1, <2>3
    <3> QED BY <2>3, <3>1
  <2> QED BY <2>2, <2>3
<1> HIDE DEF x, n
<1>4. Count2GetNext(c).code = x /\ Count2GetNext(c).count = n
  BY <1>1
<1> QED BY <1>1, <1>2, <1>3, <1>4

-----------------------------------------------------------------------------
(* A counter in two columns                                                *)

\* the high column of a counter that counted to n: it is incremented early
HighOf(n) == IF n % LowSize = 0 THEN n \div LowSize ELSE n \div LowSize + 1

\* What the constants are, in the form that the provers take.
LEMMA ConstantFacts ==
  /\ LowSize \in Nat /\ LowSize > 1 /\ High1Size \in Nat /\ High1Size > 1
  /\ High2Size \in Nat /\ High2Size > 1 /\ MaxSample \in Nat
  /\ NCodes \in Nat /\ NCodes > 0 /\ AllCodes = 0..NCodes - 1
BY CountersAssumption DEF AllCodes

\* The two columns give the counter back.
LEMMA ColumnsAreCount ==
  ASSUME NEW n \in Nat
  PROVE  /\ HighOf(n) \in Nat /\ n % LowSize \in Nat
         /\ HighOf(n) = 0 <=> n = 0
         /\ n # 0 => Value(HighOf(n), n % LowSize) = n
<1> DEFINE q == n \div LowSize
           r == n % LowSize
<1>0. LowSize \in Nat /\ LowSize > 1
  BY ConstantFacts
<1>1. q \in Nat /\ r \in 0..LowSize - 1 /\ n = (q * LowSize) + r
  <2>1. q \in Nat /\ r \in 0..LowSize - 1
    BY <1>0
  <2>2. n = (LowSize * q) + r
    BY <1>0
  <2>3. LowSize * q = q * LowSize
    <3> HIDE DEF q
    <3> QED BY <1>0, <2>1
  <2> QED BY <2>1, <2>2, <2>3
<1>2. HighOf(n) = IF r = 0 THEN q ELSE q + 1
  BY DEF HighOf
<1> HIDE DEF q, r
<1>3. 0 * LowSize = 0 /\ (q > 0 => q * LowSize > 0)
  BY <1>0, <1>1
<1>4. HighOf(n) \in Nat
  BY <1>1, <1>2
<1>5. HighOf(n) = 0 <=> n = 0
  BY <1>0, <1>1, <1>2, <1>3
<1>6. Value(HighOf(n), r) = n
  BY <1>0, <1>1, <1>2 DEF Value
<1>7. r \in Nat
  BY <1>0, <1>1
<1> QED BY <1>4, <1>5, <1>6, <1>7 DEF r

\* One more: the low column wraps around, and the high one has its carry
\* before it does.
LEMMA OneMore ==
  ASSUME NEW n \in Nat
  PROVE  /\ (n + 1) % LowSize = ((n % LowSize) + 1) % LowSize
         /\ HighOf(n + 1) = HighOf(n) + Carry(n % LowSize)
<1> DEFINE q == n \div LowSize
           r == n % LowSize
<1>0. LowSize \in Nat /\ LowSize > 1
  BY ConstantFacts
<1>1. q \in Nat /\ r \in 0..LowSize - 1 /\ n = (q * LowSize) + r
  <2>1. q \in Nat /\ r \in 0..LowSize - 1
    BY <1>0
  <2>2. n = (LowSize * q) + r
    BY <1>0
  <2>3. LowSize * q = q * LowSize
    <3> HIDE DEF q
    <3> QED BY <1>0, <2>1
  <2> QED BY <2>1, <2>2, <2>3
<1>2. HighOf(n) = IF r = 0 THEN q ELSE q + 1
  BY DEF HighOf
<1>3. \A a \in Nat, b \in 0..LowSize - 1 :
        ((a * LowSize) + b) % LowSize = b /\ ((a * LowSize) + b) \div LowSize = a
  BY <1>0
<1> HIDE DEF q, r
<1>4. CASE r # LowSize - 1
  <2> DEFINE b == r + 1
  <2>1. b \in 0..LowSize - 1 /\ n + 1 = (q * LowSize) + b /\ b # 0
    BY <1>0, <1>1, <1>4
  <2> HIDE DEF b
  <2>2. (n + 1) % LowSize = b /\ (n + 1) \div LowSize = q
    BY <1>1, <1>3, <2>1
  <2>3. b % LowSize = b
    BY <1>0, <2>1
  <2>4. HighOf(n + 1) = q + 1
    BY <2>1, <2>2 DEF HighOf
  <2>5. HighOf(n) + Carry(r) = q + 1
    BY <1>1, <1>2 DEF Carry
  <2> QED BY <2>2, <2>3, <2>4, <2>5 DEF b, r
<1>5. CASE r = LowSize - 1
  <2> DEFINE a == q + 1
             z == 0
  <2>1. a \in Nat /\ a * LowSize = (q * LowSize) + LowSize
    BY <1>0, <1>1
  <2>2. n + 1 = (a * LowSize) + z /\ z \in 0..LowSize - 1
    <3>1. (q * LowSize) \in Int
      BY <1>0, <1>1
    <3> QED BY <1>0, <1>1, <1>5, <2>1, <3>1
  <2> HIDE DEF a, z
  <2>3. (n + 1) % LowSize = z /\ (n + 1) \div LowSize = a
    BY <1>3, <2>1, <2>2
  <2>4. (r + 1) % LowSize = 0
    BY <1>0, <1>5
  <2>5. HighOf(n + 1) = a
    BY <2>3 DEF HighOf, z
  <2>6. HighOf(n) + Carry(r) = q + 1
    BY <1>0, <1>1, <1>2, <1>5 DEF Carry
  <2> QED BY <2>3, <2>4, <2>5, <2>6 DEF a, r, z
<1> QED BY <1>4, <1>5

\* The high column is not full before the counter is.
LEMMA HighFits ==
  ASSUME NEW n \in Nat, NEW k \in Nat, n <= k * LowSize
  PROVE  HighOf(n) <= k
<1> DEFINE q == n \div LowSize
           r == n % LowSize
<1>0. LowSize \in Nat /\ LowSize > 1
  BY ConstantFacts
<1>1. q \in Nat /\ r \in 0..LowSize - 1 /\ n = (q * LowSize) + r
  <2>1. q \in Nat /\ r \in 0..LowSize - 1
    BY <1>0
  <2>2. n = (LowSize * q) + r
    BY <1>0
  <2>3. LowSize * q = q * LowSize
    <3> HIDE DEF q
    <3> QED BY <1>0, <2>1
  <2> QED BY <2>1, <2>2, <2>3
<1>2. HighOf(n) = IF r = 0 THEN q ELSE q + 1
  BY DEF HighOf
<1> HIDE DEF q, r
<1>3. CASE r = 0
  <2>1. q * LowSize <= k * LowSize
    BY <1>0, <1>1, <1>3
  <2>2. q <= k
    BY <1>0, <1>1, <2>1
  <2> QED BY <1>2, <1>3, <2>2
<1>4. CASE r # 0
  <2>1. q * LowSize < k * LowSize
    BY <1>0, <1>1, <1>4
  <2>2. q < k
    BY <1>0, <1>1, <2>1
  <2> QED BY <1>1, <1>2, <1>4, <2>2
<1> QED BY <1>3, <1>4

\* A total that is below the limit leaves room for one more of each code.
LEMMA RoomForOne ==
  ASSUME NEW occurred \in [AllCodes -> 0..MaxSample], Total(occurred) < MaxSample, NEW c \in AllCodes
  PROVE  occurred[c] < MaxSample
<1>0. NCodes \in Nat /\ MaxSample \in Nat /\ AllCodes = 0..NCodes - 1
  BY ConstantFacts
<1> SUFFICES ASSUME ~(occurred[c] < MaxSample) PROVE FALSE
  OBVIOUS
<1>1. occurred[c] = MaxSample
  <2>1. occurred[c] \in 0..MaxSample
    OBVIOUS
  <2> QED BY <1>0, <2>1
<1> DEFINE S == {p \in AllCodes \X (1..MaxSample) : p[2] <= occurred[p[1]]}
           R == 1..MaxSample
           f == [n \in R |-> <<c, n>>]
<1>2. IsFiniteSet(AllCodes) /\ IsFiniteSet(R) /\ Cardinality(R) = MaxSample
  <2>1. IsFiniteSet(0..NCodes - 1)
    <3>1. 0 \in Int /\ NCodes - 1 \in Int
      BY <1>0
    <3> QED BY <3>1, FS_Interval
  <2> QED BY <1>0, <2>1, SizeOfRange
<1>3. IsFiniteSet(S)
  <2>1. IsFiniteSet(AllCodes \X R)
    <3> HIDE DEF R
    <3> QED BY <1>2, FS_Product
  <2>2. S \in SUBSET (AllCodes \X R)
    OBVIOUS
  <2> HIDE DEF S, R
  <2> QED BY <2>1, <2>2, FS_Subset
<1>4. f \in Injection(R, S)
  <2>1. \A n \in R : <<c, n>> \in S
    <3> TAKE n \in R
    <3>1. n <= MaxSample
      BY <1>0
    <3>2. <<c, n>> \in AllCodes \X R
      OBVIOUS
    <3> QED BY <1>1, <3>1, <3>2
  <2>2. \A n, k \in R : <<c, n>> = <<c, k>> => n = k
    OBVIOUS
  <2> HIDE DEF S, R
  <2> QED BY <2>1, <2>2 DEF Injection, IsInjective
<1>5. Cardinality(R) <= Cardinality(S)
  <2> HIDE DEF S, R, f
  <2> QED BY <1>2, <1>3, <1>4, FS_Injection
<1>6. Cardinality(S) < MaxSample
  BY DEF Total
<1>7. Cardinality(S) \in Nat
  BY <1>3, FS_CardinalityType
<1> HIDE DEF S, R
<1> QED BY <1>0, <1>2, <1>5, <1>6, <1>7

-----------------------------------------------------------------------------
(* The invariant                                                           *)

\* a counter of count1 and its two columns
Split1(high, low, n) ==
  /\ low = n % LowSize
  /\ n <= Full1 => high = HighOf(n)

\* Two counters of count2 and the byte of their high columns.
Byte2(byte, even, odd) == byte = HighOf(even) + High2Size * HighOf(odd)

\* the bytes of a row of count2
Pairs2 == 0..(NCodes \div 2) - 1

\* the columns, and how much is counted
CountTypes ==
  /\ marked \in 0..NCodes
  /\ occurred1 \in [AllCodes -> 0..MaxSample] /\ occurred2 \in [AllCodes -> 0..MaxSample]
  /\ count1High \in [AllCodes -> Nat] /\ count1Low \in [AllCodes -> Nat]
  /\ count2High \in [Pairs2 -> Nat] /\ count2Low \in [AllCodes -> Nat]

\* While no counter of count2 is full their bytes hold them both.
CountInv ==
  /\ CountTypes
  /\ \A c \in AllCodes : c # marked => Split1(count1High[c], count1Low[c], occurred1[c])
  /\ marked # NCodes => count1High[marked] = MaxHigh /\ count1Low[marked] = LowSize - 1
  /\ \A c \in AllCodes : count2Low[c] = occurred2[c] % LowSize
  /\ Fits(occurred2, Full2) =>
       \A i \in Pairs2 : Byte2(count2High[i], occurred2[2 * i], occurred2[2 * i + 1])

\* Nothing is counted at first.
LEMMA InitCounts == CInit => CountInv
<1> SUFFICES ASSUME CInit PROVE CountInv
  OBVIOUS
<1>0. /\ LowSize \in Nat /\ LowSize > 1 /\ MaxSample \in Nat /\ NCodes \in Nat /\ NCodes > 0
      /\ AllCodes = 0..NCodes - 1 /\ High2Size \in Nat
  BY ConstantFacts
<1>1. HighOf(0) = 0 /\ 0 % LowSize = 0
  <2>1. 0 % LowSize = 0
    BY <1>0
  <2>2. HighOf(0) = 0
    BY <1>0, ColumnsAreCount
  <2> QED BY <2>1, <2>2
<1>2. \A c \in AllCodes : Zero[c] = 0
  BY DEF Zero
<1>3. /\ count1High = Zero /\ count1Low = Zero /\ count2Low = Zero /\ occurred1 = Zero /\ occurred2 = Zero
      /\ count2High = [i \in Pairs2 |-> 0] /\ marked = NCodes
  BY DEF CInit, Pairs2
<1>4. Zero \in [AllCodes -> 0..MaxSample] /\ Zero \in [AllCodes -> Nat]
  BY <1>0 DEF Zero
<1>5. CountTypes
  BY <1>0, <1>3, <1>4 DEF CountTypes
<1>6. \A i \in Pairs2 : 2 * i \in AllCodes /\ 2 * i + 1 \in AllCodes
  BY <1>0, CountersAssumption DEF Pairs2
<1>7. \A i \in Pairs2 : Byte2(count2High[i], occurred2[2 * i], occurred2[2 * i + 1])
  <2> TAKE i \in Pairs2
  <2>1. occurred2[2 * i] = 0 /\ occurred2[2 * i + 1] = 0 /\ count2High[i] = 0
    BY <1>2, <1>3, <1>6
  <2> QED BY <1>0, <1>1, <2>1 DEF Byte2
<1>8. \A c \in AllCodes : Split1(count1High[c], count1Low[c], occurred1[c])
  BY <1>1, <1>2, <1>3 DEF Split1
<1>9. \A c \in AllCodes : count2Low[c] = occurred2[c] % LowSize
  BY <1>1, <1>2, <1>3
<1> QED BY <1>3, <1>5, <1>7, <1>8, <1>9 DEF CountInv

\* A counter of count1 stays split when it is incremented.
LEMMA Split1Step ==
  ASSUME NEW high \in Nat, NEW low \in Nat, NEW n \in Nat, Split1(high, low, n)
  PROVE  Split1((high + Carry(low)) % High1Size, (low + 1) % LowSize, n + 1)
<1>0. LowSize \in Nat /\ LowSize > 1 /\ High1Size \in Nat /\ High1Size > 1
  BY ConstantFacts
<1>1. low = n % LowSize
  BY DEF Split1
<1>2. (n + 1) % LowSize = (low + 1) % LowSize /\ HighOf(n + 1) = HighOf(n) + Carry(low)
  BY <1>1, OneMore
<1>3. ASSUME n + 1 <= Full1 PROVE (high + Carry(low)) % High1Size = HighOf(n + 1)
  <2> DEFINE m == n + 1
             k == High1Size - 1
  <2>1. m \in Nat /\ k \in Nat /\ Full1 = k * LowSize
    BY <1>0 DEF Full1
  <2>2. Full1 \in Int
    <3> HIDE DEF k
    <3> QED BY <1>0, <2>1
  <2>3. n <= Full1
    BY <1>3, <2>2
  <2>4. high = HighOf(n)
    BY <2>3 DEF Split1
  <2>5. HighOf(m) <= k /\ HighOf(m) \in Nat
    <3>1. m <= k * LowSize
      BY <1>3, <2>1
    <3> HIDE DEF m, k
    <3> QED BY <2>1, <3>1, HighFits, ColumnsAreCount
  <2>6. HighOf(m) = high + Carry(low)
    BY <1>2, <2>4
  <2> HIDE DEF m
  <2>7. HighOf(m) % High1Size = HighOf(m)
    BY <1>0, <2>5
  <2> QED BY <2>6, <2>7 DEF m
<1> QED BY <1>2, <1>3 DEF Split1

\* count1Inc() counts one more in both columns.
LEMMA Count1IncStep ==
  ASSUME CountInv, NEW c \in AllCodes, Count1Inc(c)
  PROVE  CountInv'
<1>0. /\ LowSize \in Nat /\ LowSize > 1 /\ High1Size \in Nat /\ High1Size > 1 /\ MaxSample \in Nat
  BY ConstantFacts
<1>1. /\ marked = NCodes /\ Total(occurred1) < MaxSample
      /\ count1High' = [count1High EXCEPT ![c] = (@ + Carry(count1Low[c])) % High1Size]
      /\ count1Low' = [count1Low EXCEPT ![c] = (@ + 1) % LowSize]
      /\ occurred1' = [occurred1 EXCEPT ![c] = @ + 1]
      /\ UNCHANGED <<count2High, count2Low, marked, occurred2>>
  BY DEF Count1Inc, Counting
<1>2. /\ occurred1 \in [AllCodes -> 0..MaxSample]
      /\ count1High \in [AllCodes -> Nat] /\ count1Low \in [AllCodes -> Nat]
  BY DEF CountInv, CountTypes
<1>3. occurred1[c] < MaxSample /\ occurred1[c] \in Nat
  BY <1>0, <1>1, <1>2, RoomForOne
<1>4. Split1(count1High'[c], count1Low'[c], occurred1'[c])
  <2>1. Split1(count1High[c], count1Low[c], occurred1[c])
    <3>1. c # marked
      BY <1>1, ConstantFacts
    <3> QED BY <3>1 DEF CountInv
  <2>2. count1High[c] \in Nat /\ count1Low[c] \in Nat
    BY <1>2
  <2> QED BY <1>1, <1>2, <1>3, <2>1, <2>2, Split1Step
<1>5. \A d \in AllCodes : d # c => /\ count1High'[d] = count1High[d] /\ count1Low'[d] = count1Low[d]
                                   /\ occurred1'[d] = occurred1[d]
  BY <1>1, <1>2
<1>6. \A d \in AllCodes : d # marked' => Split1(count1High'[d], count1Low'[d], occurred1'[d])
  <2> SUFFICES ASSUME NEW d \in AllCodes, d # marked' PROVE Split1(count1High'[d], count1Low'[d], occurred1'[d])
    OBVIOUS
  <2>1. Split1(count1High[d], count1Low[d], occurred1[d])
    BY <1>1 DEF CountInv
  <2> QED BY <1>4, <1>5, <2>1
<1>7. CountTypes'
  <2>1. (count1High[c] + Carry(count1Low[c])) % High1Size \in Nat /\ (count1Low[c] + 1) % LowSize \in Nat
    <3>1. count1High[c] \in Nat /\ count1Low[c] \in Nat /\ Carry(count1Low[c]) \in Nat
      BY <1>2 DEF Carry
    <3> QED BY <1>0, <3>1
  <2>2. occurred1[c] + 1 \in 0..MaxSample
    BY <1>0, <1>3
  <2>3. count1High' \in [AllCodes -> Nat] /\ count1Low' \in [AllCodes -> Nat] /\ occurred1' \in [AllCodes -> 0..MaxSample]
    BY <1>1, <1>2, <2>1, <2>2
  <2> QED BY <1>1, <2>3 DEF CountInv, CountTypes
<1>8. marked' = NCodes
  BY <1>1
<1> QED BY <1>1, <1>6, <1>7, <1>8 DEF CountInv, Fits

\* byte has the halves a and b, and nothing is cut off
Halves(byte, k, a, b) == byte % (k * k) = byte /\ byte % k = a /\ byte \div k = b /\ b % k = b

\* Halves that fit do not disturb each other.
LEMMA TwoHalves ==
  ASSUME NEW k \in Nat, k > 1, NEW a \in 0..k - 1, NEW b \in 0..k - 1
  PROVE  Halves(a + k * b, k, a, b)
<1> DEFINE n == (b * k) + a
           kk == k * k
<1>1. n = a + k * b
  OBVIOUS
<1>2. n % k = a /\ n \div k = b
  OBVIOUS
<1>3. b * k <= (k - 1) * k
  OBVIOUS
<1>4. (k - 1) * k = kk - k /\ kk \in Int /\ b * k \in Nat /\ kk > 0
  OBVIOUS
<1>5. n \in Nat /\ n < kk
  <2> DEFINE bk == b * k
             e == (k - 1) * k
  <2>1. bk \in Nat /\ bk <= e /\ e = kk - k /\ n = bk + a /\ kk \in Int
    BY <1>3, <1>4
  <2> HIDE DEF bk, n, kk, e
  <2> QED BY <2>1
<1>6. n % kk = n
  <2> HIDE DEF n, kk
  <2> QED BY <1>4, <1>5
<1>7. b % k = b
  OBVIOUS
<1> QED BY <1>1, <1>2, <1>6, <1>7 DEF Halves

\* Both halves of the byte, when neither counter is full.
LEMMA HalvesFit ==
  ASSUME NEW even \in Nat, NEW odd \in Nat, even <= Full2, odd <= Full2
  PROVE  HighOf(even) \in 0..High2Size - 1 /\ HighOf(odd) \in 0..High2Size - 1
<1> DEFINE k == High2Size - 1
<1>1. High2Size \in Nat /\ k \in Nat
  BY ConstantFacts
<1>2. Full2 = k * LowSize
  BY DEF Full2
<1> HIDE DEF k
<1>3. HighOf(even) <= k /\ HighOf(odd) <= k /\ HighOf(even) \in Nat /\ HighOf(odd) \in Nat
  BY <1>1, <1>2, HighFits, ColumnsAreCount
<1> QED BY <1>1, <1>3 DEF k

\* Incrementing a half of the byte leaves the other half alone.
LEMMA HalfStep ==
  ASSUME NEW byte \in Nat, NEW even \in Nat, NEW odd \in Nat, Byte2(byte, even, odd)
  PROVE  /\ even + 1 <= Full2 /\ odd <= Full2 =>
              Byte2((byte + Carry(even % LowSize)) % (High2Size * High2Size), even + 1, odd)
         /\ even <= Full2 /\ odd + 1 <= Full2 =>
              Byte2((byte + High2Size * Carry(odd % LowSize)) % (High2Size * High2Size), even, odd + 1)
<1>0. High2Size \in Nat /\ High2Size > 1
  BY ConstantFacts
<1>1. byte = HighOf(even) + High2Size * HighOf(odd)
  BY DEF Byte2
<1>2. HighOf(even) \in Nat /\ HighOf(odd) \in Nat
  BY ColumnsAreCount
<1>3. HighOf(even + 1) = HighOf(even) + Carry(even % LowSize) /\ HighOf(odd + 1) = HighOf(odd) + Carry(odd % LowSize)
  BY OneMore
<1>4. ASSUME even + 1 <= Full2, odd <= Full2
      PROVE  Byte2((byte + Carry(even % LowSize)) % (High2Size * High2Size), even + 1, odd)
  <2> DEFINE m == even + 1
             a == HighOf(m)
             b == HighOf(odd)
             x == Carry(even % LowSize)
             y == High2Size * b
  <2>1. m \in Nat
    OBVIOUS
  <2>2. a \in 0..High2Size - 1 /\ b \in 0..High2Size - 1
    <3> HIDE DEF m
    <3> QED BY <1>4, <2>1, HalvesFit DEF m
  <2>3. x \in Nat
    BY DEF Carry
  <2>4. byte = HighOf(even) + y /\ a = HighOf(even) + x /\ y \in Int
    BY <1>0, <1>1, <1>2, <1>3
  <2> HIDE DEF a, x
  <2>5. byte + x = a + High2Size * b
    <3> HIDE DEF y
    <3>1. byte + x = a + y
      BY <1>2, <2>3, <2>4
    <3> QED BY <3>1 DEF y
  <2> HIDE DEF b
  <2>6. (a + High2Size * b) % (High2Size * High2Size) = a + High2Size * b
    <3>1. Halves(a + High2Size * b, High2Size, a, b)
      BY <1>0, <2>2, TwoHalves
    <3> QED BY <3>1, Zenon DEF Halves
  <2>7. (byte + x) % (High2Size * High2Size) = a + High2Size * b
    BY <2>5, <2>6, Zenon
  <2> QED BY <2>7 DEF a, b, x, Byte2
<1>5. ASSUME even <= Full2, odd + 1 <= Full2
      PROVE  Byte2((byte + High2Size * Carry(odd % LowSize)) % (High2Size * High2Size), even, odd + 1)
  <2> DEFINE m == odd + 1
             a == HighOf(even)
             b == HighOf(m)
             x == Carry(odd % LowSize)
             c == HighOf(odd)
  <2>1. m \in Nat
    OBVIOUS
  <2>2. a \in 0..High2Size - 1 /\ b \in 0..High2Size - 1
    <3> HIDE DEF m
    <3> QED BY <1>5, <2>1, HalvesFit DEF m
  <2>3. x \in Nat
    BY DEF Carry
  <2>4. byte = a + High2Size * c /\ b = c + x /\ a \in Nat /\ c \in Nat
    BY <1>1, <1>2, <1>3
  <2> HIDE DEF a, b, c, x
  <2>5. byte + High2Size * x = a + High2Size * b
    <3>1. High2Size * b = High2Size * c + High2Size * x
      BY <1>0, <2>3, <2>4
    <3>2. High2Size * c \in Int /\ High2Size * x \in Int
      BY <1>0, <2>3, <2>4
    <3> DEFINE y == High2Size * b
               u == High2Size * c
               t == High2Size * x
    <3>3. y = u + t /\ u \in Int /\ t \in Int /\ byte = a + u
      BY <2>4, <3>1, <3>2
    <3> HIDE DEF y, u, t
    <3>4. byte + t = a + y
      BY <2>4, <3>3
    <3> QED BY <3>4 DEF t, y
  <2>6. (a + High2Size * b) % (High2Size * High2Size) = a + High2Size * b
    <3>1. Halves(a + High2Size * b, High2Size, a, b)
      BY <1>0, <2>2, TwoHalves
    <3> QED BY <3>1, Zenon DEF Halves
  <2>7. (byte + High2Size * x) % (High2Size * High2Size) = a + High2Size * b
    BY <2>5, <2>6, Zenon
  <2> QED BY <2>7 DEF a, b, x, Byte2
<1> QED BY <1>4, <1>5

\* the byte that a code has a half of
LEMMA CodesOfPair ==
  ASSUME NEW c \in AllCodes
  PROVE  /\ c \div 2 \in Pairs2
         /\ c % 2 = 0 => 2 * (c \div 2) = c
         /\ c % 2 # 0 => 2 * (c \div 2) + 1 = c
<1>1. NCodes \in Nat /\ NCodes > 0 /\ AllCodes = 0..NCodes - 1 /\ NCodes % 2 = 0
  BY ConstantFacts, CountersAssumption
<1> QED BY <1>1 DEF Pairs2

\* the codes that have the halves of a byte
LEMMA PairsOfCodes ==
  ASSUME NEW i \in Pairs2
  PROVE  /\ 2 * i \in AllCodes /\ 2 * i + 1 \in AllCodes
         /\ (2 * i) \div 2 = i /\ (2 * i + 1) \div 2 = i /\ (2 * i) % 2 = 0 /\ (2 * i + 1) % 2 = 1
         /\ i \in Nat
<1>1. NCodes \in Nat /\ NCodes > 0 /\ AllCodes = 0..NCodes - 1 /\ NCodes % 2 = 0
  BY ConstantFacts, CountersAssumption
<1> QED BY <1>1 DEF Pairs2

\* count2Inc() adds to one half of a byte only.
LEMMA Count2IncStep ==
  ASSUME CountInv, NEW c \in AllCodes, Count2Inc(c)
  PROVE  CountInv'
<1>0. /\ LowSize \in Nat /\ LowSize > 1 /\ High2Size \in Nat /\ High2Size > 1 /\ MaxSample \in Nat
  BY ConstantFacts
<1> DEFINE HH == High2Size * High2Size
           i == c \div 2
           carry == Carry(count2Low[c])
<1>1. /\ marked = NCodes /\ Total(occurred2) < MaxSample
      /\ count2High' = [count2High EXCEPT ![i] = (@ + Half(c) * carry) % HH]
      /\ count2Low' = [count2Low EXCEPT ![c] = (@ + 1) % LowSize]
      /\ occurred2' = [occurred2 EXCEPT ![c] = @ + 1]
      /\ UNCHANGED <<count1High, count1Low, marked, occurred1>>
  BY DEF Count2Inc, Counting
<1>2. /\ occurred2 \in [AllCodes -> 0..MaxSample]
      /\ count2High \in [Pairs2 -> Nat] /\ count2Low \in [AllCodes -> Nat]
      /\ \A d \in AllCodes : count2Low[d] = occurred2[d] % LowSize
  BY DEF CountInv, CountTypes
<1>3. occurred2[c] < MaxSample /\ occurred2[c] \in Nat
  BY <1>0, <1>1, <1>2, RoomForOne
<1>4. HH \in Nat /\ HH > 0
  BY <1>0
<1>5. i \in Pairs2 /\ i \in Nat
  <2>1. i \in Pairs2
    BY CodesOfPair
  <2> QED BY <2>1, PairsOfCodes
<1> DEFINE byte == (count2High[i] + Half(c) * carry) % HH
<1>6. byte \in Nat
  <2>1. count2High[i] \in Nat /\ Half(c) \in Nat /\ carry \in Nat
    BY <1>0, <1>2, <1>5 DEF Half, Carry
  <2> HIDE DEF HH, carry
  <2> QED BY <1>4, <2>1
<1> HIDE DEF i
<1>7. CountTypes'
  <2>1. (count2Low[c] + 1) % LowSize \in Nat
    BY <1>0, <1>2
  <2>2. occurred2[c] + 1 \in 0..MaxSample
    BY <1>0, <1>3
  <2>3. count2High' \in [Pairs2 -> Nat] /\ count2Low' \in [AllCodes -> Nat] /\ occurred2' \in [AllCodes -> 0..MaxSample]
    <3> HIDE DEF byte
    <3>1. count2High' = [count2High EXCEPT ![i] = byte]
      BY <1>1 DEF byte
    <3> QED BY <1>1, <1>2, <1>6, <2>1, <2>2, <3>1
  <2> QED BY <1>1, <2>3 DEF CountInv, CountTypes
<1>8. \A d \in AllCodes : count2Low'[d] = occurred2'[d] % LowSize
  <2> SUFFICES ASSUME NEW d \in AllCodes PROVE count2Low'[d] = occurred2'[d] % LowSize
    OBVIOUS
  <2>1. CASE d # c
    BY <1>1, <1>2, <2>1
  <2>2. CASE d = c
    <3>1. count2Low'[c] = (count2Low[c] + 1) % LowSize /\ occurred2'[c] = occurred2[c] + 1
      BY <1>1, <1>2
    <3>2. (occurred2[c] + 1) % LowSize = ((occurred2[c] % LowSize) + 1) % LowSize
      BY <1>3, OneMore
    <3> QED BY <1>2, <2>2, <3>1, <3>2
  <2> QED BY <2>1, <2>2
<1>9. ASSUME Fits(occurred2, Full2)', NEW k \in Pairs2
      PROVE  Byte2(count2High'[k], occurred2'[2 * k], occurred2'[2 * k + 1])
  <2>1. \A d \in AllCodes : occurred2[d] \in Nat /\ occurred2'[d] = (IF d = c THEN occurred2[c] + 1 ELSE occurred2[d])
    BY <1>0, <1>1, <1>2
  <2>2. Full2 \in Int
    BY <1>0 DEF Full2
  <2>3. \A d \in AllCodes : occurred2'[d] <= Full2
    BY <1>9 DEF Fits, Full2
  <2>4. Fits(occurred2, Full2)
    <3> SUFFICES ASSUME NEW d \in AllCodes PROVE occurred2[d] <= Full2
      BY DEF Fits
    <3> QED BY <2>1, <2>2, <2>3
  <2>5. \A j \in Pairs2 : Byte2(count2High[j], occurred2[2 * j], occurred2[2 * j + 1])
    BY <2>4 DEF CountInv
  <2> DEFINE e == 2 * k
             o == 2 * k + 1
  <2>6. e \in AllCodes /\ o \in AllCodes /\ e # o
    <3>1. k \in Nat
      BY PairsOfCodes
    <3> QED BY <3>1, PairsOfCodes
  <2>7. Byte2(count2High[k], occurred2[e], occurred2[o]) /\ count2High[k] \in Nat
    BY <1>2, <2>5
  <2>8. CASE k # i
    <3>1. e # c /\ o # c
      <4>1. e \div 2 = k /\ o \div 2 = k
        BY PairsOfCodes
      <4> HIDE DEF e, o
      <4> QED BY <2>8, <4>1 DEF i
    <3>2. count2High'[k] = count2High[k]
      BY <1>1, <1>2, <2>8
    <3> HIDE DEF e, o
    <3>3. occurred2'[e] = occurred2[e] /\ occurred2'[o] = occurred2[o]
      BY <2>1, <2>6, <3>1
    <3> QED BY <2>7, <3>2, <3>3 DEF e, o
  <2>9. CASE k = i
    <3>1. count2High'[k] = (count2High[k] + Half(c) * carry) % HH
      BY <1>1, <1>2, <2>9
    <3>2. carry = Carry(occurred2[c] % LowSize) /\ carry \in Nat
      BY <1>2 DEF Carry
    <3>3. CASE c % 2 = 0
      <4>1. c = e
        BY <2>9, <3>3, CodesOfPair DEF i
      <4>2. Half(c) = 1
        BY <3>3 DEF Half
      <4>3. Half(c) * carry = carry
        <5> HIDE DEF carry
        <5> QED BY <3>2, <4>2
      <4> HIDE DEF e, o
      <4>4. occurred2'[e] = occurred2[e] + 1 /\ occurred2'[o] = occurred2[o]
        BY <2>1, <2>6, <4>1
      <4>5. occurred2[e] + 1 <= Full2 /\ occurred2[o] <= Full2 /\ occurred2[e] \in Nat /\ occurred2[o] \in Nat
        BY <2>1, <2>3, <2>6, <4>4
      <4> HIDE DEF carry
      <4>6. Byte2((count2High[k] + carry) % HH, occurred2[e] + 1, occurred2[o])
        BY <2>7, <3>2, <4>1, <4>5, HalfStep
      <4> QED BY <3>1, <4>3, <4>4, <4>6 DEF e, o
    <3>4. CASE c % 2 # 0
      <4>1. c = o
        BY <2>9, <3>4, CodesOfPair DEF i
      <4>2. Half(c) = High2Size
        BY <3>4 DEF Half
      <4> HIDE DEF e, o
      <4>4. occurred2'[o] = occurred2[o] + 1 /\ occurred2'[e] = occurred2[e]
        BY <2>1, <2>6, <4>1
      <4>5. occurred2[o] + 1 <= Full2 /\ occurred2[e] <= Full2 /\ occurred2[e] \in Nat /\ occurred2[o] \in Nat
        BY <2>1, <2>3, <2>6, <4>4
      <4> HIDE DEF carry
      <4>6. Byte2((count2High[k] + High2Size * carry) % HH, occurred2[e], occurred2[o] + 1)
        BY <2>7, <3>2, <4>1, <4>5, HalfStep
      <4> QED BY <3>1, <4>2, <4>4, <4>6 DEF e, o
    <3> QED BY <3>3, <3>4
  <2> QED BY <2>8, <2>9
<1>10. \A d \in AllCodes : d # marked' => Split1(count1High'[d], count1Low'[d], occurred1'[d])
  BY <1>1 DEF CountInv
<1>11. marked' = NCodes
  BY <1>1
<1> HIDE DEF byte, carry, HH
<1> QED BY <1>7, <1>8, <1>9, <1>10, <1>11 DEF CountInv

\* count1Set() marks one code and leaves the others.
LEMMA Count1SetStep ==
  ASSUME CountInv, NEW c \in AllCodes, Count1Set(c)
  PROVE  CountInv'
<1>0. /\ LowSize \in Nat /\ LowSize > 1 /\ High1Size \in Nat /\ High1Size > 1
      /\ NCodes \in Nat /\ AllCodes = 0..NCodes - 1
  BY ConstantFacts
<1>1. /\ marked = NCodes /\ marked' = c
      /\ count1Low' = [count1Low EXCEPT ![c] = LowSize - 1]
      /\ count1High' = [count1High EXCEPT ![c] = MaxHigh]
      /\ UNCHANGED <<count2High, count2Low, occurred1, occurred2>>
  BY DEF Count1Set
<1>2. count1High \in [AllCodes -> Nat] /\ count1Low \in [AllCodes -> Nat]
  BY DEF CountInv, CountTypes
<1>3. LowSize - 1 \in Nat /\ MaxHigh \in Nat /\ c \in 0..NCodes
  BY <1>0 DEF MaxHigh
<1>4. count1High' \in [AllCodes -> Nat] /\ count1Low' \in [AllCodes -> Nat] /\ marked' \in 0..NCodes
  BY <1>1, <1>2, <1>3
<1>5. CountTypes'
  BY <1>1, <1>4 DEF CountInv, CountTypes
<1>6. ASSUME NEW d \in AllCodes, d # marked' PROVE Split1(count1High'[d], count1Low'[d], occurred1'[d])
  <2>1. count1High'[d] = count1High[d] /\ count1Low'[d] = count1Low[d]
    BY <1>1, <1>2, <1>6
  <2>2. d # marked
    BY <1>0, <1>1
  <2> QED BY <1>1, <2>1, <2>2 DEF CountInv
<1>7. count1High'[marked'] = MaxHigh /\ count1Low'[marked'] = LowSize - 1
  BY <1>1, <1>2
<1> QED BY <1>1, <1>5, <1>6, <1>7 DEF CountInv, MaxHigh, Fits

\* Every operation keeps the columns and what they count in step.
LEMMA CountStep == CountInv /\ [CNext]_cvars => CountInv'
<1> SUFFICES ASSUME CountInv, [CNext]_cvars PROVE CountInv'
  OBVIOUS
<1>0. Singles \subseteq AllCodes /\ Followers \subseteq AllCodes
  BY CountersAssumption
<1>1. ASSUME NEW c \in Singles, Count1Inc(c) PROVE CountInv'
  BY <1>0, <1>1, Count1IncStep
<1>2. ASSUME NEW c \in Followers, Count2Inc(c) PROVE CountInv'
  BY <1>0, <1>2, Count2IncStep
<1>3. ASSUME NEW c \in AllCodes, Count1Set(c) PROVE CountInv'
  BY <1>3, Count1SetStep
<1>4. ASSUME Reset PROVE CountInv'
  <2>1. count2High \in [Pairs2 -> Nat]
    BY DEF CountInv, CountTypes
  <2>2. DOMAIN count2High = 0..(NCodes \div 2) - 1
    BY <2>1 DEF Pairs2
  <2>3. CInit'
    BY <1>4, <2>2 DEF Reset, CInit
  <2>4. CInit' => CountInv'
    BY InitCounts, PTL
  <2> QED BY <2>3, <2>4
<1>5. ASSUME UNCHANGED cvars PROVE CountInv'
  BY <1>5 DEF cvars, CountInv, CountTypes, Fits
<1> QED BY <1>1, <1>2, <1>3, <1>4, <1>5 DEF CNext

-----------------------------------------------------------------------------
(* What the scans read                                                     *)

\* As long as no counter ran full, count1 gives back what was counted ...
LEMMA Counters1 ==
  ASSUME CountInv, marked = NCodes, Fits(occurred1, Full1)
  PROVE  Column1(occurred1)
<1> SUFFICES ASSUME NEW d \in AllCodes
             PROVE  /\ count1High[d] = 0 <=> occurred1[d] = 0
                    /\ occurred1[d] # 0 => Value(count1High[d], count1Low[d]) = occurred1[d]
  BY DEF Column1
<1> DEFINE n == occurred1[d]
<1>1. Split1(count1High[d], count1Low[d], n)
  <2>1. d # marked
    BY ConstantFacts
  <2> QED BY <2>1 DEF CountInv
<1>2. n \in Nat
  BY ConstantFacts DEF CountInv, CountTypes
<1>3. n <= Full1
  BY DEF Fits
<1> HIDE DEF n
<1>4. count1Low[d] = n % LowSize /\ count1High[d] = HighOf(n)
  BY <1>1, <1>3 DEF Split1
<1>5. HighOf(n) = 0 <=> n = 0
  BY <1>2, ColumnsAreCount
<1>6. n # 0 => Value(HighOf(n), n % LowSize) = n
  BY <1>2, ColumnsAreCount
<1> QED BY <1>4, <1>5, <1>6 DEF n

\* ... and so does count2.
LEMMA Counters2 ==
  ASSUME CountInv, Fits(occurred2, Full2)
  PROVE  Column2(occurred2)
<1> SUFFICES ASSUME NEW d \in AllCodes
             PROVE  /\ High2At(d) = 0 <=> occurred2[d] = 0
                    /\ occurred2[d] # 0 => Value(High2At(d), count2Low[d]) = occurred2[d]
  BY DEF Column2
<1>0. High2Size \in Nat /\ High2Size > 1
  BY ConstantFacts
<1> DEFINE n == occurred2[d]
           i == d \div 2
           e == 2 * i
           o == 2 * i + 1
<1>1. i \in Pairs2 /\ e \in AllCodes /\ o \in AllCodes
  <2>1. i \in Pairs2
    BY CodesOfPair
  <2> HIDE DEF i
  <2> QED BY <2>1, PairsOfCodes
<1>2. \A c \in AllCodes : occurred2[c] \in Nat /\ occurred2[c] <= Full2
  BY ConstantFacts DEF CountInv, CountTypes, Fits
<1>3. Byte2(count2High[i], occurred2[e], occurred2[o])
  BY <1>1 DEF CountInv
<1> DEFINE byte == count2High[i]
           a == HighOf(occurred2[e])
           b == HighOf(occurred2[o])
<1>4. a \in 0..High2Size - 1 /\ b \in 0..High2Size - 1
  <2> HIDE DEF e, o
  <2> QED BY <1>1, <1>2, HalvesFit
<1>5. byte = a + High2Size * b
  BY <1>3 DEF Byte2
<1>6. byte % High2Size = a /\ byte \div High2Size = b /\ b % High2Size = b
  <2> HIDE DEF a, b, byte
  <2>1. Halves(a + High2Size * b, High2Size, a, b)
    BY <1>0, <1>4, TwoHalves
  <2> QED BY <1>5, <2>1, Zenon DEF Halves
<1>7. High2At(d) = (byte \div Half(d)) % High2Size
  <2>1. d < NCodes
    BY ConstantFacts
  <2> QED BY <2>1 DEF High2At
<1>8. High2At(d) = HighOf(n)
  <2>1. CASE d % 2 = 0
    <3>1. d = e /\ Half(d) = 1
      BY <2>1, CodesOfPair DEF Half
    <3>2. byte \in Int
      <4> HIDE DEF a, b, byte
      <4> QED BY <1>0, <1>4, <1>5
    <3>3. byte \div 1 = byte
      <4> HIDE DEF byte
      <4> QED BY <3>2
    <3>4. High2At(d) = a
      <4> HIDE DEF a, b, byte
      <4> QED BY <1>6, <1>7, <3>1, <3>3
    <3>5. a = HighOf(n)
      <4> HIDE DEF e
      <4> QED BY <3>1
    <3> QED BY <3>4, <3>5
  <2>2. CASE d % 2 # 0
    <3>1. d = o /\ Half(d) = High2Size
      BY <2>2, CodesOfPair DEF Half
    <3>4. High2At(d) = b
      <4> HIDE DEF a, b, byte
      <4> QED BY <1>6, <1>7, <3>1
    <3>5. b = HighOf(n)
      <4> HIDE DEF o
      <4> QED BY <3>1
    <3> QED BY <3>4, <3>5
  <2> QED BY <2>1, <2>2
<1>9. count2Low[d] = n % LowSize
  BY DEF CountInv
<1>10. n \in Nat
  BY <1>2
<1> HIDE DEF n
<1>11. HighOf(n) = 0 <=> n = 0
  BY <1>10, ColumnsAreCount
<1>12. n # 0 => Value(HighOf(n), n % LowSize) = n
  BY <1>10, ColumnsAreCount
<1> QED BY <1>8, <1>9, <1>11, <1>12 DEF n

\* what was counted, as numbers
LEMMA CountsAreNatural ==
  ASSUME CountInv
  PROVE  /\ occurred1 \in [AllCodes -> Nat] /\ occurred2 \in [AllCodes -> Nat]
         /\ \A c \in AllCodes : occurred1[c] <= MaxSample /\ occurred2[c] <= MaxSample
<1>1. occurred1 \in [AllCodes -> 0..MaxSample] /\ occurred2 \in [AllCodes -> 0..MaxSample]
  BY DEF CountInv, CountTypes
<1> QED BY <1>1, ConstantFacts

\* Then the scans give it back as well.
LEMMA ScansRead == CountInv => ScansAreExact
<1> SUFFICES ASSUME CountInv, marked = NCodes
             PROVE  /\ Fits(occurred1, Full1) => Expect(Scan1, occurred1)
                    /\ Fits(occurred2, Full2) => Expect(Scan2, occurred2)
  BY DEF ScansAreExact
<1>1. occurred1 \in [AllCodes -> Nat] /\ occurred2 \in [AllCodes -> Nat]
  BY CountsAreNatural
<1>2. ASSUME Fits(occurred1, Full1) PROVE Expect(Scan1, occurred1)
  <2>1. Reads([c \in AllCodes |-> Count1GetNext(c)], occurred1)
    BY <1>1, <1>2, Counters1, Column1Reads
  <2>2. MeetsFrom(Scan1, occurred1, 0)
    BY <1>1, <2>1, ScanMeets DEF Scan1
  <2> QED BY <1>1, <2>2, MeetsAsExpected
<1>3. ASSUME Fits(occurred2, Full2) PROVE Expect(Scan2, occurred2)
  <2>1. Reads([c \in AllCodes |-> Count2GetNext(c)], occurred2)
    BY <1>1, <1>3, Counters2, Column2Reads
  <2>2. MeetsFrom(Scan2, occurred2, 0)
    BY <1>1, <2>1, ScanMeets DEF Scan2
  <2> QED BY <1>1, <2>2, MeetsAsExpected
<1> QED BY <1>2, <1>3

\* The counters as the scans read them while one is marked.
LEMMA MarkedColumn ==
  ASSUME CountInv, marked # NCodes, MaxSample < Full1 - 1
  PROVE  /\ [occurred1 EXCEPT ![marked] = Full1 - 1] \in [AllCodes -> Nat]
         /\ Column1([occurred1 EXCEPT ![marked] = Full1 - 1])
<1> DEFINE v == [occurred1 EXCEPT ![marked] = Full1 - 1]
<1>0. /\ LowSize \in Nat /\ LowSize > 1 /\ High1Size \in Nat /\ High1Size > 1 /\ MaxSample \in Nat
      /\ NCodes \in Nat /\ AllCodes = 0..NCodes - 1
  BY ConstantFacts
<1>1. /\ occurred1 \in [AllCodes -> Nat] /\ \A c \in AllCodes : occurred1[c] <= MaxSample
  BY CountsAreNatural
<1>2. marked \in AllCodes
  BY <1>0 DEF CountInv, CountTypes
<1>3. Full1 \in Nat /\ Full1 - 1 \in Nat /\ Full1 - 1 > 0
  <2>1. Full1 \in Int
    BY <1>0 DEF Full1
  <2> QED BY <1>0, <2>1
<1>4. v \in [AllCodes -> Nat]
  BY <1>1, <1>3
<1>5. ASSUME NEW d \in AllCodes
      PROVE  /\ count1High[d] = 0 <=> v[d] = 0
             /\ v[d] # 0 => Value(count1High[d], count1Low[d]) = v[d]
  <2>1. CASE d = marked
    <3>1. count1High[d] = MaxHigh /\ count1Low[d] = LowSize - 1 /\ v[d] = Full1 - 1
      BY <1>1, <1>2, <2>1 DEF CountInv
    <3>2. MaxHigh # 0 /\ LowSize - 1 # 0
      BY <1>0 DEF MaxHigh
    <3>3. Value(MaxHigh, LowSize - 1) = Full1 - 1
      <4>1. Value(MaxHigh, LowSize - 1) = (MaxHigh - 1) * LowSize + (LowSize - 1)
        BY <3>2 DEF Value
      <4>2. (MaxHigh - 1) * LowSize = MaxHigh * LowSize - LowSize /\ MaxHigh * LowSize \in Int
        BY <1>0 DEF MaxHigh
      <4>3. Full1 = MaxHigh * LowSize
        BY DEF Full1, MaxHigh
      <4> DEFINE p == MaxHigh * LowSize
                 t == (MaxHigh - 1) * LowSize
      <4>4. Value(MaxHigh, LowSize - 1) = t + (LowSize - 1) /\ t = p - LowSize /\ p \in Int /\ Full1 = p
        BY <4>1, <4>2, <4>3
      <4> HIDE DEF p, t
      <4> QED BY <1>0, <4>4
    <3> HIDE DEF v
    <3> QED BY <1>3, <3>1, <3>2, <3>3
  <2>2. CASE d # marked
    <3> DEFINE n == occurred1[d]
    <3>1. Split1(count1High[d], count1Low[d], n)
      BY <2>2 DEF CountInv
    <3>2. n \in Nat /\ n <= Full1 /\ v[d] = n
      BY <1>0, <1>1, <1>3, <2>2
    <3> HIDE DEF n, v
    <3>3. count1Low[d] = n % LowSize /\ count1High[d] = HighOf(n)
      BY <3>1, <3>2 DEF Split1
    <3>4. HighOf(n) = 0 <=> n = 0
      BY <3>2, ColumnsAreCount
    <3>5. n # 0 => Value(HighOf(n), n % LowSize) = n
      BY <3>2, ColumnsAreCount
    <3> QED BY <3>2, <3>3, <3>4, <3>5
  <2> QED BY <2>1, <2>2
<1>6. Column1(v)
  <2> HIDE DEF v
  <2> QED BY <1>5 DEF Column1
<1> QED BY <1>4, <1>6

\* The marked code reads back as the largest count the columns can hold.
LEMMA MarkedIsFirst ==
  ASSUME MaxSample < Full1 - 1
  PROVE  CountInv => TerminatorIsMostFrequent
<1> SUFFICES ASSUME CountInv, marked # NCodes
             PROVE  \E i \in 1..Len(Scan1) :
                      /\ Scan1[i].code = marked
                      /\ \A j \in 1..Len(Scan1) : j # i => Scan1[i].count > Scan1[j].count
  BY DEF TerminatorIsMostFrequent
<1> DEFINE v == [occurred1 EXCEPT ![marked] = Full1 - 1]
           s == Scan1
<1>0. MaxSample \in Nat /\ NCodes \in Nat /\ AllCodes = 0..NCodes - 1 /\ AllCodes \subseteq Nat
  BY ConstantFacts
<1>1. v \in [AllCodes -> Nat] /\ Column1(v)
  BY MarkedColumn
<1>2. MeetsFrom(s, v, 0)
  <2> HIDE DEF v
  <2>1. Reads([c \in AllCodes |-> Count1GetNext(c)], v)
    BY <1>1, Column1Reads
  <2> QED BY <1>1, <2>1, ScanMeets DEF Scan1
<1>3. marked \in AllCodes /\ occurred1 \in [AllCodes -> Nat] /\ \A c \in AllCodes : occurred1[c] <= MaxSample
  <2>1. marked \in AllCodes
    BY <1>0 DEF CountInv, CountTypes
  <2> QED BY <2>1, CountsAreNatural
<1>4. v[marked] = Full1 - 1 /\ \A c \in AllCodes : c # marked => v[c] <= MaxSample
  BY <1>3
<1>5. Full1 \in Int
  BY ConstantFacts DEF Full1
<1> HIDE DEF v, s
<1>6. /\ s \in Seq(Readings) /\ Len(s) \in Nat
      /\ \A i, j \in 1..Len(s) : i < j => s[i].code < s[j].code
      /\ \A i \in 1..Len(s) : s[i].count = v[s[i].code]
      /\ \A d \in AllCodes : 0 <= d /\ v[d] > 0 => \E i \in 1..Len(s) : s[i].code = d
  BY <1>2 DEF MeetsFrom
<1>7. \A i \in 1..Len(s) : s[i].code \in AllCodes
  <2> TAKE i \in 1..Len(s)
  <2>1. s[i] \in Readings
    BY <1>6
  <2> QED BY <2>1 DEF Readings
<1>8. PICK i \in 1..Len(s) : s[i].code = marked
  <2>1. 0 <= marked /\ v[marked] > 0
    BY <1>0, <1>3, <1>4, <1>5
  <2> QED BY <1>3, <1>6, <2>1
<1>9. s[i].count = Full1 - 1
  BY <1>4, <1>6, <1>8
<1>10. ASSUME NEW j \in 1..Len(s), j # i PROVE s[i].count > s[j].count
  <2>1. i < j \/ j < i
    BY <1>6, <1>10
  <2>2. s[j].code # marked
    <3>1. s[i].code < s[j].code \/ s[j].code < s[i].code
      BY <1>6, <2>1
    <3>2. s[i].code \in Nat /\ s[j].code \in Nat
      BY <1>0, <1>7
    <3> QED BY <1>8, <3>1, <3>2
  <2>3. s[j].count <= MaxSample /\ s[j].count \in Nat
    BY <1>1, <1>4, <1>6, <1>7, <2>2
  <2> QED BY <1>0, <1>5, <1>9, <2>3
<1> QED BY <1>8, <1>10 DEF s

\* The columns stay those of the numbers that were counted.
LEMMA CountsKept == CSpec => []CountInv
<1>1. CInit => CountInv
  BY InitCounts
<1>2. CountInv /\ [CNext]_cvars => CountInv'
  BY CountStep
<1> QED BY <1>1, <1>2, PTL DEF CSpec

\* Scanning the two columns, word by word, gives back every counter that is
\* not zero, in order, with its count, as long as none ran full: for every
\* number of codes, every size of the columns, of a word and of a sample.
THEOREM CountersReadBack == CSpec => []ScansAreExact
<1>1. CountInv => ScansAreExact
  BY ScansRead
<1> QED BY <1>1, CountsKept, PTL

\* The terminator that makeTable() marks reads back as more than any other
\* code, for every sample of less than the 65279 codes it reads back as: one
\* of 32 KB has less.
THEOREM TerminatorFirst ==
  ASSUME MaxSample < Full1 - 1
  PROVE  CSpec => []TerminatorIsMostFrequent
<1>1. CountInv => TerminatorIsMostFrequent
  BY MarkedIsFirst
<1> QED BY <1>1, CountsKept, PTL

=============================================================================
