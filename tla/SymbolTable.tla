----------------------------- MODULE SymbolTable -----------------------------
(***************************************************************************)
(* struct SymbolTable of libfsst.hpp: the dictionary that training builds  *)
(* and that compression probes.                                            *)
(*                                                                         *)
(* A string is a non-empty sequence of at most MaxLen bytes.  The table    *)
(* lists its strings in symbols[] and replicates them in three indexes:    *)
(* byteCodes for one byte, shortCodes for two, and a lossy hash table,     *)
(* keyed by the first three bytes, for the rest.  A bucket holds one       *)
(* string: add() of a second one fails.                                    *)
(*                                                                         *)
(* While the table is trained, codes below CodeBase are the bytes          *)
(* themselves (escapes), and symbols[i] has code CodeBase + i - 1.         *)
(* finalize() renumbers: symbols[i] then has code i - 1.                   *)
(***************************************************************************)
EXTENDS Integers, Sequences, FiniteSets, Functions

CONSTANTS
  Byte,          \* the bytes of the text
  MaxLen,        \* Symbol::maxLength (8 in the code)
  MaxSymbols,    \* the largest number of symbols (255 in the code)
  Bucket,        \* hash() & (hashTabSize-1), by the three bytes it hashes
  Candidates     \* the strings training may propose

Key3 == [1..3 -> Byte]

Strings == UNION {[1..n -> Byte] : n \in 1..MaxLen}

ASSUME ByteAssumption == 0 \in Byte /\ Byte \subseteq 0..255

ASSUME SizeAssumption ==
  /\ MaxLen \in Nat /\ MaxLen >= 3
  /\ MaxSymbols \in 1..255

ASSUME BucketAssumption == Bucket = [k \in Key3 |-> Bucket[k]]

ASSUME CandidateAssumption == Candidates \subseteq Strings

CodeBase == 256
CodeMask == 511    \* FSST_CODE_MASK: the code of an escape once final

VARIABLES
  symbols,         \* the strings in code order; nSymbols is its length
  byteCodes,       \* [code, len] for each byte
  shortCodes,      \* [code, len] for each pair of bytes
  hashTab,         \* one [str, code] for each bucket
  lenHisto,        \* how many symbols there are of each length
  suffixLim,       \* two-byte codes below it have no longer symbol
  terminator,      \* a byte that occurs in no longer symbol
  zeroTerminated,  \* are the strings to compress zero-terminated?
  final            \* has finalize() run?

indexes == <<symbols, byteCodes, shortCodes, hashTab, lenHisto>>
modes == <<suffixLim, terminator, zeroTerminated, final>>
tvars == <<indexes, modes>>

CodeWord == [code : 0..CodeMask, len : 1..2]
Free == [str |-> << >>, code |-> CodeMask]
Entry == [str : Strings, code : 0..CodeMask] \cup {Free}

Escape(b) == [code |-> b, len |-> 1]
NoSymbols == [l \in 1..MaxLen |-> 0]

\* what Symbol::hash() reads: three bytes, zero where the string is shorter
Key(s) == [i \in 1..3 |-> IF i <= Len(s) THEN s[i] ELSE 0]
BucketOf(s) == Bucket[Key(s)]
Buckets == {Bucket[k] : k \in Key3}

StartsWith(t, s) == Len(s) <= Len(t) /\ \A i \in 1..Len(s) : s[i] = t[i]

Listed == {symbols[i] : i \in 1..Len(symbols)}

Init ==
  /\ symbols = << >>
  /\ byteCodes = [b \in Byte |-> Escape(b)]
  /\ shortCodes = [p \in Byte \X Byte |-> Escape(p[1])]
  /\ hashTab = [k \in Buckets |-> Free]
  /\ lenHisto = NoSymbols
  /\ suffixLim = CodeMask + 1
  /\ zeroTerminated \in {0, 1}
  /\ terminator \in IF zeroTerminated = 1 THEN {0} ELSE Byte
  /\ final = FALSE

-----------------------------------------------------------------------------
(* add() and hashInsert()                                                  *)

\* Training adds the terminator first, and never a longer string that
\* contains it.
Proposed(s) ==
  /\ s \in Candidates \cup {<<terminator>>}
  /\ symbols = << >> => s = <<terminator>>
  /\ \A i \in 1..Len(s) : s[i] = terminator => Len(s) = 1

\* (mutant) hashInsert() that overwrites the bucket it should leave alone
TakenIgnoresHash(s) ==
  CASE Len(s) = 1 -> byteCodes[s[1]].code >= CodeBase
    [] Len(s) = 2 -> shortCodes[<<s[1], s[2]>>].code >= CodeBase
    [] OTHER      -> s \in Listed

\* The slot of s already belongs to a symbol.
Taken(s) ==
  CASE Len(s) = 1 -> byteCodes[s[1]].code >= CodeBase
    [] Len(s) = 2 -> shortCodes[<<s[1], s[2]>>].code >= CodeBase
    [] OTHER      -> hashTab[BucketOf(s)] # Free

NextCode == CodeBase + Len(symbols)

Index(s) ==
  /\ byteCodes' = IF Len(s) = 1
       THEN [byteCodes EXCEPT ![s[1]] = [code |-> NextCode, len |-> 1]]
       ELSE byteCodes
  /\ shortCodes' = IF Len(s) = 2
       THEN [shortCodes EXCEPT ![<<s[1], s[2]>>] = [code |-> NextCode, len |-> 2]]
       ELSE shortCodes
  /\ hashTab' = IF Len(s) > 2
       THEN [hashTab EXCEPT ![BucketOf(s)] = [str |-> s, code |-> NextCode]]
       ELSE hashTab

Insert(s) ==
  /\ ~Taken(s)                     \* otherwise add() returns false
  /\ Index(s)
  /\ symbols' = Append(symbols, s)
  /\ lenHisto' = [lenHisto EXCEPT ![Len(s)] = @ + 1]
  /\ UNCHANGED modes

Add(s) ==
  /\ ~final
  /\ Len(symbols) < MaxSymbols
  /\ Proposed(s)
  /\ Insert(s)

-----------------------------------------------------------------------------
(* clear() erases the slots of the listed symbols, and only those          *)

\* (mutant) forgets the two-byte index
ClearKeepsPairs ==
  /\ ~final
  /\ symbols' = << >>
  /\ byteCodes' = [b \in Byte |->
       IF <<b>> \in Listed THEN Escape(b) ELSE byteCodes[b]]
  /\ hashTab' = [k \in Buckets |->
       IF \E s \in Listed : Len(s) > 2 /\ BucketOf(s) = k THEN Free ELSE hashTab[k]]
  /\ lenHisto' = NoSymbols
  /\ UNCHANGED <<shortCodes, modes>>

Clear ==
  /\ ~final
  /\ symbols' = << >>
  /\ byteCodes' = [b \in Byte |->
       IF <<b>> \in Listed THEN Escape(b) ELSE byteCodes[b]]
  /\ shortCodes' = [p \in Byte \X Byte |->
       IF p \in Listed THEN Escape(p[1]) ELSE shortCodes[p]]
  /\ hashTab' = [k \in Buckets |->
       IF \E s \in Listed : Len(s) > 2 /\ BucketOf(s) = k THEN Free ELSE hashTab[k]]
  /\ lenHisto' = NoSymbols
  /\ UNCHANGED modes

-----------------------------------------------------------------------------
(* finalize(): codes grouped by length 2, 3, ..., MaxLen, and then 1; in   *)
(* zero-terminated mode the terminator keeps code 0.  Of the two-byte      *)
(* symbols those that no longer symbol extends come first, below           *)
(* suffixLim, and the others fill up from the end of their group.          *)

\* the symbols that are renumbered
Renumbered == zeroTerminated + 1 .. Len(symbols)

\* (mutant) compares the first byte only
ExtendedByOne(i) ==
  \E k \in 1..Len(symbols) :
    k # i /\ Len(symbols[k]) > 1 /\ symbols[k][1] = symbols[i][1]

Extended(i) ==
  \E k \in 1..Len(symbols) :
    /\ k # i
    /\ Len(symbols[k]) > 1
    /\ \A j \in 1..2 : symbols[k][j] = symbols[i][j]

\* the number of renumbered symbols up to index i that satisfy P
Count(i, P(_)) == Cardinality({k \in Renumbered : k <= i /\ P(k)})

\* (mutant) byteLim without the correction for the terminator
StartUncorrected(len) ==
  IF len = 1
  THEN Len(symbols) - lenHisto[1]
  ELSE zeroTerminated + SumFunctionOnSet(lenHisto, 2..len - 1)

\* rsum[]: where the codes of length len start
Start(len) ==
  IF len = 1
  THEN Len(symbols) - (lenHisto[1] - zeroTerminated)
  ELSE zeroTerminated + SumFunctionOnSet(lenHisto, 2..len - 1)

NewCode(i) ==
  LET len == Len(symbols[i])
      Alone(k) == Len(symbols[k]) = 2 /\ ~Extended(k)
      Prefix(k) == Len(symbols[k]) = 2 /\ Extended(k)
      SameLen(k) == Len(symbols[k]) = len
  IN CASE i <= zeroTerminated        -> 0
       [] i \in Renumbered /\ Alone(i)  -> Start(2) + Count(i, Alone) - 1
       [] i \in Renumbered /\ Prefix(i) -> Start(3) - Count(i, Prefix)
       [] OTHER                      -> Start(len) + Count(i, SameLen) - 1

\* (u8) code of a training code
IndexOf(code) == code - CodeBase + 1

Renumber(w) == [w EXCEPT !.code = NewCode(IndexOf(w.code))]

\* what symbols[code] holds; below CodeBase it started as the byte itself
RenumberedTo(code) ==
  LET from == {i \in 1..Len(symbols) : NewCode(i) = code}
  IN IF from = {} THEN <<code>> ELSE symbols[CHOOSE i \in from : TRUE]

NoCode == [code |-> CodeMask, len |-> 1]

Finalize ==
  LET newByteCodes == [b \in Byte |->
        IF byteCodes[b].code >= CodeBase THEN Renumber(byteCodes[b]) ELSE NoCode]
  IN
  /\ ~final
  /\ symbols # << >>
  /\ final' = TRUE
  /\ suffixLim' = Start(2) +
       Cardinality({i \in Renumbered : Len(symbols[i]) = 2 /\ ~Extended(i)})
  /\ symbols' = [c \in 1..Len(symbols) |-> RenumberedTo(c - 1)]
  /\ byteCodes' = newByteCodes
  /\ shortCodes' = [p \in Byte \X Byte |->
       IF shortCodes[p].code >= CodeBase
       THEN Renumber(shortCodes[p])
       ELSE newByteCodes[p[1]]]
  /\ hashTab' = [k \in Buckets |->
       IF hashTab[k] = Free THEN Free ELSE Renumber(hashTab[k])]
  /\ UNCHANGED <<lenHisto, terminator, zeroTerminated>>

Next ==
  \/ \E s \in Candidates \cup {<<terminator>>} : Add(s)
  \/ Clear
  \/ Finalize

Spec == Init /\ [][Next]_tvars

-----------------------------------------------------------------------------
(* findLongestSymbol()                                                     *)

Find(text) ==
  LET e == hashTab[BucketOf(text)]
      pair == <<text[1], text[2]>>
  IN IF e # Free /\ StartsWith(text, e.str) THEN e.code
     ELSE IF Len(text) >= 2 /\ shortCodes[pair].code >= CodeBase
          THEN shortCodes[pair].code
          ELSE byteCodes[text[1]].code

\* what a training code stands for
Meaning(code) == IF code < CodeBase THEN <<code>> ELSE symbols[IndexOf(code)]

-----------------------------------------------------------------------------
(* Properties                                                              *)

\* Every field keeps its type (the u16 codes, the histogram, the flags).
TypeOK ==
  /\ symbols \in Seq(Strings)
  /\ Len(symbols) <= MaxSymbols
  /\ byteCodes \in [Byte -> CodeWord]
  /\ shortCodes \in [Byte \X Byte -> CodeWord]
  /\ hashTab \in [Buckets -> Entry]
  /\ lenHisto \in [1..MaxLen -> 0..MaxSymbols]
  /\ suffixLim \in 0..CodeMask + 1
  /\ terminator \in Byte
  /\ zeroTerminated \in {0, 1}
  /\ final \in BOOLEAN

\* findLongestSymbol() is what its name says, although the hash table is
\* lossy and is probed once: no listed string that begins the text is
\* longer than the one it finds, and an escape is only the last resort.
LongestMatch ==
  ~final => \A text \in Strings :
    LET found == Find(text) IN
    /\ StartsWith(text, Meaning(found))
    /\ \A s \in Listed : StartsWith(text, s) =>
         found >= CodeBase /\ Len(s) <= Len(Meaning(found))

\* clear() touches only the slots of the listed symbols ("minimal effort"),
\* and yet the table it leaves answers every probe like a new one.
ClearForgets ==
  [][Clear => /\ \A b \in Byte : byteCodes'[b] = Escape(b)
              /\ \A p \in Byte \X Byte : shortCodes'[p] = Escape(p[1])
              /\ \A k \in Buckets : hashTab'[k] = Free]_tvars

\* The final layout that the comment above finalize() describes and that
\* compressBulk's short cuts rely on: lengths 2, 3, ... and then 1 in code
\* order; a two-byte code is below suffixLim exactly when no longer symbol
\* starts with it (the comment of the field, libfsst.hpp:185, has that the
\* other way round); every lookup leads to the code of its own string.
FinalLayout ==
  final =>
    /\ \A c, d \in zeroTerminated + 1 .. Len(symbols) :
         c < d => \/ Len(symbols[d]) = 1
                  \/ Len(symbols[c]) # 1 /\ Len(symbols[c]) <= Len(symbols[d])
    /\ \A c \in zeroTerminated + 1 .. Len(symbols) :
         c - 1 < suffixLim <=>
           /\ Len(symbols[c]) = 2
           /\ ~\E s \in Listed : Len(s) > 2 /\ StartsWith(s, symbols[c])
    /\ \A c \in 1..Len(symbols) : LET s == symbols[c] IN
         c - 1 = CASE Len(s) = 1 -> byteCodes[s[1]].code
                   [] Len(s) = 2 -> shortCodes[<<s[1], s[2]>>].code
                   [] OTHER      -> hashTab[BucketOf(s)].code

\* Renumbering loses no symbol, and the terminator keeps code 0 where the
\* compressed strings must be zero-terminated as well.
FinalizeKeepsSymbols ==
  [][Finalize => /\ {symbols'[c] : c \in 1..Len(symbols')} = Listed
                 /\ zeroTerminated = 1 => symbols'[1] = <<0>>]_tvars
-----------------------------------------------------------------------------
(* The inductive invariant behind LongestMatch and ClearForgets: while the *)
(* table is trained the indexes and symbols[] say the same.                *)

TrainingTypes ==
  /\ symbols \in Seq(Strings)
  /\ byteCodes \in [Byte -> CodeWord]
  /\ shortCodes \in [Byte \X Byte -> CodeWord]
  /\ hashTab \in [Buckets -> Entry]
  /\ terminator \in Byte
  /\ Len(symbols) <= MaxSymbols

\* every listed string is in the slot its length and its bytes give it
EveryStringIndexed ==
  \A i \in 1..Len(symbols) : LET s == symbols[i] IN
    /\ Len(s) = 1 => byteCodes[s[1]].code = CodeBase + i - 1
    /\ Len(s) = 2 => shortCodes[<<s[1], s[2]>>].code = CodeBase + i - 1
    /\ Len(s) > 2 => hashTab[BucketOf(s)] = [str |-> s, code |-> CodeBase + i - 1]

\* every slot in use belongs to a listed string
ByteSlots ==
  \A b \in Byte : byteCodes[b] = Escape(b) \/
    \E i \in 1..Len(symbols) :
      symbols[i] = <<b>> /\ byteCodes[b].code = CodeBase + i - 1

PairSlots ==
  \A b, c \in Byte : shortCodes[<<b, c>>] = Escape(b) \/
    \E i \in 1..Len(symbols) :
      symbols[i] = <<b, c>> /\ shortCodes[<<b, c>>].code = CodeBase + i - 1

HashSlots ==
  \A k \in Buckets : hashTab[k] = Free \/
    \E i \in 1..Len(symbols) :
      /\ hashTab[k] = [str |-> symbols[i], code |-> CodeBase + i - 1]
      /\ Len(symbols[i]) > 2
      /\ BucketOf(symbols[i]) = k

IndexInv ==
  ~final => /\ TrainingTypes
            /\ EveryStringIndexed
            /\ ByteSlots /\ PairSlots /\ HashSlots

=============================================================================
