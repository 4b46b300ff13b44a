---------------------------- MODULE TrainerProofs ----------------------------
(***************************************************************************)
(* Proofs about what fsst_create() is made of.  Trainer, for every sample, *)
(* number of rounds and table: training only ever proposes strings that    *)
(* the table can hold, so that the indexes stay sound and no symbol        *)
(* contains the terminator; what the codes of the best counts stand for is *)
(* in the best table; the terminator is the first symbol of every table,   *)
(* so that training fills the table as SymbolTable assumes; and every      *)
(* symbol occurs in the sample.  Sampling, for every input: the sample     *)
(* stays inside its buffers.  Dictionary, for every table: what was        *)
(* exported tells the decoder every code.  OptTrainer, for every sample    *)
(* and set of options: the heap of makeTableEx() gives the best of all     *)
(* candidates, and the terminator first.                                   *)
(***************************************************************************)
EXTENDS OptTrainer, Dictionary, Sampling, SymbolTableProofs

\* the codes that a table gives a meaning
KeysOf(table) == Byte \cup (CodeBase .. CodeBase - 1 + Len(table))

\* a string that may become a symbol
Allowed(s) ==
  /\ s \in Strings
  /\ Len(s) > 1 => \A i \in 1..Len(s) : s[i] # terminator

AllowedTable(table) ==
  /\ table \in Seq(Strings)
  /\ \A i \in 1..Len(table) : Allowed(table[i])

\* Codes are counted with the table that they are ranked with.
CountsKnown ==
  /\ at = "rank" => DOMAIN count1 = KeysOf(symbols)
                    /\ DOMAIN count2 = KeysOf(symbols) \X KeysOf(symbols)
  /\ DOMAIN best.count1 \subseteq KeysOf(best.symbols)

TrainInv ==
  /\ IndexInv
  /\ final <=> at = "trained"
  /\ at # "trained" => terminator \in Byte /\ AllowedTable(symbols)
  /\ terminator \in Byte => AllowedTable(best.symbols)
  /\ CountsKnown
  /\ at = "add" => \A s \in DOMAIN cands : Allowed(s)

\* The sentinel of the encoders rests on this: no symbol of several bytes
\* contains the terminator, over all rounds of concatenation.
TerminatorAlone ==
  ~final => \A s \in Listed : Len(s) > 1 => \A i \in 1..Len(s) : s[i] # terminator

\* A single byte may always become a symbol.
LEMMA ByteAllowed ==
  ASSUME NEW b \in Byte
  PROVE  Allowed(<<b>>)
BY ByteIsString DEF Allowed

\* What a code of a table stands for may become a symbol.
LEMMA StringOfAllowed ==
  ASSUME NEW table, AllowedTable(table), NEW c \in KeysOf(table)
  PROVE  Allowed(StringOf(table, c))
<1>1. Len(table) \in Nat /\ \A i \in 1..Len(table) : Allowed(table[i])
  BY DEF AllowedTable
<1>2. CASE c \in Byte
  <2>1. c < CodeBase
    BY <1>2, ByteAssumption DEF CodeBase
  <2> QED
    BY <1>2, <2>1, ByteAllowed DEF StringOf
<1>3. CASE c \in CodeBase .. CodeBase - 1 + Len(table)
  <2>1. ~(c < CodeBase) /\ IndexOf(c) \in 1..Len(table)
    BY <1>1, <1>3 DEF IndexOf, CodeBase
  <2> QED
    BY <1>1, <2>1 DEF StringOf
<1> QED
  BY <1>2, <1>3 DEF KeysOf

\* A concatenation of strings without the terminator has none, and a cut
\* keeps it short enough.
LEMMA ConcatAllowed ==
  ASSUME NEW s, NEW t, Allowed(s), Allowed(t), Extends(s, t)
  PROVE  Allowed(Concat(s, t))
<1>1. /\ s \in Seq(Byte) /\ Len(s) \in 1..MaxLen
      /\ t \in Seq(Byte) /\ Len(t) \in 1..MaxLen
  BY StringFacts DEF Allowed
<1>2. MaxLen \in Nat /\ Len(s) \in Nat \ {0} /\ Len(t) \in Nat \ {0}
  BY <1>1, SizeAssumption
<1>3. \A i \in 1..Len(s) : s[i] # terminator
  BY <1>2 DEF Extends, Allowed
<1>4. \A i \in 1..Len(t) : t[i] # terminator
  BY <1>2 DEF Extends, Allowed
<1> DEFINE st == s \o t
           n == IF Len(st) > MaxLen THEN MaxLen ELSE Len(st)
           cut == SubSeq(st, 1, n)
<1>5. /\ st \in Seq(Byte) /\ Len(st) = Len(s) + Len(t)
      /\ \A i \in 1..Len(st) : st[i] = IF i <= Len(s) THEN s[i] ELSE t[i - Len(s)]
  BY <1>1, ConcatProperties
<1>6. \A i \in 1..Len(st) : st[i] \in Byte /\ st[i] # terminator
  <2> SUFFICES ASSUME NEW i \in 1..Len(st) PROVE st[i] \in Byte /\ st[i] # terminator
    OBVIOUS
  <2>1. CASE i <= Len(s)
    <3>1. i \in 1..Len(s) /\ st[i] = s[i]
      BY <2>1, <1>2, <1>5
    <3> QED
      BY <3>1, <1>1, <1>3, ElementOfSeq
  <2>2. CASE ~(i <= Len(s))
    <3>1. i - Len(s) \in 1..Len(t) /\ st[i] = t[i - Len(s)]
      BY <2>2, <1>2, <1>5
    <3> QED
      BY <3>1, <1>1, <1>4, ElementOfSeq
  <2> QED
    BY <2>1, <2>2
<1>7. n \in 1..MaxLen /\ n <= Len(st) /\ Len(st) \in Nat
  BY <1>2, <1>5, SizeAssumption
<1> HIDE DEF st, n
<1>8. cut \in Seq(Byte) /\ Len(cut) = n /\ \A i \in 1..n : cut[i] = st[i]
  <2>1. n \in Nat /\ 1..n \subseteq 1..Len(st)
    BY <1>2, <1>7
  <2>2. cut \in Seq(Byte) /\ Len(cut) = n
    BY <2>1, <1>5, <1>7, SubSeqProperties
  <2>3. \A i \in 1..n : cut[i] = st[1 + i - 1]
    BY <2>1, <1>5, <1>7, SubSeqProperties
  <2> QED
    BY <2>1, <2>2, <2>3
<1>9. cut \in Strings
  <2> HIDE DEF cut
  <2>1. cut \in [1..n -> Byte]
    BY <1>8, LenProperties
  <2> QED
    BY <2>1, <1>7 DEF Strings
<1>10. \A i \in 1..Len(cut) : cut[i] # terminator
  BY <1>2, <1>6, <1>7, <1>8
<1>11. Concat(s, t) = cut
  BY DEF Concat, st, n
<1> QED
  BY <1>9, <1>10, <1>11 DEF Allowed

\* No code is above those of the table.
LEMMA KeysBelow ==
  ASSUME NEW table, Len(table) \in Nat, NEW c \in KeysOf(table)
  PROVE  c < CodeBase + Len(table)
<1>1. PICK n \in Nat : n = Len(table)
  OBVIOUS
<1>2. c \in Byte \/ c \in CodeBase .. CodeBase - 1 + n
  BY <1>1 DEF KeysOf
<1>3. c \in 0..255 \/ c \in 256 .. 256 - 1 + n
  BY <1>2, ByteAssumption DEF CodeBase
<1>4. c < 256 + n
  <2>1. ASSUME c \in 0..255 PROVE c < 256 + n
    BY <2>1
  <2>2. ASSUME c \in 256 .. 256 - 1 + n PROVE c < 256 + n
    BY <2>2
  <2> QED
    BY <1>3, <2>1, <2>2
<1> QED
  BY <1>1, <1>4 DEF CodeBase

\* All that makeTable() queues may become a symbol.
LEMMA CandidatesAllowed ==
  ASSUME NEW table, AllowedTable(table),
         NEW counts, DOMAIN counts \subseteq KeysOf(table),
         NEW pairs, DOMAIN pairs \subseteq KeysOf(table) \X KeysOf(table)
  PROVE  \A s \in DOMAIN Candidate(table, counts, pairs) : Allowed(s)
<1> SUFFICES ASSUME NEW s \in DOMAIN Candidate(table, counts, pairs) PROVE Allowed(s)
  OBVIOUS
<1>1. \/ \E c \in DOMAIN counts : s = StringOf(table, c)
      \/ \E p \in DOMAIN pairs : /\ Extends(StringOf(table, p[1]), StringOf(table, p[2]))
                                 /\ s = Concat(StringOf(table, p[1]), StringOf(table, p[2]))
  BY DEF Candidate
<1>2. CASE \E c \in DOMAIN counts : s = StringOf(table, c)
  BY <1>2, StringOfAllowed
<1>3. CASE \E p \in DOMAIN pairs :
             /\ Extends(StringOf(table, p[1]), StringOf(table, p[2]))
             /\ s = Concat(StringOf(table, p[1]), StringOf(table, p[2]))
  <2>1. PICK p \in DOMAIN pairs :
          /\ Extends(StringOf(table, p[1]), StringOf(table, p[2]))
          /\ s = Concat(StringOf(table, p[1]), StringOf(table, p[2]))
    BY <1>3
  <2>2. Allowed(StringOf(table, p[1])) /\ Allowed(StringOf(table, p[2]))
    BY StringOfAllowed
  <2> QED
    BY <2>1, <2>2, ConcatAllowed
<1> QED
  BY <1>1, <1>2, <1>3

LEMMA EmptyAllowed == AllowedTable(<< >>)
BY EmptySeq DEF AllowedTable

\* A table in training is typed by IndexInv.
LEMMA TrainInitial == TrainInit => TrainInv
<1> SUFFICES ASSUME TrainInit PROVE TrainInv
  OBVIOUS
<1>1. IndexInv /\ ~final /\ symbols = << >> /\ at = "count"
  BY InitIndex DEF TrainInit, Init
<1>2. terminator \in Byte
  BY <1>1 DEF IndexInv, TrainingTypes
<1>3. best.symbols = << >> /\ DOMAIN best.count1 = {}
  BY DEF TrainInit, Uncounted
<1> QED
  BY <1>1, <1>2, <1>3, EmptyAllowed DEF TrainInv, CountsKnown

LEMMA SameTable ==
  ASSUME UNCHANGED tvars
  PROVE  /\ IndexInv => IndexInv'
         /\ \A s : Allowed(s)' <=> Allowed(s)
         /\ AllowedTable(symbols)' <=> AllowedTable(symbols)
<1>1. symbols' = symbols /\ terminator' = terminator
  BY DEF tvars, indexes, modes
<1>2. IndexInv => IndexInv'
  BY IndexStep
<1> QED
  BY <1>1, <1>2 DEF Allowed, AllowedTable

LEMMA TrainStep == TrainInv /\ [TrainNext]_allVars => TrainInv'
<1> SUFFICES ASSUME TrainInv, [TrainNext]_allVars PROVE TrainInv'
  OBVIOUS
<1>0. /\ IndexInv /\ CountsKnown
      /\ final <=> at = "trained"
      /\ at # "trained" => terminator \in Byte /\ AllowedTable(symbols)
      /\ terminator \in Byte => AllowedTable(best.symbols)
      /\ at = "add" => \A s \in DOMAIN cands : Allowed(s)
  BY DEF TrainInv
<1>1. CASE CompressCount
  <2>1. /\ UNCHANGED tvars /\ UNCHANGED <<symbols, terminator, final>>
        /\ at = "count" /\ at' \in {"restore", "rank"}
    BY <1>1 DEF CompressCount, tvars, indexes, modes
  <2>2. PICK parses : CountParses(parses)
    BY <1>1 DEF CompressCount
  <2>3. /\ DOMAIN count1' = Codes /\ DOMAIN count2' = Codes \X Codes
        /\ \/ best' = best
           \/ best'.symbols = symbols /\ DOMAIN best'.count1 = Codes
    BY <2>2 DEF CountParses, Kept
  <2>4. Codes = KeysOf(symbols) /\ KeysOf(symbols') = KeysOf(symbols)
    BY <2>1 DEF Codes, KeysOf
  <2>5. AllowedTable(best'.symbols)
    BY <1>0, <2>1, <2>3
  <2>6. AllowedTable(best.symbols)' /\ AllowedTable(symbols)'
    BY <1>0, <2>1, <2>5 DEF AllowedTable, Allowed
  <2>7. CountsKnown'
    <3>1. DOMAIN best'.count1 \subseteq KeysOf(best'.symbols)
      BY <1>0, <2>3, <2>4 DEF CountsKnown
    <3> QED
      BY <3>1, <2>1, <2>3, <2>4 DEF CountsKnown, KeysOf
  <2> QED
    BY <1>0, <2>1, <2>6, <2>7, SameTable DEF TrainInv
<1>2. CASE Rank
  <2>1. /\ Clear /\ cands' = Candidate(symbols, count1, count2)
        /\ best' = best /\ at = "rank" /\ at' = "add"
    BY <1>2 DEF Rank
  <2>2. IndexInv' /\ ~final' /\ symbols' = << >> /\ terminator' = terminator
    BY <1>0, <2>1, ClearStep DEF Clear, modes
  <2>3. \A s \in DOMAIN cands' : Allowed(s)
    BY <1>0, <2>1, CandidatesAllowed DEF CountsKnown
  <2>4. AllowedTable(symbols') /\ AllowedTable(best.symbols) /\ terminator \in Byte
    BY <1>0, <2>1, <2>2, EmptyAllowed
  <2>5. AllowedTable(symbols)' /\ AllowedTable(best.symbols)' /\ \A s \in DOMAIN cands' : Allowed(s)'
    BY <2>1, <2>2, <2>3, <2>4 DEF AllowedTable, Allowed
  <2> QED
    BY <1>0, <2>1, <2>2, <2>4, <2>5 DEF TrainInv, CountsKnown, KeysOf
<1>3. CASE Restore
  <2>1. /\ Clear /\ cands' = Candidate(best.symbols, best.count1, Uncounted)
        /\ best' = best /\ at = "restore" /\ at' = "add"
    BY <1>3 DEF Restore
  <2>2. IndexInv' /\ ~final' /\ symbols' = << >> /\ terminator' = terminator
    BY <1>0, <2>1, ClearStep DEF Clear, modes
  <2>3. AllowedTable(symbols') /\ AllowedTable(best.symbols) /\ terminator \in Byte
    BY <1>0, <2>1, <2>2, EmptyAllowed
  <2>4. DOMAIN Uncounted = {}
    BY DEF Uncounted
  <2>5. \A s \in DOMAIN cands' : Allowed(s)
    BY <1>0, <2>1, <2>3, <2>4, CandidatesAllowed DEF CountsKnown
  <2>6. AllowedTable(symbols)' /\ AllowedTable(best.symbols)' /\ \A s \in DOMAIN cands' : Allowed(s)'
    BY <2>1, <2>2, <2>3, <2>5 DEF AllowedTable, Allowed
  <2> QED
    BY <1>0, <2>1, <2>2, <2>3, <2>6 DEF TrainInv, CountsKnown, KeysOf
<1>4. CASE AddTop
  <2>1. PICK s \in DOMAIN cands :
          /\ IF Taken(s) THEN UNCHANGED tvars ELSE Insert(s)
          /\ cands' = Restrict(cands, DOMAIN cands \ {s})
    BY <1>4 DEF AddTop
  <2>2. at = "add" /\ at' = "add" /\ best' = best /\ Len(symbols) < MaxSymbols
    BY <1>4 DEF AddTop
  <2>3. ~final /\ Allowed(s) /\ AllowedTable(symbols) /\ terminator \in Byte
    BY <1>0, <2>1, <2>2
  <2>4. terminator' = terminator /\ final' = final
    BY <2>1 DEF Insert, tvars, modes
  <2>5. IndexInv'
    <3>1. CASE Taken(s)
      BY <1>0, <2>1, <3>1, SameTable
    <3>2. CASE ~Taken(s)
      BY <1>0, <2>1, <2>2, <2>3, <3>2, InsertStep DEF Allowed
    <3> QED
      BY <3>1, <3>2
  <2>6. AllowedTable(symbols')
    <3>1. CASE Taken(s)
      BY <2>1, <2>3, <3>1 DEF tvars, indexes
    <3>2. CASE ~Taken(s)
      <4>1. symbols' = Append(symbols, s) /\ symbols \in Seq(Strings) /\ s \in Strings
        BY <2>1, <2>3, <3>2 DEF Insert, AllowedTable, Allowed
      <4>2. /\ symbols' \in Seq(Strings) /\ Len(symbols') = Len(symbols) + 1
            /\ \A i \in 1..Len(symbols) : symbols'[i] = symbols[i]
            /\ symbols'[Len(symbols) + 1] = s
        BY <4>1, AppendProperties
      <4>3. Len(symbols) \in Nat
        BY <4>1
      <4> QED
        BY <2>3, <4>2, <4>3 DEF AllowedTable
    <3> QED
      BY <3>1, <3>2
  <2>7. DOMAIN cands' \subseteq DOMAIN cands
    BY <2>1 DEF Restrict
  <2>8. AllowedTable(symbols)' /\ AllowedTable(best.symbols)' /\ \A t \in DOMAIN cands' : Allowed(t)'
    BY <1>0, <2>2, <2>3, <2>4, <2>6, <2>7 DEF AllowedTable, Allowed
  <2> QED
    BY <1>0, <2>2, <2>3, <2>4, <2>5, <2>8 DEF TrainInv, CountsKnown, KeysOf
<1>5. CASE NextRound
  <2>1. /\ UNCHANGED tvars /\ UNCHANGED <<symbols, terminator, final, best>>
        /\ at = "add" /\ at' \in {"finalize", "count"}
    BY <1>5 DEF NextRound, tvars, indexes, modes
  <2>2. AllowedTable(best.symbols)' /\ AllowedTable(symbols)'
    BY <1>0, <2>1 DEF AllowedTable, Allowed
  <2> QED
    BY <1>0, <2>1, <2>2, SameTable DEF TrainInv, CountsKnown, KeysOf
<1>6. CASE End
  <2>1. Finalize /\ best' = best /\ at = "finalize" /\ at' = "trained"
    BY <1>6 DEF End
  <2>2. IndexInv' /\ terminator' = terminator /\ final'
    BY <1>0, <2>1, IndexStep DEF Next, Finalize
  <2>3. AllowedTable(best.symbols)'
    BY <1>0, <2>1, <2>2 DEF AllowedTable, Allowed
  <2> QED
    BY <1>0, <2>1, <2>2, <2>3 DEF TrainInv, CountsKnown, KeysOf
<1>7. CASE UNCHANGED allVars
  <2>1. UNCHANGED tvars /\ UNCHANGED <<symbols, terminator, final, at, count1, count2, cands, best>>
    BY <1>7 DEF allVars, trainVars, tvars, indexes, modes
  <2>2. /\ AllowedTable(best.symbols)' <=> AllowedTable(best.symbols)
        /\ AllowedTable(symbols)' <=> AllowedTable(symbols)
        /\ \A s : Allowed(s)' <=> Allowed(s)
    BY <2>1 DEF AllowedTable, Allowed
  <2> QED
    BY <1>0, <2>1, <2>2, SameTable DEF TrainInv, CountsKnown, KeysOf
<1> QED
  BY <1>1, <1>2, <1>3, <1>4, <1>5, <1>6, <1>7 DEF TrainNext

LEMMA Training == TrainSpec => []TrainInv
BY TrainInitial, TrainStep, PTL DEF TrainSpec

\* For every sample, and in every round: a probe of the table in training
\* finds its longest symbol, whatever the rounds before left behind.
THEOREM TrainingFindsLongest == TrainSpec => []LongestMatch
<1>1. TrainInv => LongestMatch
  BY ProbeFindsLongest DEF TrainInv, LongestMatch
<1> QED
  BY <1>1, Training, PTL

\* For every sample: no symbol of several bytes contains the terminator,
\* over all rounds in which symbols are concatenated.
THEOREM TerminatorStaysAlone == TrainSpec => []TerminatorAlone
<1>1. TrainInv => TerminatorAlone
  BY DEF TrainInv, TerminatorAlone, AllowedTable, Allowed, Listed
<1> QED
  BY <1>1, Training, PTL

\* For every sample: the best table has a symbol for each code that its
\* counts refer to.
THEOREM CountsStayWithTable == TrainSpec => []CountsFitTable
<1>1. TrainInv => CountsFitTable
  <2> SUFFICES ASSUME TrainInv, at = "restore", NEW c \in DOMAIN best.count1
               PROVE  c < CodeBase + Len(best.symbols)
    BY DEF CountsFitTable
  <2>1. c \in KeysOf(best.symbols)
    BY DEF TrainInv, CountsKnown
  <2>2. Len(best.symbols) \in Nat
    BY DEF TrainInv, AllowedTable
  <2> QED
    BY <2>1, <2>2, KeysBelow
<1> QED
  BY <1>1, Training, PTL

-----------------------------------------------------------------------------
(* What the rounds count, and what they queue                              *)

\* the step of a greedy parse at position p of a line, and where it leads
StepAt(line, p) == Step(Find(Upto(line, p)), line[p])
NextAt(line, p) == p + Len(Meaning(Find(Upto(line, p))))

\* the bytes of the line from p on begin with s
StandsAt(s, line, p) ==
  /\ p + Len(s) - 1 <= Len(line)
  /\ \A i \in 1..Len(s) : s[i] = line[p + i - 1]

\* What stands in a line of the sample occurs in it.
LEMMA StandingOccurs ==
  ASSUME sample \in Seq(Seq(Byte)), NEW l \in 1..Len(sample), NEW p \in 1..Len(sample[l]),
         NEW s \in Seq(Byte), Len(s) > 0, StandsAt(s, sample[l], p)
  PROVE  Occurs(s)
<1>1. PICK line \in Seq(Byte) : line = sample[l]
  OBVIOUS
<1> DEFINE m == p - 1
           n == Len(s)
           w == SubSeq(line, m + 1, m + n)
<1>2. /\ m \in Nat /\ n \in Nat /\ p \in Nat /\ p = m + 1 /\ p + n - 1 = m + n
      /\ m + n <= Len(line)
  BY <1>1 DEF StandsAt
<1>3. \A i \in 1..n : s[i] = line[m + i]
  <2>1. \A i \in 1..n : p + i - 1 = m + i
    BY <1>2
  <2> HIDE DEF m
  <2> QED BY <1>1, <2>1 DEF StandsAt
<1> HIDE DEF m
<1>4. w \in Seq(Byte) /\ Len(w) = n /\ \A i \in 1..n : w[i] = line[m + i]
  <2> HIDE DEF n
  <2> QED BY <1>2, Slice
<1>5. w = s
  <2> HIDE DEF w
  <2> QED BY <1>3, <1>4, SeqEqual
<1>6. SubSeq(line, p, p + n - 1) = s
  BY <1>2, <1>5
<1>7. p + n - 1 <= Len(line)
  BY <1>2
<1> QED BY <1>1, <1>6, <1>7 DEF Occurs

\* What a parse looks at is a string, from its place in the line.
LEMMA UptoStands ==
  ASSUME NEW line \in Seq(Byte), NEW p \in 1..Len(line)
  PROVE  Upto(line, p) \in Strings /\ StandsAt(Upto(line, p), line, p)
<1> DEFINE e == IF p + MaxLen - 1 <= Len(line) THEN p + MaxLen - 1 ELSE Len(line)
           m == p - 1
           n == e - m
           w == SubSeq(line, m + 1, m + n)
<1>1. /\ m \in Nat /\ n \in Nat /\ n >= 1 /\ n <= MaxLen /\ p = m + 1 /\ e = m + n
      /\ m + n <= Len(line) /\ p \in Nat
  BY SizeAssumption
<1>2. Upto(line, p) = w
  BY <1>1 DEF Upto
<1> HIDE DEF e, m, n
<1>3. w \in Seq(Byte) /\ Len(w) = n /\ \A i \in 1..n : w[i] = line[m + i]
  BY <1>1, Slice
<1> HIDE DEF w
<1>4. w \in Strings
  <2>1. w \in [1..n -> Byte]
    BY <1>3, LenProperties
  <2>2. n \in 1..MaxLen
    BY <1>1, SizeAssumption
  <2> QED BY <2>1, <2>2 DEF Strings
<1>5. StandsAt(w, line, p)
  <2>1. p + Len(w) - 1 <= Len(line)
    BY <1>1, <1>3
  <2>2. \A i \in 1..Len(w) : w[i] = line[p + i - 1]
    <3>1. \A i \in 1..n : p + i - 1 = m + i
      BY <1>1
    <3> QED BY <1>3, <3>1
  <2> QED BY <2>1, <2>2 DEF StandsAt
<1> QED BY <1>2, <1>4, <1>5

\* A probe gives a code of the table, and the code a string.
LEMMA ProbeGivesCode ==
  ASSUME IndexInv, ~final, NEW text \in Strings
  PROVE  Find(text) \in Codes /\ Meaning(Find(text)) \in Strings
<1>0. /\ TrainingTypes /\ ByteSlots /\ PairSlots /\ HashSlots
      /\ symbols \in Seq(Strings) /\ Len(symbols) \in Nat
  BY DEF IndexInv, TrainingTypes
<1>1. /\ text \in Seq(Byte) /\ Len(text) \in Nat /\ Len(text) >= 1 /\ BucketOf(text) \in Buckets
      /\ text[1] \in Byte /\ (Len(text) >= 2 => text[2] \in Byte)
  <2>1. text \in Seq(Byte) /\ Len(text) \in 1..MaxLen /\ \A i \in 1..Len(text) : text[i] \in Byte
    BY StringFacts
  <2> QED BY <2>1, KeyFacts, SizeAssumption
<1>2. \A i \in 1..Len(symbols) : CodeBase + i - 1 \in Codes
  BY <1>0 DEF Codes, CodeBase
<1>3. Find(text) \in Codes
  <2>1. CASE hashTab[BucketOf(text)] # Free /\ StartsWith(text, hashTab[BucketOf(text)].str)
    <3>1. PICK i \in 1..Len(symbols) : hashTab[BucketOf(text)] = [str |-> symbols[i], code |-> CodeBase + i - 1]
      BY <1>0, <1>1, <2>1 DEF HashSlots
    <3>2. Find(text) = CodeBase + i - 1
      BY <2>1, <3>1 DEF Find
    <3> QED BY <1>2, <3>2
  <2>2. CASE ~(hashTab[BucketOf(text)] # Free /\ StartsWith(text, hashTab[BucketOf(text)].str))
    <3>1. CASE Len(text) >= 2 /\ shortCodes[<<text[1], text[2]>>].code >= CodeBase
      <4>1. Find(text) = shortCodes[<<text[1], text[2]>>].code
        BY <2>2, <3>1 DEF Find
      <4>2. shortCodes[<<text[1], text[2]>>] # Escape(text[1])
        <5>1. PICK b \in Byte : b = text[1]
          BY <1>1
        <5>2. Escape(b).code < CodeBase
          <6>1. b \in 0..255 /\ Escape(b).code = b
            BY ByteAssumption DEF Escape
          <6> QED BY <6>1 DEF CodeBase
        <5>3. Escape(b).code \in Int /\ CodeBase \in Int
          <6>1. b \in 0..255 /\ Escape(b).code = b
            BY ByteAssumption DEF Escape
          <6> QED BY <6>1 DEF CodeBase
        <5>4. ~(Escape(b).code >= CodeBase)
          BY <5>2, <5>3
        <5> QED BY <3>1, <5>1, <5>4
      <4>3. PICK i \in 1..Len(symbols) : shortCodes[<<text[1], text[2]>>].code = CodeBase + i - 1
        BY <1>0, <1>1, <3>1, <4>2 DEF PairSlots
      <4> QED BY <1>2, <4>1, <4>3
    <3>2. CASE ~(Len(text) >= 2 /\ shortCodes[<<text[1], text[2]>>].code >= CodeBase)
      <4>1. Find(text) = byteCodes[text[1]].code
        BY <2>2, <3>2 DEF Find
      <4>2. \/ byteCodes[text[1]] = Escape(text[1])
            \/ \E i \in 1..Len(symbols) : byteCodes[text[1]].code = CodeBase + i - 1
        BY <1>0, <1>1 DEF ByteSlots
      <4>3. Escape(text[1]).code = text[1] /\ text[1] \in Codes
        BY <1>1 DEF Escape, Codes
      <4> QED BY <1>2, <4>1, <4>2, <4>3
    <3> QED BY <3>1, <3>2
  <2> QED BY <2>1, <2>2
<1>4. ASSUME NEW c \in Codes PROVE Meaning(c) \in Strings
  <2>1. CASE c \in Byte
    <3>1. c < CodeBase
      BY <2>1, ByteAssumption DEF CodeBase
    <3> QED BY <2>1, <3>1, ByteIsString DEF Meaning
  <2>2. CASE c \in CodeBase .. CodeBase - 1 + Len(symbols)
    <3>1. ~(c < CodeBase) /\ IndexOf(c) \in 1..Len(symbols)
      BY <1>0, <2>2 DEF IndexOf, CodeBase
    <3> QED BY <1>0, <3>1 DEF Meaning
  <2> QED BY <2>1, <2>2 DEF Codes
<1> QED BY <1>3, <1>4

\* A step takes bytes of the line that are the string of its code, and the
\* codes it is counted for stand there.
LEMMA StepStands ==
  ASSUME IndexInv, ~final, NEW line \in Seq(Byte), NEW p \in 1..Len(line)
  PROVE  LET step == StepAt(line, p) IN
         /\ step.code \in Codes /\ Meaning(step.code) \in Strings
         /\ StandsAt(Meaning(step.code), line, p)
         /\ NextAt(line, p) = p + Len(Meaning(step.code))
         /\ NextAt(line, p) \in p + 1..Len(line) + 1
         /\ step.counted = {step.code} \cup IF Len(Meaning(step.code)) > 1 THEN {line[p]} ELSE {}
         /\ line[p] \in Byte
         /\ \A k \in step.counted : Meaning(k) \in Strings /\ StandsAt(Meaning(k), line, p)
<1> DEFINE text == Upto(line, p)
           c == Find(text)
           s == Meaning(c)
           b == line[p]
<1>1. text \in Strings /\ StandsAt(text, line, p)
  BY UptoStands
<1>2. c \in Codes /\ s \in Strings /\ StartsWith(text, s)
  BY <1>1, ProbeGivesCode, ProbeFindsLongest
<1>3. /\ StepAt(line, p) = [code |-> c, counted |-> {c} \cup IF Len(s) > 1 THEN {b} ELSE {}]
      /\ NextAt(line, p) = p + Len(s)
  BY DEF StepAt, NextAt, Step
<1>4. StepAt(line, p).code = c /\ StepAt(line, p).counted = {c} \cup IF Len(s) > 1 THEN {b} ELSE {}
  BY <1>3
<1> HIDE DEF text, c, s
<1>5. Len(s) \in Nat /\ Len(s) >= 1 /\ Len(text) \in Nat /\ p \in Nat /\ Len(line) \in Nat
  BY <1>1, <1>2, StringFacts
<1>6. StandsAt(s, line, p)
  <2>1. p + Len(s) - 1 <= Len(line)
    BY <1>1, <1>2, <1>5 DEF StandsAt, StartsWith
  <2>2. \A i \in 1..Len(s) : i \in 1..Len(text)
    BY <1>2, <1>5 DEF StartsWith
  <2>3. \A i \in 1..Len(s) : s[i] = line[p + i - 1]
    BY <1>1, <1>2, <2>2 DEF StandsAt, StartsWith
  <2> QED BY <2>1, <2>3 DEF StandsAt
<1>7. p + Len(s) \in p + 1..Len(line) + 1
  BY <1>5, <1>6 DEF StandsAt
<1>8. b \in Byte /\ Meaning(b) = <<b>> /\ <<b>> \in Strings /\ StandsAt(<<b>>, line, p)
  <2>1. b \in Byte
    OBVIOUS
  <2>2. b < CodeBase
    <3> HIDE DEF b
    <3>1. b \in 0..255
      BY <2>1, ByteAssumption
    <3> QED BY <3>1 DEF CodeBase
  <2>3. <<b>> \in Strings /\ Len(<<b>>) = 1 /\ <<b>>[1] = b
    BY <2>1, ByteIsString
  <2>4. StandsAt(<<b>>, line, p)
    <3>1. p + 1 - 1 <= Len(line) /\ p + 1 - 1 = p
      BY <1>5
    <3>2. \A i \in 1..1 : i = 1
      OBVIOUS
    <3> QED BY <2>3, <3>1, <3>2 DEF StandsAt
  <2> QED BY <2>1, <2>2, <2>3, <2>4 DEF Meaning
<1> HIDE DEF b
<1>9. \A k \in {c} \cup (IF Len(s) > 1 THEN {b} ELSE {}) : Meaning(k) \in Strings /\ StandsAt(Meaning(k), line, p)
  BY <1>2, <1>6, <1>8 DEF s
<1> QED BY <1>2, <1>3, <1>4, <1>6, <1>7, <1>8, <1>9 DEF s, b

\* Two strings that stand one behind the other are there together, and so
\* is the part of them that a symbol can hold.
LEMMA ConcatStands ==
  ASSUME NEW line \in Seq(Byte), NEW p \in 1..Len(line), NEW s \in Strings, NEW t \in Strings,
         StandsAt(s, line, p), StandsAt(t, line, p + Len(s))
  PROVE  Concat(s, t) \in Seq(Byte) /\ Len(Concat(s, t)) > 0 /\ StandsAt(Concat(s, t), line, p)
<1> DEFINE m == Len(s)
           k == Len(t)
           st == s \o t
           n == IF Len(st) > MaxLen THEN MaxLen ELSE Len(st)
           w == SubSeq(st, 1, n)
<1>1. /\ s \in Seq(Byte) /\ t \in Seq(Byte) /\ m \in Nat /\ k \in Nat /\ m >= 1 /\ k >= 1
      /\ p \in Nat /\ Len(line) \in Nat
  <2>1. s \in Seq(Byte) /\ t \in Seq(Byte) /\ m \in 1..MaxLen /\ k \in 1..MaxLen
    BY StringFacts
  <2> HIDE DEF m, k
  <2> QED BY <2>1, SizeAssumption
<1>2. /\ st \in Seq(Byte) /\ Len(st) = m + k
      /\ \A i \in 1..m + k : st[i] = IF i <= m THEN s[i] ELSE t[i - m]
  BY <1>1, ConcatProperties
<1>3. p + m + k - 1 <= Len(line) /\ (\A i \in 1..m : s[i] = line[p + i - 1])
      /\ \A i \in 1..k : t[i] = line[p + m + i - 1]
  BY <1>1 DEF StandsAt
<1> HIDE DEF m, k, st
<1>4. n \in Nat /\ n >= 1 /\ n <= m + k /\ n <= Len(st)
  BY <1>1, <1>2, SizeAssumption
<1> HIDE DEF n
<1>5. w \in Seq(Byte) /\ Len(w) = n /\ \A i \in 1..n : w[i] = st[i]
  <2>1. 0 + n <= Len(st) /\ 0 + 1 = 1 /\ 0 + n = n /\ 0 \in Nat
    BY <1>4
  <2> DEFINE z == 0
  <2>2. z + n <= Len(st) /\ z + 1 = 1 /\ z + n = n /\ z \in Nat /\ \A i \in 1..n : z + i = i
    BY <2>1
  <2> HIDE DEF z
  <2>3. /\ SubSeq(st, z + 1, z + n) \in Seq(Byte) /\ Len(SubSeq(st, z + 1, z + n)) = n
        /\ \A i \in 1..n : SubSeq(st, z + 1, z + n)[i] = st[z + i]
    BY <1>2, <1>4, <2>2, Slice
  <2> QED BY <2>2, <2>3
<1> HIDE DEF w
<1>6. ASSUME NEW i \in 1..n PROVE w[i] = line[p + i - 1]
  <2>0. i \in 1..m + k /\ i \in Nat
    BY <1>1, <1>4
  <2>1. w[i] = IF i <= m THEN s[i] ELSE t[i - m]
    BY <1>2, <1>5, <2>0
  <2>2. CASE i <= m
    <3>1. i \in 1..m
      BY <1>1, <2>0, <2>2
    <3> QED BY <1>3, <2>1, <2>2, <3>1
  <2>3. CASE ~(i <= m)
    <3>1. i - m \in 1..k /\ p + m + (i - m) - 1 = p + i - 1
      BY <1>1, <2>0, <2>3
    <3>2. t[i - m] = line[p + m + (i - m) - 1]
      BY <1>3, <3>1
    <3> QED BY <2>1, <2>3, <3>1, <3>2
  <2> QED BY <2>2, <2>3
<1>7. p + Len(w) - 1 <= Len(line)
  BY <1>1, <1>3, <1>4, <1>5
<1>8. Concat(s, t) = w
  BY DEF Concat, st, n, w
<1> QED BY <1>4, <1>5, <1>6, <1>7, <1>8 DEF StandsAt

\* the steps of all parses of a line, and the pairs of them
StepsOf(line) == {StepAt(line, p) : p \in 1..Len(line)}
PairsOf(line) == {<<StepAt(line, p), StepAt(line, NextAt(line, p))>> :
                    p \in {r \in 1..Len(line) : NextAt(line, r) <= Len(line)}}

\* A parse is made of such steps, each where the one before leads.
LEMMA ParseSteps ==
  ASSUME IndexInv, ~final, NEW line \in Seq(Byte)
  PROVE  /\ Steps(line) \in Seq(StepsOf(line))
         /\ Len(Steps(line)) <= Len(line)
         /\ \A i \in 1..Len(Steps(line)) - 1 : <<Steps(line)[i], Steps(line)[i + 1]>> \in PairsOf(line)
<1> DEFINE n == Len(line)
           g == [p \in 1..n |-> StepAt(line, p)]
           q == [p \in 1..n |-> NextAt(line, p)]
           Q(f) == f = [p \in 1..n + 1 |-> IF p > n THEN << >> ELSE <<StepAt(line, p)>> \o f[NextAt(line, p)]]
           F == CHOOSE f : Q(f)
           T == StepsOf(line)
<1>1. n \in Nat /\ \A p \in 1..n : q[p] \in p + 1..n + 1 /\ g[p] \in T
  BY StepStands DEF StepsOf
<1>2. \A f : Q(f) <=> Follows(f, g, q, n)
  <2> TAKE f
  <2> DEFINE A == [p \in 1..n + 1 |-> IF p > n THEN << >> ELSE <<StepAt(line, p)>> \o f[NextAt(line, p)]]
             B == [p \in 1..n + 1 |-> IF p > n THEN << >> ELSE <<g[p]>> \o f[q[p]]]
  <2>1. ASSUME NEW p \in 1..n + 1, ~(p > n) PROVE g[p] = StepAt(line, p) /\ q[p] = NextAt(line, p)
    <3>1. p \in 1..n
      BY <1>1, <2>1
    <3> QED BY <3>1
  <2>2. A = B
    <3> HIDE DEF n, g, q
    <3> QED BY <2>1
  <2> QED BY <2>2 DEF Follows
<1>3. Steps(line) = F[1]
  BY DEF Steps, StepAt, NextAt
<1> HIDE DEF g, q, n, T
<1>4. \E f : Follows(f, g, q, n)
  BY <1>1, ChainExists
<1>5. Follows(F, g, q, n)
  <2> HIDE DEF Q
  <2>1. Q(F)
    BY <1>2, <1>4
  <2> QED BY <1>2, <2>1
<1> HIDE DEF F
<1>6. F[1] \in Seq(T) /\ Chained(F[1], g, q, n, 1)
  BY <1>1, <1>5, ChainSteps
<1> DEFINE c == F[1]
<1>7. c \in Seq(T) /\ Len(c) <= n /\ Len(c) \in Nat
      /\ \A i \in 1..Len(c) : \E r \in 1..n : c[i] = g[r] /\ (i < Len(c) => q[r] <= n /\ c[i + 1] = g[q[r]])
  <2>1. n + 1 - 1 = n
    BY <1>1
  <2> QED BY <1>6, <2>1 DEF Chained
<1> HIDE DEF c
<1>8. ASSUME NEW i \in 1..Len(c) - 1 PROVE <<c[i], c[i + 1]>> \in PairsOf(line)
  <2>1. i \in 1..Len(c) /\ i < Len(c)
    BY <1>7
  <2>2. PICK r \in 1..n : c[i] = g[r] /\ q[r] <= n /\ c[i + 1] = g[q[r]]
    BY <1>7, <2>1
  <2>3. q[r] \in r + 1..n + 1
    BY <1>1
  <2>4. q[r] \in 1..n
    BY <1>1, <2>2, <2>3
  <2>5. q[r] = NextAt(line, r)
    BY DEF q
  <2>6. c[i] = StepAt(line, r) /\ c[i + 1] = StepAt(line, NextAt(line, r))
    BY <2>2, <2>4, <2>5 DEF g
  <2> QED BY <2>2, <2>5, <2>6 DEF PairsOf, n
<1> QED BY <1>3, <1>7, <1>8 DEF c, n, T

SampleType == sample \in Seq(Seq(Byte))

\* the steps that a parse of the sample may take, and the pairs of them
StepSet == UNION {StepsOf(sample[l]) : l \in 1..Len(sample)}
PairSet == UNION {PairsOf(sample[l]) : l \in 1..Len(sample)}

\* the parses of the lines that are taken, and no code of the others
LineParses(taken) == [l \in 1..Len(sample) |-> IF l \in taken THEN Steps(sample[l]) ELSE << >>]

\* A step is counted for its code, and perhaps for its first byte; both
\* stand in the sample.
LEMMA StepCounted ==
  ASSUME IndexInv, ~final, SampleType, NEW st \in StepSet
  PROVE  /\ st.code \in Codes /\ Meaning(st.code) \in Strings
         /\ \E b \in Byte \cup {-1} : \A k \in Codes : k \in st.counted <=> st.code = k \/ b = k
         /\ \A k \in st.counted : Occurs(Meaning(k))
<1>1. PICK l \in 1..Len(sample) : st \in StepsOf(sample[l])
  BY DEF StepSet
<1>2. PICK line \in Seq(Byte) : line = sample[l]
  BY DEF SampleType
<1>3. PICK p \in 1..Len(line) : st = StepAt(line, p)
  BY <1>1, <1>2 DEF StepsOf
<1> DEFINE first == line[p]
           long == Len(Meaning(st.code)) > 1
<1>4. /\ st.code \in Codes /\ Meaning(st.code) \in Strings
      /\ st.counted = {st.code} \cup IF long THEN {first} ELSE {}
      /\ first \in Byte
      /\ \A k \in st.counted : Meaning(k) \in Strings /\ StandsAt(Meaning(k), line, p)
  BY <1>3, StepStands
<1> HIDE DEF first, long
<1>5. \E b \in Byte \cup {-1} : \A k \in Codes : k \in st.counted <=> st.code = k \/ b = k
  <2>1. CASE long
    BY <1>4, <2>1
  <2>2. CASE ~long
    <3>1. -1 \notin Codes
      <4>1. ASSUME -1 \in Byte PROVE FALSE
        BY <4>1, ByteAssumption
      <4>2. ASSUME -1 \in CodeBase .. CodeBase - 1 + Len(symbols) PROVE FALSE
        <5>1. Len(symbols) \in Int
          BY DEF IndexInv, TrainingTypes
        <5> QED BY <4>2, <5>1 DEF CodeBase
      <4> QED BY <4>1, <4>2 DEF Codes
    <3>2. st.counted = {st.code}
      BY <1>4, <2>2
    <3>3. \A k \in Codes : k \in st.counted <=> st.code = k \/ -1 = k
      BY <3>1, <3>2
    <3> QED BY <3>3
  <2> QED BY <2>1, <2>2
<1>6. ASSUME NEW k \in st.counted PROVE Occurs(Meaning(k))
  <2>1. Meaning(k) \in Strings /\ StandsAt(Meaning(k), line, p)
    BY <1>4
  <2>2. Meaning(k) \in Seq(Byte) /\ Len(Meaning(k)) > 0
    <3>1. PICK s \in Strings : s = Meaning(k)
      BY <2>1
    <3>2. s \in Seq(Byte) /\ Len(s) \in 1..MaxLen
      BY StringFacts
    <3> QED BY <3>1, <3>2
  <2>3. sample \in Seq(Seq(Byte))
    BY DEF SampleType
  <2> QED BY <1>2, <2>1, <2>2, <2>3, StandingOccurs
<1> QED BY <1>4, <1>5, <1>6

\* What two adjacent steps are counted for stands there together.
LEMMA PairCounted ==
  ASSUME IndexInv, ~final, SampleType, NEW pair \in PairSet
  PROVE  /\ pair[1] \in StepSet /\ pair[2] \in StepSet
         /\ \A k \in pair[2].counted : Occurs(Concat(Meaning(pair[1].code), Meaning(k)))
<1>1. PICK l \in 1..Len(sample) : pair \in PairsOf(sample[l])
  BY DEF PairSet
<1>2. PICK line \in Seq(Byte) : line = sample[l]
  BY DEF SampleType
<1>3. PICK p \in 1..Len(line) : NextAt(line, p) <= Len(line)
                                /\ pair = <<StepAt(line, p), StepAt(line, NextAt(line, p))>>
  BY <1>1, <1>2 DEF PairsOf
<1>4. PICK r : r = NextAt(line, p)
  OBVIOUS
<1>5. /\ Meaning(StepAt(line, p).code) \in Strings /\ StandsAt(Meaning(StepAt(line, p).code), line, p)
      /\ r = p + Len(Meaning(StepAt(line, p).code)) /\ r \in p + 1..Len(line) + 1
  BY <1>4, StepStands
<1>6. r \in 1..Len(line)
  <2>1. Len(line) \in Nat /\ p \in Nat /\ r <= Len(line)
    BY <1>3, <1>4
  <2> QED BY <1>5, <2>1
<1>7. \A k \in StepAt(line, r).counted : Meaning(k) \in Strings /\ StandsAt(Meaning(k), line, r)
  BY <1>6, StepStands
<1>8. pair[1] = StepAt(line, p) /\ pair[2] = StepAt(line, r)
  BY <1>3, <1>4
<1>9. pair[1] \in StepSet /\ pair[2] \in StepSet
  <2>1. StepAt(line, p) \in StepsOf(line) /\ StepAt(line, r) \in StepsOf(line)
    BY <1>6 DEF StepsOf
  <2> QED BY <1>2, <1>8, <2>1 DEF StepSet
<1>10. ASSUME NEW k \in pair[2].counted PROVE Occurs(Concat(Meaning(pair[1].code), Meaning(k)))
  <2>1. PICK s \in Strings : s = Meaning(pair[1].code)
    BY <1>5, <1>8
  <2>2. PICK t \in Strings : t = Meaning(k)
    BY <1>7, <1>8, <1>10
  <2>3. StandsAt(s, line, p) /\ StandsAt(t, line, p + Len(s))
    BY <1>5, <1>7, <1>8, <1>10, <2>1, <2>2
  <2>4. Concat(s, t) \in Seq(Byte) /\ Len(Concat(s, t)) > 0 /\ StandsAt(Concat(s, t), line, p)
    BY <2>3, ConcatStands
  <2>5. sample \in Seq(Seq(Byte))
    BY DEF SampleType
  <2>6. Occurs(Concat(s, t))
    BY <1>2, <2>4, <2>5, StandingOccurs
  <2> QED BY <2>1, <2>2, <2>6
<1> QED BY <1>9, <1>10

\* The lines that are taken are parsed into such steps, no more of them than
\* the sample has bytes.
LEMMA SampleParsed ==
  ASSUME IndexInv, ~final, SampleType, NEW taken
  PROVE  /\ FlattenSeq(LineParses(taken)) \in Seq(StepSet)
         /\ Len(FlattenSeq(LineParses(taken))) <= Bytes(sample)
         /\ Pairs(LineParses(taken)) \in Seq(PairSet)
         /\ Len(Pairs(LineParses(taken))) <= Bytes(sample)
<1> DEFINE n == Len(sample)
           parses == LineParses(taken)
           PairsAt(k) == IF parses[k] = << >> THEN << >>
                         ELSE [i \in 1..Len(parses[k]) - 1 |-> <<parses[k][i], parses[k][i + 1]>>]
           pairs == [k \in 1..n |-> PairsAt(k)]
<1>0. n \in Nat /\ sample \in Seq(Seq(Byte)) /\ \A l \in 1..n : sample[l] \in Seq(Byte)
  BY DEF SampleType
<1>1. DOMAIN parses = 1..n /\ Len(parses) = n
  <2>1. parses = [l \in 1..n |-> IF l \in taken THEN Steps(sample[l]) ELSE << >>]
    BY DEF LineParses
  <2> QED BY <1>0, <2>1
<1>2. ASSUME NEW l \in 1..n
      PROVE  /\ parses[l] \in Seq(StepSet) /\ Len(parses[l]) <= Len(sample[l])
             /\ \A i \in 1..Len(parses[l]) - 1 : <<parses[l][i], parses[l][i + 1]>> \in PairSet
  <2>1. PICK line \in Seq(Byte) : line = sample[l]
    BY <1>0
  <2>2. parses[l] = IF l \in taken THEN Steps(line) ELSE << >>
    BY <2>1 DEF LineParses
  <2>3. StepsOf(line) \subseteq StepSet /\ PairsOf(line) \subseteq PairSet
    BY <2>1 DEF StepSet, PairSet
  <2>4. CASE l \in taken
    <3>1. PICK c : c = Steps(line)
      OBVIOUS
    <3>2. /\ c \in Seq(StepsOf(line)) /\ Len(c) <= Len(line)
          /\ \A i \in 1..Len(c) - 1 : <<c[i], c[i + 1]>> \in PairsOf(line)
      BY <3>1, ParseSteps
    <3>3. c \in Seq(StepSet)
      BY <2>3, <3>2
    <3>4. parses[l] = c
      BY <2>2, <2>4, <3>1
    <3> QED BY <2>1, <2>3, <3>2, <3>3, <3>4
  <2>5. CASE l \notin taken
    <3>1. parses[l] = << >>
      BY <2>2, <2>5
    <3>2. Len(<< >>) = 0 /\ << >> \in Seq(StepSet) /\ Len(line) \in Nat
      OBVIOUS
    <3> QED BY <2>1, <3>1, <3>2
  <2> QED BY <2>4, <2>5
<1> HIDE DEF n, parses
<1>3. parses \in Seq(Seq(StepSet))
  <2>1. parses = [l \in 1..n |-> parses[l]]
    BY <1>1 DEF parses, LineParses
  <2>2. \A l \in 1..n : parses[l] \in Seq(StepSet)
    BY <1>2
  <2> DEFINE T == Seq(StepSet)
  <2>3. parses \in [1..n -> T]
    <3> HIDE DEF T
    <3>1. \A l \in 1..n : parses[l] \in T
      BY <2>2 DEF T
    <3> QED BY <2>1, <3>1
  <2> HIDE DEF T
  <2>4. parses \in Seq(T)
    BY <1>0, <2>3
  <2> QED BY <2>4 DEF T
<1>4. Len(FlattenSeq(parses)) <= Len(FlattenSeq(sample))
  <2>1. Len(parses) = Len(sample) /\ \A i \in 1..Len(parses) : Len(parses[i]) <= Len(sample[i])
    BY <1>1, <1>2 DEF n
  <2> QED BY <1>0, <1>3, <2>1, FlattenNoLonger
<1>5. ASSUME NEW l \in 1..n PROVE PairsAt(l) \in Seq(PairSet) /\ Len(PairsAt(l)) <= Len(sample[l])
  <2>1. PICK c \in Seq(StepSet) : c = parses[l]
    BY <1>2
  <2>2. PICK m \in Nat : m = Len(c)
    OBVIOUS
  <2>3. PICK k \in Nat : k = Len(sample[l])
    BY <1>0
  <2>4. m <= k /\ \A i \in 1..m - 1 : <<c[i], c[i + 1]>> \in PairSet
    BY <1>2, <2>1, <2>2, <2>3
  <2>5. CASE c = << >>
    <3>1. PairsAt(l) = << >>
      BY <2>1, <2>5
    <3>2. << >> \in Seq(PairSet) /\ Len(<< >>) = 0
      OBVIOUS
    <3> HIDE DEF PairsAt
    <3>3. PairsAt(l) \in Seq(PairSet) /\ Len(PairsAt(l)) = 0
      BY <3>1, <3>2
    <3> QED BY <2>3, <3>3
  <2>6. CASE c # << >>
    <3>0. m # 0 /\ m - 1 \in Nat
      <4>1. m # 0
        BY <2>2, <2>6, EmptySeq
      <4> QED BY <4>1
    <3>1. PairsAt(l) = [i \in 1..m - 1 |-> <<c[i], c[i + 1]>>]
      BY <2>1, <2>2, <2>6
    <3>2. \A w : w = [i \in 1..m - 1 |-> <<c[i], c[i + 1]>>] => w \in Seq(PairSet) /\ Len(w) = m - 1
      BY <2>4, <3>0
    <3>3. PairsAt(l) \in Seq(PairSet) /\ Len(PairsAt(l)) = m - 1
      <4> HIDE DEF PairsAt
      <4> QED BY <3>1, <3>2
    <3> QED BY <2>3, <2>4, <3>0, <3>3
  <2> QED BY <2>5, <2>6
<1>6. Pairs(parses) = FlattenSeq(pairs)
  BY <1>1 DEF Pairs
<1> HIDE DEF PairsAt
<1>7. pairs \in Seq(Seq(PairSet)) /\ Len(pairs) = n /\ \A l \in 1..n : pairs[l] = PairsAt(l)
  BY <1>0, <1>5
<1> HIDE DEF pairs
<1>8. Len(FlattenSeq(pairs)) <= Len(FlattenSeq(sample))
  <2>1. Len(pairs) = Len(sample) /\ \A i \in 1..Len(pairs) : Len(pairs[i]) <= Len(sample[i])
    BY <1>5, <1>7 DEF n
  <2> QED BY <1>0, <1>7, <2>1, FlattenNoLonger
<1>9. FlattenSeq(parses) \in Seq(StepSet) /\ FlattenSeq(pairs) \in Seq(PairSet)
  BY <1>3, <1>7, FlattenType
<1> QED BY <1>4, <1>6, <1>8, <1>9 DEF Bytes, parses

\* Of n positions that are counted for two things at most.
LEMMA CountedTwice ==
  ASSUME NEW n \in Nat, NEW a, NEW b, NEW Q, IsFiniteSet(Q), NEW f,
         \A x \in Q : f[x] = Cardinality(Marked(a, b, n, x))
  PROVE  /\ SumFunctionOnSet(f, Q) <= 2 * n
         /\ (\A i \in 1..n : b[i] \notin Q) => SumFunctionOnSet(f, Q) <= n
<1> DEFINE A == Within(a, n, Q)
           B == Within(b, n, Q)
<1>1. SumFunctionOnSet(f, Q) <= Cardinality(A) + Cardinality(B)
  BY SumOfMarked
<1>2. A \in SUBSET (1..n) /\ B \in SUBSET (1..n)
  BY DEF Within
<1>3. (\A i \in 1..n : b[i] \notin Q) => B = {}
  BY DEF Within
<1> HIDE DEF A, B
<1>4. /\ Cardinality(A) \in Nat /\ Cardinality(B) \in Nat
      /\ Cardinality(A) <= n /\ Cardinality(B) <= n
  <2>1. IsFiniteSet(1..n) /\ Cardinality(1..n) = n
    BY SizeOfRange
  <2>2. ASSUME NEW T \in SUBSET (1..n) PROVE Cardinality(T) \in Nat /\ Cardinality(T) <= n
    <3>1. IsFiniteSet(T) /\ Cardinality(T) <= Cardinality(1..n)
      BY <2>1, FS_Subset
    <3> QED BY <2>1, <3>1, FS_CardinalityType
  <2> QED BY <1>2, <2>2
<1>5. SumFunctionOnSet(f, Q) \in Int
  <2>1. \A x \in Q : f[x] \in Nat
    <3>1. \A x \in Q : Marked(a, b, n, x) \in SUBSET (1..n)
      BY DEF Marked
    <3> QED BY <3>1, SizeOfRange, FS_Subset, FS_CardinalityType
  <2> QED BY <2>1, SumType
<1>6. B = {} => Cardinality(B) = 0
  BY FS_EmptySet
<1> QED BY <1>1, <1>3, <1>4, <1>5, <1>6

\* The codes of a table are finitely many.
LEMMA KeysFinite ==
  ASSUME NEW table, Len(table) \in Nat
  PROVE  IsFiniteSet(KeysOf(table)) /\ IsFiniteSet(KeysOf(table) \X KeysOf(table))
<1>1. IsFiniteSet(Byte)
  <2>1. IsFiniteSet(0..255)
    <3>1. 0 \in Int /\ 255 \in Int
      OBVIOUS
    <3> QED BY <3>1, FS_Interval
  <2> QED BY <2>1, ByteAssumption, FS_Subset
<1>2. IsFiniteSet(CodeBase .. CodeBase - 1 + Len(table))
  <2>1. CodeBase \in Int /\ CodeBase - 1 + Len(table) \in Int
    BY DEF CodeBase
  <2> QED BY <2>1, FS_Interval
<1>3. IsFiniteSet(KeysOf(table))
  BY <1>1, <1>2, FS_Union DEF KeysOf
<1> QED BY <1>3, FS_Product

\* what is counted of the codes of a table in the sample: nothing that does
\* not occur in it, and not more than its bytes, or twice as many where the
\* first bytes are counted, too
Counted(table, counts) ==
  /\ DOMAIN counts = KeysOf(table)
  /\ \A c \in DOMAIN counts : counts[c] \in Nat /\ (counts[c] > 0 => Occurs(StringOf(table, c)))
  /\ \A Q \in SUBSET DOMAIN counts :
       /\ SumFunctionOnSet(counts, Q) <= 2 * Bytes(sample)
       /\ Q \cap Byte = {} => SumFunctionOnSet(counts, Q) <= Bytes(sample)

PairsCounted(table, pairs) ==
  /\ \A p \in DOMAIN pairs :
       /\ pairs[p] \in Nat
       /\ pairs[p] > 0 => Occurs(Concat(StringOf(table, p[1]), StringOf(table, p[2])))
  /\ \A Q \in SUBSET DOMAIN pairs : SumFunctionOnSet(pairs, Q) <= 2 * Bytes(sample)

\* what a count of none looks like: there is an element that counts
LEMMA SomeCounted ==
  ASSUME NEW n \in Nat, NEW S \in SUBSET (1..n)
  PROVE  Cardinality(S) \in Nat /\ (Cardinality(S) > 0 => \E i \in S : TRUE)
<1>1. IsFiniteSet(S) /\ Cardinality(S) \in Nat
  BY SizeOfRange, FS_Subset, FS_CardinalityType
<1>2. S = {} => Cardinality(S) = 0
  BY FS_EmptySet
<1> QED BY <1>1, <1>2

\* how often each code, and each pair of codes, is counted
CodeTally(steps) == [c \in Codes |-> Cardinality({i \in 1..Len(steps) : c \in steps[i].counted})]

PairTally(two) ==
  [p \in Codes \X Codes |-> Cardinality({i \in 1..Len(two) :
     two[i][1].code = p[1] /\ p[2] \in two[i][2].counted})]

\* The counts of the codes.
LEMMA CodesCounted ==
  ASSUME IndexInv, ~final, SampleType, NEW steps \in Seq(StepSet), Len(steps) <= Bytes(sample),
         Bytes(sample) \in Nat, NEW counts,
         counts = CodeTally(steps)
  PROVE  Counted(symbols, counts)
<1> DEFINE n == Len(steps)
           At(c) == {i \in 1..n : c \in steps[i].counted}
           first == [i \in 1..n |-> CHOOSE b \in Byte \cup {-1} :
                       \A k \in Codes : k \in steps[i].counted <=> steps[i].code = k \/ b = k]
           code == [i \in 1..n |-> steps[i].code]
<1>0. n \in Nat /\ Codes = KeysOf(symbols) /\ \A i \in 1..n : steps[i] \in StepSet
  BY DEF Codes, KeysOf
<1>1. DOMAIN counts = Codes /\ \A c \in Codes : counts[c] = Cardinality(At(c))
  BY DEF CodeTally
<1>2. \A i \in 1..n : /\ first[i] \in Byte \cup {-1} /\ code[i] = steps[i].code
                      /\ \A k \in Codes : k \in steps[i].counted <=> code[i] = k \/ first[i] = k
  <2> TAKE i \in 1..n
  <2> DEFINE P(b) == \A k \in Codes : k \in steps[i].counted <=> steps[i].code = k \/ b = k
             b0 == CHOOSE b \in Byte \cup {-1} : P(b)
  <2>1. \E b \in Byte \cup {-1} : P(b)
    BY <1>0, StepCounted
  <2>2. first[i] = b0 /\ code[i] = steps[i].code
    OBVIOUS
  <2>3. b0 \in Byte \cup {-1} /\ P(b0)
    <3> HIDE DEF P
    <3> QED BY <2>1
  <2> HIDE DEF b0, first, code
  <2> QED BY <2>2, <2>3
<1> HIDE DEF first, code, n
<1>3. ASSUME NEW c \in Codes PROVE At(c) = Marked(code, first, n, c)
  BY <1>2 DEF Marked
<1>4. ASSUME NEW c \in Codes PROVE counts[c] \in Nat /\ (counts[c] > 0 => Occurs(StringOf(symbols, c)))
  <2>1. At(c) \in SUBSET (1..n)
    OBVIOUS
  <2>2. Cardinality(At(c)) \in Nat /\ (Cardinality(At(c)) > 0 => \E i \in At(c) : TRUE)
    <3> HIDE DEF At
    <3> QED BY <1>0, <2>1, SomeCounted
  <2>3. ASSUME NEW i \in At(c) PROVE Occurs(StringOf(symbols, c))
    <3>1. i \in 1..n /\ c \in steps[i].counted
      OBVIOUS
    <3>2. Occurs(Meaning(c))
      BY <1>0, <3>1, StepCounted
    <3>3. Meaning(c) = StringOf(symbols, c)
      BY DEF Meaning, StringOf
    <3> QED BY <3>2, <3>3
  <2> HIDE DEF At
  <2> QED BY <1>1, <2>2, <2>3
<1> HIDE DEF At
<1>5. ASSUME NEW Q \in SUBSET Codes
      PROVE  /\ SumFunctionOnSet(counts, Q) <= 2 * Bytes(sample)
             /\ Q \cap Byte = {} => SumFunctionOnSet(counts, Q) <= Bytes(sample)
  <2>1. IsFiniteSet(Q)
    <3>1. Len(symbols) \in Nat
      BY DEF IndexInv, TrainingTypes
    <3> QED BY <1>0, <3>1, KeysFinite, FS_Subset
  <2>a. PICK a0 : a0 = code
    OBVIOUS
  <2>b. PICK b0 : b0 = first
    OBVIOUS
  <2>2. \A x \in Q : counts[x] = Cardinality(Marked(a0, b0, n, x))
    BY <1>1, <1>3, <2>a, <2>b
  <2>3. /\ SumFunctionOnSet(counts, Q) <= 2 * n
        /\ (\A i \in 1..n : first[i] \notin Q) => SumFunctionOnSet(counts, Q) <= n
    <3>1. n \in Nat
      BY <1>0
    <3>2. /\ SumFunctionOnSet(counts, Q) <= 2 * n
          /\ (\A i \in 1..n : b0[i] \notin Q) => SumFunctionOnSet(counts, Q) <= n
      BY <2>1, <2>2, <3>1, CountedTwice
    <3> QED BY <2>b, <3>2
  <2>4. Q \cap Byte = {} => \A i \in 1..n : first[i] \notin Q
    <3>1. -1 \notin Codes
      <4>1. ASSUME -1 \in Byte PROVE FALSE
        BY <4>1, ByteAssumption
      <4>2. ASSUME -1 \in CodeBase .. CodeBase - 1 + Len(symbols) PROVE FALSE
        <5>1. Len(symbols) \in Int
          BY DEF IndexInv, TrainingTypes
        <5> QED BY <4>2, <5>1 DEF CodeBase
      <4> QED BY <4>1, <4>2 DEF Codes
    <3> QED BY <1>2, <3>1
  <2>5. n <= Bytes(sample)
    BY DEF n
  <2>6. SumFunctionOnSet(counts, Q) \in Int
    <3>1. \A x \in Q : counts[x] \in Int
      BY <1>4
    <3> QED BY <2>1, <3>1, SumType
  <2>7. PICK s \in Int : s = SumFunctionOnSet(counts, Q)
    BY <2>6
  <2>8. PICK m \in Nat : m = Bytes(sample)
    OBVIOUS
  <2>9. s <= 2 * n /\ n <= m => s <= 2 * m
    BY <1>0
  <2>10. s <= n /\ n <= m => s <= m
    BY <1>0
  <2> QED BY <2>3, <2>4, <2>5, <2>7, <2>8, <2>9, <2>10
<1> QED BY <1>0, <1>1, <1>4, <1>5 DEF Counted

\* The counts of the pairs.
LEMMA PairsOfCodesCounted ==
  ASSUME IndexInv, ~final, SampleType, NEW two \in Seq(PairSet), Len(two) <= Bytes(sample),
         Bytes(sample) \in Nat, NEW pairs,
         pairs = PairTally(two)
  PROVE  PairsCounted(symbols, pairs)
<1> DEFINE n == Len(two)
           At(p) == {i \in 1..n : two[i][1].code = p[1] /\ p[2] \in two[i][2].counted}
           first == [i \in 1..n |-> <<two[i][1].code, CHOOSE b \in Byte \cup {-1} :
                       \A k \in Codes : k \in two[i][2].counted <=> two[i][2].code = k \/ b = k>>]
           code == [i \in 1..n |-> <<two[i][1].code, two[i][2].code>>]
<1>0. n \in Nat /\ Codes = KeysOf(symbols) /\ \A i \in 1..n : two[i] \in PairSet
  BY DEF Codes, KeysOf
<1>1. DOMAIN pairs = Codes \X Codes /\ \A p \in Codes \X Codes : pairs[p] = Cardinality(At(p))
  BY DEF PairTally
<1>2. \A i \in 1..n : /\ code[i] = <<two[i][1].code, two[i][2].code>>
                      /\ \E b : /\ first[i] = <<two[i][1].code, b>>
                                /\ \A k \in Codes : k \in two[i][2].counted <=> two[i][2].code = k \/ b = k
  <2> TAKE i \in 1..n
  <2> DEFINE P(b) == \A k \in Codes : k \in two[i][2].counted <=> two[i][2].code = k \/ b = k
             b0 == CHOOSE b \in Byte \cup {-1} : P(b)
  <2>1. \E b \in Byte \cup {-1} : P(b)
    <3>1. two[i][2] \in StepSet
      BY <1>0, PairCounted
    <3> QED BY <3>1, StepCounted
  <2>2. first[i] = <<two[i][1].code, b0>> /\ code[i] = <<two[i][1].code, two[i][2].code>>
    OBVIOUS
  <2>3. P(b0)
    <3> HIDE DEF P
    <3> QED BY <2>1
  <2> HIDE DEF b0, first, code
  <2> QED BY <2>2, <2>3
<1> HIDE DEF first, code, n
<1>3. ASSUME NEW p \in Codes \X Codes PROVE At(p) = Marked(code, first, n, p)
  <2>1. PICK c \in Codes, d \in Codes : p = <<c, d>>
    OBVIOUS
  <2>2. \A i \in 1..n : two[i][1].code = c /\ d \in two[i][2].counted
                        <=> code[i] = <<c, d>> \/ first[i] = <<c, d>>
    BY <1>2
  <2> QED BY <2>1, <2>2 DEF Marked
<1>4. ASSUME NEW p \in Codes \X Codes
      PROVE  pairs[p] \in Nat /\ (pairs[p] > 0 => Occurs(Concat(StringOf(symbols, p[1]), StringOf(symbols, p[2]))))
  <2>1. At(p) \in SUBSET (1..n)
    OBVIOUS
  <2>2. Cardinality(At(p)) \in Nat /\ (Cardinality(At(p)) > 0 => \E i \in At(p) : TRUE)
    <3> HIDE DEF At
    <3> QED BY <1>0, <2>1, SomeCounted
  <2>3. ASSUME NEW i \in At(p) PROVE Occurs(Concat(StringOf(symbols, p[1]), StringOf(symbols, p[2])))
    <3>1. i \in 1..n /\ two[i][1].code = p[1] /\ p[2] \in two[i][2].counted
      OBVIOUS
    <3>2. Occurs(Concat(Meaning(p[1]), Meaning(p[2])))
      BY <1>0, <3>1, PairCounted
    <3>3. \A c : Meaning(c) = StringOf(symbols, c)
      BY DEF Meaning, StringOf
    <3> QED BY <3>2, <3>3
  <2> HIDE DEF At
  <2> QED BY <1>1, <2>2, <2>3
<1> HIDE DEF At
<1>5. ASSUME NEW Q \in SUBSET (Codes \X Codes)
      PROVE  SumFunctionOnSet(pairs, Q) <= 2 * Bytes(sample)
  <2>1. IsFiniteSet(Q)
    <3>1. Len(symbols) \in Nat
      BY DEF IndexInv, TrainingTypes
    <3> QED BY <1>0, <3>1, KeysFinite, FS_Subset
  <2>a. PICK a0 : a0 = code
    OBVIOUS
  <2>b. PICK b0 : b0 = first
    OBVIOUS
  <2>2. \A x \in Q : pairs[x] = Cardinality(Marked(a0, b0, n, x))
    BY <1>1, <1>3, <2>a, <2>b
  <2>3. SumFunctionOnSet(pairs, Q) <= 2 * n
    <3>1. n \in Nat
      BY <1>0
    <3> QED BY <2>1, <2>2, <3>1, CountedTwice
  <2>5. n <= Bytes(sample)
    BY DEF n
  <2>6. SumFunctionOnSet(pairs, Q) \in Int
    <3>1. \A x \in Q : pairs[x] \in Int
      BY <1>4
    <3> QED BY <2>1, <3>1, SumType
  <2>7. PICK s \in Int : s = SumFunctionOnSet(pairs, Q)
    BY <2>6
  <2>8. PICK m \in Nat : m = Bytes(sample)
    OBVIOUS
  <2>9. s <= 2 * n /\ n <= m => s <= 2 * m
    BY <1>0
  <2> QED BY <2>3, <2>5, <2>7, <2>8, <2>9
<1> QED BY <1>0, <1>1, <1>4, <1>5 DEF PairsCounted

\* An escape costs one byte more than it stands for, and nothing costs more.
LEMMA GainBounded ==
  ASSUME IndexInv, ~final, SampleType, NEW steps \in Seq(StepSet)
  PROVE  LET gain == SumFunction([i \in 1..Len(steps) |-> Saved(steps[i])]) IN
         gain \in Int /\ gain >= -Len(steps)
<1> DEFINE n == Len(steps)
           f == [i \in 1..n |-> Saved(steps[i])]
<1>1. n \in Nat /\ \A i \in 1..n : steps[i] \in StepSet
  OBVIOUS
<1>2. ASSUME NEW i \in 1..n PROVE f[i] \in Int /\ f[i] >= -1
  <2>1. PICK st \in StepSet : st = steps[i]
    BY <1>1
  <2>2. Meaning(st.code) \in Strings
    BY StepCounted
  <2>3. PICK m \in Nat : m = Len(Meaning(st.code)) /\ m >= 1
    <3>1. Len(Meaning(st.code)) \in 1..MaxLen
      BY <2>2, StringFacts
    <3> QED BY <3>1
  <2>4. f[i] = m - (IF st.code < CodeBase THEN 2 ELSE 1)
    BY <2>1, <2>3 DEF Saved
  <2> QED BY <2>3, <2>4
<1>3. IsFiniteSet(1..n) /\ Cardinality(1..n) = n /\ DOMAIN f = 1..n
  BY <1>1, SizeOfRange
<1> HIDE DEF f, n
<1>4. SumFunctionOnSet(f, 1..n) \in Int /\ SumFunctionOnSet(f, 1..n) >= -Cardinality(1..n)
  BY <1>2, <1>3, SumType, SumAtLeast
<1>5. SumFunction(f) = SumFunctionOnSet(f, 1..n)
  BY <1>3 DEF SumFunction
<1> QED BY <1>3, <1>4, <1>5 DEF f, n

\* a symbol of any table: the terminator, or what the sample has
Fine(s) == s = <<terminator>> \/ Occurs(s)

\* the terminator is queued, and is the top of the queue
Leads(queue) ==
  /\ <<terminator>> \in DOMAIN queue
  /\ \A s \in DOMAIN queue :
       queue[s] \in Int /\ (s # <<terminator>> => queue[s] < queue[<<terminator>>])

\* The size of a sample is a number.
LEMMA BytesType ==
  ASSUME SampleType
  PROVE  Bytes(sample) \in Nat
<1>1. FlattenSeq(sample) \in Seq(Byte)
  BY FlattenType DEF SampleType
<1>2. Len(FlattenSeq(sample)) \in Nat
  BY <1>1, LenProperties
<1> QED BY <1>2 DEF Bytes

\* The terminator's gain is beyond what a sample can give.
LEMMA SmallSample ==
  ASSUME sample \in Samples
  PROVE  /\ SampleType /\ Bytes(sample) \in Nat /\ Bytes(sample) <= -WorstGain
         /\ 16 * Bytes(sample) < 8 * TerminatorCount /\ 3 * Bytes(sample) < TerminatorCount
         /\ \A n \in Nat : n <= 3 * Bytes(sample) => \A len \in 1..MaxLen : len * n < 8 * TerminatorCount
<1>1. SampleType
  BY SamplesAssumption DEF SampleType
<1>2. /\ Bytes(sample) <= -WorstGain
      /\ 24 * Bytes(sample) < 8 * TerminatorCount
      /\ (3 * MaxLen) * Bytes(sample) < 8 * TerminatorCount
  BY SamplesAssumption
<1>3. PICK m \in Nat : m = Bytes(sample)
  BY <1>1, BytesType
<1>6. 16 * m < 8 * TerminatorCount /\ 3 * m < TerminatorCount
  BY <1>2, <1>3 DEF TerminatorCount
<1>4. PICK t \in Nat : t = 8 * TerminatorCount
  BY DEF TerminatorCount
<1>5. ASSUME NEW n \in Nat, n <= 3 * m, NEW len \in 1..MaxLen PROVE len * n < t
  <2>1. (3 * MaxLen) * m < t
    BY <1>2, <1>3, <1>4
  <2>2. MaxLen \in Nat /\ len \in Nat /\ len <= MaxLen
    BY SizeAssumption
  <2>3. len * n <= MaxLen * n
    BY <2>2
  <2>4. MaxLen * n <= MaxLen * (3 * m)
    BY <1>5, <2>2
  <2>5. MaxLen * (3 * m) = (3 * MaxLen) * m
    BY <2>2
  <2>6. len * n \in Nat /\ MaxLen * n \in Nat /\ MaxLen * (3 * m) \in Nat
    BY <2>2
  <2> QED BY <2>1, <2>3, <2>4, <2>5, <2>6
<1> QED BY <1>1, <1>2, <1>3, <1>4, <1>5, <1>6

\* The code of the terminator stands for it.
LEMMA LeadCode ==
  ASSUME terminator \in Byte, NEW table, table \in Seq(Strings), table # << >> => table[1] = <<terminator>>,
         NEW lead, lead = IF table = << >> THEN terminator ELSE CodeBase
  PROVE  lead \in KeysOf(table) /\ StringOf(table, lead) = <<terminator>>
<1>1. CASE table = << >>
  <2>1. terminator < CodeBase
    BY ByteAssumption DEF CodeBase
  <2> QED BY <1>1, <2>1 DEF KeysOf, StringOf
<1>2. CASE table # << >>
  <2>1. PICK n \in Nat : n = Len(table) /\ n # 0
    BY <1>2, EmptySeq
  <2>2. CodeBase \in CodeBase .. CodeBase - 1 + n
    BY <2>1 DEF CodeBase
  <2>3. ~(CodeBase < CodeBase) /\ IndexOf(CodeBase) = 1
    BY DEF IndexOf, CodeBase
  <2> QED BY <1>2, <2>1, <2>2, <2>3 DEF KeysOf, StringOf
<1> QED BY <1>1, <1>2

\* A concatenation is longer than one byte.
LEMMA ConcatIsLonger ==
  ASSUME NEW s \in Strings, NEW t \in Strings
  PROVE  Len(Concat(s, t)) # 1
<1> DEFINE st == s \o t
           n == IF Len(st) > MaxLen THEN MaxLen ELSE Len(st)
<1>1. s \in Seq(Byte) /\ t \in Seq(Byte) /\ Len(s) \in 1..MaxLen /\ Len(t) \in 1..MaxLen
  BY StringFacts
<1>2. st \in Seq(Byte) /\ Len(st) = Len(s) + Len(t)
  BY <1>1, ConcatProperties
<1>3. n \in Nat /\ n >= 2 /\ n <= Len(st) /\ Len(st) \in Nat
  <2>1. PICK m \in Nat, k \in Nat : m = Len(s) /\ k = Len(t) /\ m >= 1 /\ k >= 1
    BY <1>1, SizeAssumption
  <2>2. Len(st) = m + k
    BY <1>2, <2>1
  <2> HIDE DEF st
  <2> QED BY <2>1, <2>2, SizeAssumption
<1> HIDE DEF n, st
<1>4. Len(SubSeq(st, 1, n)) = n
  <2> DEFINE z == 0
  <2>1. z + n <= Len(st) /\ z + 1 = 1 /\ z + n = n /\ z \in Nat
    BY <1>3
  <2> HIDE DEF z
  <2>2. Len(SubSeq(st, z + 1, z + n)) = n
    BY <1>2, <1>3, <2>1, Slice
  <2> QED BY <2>1, <2>2
<1>5. Concat(s, t) = SubSeq(st, 1, n)
  BY DEF Concat, n, st
<1> QED BY <1>3, <1>4, <1>5

\* Whatever was counted, the terminator is the first to be added, and all
\* that is queued occurs in the sample.
LEMMA TerminatorLeads ==
  ASSUME sample \in Samples, round \in 1..Rounds, terminator \in Byte,
         NEW table, AllowedTable(table), table # << >> => table[1] = <<terminator>>,
         NEW counts, Counted(table, counts),
         NEW pairs, DOMAIN pairs \subseteq KeysOf(table) \X KeysOf(table), PairsCounted(table, pairs)
  PROVE  Leads(Candidate(table, counts, pairs)) /\ \A s \in DOMAIN Candidate(table, counts, pairs) : Fine(s)
<1> DEFINE lead == IF table = << >> THEN terminator ELSE CodeBase
           count(c) == IF c = lead THEN TerminatorCount ELSE counts[c]
           weight(c) == IF Len(StringOf(table, c)) = 1 THEN 8 * count(c) ELSE count(c)
           enough(n) == n > 0 /\ n >= MinCount[round]
           single == {c \in DOMAIN counts : count(c) > 0 /\ enough(weight(c))}
           double == {p \in DOMAIN pairs :
                        /\ count(p[1]) > 0
                        /\ Extends(StringOf(table, p[1]), StringOf(table, p[2]))
                        /\ enough(pairs[p])}
           str1(c) == StringOf(table, c)
           str2(p) == Concat(StringOf(table, p[1]), StringOf(table, p[2]))
           S1(s) == {d \in single : str1(d) = s}
           S2(s) == {q \in double : str2(q) = s}
           f1(s) == [c \in S1(s) |-> weight(c)]
           f2(s) == [p \in S2(s) |-> pairs[p]]
           D == {str1(c) : c \in single} \cup {str2(p) : p \in double}
           G(s) == Len(s) * (SumFunction(f1(s)) + SumFunction(f2(s)))
           queue == Candidate(table, counts, pairs)
<1>1. queue = [s \in D |-> G(s)]
  BY DEF Candidate
<1>2. DOMAIN queue = D /\ \A s \in D : queue[s] = G(s)
  <2> HIDE DEF D, G, queue
  <2> QED BY <1>1
<1>3. \A s \in DOMAIN queue : Allowed(s)
  <2>1. DOMAIN counts \subseteq KeysOf(table)
    BY DEF Counted
  <2> QED BY <2>1, CandidatesAllowed
<1> HIDE DEF queue
<1>4. table \in Seq(Strings) /\ Len(table) \in Nat /\ DOMAIN counts = KeysOf(table)
  BY DEF AllowedTable, Counted
<1>5. lead \in DOMAIN counts /\ str1(lead) = <<terminator>>
  <2>1. PICK c : c = lead
    OBVIOUS
  <2>2. c \in KeysOf(table) /\ StringOf(table, c) = <<terminator>>
    BY <1>4, <2>1, LeadCode
  <2> QED BY <1>4, <2>1, <2>2
<1> HIDE DEF lead
<1>6. /\ Bytes(sample) \in Nat /\ 16 * Bytes(sample) < 8 * TerminatorCount
      /\ \A n \in Nat : n <= 3 * Bytes(sample) => \A len \in 1..MaxLen : len * n < 8 * TerminatorCount
  BY SmallSample
<1>7. \A c \in DOMAIN counts : counts[c] \in Nat /\ (counts[c] > 0 => Occurs(str1(c)))
  BY DEF Counted
<1>8. \A p \in DOMAIN pairs : pairs[p] \in Nat /\ (pairs[p] > 0 => Occurs(str2(p)))
  BY DEF PairsCounted
<1>9. TerminatorCount \in Nat /\ TerminatorCount > 0 /\ 8 * TerminatorCount >= TerminatorCount
  BY DEF TerminatorCount
<1>10. \A s \in D : Fine(s)
  <2>1. ASSUME NEW c \in single PROVE Fine(str1(c))
    <3>1. c \in DOMAIN counts /\ count(c) > 0
      OBVIOUS
    <3>2. CASE c = lead
      BY <1>5, <3>2 DEF Fine
    <3>3. CASE c # lead
      BY <1>7, <3>1, <3>3 DEF Fine
    <3> QED BY <3>2, <3>3
  <2>2. ASSUME NEW p \in double PROVE Fine(str2(p))
    <3>1. p \in DOMAIN pairs /\ pairs[p] > 0
      OBVIOUS
    <3> QED BY <1>8, <3>1 DEF Fine
  <2> HIDE DEF single, double, str1, str2
  <2> QED BY <2>1, <2>2
<1>11. \A c \in DOMAIN counts : count(c) \in Nat /\ weight(c) \in Nat
  BY <1>7, <1>9
<1>12. lead \in single /\ weight(lead) = 8 * TerminatorCount
  <2>1. Len(str1(lead)) = 1
    BY <1>5
  <2>2. count(lead) = TerminatorCount /\ weight(lead) = 8 * TerminatorCount
    BY <2>1
  <2>3. MinCount[round] \in Nat /\ MinCount[round] <= TerminatorCount
    <3>1. MinCount[round] \in Nat
      BY RoundsAssumption DEF Rounds
    <3> QED BY <3>1, RoundsAssumption
  <2>4. enough(8 * TerminatorCount)
    BY <1>9, <2>3
  <2> HIDE DEF enough, count, weight
  <2> QED BY <1>5, <1>9, <2>2, <2>4
<1>13. \A s : S1(s) \subseteq DOMAIN counts /\ S2(s) \subseteq DOMAIN pairs
  OBVIOUS
<1>14. \A s : IsFiniteSet(S1(s)) /\ IsFiniteSet(S2(s))
  <2>1. IsFiniteSet(KeysOf(table)) /\ IsFiniteSet(KeysOf(table) \X KeysOf(table))
    BY <1>4, KeysFinite
  <2>2. \A s : S1(s) \in SUBSET KeysOf(table) /\ S2(s) \in SUBSET (KeysOf(table) \X KeysOf(table))
    <3> HIDE DEF S1, S2
    <3> QED BY <1>4, <1>13
  <2> HIDE DEF S1, S2
  <2> QED BY <2>1, <2>2, FS_Subset
<1>15. \A s : /\ DOMAIN f1(s) = S1(s) /\ DOMAIN f2(s) = S2(s)
              /\ \A c \in S1(s) : f1(s)[c] = weight(c)
              /\ \A p \in S2(s) : f2(s)[p] = pairs[p]
  <2> HIDE DEF S1, S2, weight
  <2> QED OBVIOUS
<1>16. \A s : \A c \in S1(s) : c \in single /\ c \in DOMAIN counts /\ str1(c) = s
  OBVIOUS
<1>17. \A s : \A p \in S2(s) : p \in DOMAIN pairs /\ str2(p) = s
  OBVIOUS
<1> HIDE DEF f1, f2, single, double
<1>18. \A c \in DOMAIN counts : c # lead => weight(c) <= 8 * counts[c]
                                /\ (Len(str1(c)) # 1 => weight(c) = counts[c])
  BY <1>7
<1>19. lead \in S1(<<terminator>>)
  BY <1>5, <1>12
<1> HIDE DEF S1, S2, weight, count
<1> DEFINE a(s) == SumFunction(f1(s))
           b(s) == SumFunction(f2(s))
<1>20. ASSUME NEW s
       PROVE  /\ a(s) = SumFunctionOnSet(f1(s), S1(s)) /\ b(s) = SumFunctionOnSet(f2(s), S2(s))
              /\ a(s) \in Nat /\ b(s) \in Nat
  <2>1. a(s) = SumFunctionOnSet(f1(s), S1(s)) /\ b(s) = SumFunctionOnSet(f2(s), S2(s))
    BY <1>15 DEF SumFunction
  <2>2. \A c \in S1(s) : f1(s)[c] \in Nat
    BY <1>11, <1>15, <1>16
  <2>3. \A p \in S2(s) : f2(s)[p] \in Nat
    BY <1>8, <1>15, <1>17
  <2>4. SumFunctionOnSet(f1(s), S1(s)) \in Nat
    BY <1>14, <2>2, SumType
  <2>5. SumFunctionOnSet(f2(s), S2(s)) \in Nat
    BY <1>14, <2>3, SumType
  <2> QED BY <2>1, <2>4, <2>5
<1>21. a(<<terminator>>) >= 8 * TerminatorCount
  <2> DEFINE s == <<terminator>>
  <2>1. PICK f : f = f1(s)
    OBVIOUS
  <2>2. PICK S : S = S1(s)
    OBVIOUS
  <2>3. PICK y : y = lead
    OBVIOUS
  <2>4. IsFiniteSet(S) /\ y \in S /\ \A x \in S : f[x] \in Nat
    BY <1>11, <1>14, <1>15, <1>16, <1>19, <2>1, <2>2, <2>3
  <2>5. f[y] <= SumFunctionOnSet(f, S)
    BY <2>4, SumHasTerm
  <2>6. f[y] = 8 * TerminatorCount
    BY <1>12, <1>15, <1>19, <2>1, <2>3
  <2>7. a(s) = SumFunctionOnSet(f, S) /\ a(s) \in Nat
    BY <1>20, <2>1, <2>2
  <2> HIDE DEF a, s
  <2> QED BY <1>9, <2>5, <2>6, <2>7 DEF s
<1>22. ASSUME NEW s \in D, s # <<terminator>> PROVE G(s) < 8 * TerminatorCount
  <2>1. s \in Strings /\ Len(s) \in 1..MaxLen /\ Len(s) \in Nat
    <3>1. s \in Strings
      BY <1>2, <1>3 DEF Allowed
    <3>2. Len(s) \in 1..MaxLen
      BY <3>1, StringFacts
    <3> QED BY <3>1, <3>2, SizeAssumption
  <2>2. \A c \in S1(s) : c # lead
    BY <1>5, <1>16, <1>22
  <2>3. PICK f : f = f1(s)
    OBVIOUS
  <2>4. PICK S : S = S1(s)
    OBVIOUS
  <2>5. IsFiniteSet(S) /\ S \in SUBSET DOMAIN counts /\ \A x \in S : f[x] = weight(x) /\ f[x] \in Int /\ counts[x] \in Int
    BY <1>7, <1>11, <1>14, <1>15, <1>16, <2>3, <2>4
  <2>6. a(s) = SumFunctionOnSet(f, S) /\ a(s) \in Nat
    BY <1>20, <2>3, <2>4
  <2>7. G(s) = Len(s) * (a(s) + b(s)) /\ b(s) \in Nat
    BY <1>20
  <2>8. PICK m \in Nat : m = Bytes(sample)
    BY <1>6
  <2>9. SumFunctionOnSet(counts, S) \in Int
    BY <2>5, SumType
  <2> HIDE DEF a, b, G
  <2>10. CASE Len(s) = 1
    <3>1. S2(s) = {}
      <4> SUFFICES ASSUME NEW p \in S2(s) PROVE FALSE
        OBVIOUS
      <4>1. p[1] \in KeysOf(table) /\ p[2] \in KeysOf(table) /\ Concat(StringOf(table, p[1]), StringOf(table, p[2])) = s
        BY <1>17
      <4>2. StringOf(table, p[1]) \in Strings /\ StringOf(table, p[2]) \in Strings
        BY <4>1, StringOfAllowed DEF Allowed
      <4> QED BY <2>10, <4>1, <4>2, ConcatIsLonger
    <3>2. b(s) = 0
      BY <1>20, <3>1, SumEmpty DEF b
    <3>3. \A x \in S : f[x] <= 8 * counts[x]
      BY <1>18, <2>2, <2>4, <2>5
    <3>4. SumFunctionOnSet(f, S) <= 8 * SumFunctionOnSet(counts, S)
      <4> DEFINE k == 8
      <4>1. k \in {1, 8} /\ \A x \in S : f[x] <= k * counts[x]
        BY <3>3
      <4> HIDE DEF k
      <4>2. SumFunctionOnSet(f, S) <= k * SumFunctionOnSet(counts, S)
        BY <2>5, <4>1, SumAtMost
      <4> QED BY <4>2 DEF k
    <3>5. SumFunctionOnSet(counts, S) <= 2 * m
      BY <2>5, <2>8 DEF Counted
    <3>6. a(s) <= 16 * m
      BY <2>6, <2>9, <3>4, <3>5
    <3>7. G(s) = a(s)
      BY <2>6, <2>7, <2>10, <3>2
    <3> QED BY <1>6, <1>9, <2>6, <2>8, <3>6, <3>7
  <2>11. CASE Len(s) # 1
    <3>1. \A x \in S : f[x] <= 1 * counts[x]
      BY <1>16, <1>18, <2>2, <2>4, <2>5, <2>11
    <3>2. SumFunctionOnSet(f, S) <= SumFunctionOnSet(counts, S)
      <4> DEFINE k == 1
      <4>1. k \in {1, 8} /\ \A x \in S : f[x] <= k * counts[x]
        BY <3>1
      <4> HIDE DEF k
      <4>2. SumFunctionOnSet(f, S) <= k * SumFunctionOnSet(counts, S)
        BY <2>5, <4>1, SumAtMost
      <4> QED BY <2>9, <4>2 DEF k
    <3>3. S \cap Byte = {}
      <4> SUFFICES ASSUME NEW x \in S, x \in Byte PROVE FALSE
        OBVIOUS
      <4>1. x < CodeBase
        BY ByteAssumption DEF CodeBase
      <4>2. str1(x) = <<x>>
        BY <4>1 DEF StringOf
      <4>3. str1(x) = s
        BY <1>16, <2>4
      <4> QED BY <2>11, <4>2, <4>3
    <3>4. SumFunctionOnSet(counts, S) <= m
      BY <2>5, <2>8, <3>3 DEF Counted
    <3>5. b(s) <= 2 * m
      <4>1. PICK e : e = f2(s)
        OBVIOUS
      <4>2. PICK T : T = S2(s)
        OBVIOUS
      <4>3. IsFiniteSet(T) /\ T \in SUBSET DOMAIN pairs /\ \A x \in T : e[x] = pairs[x]
        BY <1>14, <1>15, <1>17, <4>1, <4>2
      <4>4. SumFunctionOnSet(e, T) = SumFunctionOnSet(pairs, T)
        BY <4>3, SumSame
      <4>5. b(s) = SumFunctionOnSet(e, T)
        BY <1>20, <4>1, <4>2 DEF b
      <4>6. SumFunctionOnSet(pairs, T) <= 2 * m
        BY <2>8, <4>3 DEF PairsCounted
      <4> QED BY <4>4, <4>5, <4>6
    <3>6. a(s) + b(s) <= 3 * m /\ a(s) + b(s) \in Nat
      BY <2>6, <2>7, <2>9, <3>2, <3>4, <3>5
    <3>7. Len(s) * (a(s) + b(s)) < 8 * TerminatorCount
      BY <1>6, <2>1, <2>8, <3>6
    <3> QED BY <2>7, <3>7
  <2> QED BY <2>10, <2>11
<1>23. \A s \in D : G(s) \in Int
  <2> SUFFICES ASSUME NEW s \in D PROVE G(s) \in Int
    OBVIOUS
  <2>1. Len(s) \in Nat
    <3>1. s \in Strings
      BY <1>2, <1>3 DEF Allowed
    <3>2. Len(s) \in 1..MaxLen
      BY <3>1, StringFacts
    <3> QED BY <3>2, SizeAssumption
  <2>2. G(s) = Len(s) * (a(s) + b(s)) /\ a(s) \in Nat /\ b(s) \in Nat
    BY <1>20
  <2> HIDE DEF a, b, G
  <2> QED BY <2>1, <2>2
<1>24. <<terminator>> \in D
  <2>1. str1(lead) \in {str1(c) : c \in single}
    BY <1>12
  <2> QED BY <1>5, <2>1
<1>25. G(<<terminator>>) >= 8 * TerminatorCount
  <2> DEFINE s == <<terminator>>
  <2>1. Len(s) = 1
    OBVIOUS
  <2>2. G(s) = Len(s) * (a(s) + b(s)) /\ a(s) \in Nat /\ b(s) \in Nat
    BY <1>20
  <2>3. a(s) >= 8 * TerminatorCount
    BY <1>21
  <2> HIDE DEF a, b, G, s
  <2>4. G(s) >= 8 * TerminatorCount
    BY <1>9, <2>1, <2>2, <2>3
  <2> QED BY <2>4 DEF s
<1> HIDE DEF D, G
<1>26. Leads(queue)
  <2>1. \A s \in D : s # <<terminator>> => G(s) < G(<<terminator>>)
    BY <1>9, <1>22, <1>23, <1>24, <1>25
  <2> QED BY <1>2, <1>23, <1>24, <2>1 DEF Leads
<1> QED BY <1>2, <1>10, <1>26 DEF queue

\* the counts of the best table are its own
BestKnown == Counted(best.symbols, best.count1)

\* What the rounds keep true: counts never say more than the sample has, so
\* the terminator leads every queue, and all symbols occur in the sample.
LeadInv ==
  /\ sample \in Samples
  /\ round \in 1..Rounds
  /\ best.gain \in Int
  /\ best.gain = WorstGain \/ BestKnown
  /\ at = "restore" => BestKnown
  /\ at = "rank" => /\ Counted(symbols, count1) /\ PairsCounted(symbols, count2)
                    /\ DOMAIN count2 = KeysOf(symbols) \X KeysOf(symbols)
  /\ best.symbols # << >> => best.symbols[1] = <<terminator>>
  /\ at = "add" /\ symbols = << >> => Leads(cands)
  /\ at = "finalize" => symbols # << >>
  /\ at = "add" => \A s \in DOMAIN cands : Fine(s)
  /\ SymbolsOccur

\* What a round counts.
LEMMA Compressed ==
  ASSUME IndexInv, ~final, sample \in Samples, CompressCount
  PROVE  /\ Counted(symbols, count1')
         /\ at' = "rank" => /\ PairsCounted(symbols, count2')
                            /\ DOMAIN count2' = KeysOf(symbols) \X KeysOf(symbols)
         /\ \E gain \in Int : gain >= WorstGain /\ best' = Kept(gain, count1')
<1>1. SampleType /\ Bytes(sample) \in Nat /\ Bytes(sample) <= -WorstGain
  BY SmallSample
<1>2. PICK taken : CountParses(LineParses(taken))
  BY DEF CompressCount, LineParses
<1>3. PICK steps : steps = FlattenSeq(LineParses(taken))
  OBVIOUS
<1>4. PICK two : two = IF LastRound THEN << >> ELSE Pairs(LineParses(taken))
  OBVIOUS
<1>5. PICK gain : gain = SumFunction([i \in 1..Len(steps) |-> Saved(steps[i])])
  OBVIOUS
<1>6. steps \in Seq(StepSet) /\ Len(steps) <= Bytes(sample)
  BY <1>1, <1>3, SampleParsed
<1>7. /\ count1' = CodeTally(steps) /\ count2' = PairTally(two)
      /\ best' = Kept(gain, CodeTally(steps))
  BY <1>2, <1>3, <1>4, <1>5 DEF CountParses, CodeTally, PairTally
<1>8. Counted(symbols, count1')
  <2>1. PICK counts : counts = CodeTally(steps)
    OBVIOUS
  <2>2. Counted(symbols, counts)
    BY <1>1, <1>6, <2>1, CodesCounted
  <2> QED BY <1>7, <2>1, <2>2
<1>9. ASSUME at' = "rank"
      PROVE  PairsCounted(symbols, count2') /\ DOMAIN count2' = KeysOf(symbols) \X KeysOf(symbols)
  <2>1. ~LastRound
    BY <1>9 DEF CompressCount
  <2>2. two = Pairs(LineParses(taken))
    BY <1>4, <2>1
  <2>3. two \in Seq(PairSet) /\ Len(two) <= Bytes(sample)
    BY <1>1, <2>2, SampleParsed
  <2>4. PICK pairs : pairs = PairTally(two)
    OBVIOUS
  <2>5. PairsCounted(symbols, pairs)
    BY <1>1, <2>3, <2>4, PairsOfCodesCounted
  <2>6. DOMAIN pairs = KeysOf(symbols) \X KeysOf(symbols)
    BY <2>4 DEF PairTally, Codes, KeysOf
  <2> QED BY <1>7, <2>4, <2>5, <2>6
<1>10. gain \in Int /\ gain >= WorstGain
  <2>1. gain \in Int /\ gain >= -Len(steps)
    BY <1>1, <1>5, <1>6, GainBounded
  <2>2. Len(steps) \in Nat /\ WorstGain \in Int
    BY <1>6 DEF WorstGain
  <2> QED BY <1>1, <1>6, <2>1, <2>2
<1> QED BY <1>7, <1>8, <1>9, <1>10

\* Some formulas depend on the sample and the terminator only.
LEMMA SameSample ==
  ASSUME sample' = sample, terminator' = terminator
  PROVE  /\ \A s : Fine(s)' <=> Fine(s)
         /\ \A table, counts : Counted(table, counts)' <=> Counted(table, counts)
         /\ \A table, pairs : PairsCounted(table, pairs)' <=> PairsCounted(table, pairs)
         /\ \A queue : Leads(queue)' <=> Leads(queue)
<1>1. \A s : Occurs(s)' <=> Occurs(s)
  BY DEF Occurs
<1>2. Bytes(sample)' = Bytes(sample)
  BY DEF Bytes
<1> QED BY <1>1, <1>2 DEF Fine, Counted, PairsCounted, Leads

\* The top of a queue that the terminator leads.
LEMMA TopIsTerminator ==
  ASSUME Leads(cands), NEW s \in DOMAIN cands, Top(s)
  PROVE  s = <<terminator>>
<1> SUFFICES ASSUME s # <<terminator>> PROVE FALSE
  OBVIOUS
<1> DEFINE t == <<terminator>>
<1>1. t \in DOMAIN cands /\ cands[s] \in Int /\ cands[t] \in Int /\ cands[s] < cands[t]
  BY DEF Leads
<1>2. cands[s] > cands[t] \/ cands[s] = cands[t]
  <2> HIDE DEF t
  <2> QED BY <1>1 DEF Top
<1> HIDE DEF t
<1> QED BY <1>1, <1>2

\* An empty table takes any byte.
LEMMA EmptyTakesByte ==
  ASSUME IndexInv, ~final, symbols = << >>, NEW b \in Byte
  PROVE  ~Taken(<<b>>)
<1>1. ByteSlots
  BY DEF IndexInv
<1>2. byteCodes[b] = Escape(b)
  <2>1. \A i \in 1..Len(symbols) : FALSE
    OBVIOUS
  <2> QED BY <1>1, <2>1 DEF ByteSlots
<1>3. byteCodes[b].code = b /\ b \in 0..255
  BY <1>2, ByteAssumption DEF Escape
<1>4. ~(byteCodes[b].code >= CodeBase)
  BY <1>3 DEF CodeBase
<1>5. Len(<<b>>) = 1 /\ <<b>>[1] = b
  OBVIOUS
<1> QED BY <1>4, <1>5 DEF Taken

\* Training fills the table as SymbolTable says a table is filled.
LEMMA TableStep == TrainInv /\ LeadInv /\ [TrainNext]_allVars => [Next]_tvars
<1> SUFFICES ASSUME TrainInv, LeadInv, [TrainNext]_allVars PROVE [Next]_tvars
  OBVIOUS
<1>1. CASE CompressCount
  BY <1>1 DEF CompressCount
<1>2. CASE Rank
  BY <1>2 DEF Rank, Next
<1>3. CASE Restore
  BY <1>3 DEF Restore, Next
<1>4. CASE AddTop
  <2>1. PICK s \in DOMAIN cands : Top(s) /\ IF Taken(s) THEN UNCHANGED tvars ELSE Insert(s)
    BY <1>4 DEF AddTop
  <2>2. at = "add" /\ Len(symbols) < MaxSymbols
    BY <1>4 DEF AddTop
  <2>3. ~final /\ Allowed(s)
    BY <2>1, <2>2 DEF TrainInv
  <2>4. CASE Taken(s)
    BY <2>1, <2>4
  <2>5. CASE ~Taken(s)
    <3>1. s \in Candidates
      BY <2>3, ProposalAssumption DEF Allowed
    <3>2. symbols = << >> => s = <<terminator>>
      BY <2>1, <2>2, TopIsTerminator DEF LeadInv
    <3>3. \A i \in 1..Len(s) : s[i] = terminator => Len(s) = 1
      <4>1. PICK n \in 1..MaxLen : n = Len(s)
        BY <2>3, StringFacts DEF Allowed
      <4>2. n > 1 => \A i \in 1..Len(s) : s[i] # terminator
        BY <2>3, <4>1 DEF Allowed
      <4>3. n > 1 \/ n = 1
        OBVIOUS
      <4> QED BY <4>1, <4>2, <4>3
    <3>4. Proposed(s)
      BY <3>1, <3>2, <3>3 DEF Proposed
    <3>5. Add(s)
      BY <2>1, <2>2, <2>3, <2>5, <3>4 DEF Add
    <3> QED BY <3>1, <3>5 DEF Next
  <2> QED BY <2>4, <2>5
<1>5. CASE NextRound
  BY <1>5 DEF NextRound
<1>6. CASE End
  BY <1>6 DEF End, Next
<1>7. CASE UNCHANGED allVars
  BY <1>7 DEF allVars
<1> QED BY <1>1, <1>2, <1>3, <1>4, <1>5, <1>6, <1>7 DEF TrainNext

\* An empty table has no symbols, and no counts are known.
LEMMA LeadInit == TrainInit => LeadInv
<1> SUFFICES ASSUME TrainInit PROVE LeadInv
  OBVIOUS
<1>1. /\ symbols = << >> /\ sample \in Samples /\ at = "count" /\ round = 1
      /\ best.symbols = << >> /\ best.gain = WorstGain
  BY DEF TrainInit, Init
<1>2. 1 \in 1..Rounds /\ WorstGain \in Int
  <2>1. Rounds \in Nat /\ Rounds # 0
    BY RoundsAssumption, EmptySeq DEF Rounds
  <2> QED BY <2>1 DEF WorstGain
<1>3. SymbolsOccur
  <2>1. Listed = {}
    BY <1>1 DEF Listed
  <2> QED BY <2>1 DEF SymbolsOccur
<1> QED BY <1>1, <1>2, <1>3 DEF LeadInv

\* No counts at all.
LEMMA NonePaired == PairsCounted(best.symbols, Uncounted) \/ ~SampleType
<1> SUFFICES ASSUME SampleType PROVE PairsCounted(best.symbols, Uncounted)
  OBVIOUS
<1>1. DOMAIN Uncounted = {}
  BY DEF Uncounted
<1>2. \A Q \in SUBSET {} : SumFunctionOnSet(Uncounted, Q) = 0
  <2>1. \A Q \in SUBSET {} : Q = {}
    OBVIOUS
  <2> QED BY <2>1, SumEmpty
<1>3. 0 <= 2 * Bytes(sample)
  <2>1. Bytes(sample) \in Nat
    BY BytesType
  <2> QED BY <2>1
<1> QED BY <1>1, <1>2, <1>3 DEF PairsCounted

\* What a round counts cannot beat the terminator, which becomes the first
\* symbol before anything else does.
LEMMA LeadStep == TrainInv /\ HistoInv /\ LeadInv /\ [TrainNext]_allVars => LeadInv'
<1> SUFFICES ASSUME TrainInv, HistoInv, LeadInv, [TrainNext]_allVars PROVE LeadInv'
  OBVIOUS
<1>0. /\ sample \in Samples /\ round \in 1..Rounds /\ best.gain \in Int
      /\ best.gain = WorstGain \/ BestKnown
      /\ at = "restore" => BestKnown
      /\ at = "rank" => /\ Counted(symbols, count1) /\ PairsCounted(symbols, count2)
                        /\ DOMAIN count2 = KeysOf(symbols) \X KeysOf(symbols)
      /\ best.symbols # << >> => best.symbols[1] = <<terminator>>
      /\ at = "add" /\ symbols = << >> => Leads(cands)
      /\ at = "finalize" => symbols # << >>
      /\ at = "add" => \A s \in DOMAIN cands : Fine(s)
      /\ SymbolsOccur
  BY DEF LeadInv
<1>a. /\ IndexInv
      /\ at # "trained" => /\ ~final /\ terminator \in Byte /\ AllowedTable(symbols)
                           /\ AllowedTable(best.symbols)
                           /\ symbols # << >> => symbols[1] = <<terminator>>
  BY DEF TrainInv, HistoInv
<1>b. \A s \in Listed : Fine(s)
  BY <1>0 DEF SymbolsOccur, Fine
<1>1. CASE CompressCount
  <2>1. /\ UNCHANGED <<symbols, terminator, sample, round, cands>>
        /\ at = "count" /\ at' \in {"restore", "rank"}
    BY <1>1 DEF CompressCount, tvars, indexes, modes
  <2>2. /\ Counted(symbols, count1')
        /\ at' = "rank" => /\ PairsCounted(symbols, count2')
                           /\ DOMAIN count2' = KeysOf(symbols) \X KeysOf(symbols)
    BY <1>0, <1>1, <1>a, <2>1, Compressed
  <2>3. PICK gain \in Int : gain >= WorstGain /\ best' = Kept(gain, count1')
    BY <1>0, <1>1, <1>a, <2>1, Compressed
  <2>4. /\ best'.gain \in Int
        /\ best'.symbols # << >> => best'.symbols[1] = <<terminator>>
        /\ Counted(best'.symbols, best'.count1)
    <3>1. CASE gain >= best.gain
      <4>1. best' = [symbols |-> symbols, count1 |-> count1', gain |-> gain]
        BY <2>3, <3>1 DEF Kept
      <4>2. best'.symbols = symbols /\ best'.count1 = count1' /\ best'.gain = gain
        BY <4>1
      <4> QED BY <1>a, <2>1, <2>2, <4>2
    <3>2. CASE ~(gain >= best.gain)
      <4>1. best' = best
        BY <2>3, <3>2 DEF Kept
      <4>2. best.gain # WorstGain
        BY <1>0, <2>3, <3>2
      <4>3. BestKnown
        BY <1>0, <4>2
      <4> QED BY <1>0, <4>1, <4>3 DEF BestKnown
    <3> QED BY <3>1, <3>2
  <2>5. PICK table, counts : table = best'.symbols /\ counts = best'.count1
    OBVIOUS
  <2>6. BestKnown'
    <3>1. Counted(table, counts)'
      <4>1. Counted(table, counts)
        BY <2>4, <2>5
      <4> QED BY <2>1, <4>1, SameSample
    <3> QED BY <2>5, <3>1 DEF BestKnown, Counted
  <2>7. at' = "rank" => (/\ Counted(symbols, count1) /\ PairsCounted(symbols, count2)
                         /\ DOMAIN count2 = KeysOf(symbols) \X KeysOf(symbols))'
    <3>1. Bytes(sample)' = Bytes(sample) /\ \A s : Occurs(s)' <=> Occurs(s)
      BY <2>1 DEF Bytes, Occurs
    <3> QED BY <2>1, <2>2, <3>1 DEF Counted, PairsCounted, KeysOf
  <2>8. SymbolsOccur'
    BY <1>0, <2>1 DEF SymbolsOccur, Listed, Occurs
  <2>9. sample' \in Samples /\ round' \in 1..Rounds /\ best'.gain \in Int
        /\ (best'.symbols # << >> => best'.symbols[1] = <<terminator'>>)
    BY <1>0, <2>1, <2>4
  <2>10. at' # "add" /\ at' # "finalize"
    BY <2>1
  <2> QED BY <2>6, <2>7, <2>8, <2>9, <2>10 DEF LeadInv

<1>2. ASSUME at = "rank" \/ at = "restore", Rank \/ Restore PROVE LeadInv'
  <2>1. /\ Clear /\ symbols' = << >> /\ terminator' = terminator
        /\ UNCHANGED <<sample, round, best>>
        /\ at' = "add"
    BY <1>2 DEF Rank, Restore, Clear, modes
  <2>2. PICK table, counts, pairs :
          /\ cands' = Candidate(table, counts, pairs)
          /\ \/ at = "rank" /\ table = symbols /\ counts = count1 /\ pairs = count2
             \/ at = "restore" /\ table = best.symbols /\ counts = best.count1 /\ pairs = Uncounted
    BY <1>2 DEF Rank, Restore
  <2>3. /\ AllowedTable(table) /\ (table # << >> => table[1] = <<terminator>>)
        /\ terminator \in Byte
    BY <1>0, <1>2, <1>a, <2>2
  <2>4. Counted(table, counts)
    BY <1>0, <2>2 DEF BestKnown
  <2>5. DOMAIN pairs \subseteq KeysOf(table) \X KeysOf(table) /\ PairsCounted(table, pairs)
    <3>1. CASE at = "rank"
      BY <1>0, <2>2, <3>1
    <3>2. CASE at = "restore"
      <4>1. table = best.symbols /\ pairs = Uncounted
        BY <2>2, <3>2
      <4>2. SampleType
        BY <1>0, SmallSample
      <4>3. DOMAIN Uncounted = {}
        BY DEF Uncounted
      <4> QED BY <4>1, <4>2, <4>3, NonePaired
    <3> QED BY <1>2, <3>1, <3>2
  <2>6. Leads(cands') /\ \A s \in DOMAIN cands' : Fine(s)
    <3>1. PICK queue : queue = Candidate(table, counts, pairs)
      OBVIOUS
    <3>2. Leads(queue) /\ \A s \in DOMAIN queue : Fine(s)
      BY <1>0, <2>3, <2>4, <2>5, <3>1, TerminatorLeads
    <3> QED BY <2>2, <3>1, <3>2
  <2>7. Leads(cands)' /\ (\A s \in DOMAIN cands : Fine(s))'
    BY <2>1, <2>6 DEF Leads, Fine, Occurs
  <2>8. SymbolsOccur'
    <3>1. Listed' = {}
      BY <2>1 DEF Listed
    <3> QED BY <3>1 DEF SymbolsOccur
  <2>9. BestKnown => BestKnown'
    <3>1. Bytes(sample)' = Bytes(sample) /\ \A s : Occurs(s)' <=> Occurs(s)
      BY <2>1 DEF Bytes, Occurs
    <3> QED BY <2>1, <3>1 DEF BestKnown, Counted
  <2>10. sample' \in Samples /\ round' \in 1..Rounds /\ best'.gain \in Int
        /\ (best'.symbols # << >> => best'.symbols[1] = <<terminator'>>)
        /\ (best'.gain = WorstGain \/ BestKnown')
    BY <1>0, <2>1, <2>9
  <2>11. at' # "rank" /\ at' # "restore" /\ at' # "finalize"
    BY <2>1
  <2> QED BY <2>7, <2>8, <2>10, <2>11 DEF LeadInv
<1>3. CASE Rank
  BY <1>2, <1>3 DEF Rank
<1>4. CASE Restore
  BY <1>2, <1>4 DEF Restore
<1>5. CASE AddTop
  <2>1. PICK s \in DOMAIN cands :
          /\ Top(s)
          /\ IF Taken(s) THEN UNCHANGED tvars ELSE Insert(s)
          /\ cands' = Restrict(cands, DOMAIN cands \ {s})
    BY <1>5 DEF AddTop
  <2>2. at = "add" /\ at' = "add" /\ UNCHANGED <<sample, round, best>>
    BY <1>5 DEF AddTop
  <2>3. terminator' = terminator /\ DOMAIN cands' \subseteq DOMAIN cands
    BY <2>1 DEF Insert, tvars, modes, Restrict
  <2>4. Taken(s) => symbols' = symbols
    BY <2>1 DEF tvars, indexes
  <2>5. ~Taken(s) => Len(symbols') = Len(symbols) + 1 /\ Len(symbols) \in Nat
                     /\ Listed' = Listed \cup {s}
    <3> SUFFICES ASSUME ~Taken(s)
                 PROVE  Len(symbols') = Len(symbols) + 1 /\ Len(symbols) \in Nat /\ Listed' = Listed \cup {s}
      OBVIOUS
    <3>1. symbols' = Append(symbols, s)
      BY <2>1 DEF Insert
    <3>2. symbols \in Seq(Strings) /\ s \in Strings
      BY <1>a, <2>2 DEF AllowedTable, TrainInv, Allowed
    <3>3. PICK old \in Seq(Strings) : old = symbols
      BY <3>2
    <3>4. PICK new : new = symbols'
      OBVIOUS
    <3>5. /\ Len(new) = Len(old) + 1 /\ Len(old) \in Nat
          /\ \A i \in 1..Len(old) : new[i] = old[i]
          /\ new[Len(old) + 1] = s
      BY <3>1, <3>2, <3>3, <3>4, AppendProperties
    <3>6. {new[i] : i \in 1..Len(new)} = {old[i] : i \in 1..Len(old)} \cup {s}
      BY <3>5
    <3> QED BY <3>3, <3>4, <3>5, <3>6 DEF Listed
  <2>6. symbols' # << >>
    <3>1. CASE Taken(s)
      <4>1. ASSUME symbols = << >> PROVE FALSE
        <5>1. s = <<terminator>>
          BY <1>0, <2>1, <2>2, <4>1, TopIsTerminator
        <5> QED BY <1>a, <2>2, <3>1, <4>1, <5>1, EmptyTakesByte
      <4> QED BY <2>4, <3>1, <4>1
    <3>2. CASE ~Taken(s)
      <4>1. Len(<< >>) = 0
        OBVIOUS
      <4> QED BY <2>5, <3>2, <4>1
    <3> QED BY <3>1, <3>2
  <2>7. \A t : Fine(t)' <=> Fine(t)
    BY <2>2, <2>3, SameSample
  <2>8. SymbolsOccur'
    <3>1. \A t \in Listed' : Fine(t)
      <4>1. CASE Taken(s)
        BY <1>b, <2>4, <4>1 DEF Listed
      <4>2. CASE ~Taken(s)
        BY <1>0, <1>b, <2>1, <2>2, <2>5, <4>2
      <4> QED BY <4>1, <4>2
    <3>2. \A t \in Listed' : Fine(t)'
      BY <2>7, <3>1
    <3> QED BY <3>2 DEF SymbolsOccur, Fine
  <2>9. (\A t \in DOMAIN cands : Fine(t))'
    BY <1>0, <2>2, <2>3, <2>7
  <2>10. BestKnown => BestKnown'
    <3>1. Bytes(sample)' = Bytes(sample) /\ \A t : Occurs(t)' <=> Occurs(t)
      BY <2>2 DEF Bytes, Occurs
    <3> QED BY <2>2, <2>3, <3>1 DEF BestKnown, Counted
  <2>11. sample' \in Samples /\ round' \in 1..Rounds /\ best'.gain \in Int
        /\ (best'.symbols # << >> => best'.symbols[1] = <<terminator'>>)
        /\ (best'.gain = WorstGain \/ BestKnown')
    BY <1>0, <2>2, <2>3, <2>10
  <2>12. at' # "rank" /\ at' # "restore" /\ at' # "finalize"
    BY <2>2
  <2> QED BY <2>6, <2>8, <2>9, <2>11, <2>12 DEF LeadInv
<1>6. CASE NextRound
  <2>1. /\ UNCHANGED <<symbols, terminator, sample, best>>
        /\ at = "add" /\ at' = IF LastRound THEN "finalize" ELSE "count"
        /\ round' = IF LastRound THEN round ELSE round + 1
        /\ Len(symbols) = MaxSymbols \/ DOMAIN cands = {}
    BY <1>6 DEF NextRound, tvars, indexes, modes
  <2>2. symbols # << >>
    <3>1. ASSUME symbols = << >> PROVE FALSE
      <4>1. DOMAIN cands # {}
        BY <1>0, <2>1, <3>1 DEF Leads
      <4>2. Len(symbols) = 0 /\ MaxSymbols # 0
        BY <3>1, SizeAssumption
      <4> QED BY <2>1, <4>1, <4>2
    <3> QED BY <3>1
  <2>3. round' \in 1..Rounds
    <3>1. Rounds \in Nat
      BY RoundsAssumption DEF Rounds
    <3> QED BY <1>0, <2>1, <3>1 DEF LastRound
  <2>4. SymbolsOccur'
    BY <1>0, <2>1 DEF SymbolsOccur, Listed, Occurs
  <2>5. BestKnown => BestKnown'
    <3>1. Bytes(sample)' = Bytes(sample) /\ \A t : Occurs(t)' <=> Occurs(t)
      BY <2>1 DEF Bytes, Occurs
    <3> QED BY <2>1, <3>1 DEF BestKnown, Counted
  <2>6. sample' \in Samples /\ best'.gain \in Int /\ symbols' # << >>
        /\ (best'.symbols # << >> => best'.symbols[1] = <<terminator'>>)
        /\ (best'.gain = WorstGain \/ BestKnown')
    BY <1>0, <2>1, <2>2, <2>5
  <2>7. at' # "rank" /\ at' # "restore" /\ at' # "add"
    BY <2>1
  <2> QED BY <2>3, <2>4, <2>6, <2>7 DEF LeadInv
<1>7. CASE End
  <2>1. /\ Finalize /\ terminator' = terminator /\ UNCHANGED <<sample, round, best>>
        /\ at = "finalize" /\ at' = "trained"
    BY <1>7 DEF End, Finalize
  <2>2. Listed' = Listed
    BY <1>a, <2>1, IndexedOnce, FinalSymbols
  <2>3. SymbolsOccur'
    BY <1>0, <2>1, <2>2 DEF SymbolsOccur, Occurs
  <2>5. BestKnown => BestKnown'
    <3>1. Bytes(sample)' = Bytes(sample) /\ \A t : Occurs(t)' <=> Occurs(t)
      BY <2>1 DEF Bytes, Occurs
    <3> QED BY <2>1, <3>1 DEF BestKnown, Counted
  <2>6. sample' \in Samples /\ round' \in 1..Rounds /\ best'.gain \in Int
        /\ (best'.symbols # << >> => best'.symbols[1] = <<terminator'>>)
        /\ (best'.gain = WorstGain \/ BestKnown')
    BY <1>0, <2>1, <2>5
  <2>7. at' # "rank" /\ at' # "restore" /\ at' # "add" /\ at' # "finalize"
    BY <2>1
  <2> QED BY <2>3, <2>6, <2>7 DEF LeadInv
<1>8. CASE UNCHANGED allVars
  <2>1. UNCHANGED <<symbols, terminator, at, sample, round, count1, count2, cands, best>>
    BY <1>8 DEF allVars, trainVars, tvars, indexes, modes
  <2>2. Bytes(sample)' = Bytes(sample) /\ \A t : Occurs(t)' <=> Occurs(t)
    BY <2>1 DEF Bytes, Occurs
  <2>3. /\ (BestKnown => BestKnown') /\ (SymbolsOccur => SymbolsOccur')
        /\ (Leads(cands) => Leads(cands)')
        /\ ((\A s \in DOMAIN cands : Fine(s)) => (\A s \in DOMAIN cands : Fine(s))')
        /\ (Counted(symbols, count1) => Counted(symbols, count1)')
        /\ (PairsCounted(symbols, count2) => PairsCounted(symbols, count2)')
        /\ (DOMAIN count2 = KeysOf(symbols) \X KeysOf(symbols) => (DOMAIN count2 = KeysOf(symbols) \X KeysOf(symbols))')
    BY <2>1, <2>2 DEF BestKnown, Counted, PairsCounted, SymbolsOccur, Listed, Leads, Fine, KeysOf
  <2> QED BY <1>0, <2>1, <2>3 DEF LeadInv
<1> QED BY <1>1, <1>3, <1>4, <1>5, <1>6, <1>7, <1>8 DEF TrainNext

\* The three invariants hold each other up: the indexes are sound because
\* the candidates are, and the terminator leads because the table is sound.
LEMMA TrainingLeads == TrainSpec => [](TrainInv /\ HistoInv /\ LeadInv)
<1>1. TrainInit => TrainInv /\ HistoInv /\ LeadInv
  BY TrainInitial, LeadInit, InitHisto DEF TrainInit
<1>2. TrainInv /\ HistoInv /\ LeadInv /\ [TrainNext]_allVars => (TrainInv /\ HistoInv /\ LeadInv)'
  <2>1. TrainInv => IndexInv
    BY DEF TrainInv
  <2> QED BY <2>1, TrainStep, TableStep, HistoStep, LeadStep
<1> QED BY <1>1, <1>2, PTL DEF TrainSpec

\* For every sample: training fills the table as SymbolTable says a table is
\* filled.  It adds the terminator first and no string with the terminator
\* in it, never adds to a full or a final table, and never finalizes an
\* empty one; what is proved of SymbolTable holds of each trained table.
THEOREM TrainingFillsTable == TrainSpec => Spec
<1>1. TrainInit => Init
  BY DEF TrainInit
<1>2. TrainInv /\ HistoInv /\ LeadInv /\ [TrainNext]_allVars => [Next]_tvars
  BY TableStep
<1> QED BY <1>1, <1>2, TrainingLeads, PTL DEF TrainSpec, Spec

\* For every sample: each symbol of each round occurs in a line of it, over
\* all the concatenations and cuts, except perhaps for the terminator.
THEOREM AllSymbolsOccur == TrainSpec => []SymbolsOccur
<1>1. LeadInv => SymbolsOccur
  BY DEF LeadInv
<1> QED BY <1>1, TrainingLeads, PTL

\* For every sample, then: a trained table has the types, the order of codes
\* and the lookups that the encoders rely on ...
THEOREM TrainedTables == TrainSpec => [](TypeOK /\ FinalLayout /\ FinalTable)
BY TrainingFillsTable, TypeCorrect, Layout, FinalTables, PTL

\* ... clear() leaves nothing behind from round to round, and finalize()
\* loses no symbol of the last one.
THEOREM RoundsLeaveNothing == TrainSpec => ClearForgets /\ FinalizeKeepsSymbols
BY TrainingFillsTable, ClearLeavesNothing, Permutes, PTL

-----------------------------------------------------------------------------
(* makeSample(): the sample stays within the lines, the buffer and the     *)
(* array of lengths, for every target and chunk size and all inputs.       *)

Piece == [line : Nat, from : Nat, len : Nat]

\* the strings of the sample are within their lines, and chunks are not empty
ChosenWithin ==
  \A i \in 1..Len(chosen) :
    /\ chosen[i].from + chosen[i].len <= lenIn[chosen[i].line]
    /\ ownLens => chosen[i].len > 0

\* As long as more is wanted there is room for a whole chunk, since the
\* buffer has twice the target and a chunk is not longer than the target.
SamplingInv ==
  /\ lenIn \in LineLengths
  /\ chosen \in Seq(Piece)
  /\ filled \in 0..SampleMax
  /\ ownLens \in BOOLEAN
  /\ ChosenWithin
  /\ Len(chosen) <= LenLimit \/ ~ownLens
  /\ sampling = "begin" => ~ownLens /\ chosen = << >> /\ filled = 0
  /\ sampling = "draw" => ownLens
  /\ sampling = "end" =>
       IF ownLens THEN filled >= SampleTarget \/ Len(chosen) = LenLimit
       ELSE chosen = AllLines

\* What the assumption says of an input.
LEMMA LineFacts ==
  ASSUME NEW lens \in LineLengths
  PROVE  lens \in Seq(Nat) /\ Len(lens) \in Nat \ {0} /\ \A l \in 1..Len(lens) : lens[l] \in Nat
<1>1. lens \in Seq(Nat) /\ lens # << >>
  BY SamplingAssumption
<1>2. Len(lens) # 0
  BY <1>1, EmptySeq
<1> QED
  BY <1>1, <1>2

LEMMA TargetFacts ==
  /\ SampleTarget \in Nat \ {0}
  /\ SampleLine \in Nat \ {0} /\ SampleLine <= SampleTarget
  /\ SampleMax = SampleTarget + SampleTarget
  /\ SampleMax \div SampleLine \in Nat
BY SamplingAssumption DEF SampleMax

\* A chunk has at least one byte, is not longer than SampleLine, and ends
\* within its line.
LEMMA ChunkFacts ==
  ASSUME lenIn \in LineLengths, NEW l \in NotEmpty, NEW from \in ChunkStarts(l)
  PROVE  /\ l \in Nat /\ from \in Nat
         /\ ChunkLength(l, from) \in 1..SampleLine
         /\ from + ChunkLength(l, from) <= lenIn[l]
<1>1. l \in 1..Len(lenIn) /\ lenIn[l] \in Nat
  BY LineFacts DEF NotEmpty
<1>2. from \in 0..lenIn[l] - 1
  BY DEF ChunkStarts
<1>3. ChunkLength(l, from) = IF lenIn[l] - from <= SampleLine THEN lenIn[l] - from ELSE SampleLine
  BY <1>1, <1>2, TargetFacts, LesserOfTwo DEF ChunkLength
<1> QED
  BY <1>1, <1>2, <1>3, TargetFacts, LineFacts

LEMMA SamplingInitial == SamplingInit => SamplingInv
<1> SUFFICES ASSUME SamplingInit PROVE SamplingInv
  OBVIOUS
<1>1. chosen = << >> /\ Len(chosen) = 0 /\ chosen \in Seq(Piece)
  BY EmptySeq DEF SamplingInit
<1>2. filled \in 0..SampleMax /\ ChosenWithin
  BY <1>1, TargetFacts DEF SamplingInit, ChosenWithin
<1> QED
  BY <1>1, <1>2 DEF SamplingInit, SamplingInv

LEMMA SamplingStep == SamplingInv /\ [SamplingNext]_samplingVars => SamplingInv'
<1> SUFFICES ASSUME SamplingInv, [SamplingNext]_samplingVars PROVE SamplingInv'
  OBVIOUS
<1>1. CASE TakeAll
  <2>1. lenIn' = lenIn /\ filled' = filled /\ ownLens' = ownLens /\ ~ownLens
    BY <1>1 DEF TakeAll, SamplingInv
  <2>2. chosen' = AllLines /\ sampling' = "end"
    BY <1>1 DEF TakeAll
  <2>3. Len(lenIn) \in Nat /\ \A l \in 1..Len(lenIn) : lenIn[l] \in Nat
    BY LineFacts DEF SamplingInv
  <2>4. AllLines \in Seq(Piece) /\ Len(AllLines) = Len(lenIn)
    BY <2>3 DEF AllLines, Piece
  <2>5. ChosenWithin'
    BY <2>1, <2>2, <2>3, <2>4 DEF ChosenWithin, AllLines
  <2>6. AllLines' = AllLines
    BY <2>1 DEF AllLines
  <2> QED
    BY <2>1, <2>2, <2>4, <2>5, <2>6 DEF SamplingInv
<1>2. CASE BeginDraw
  <2>1. chosen' = << >> /\ Len(chosen') = 0
    BY <1>2, EmptySeq DEF BeginDraw, SamplingInv
  <2>2. lenIn' = lenIn /\ Len(lenIn) \in Nat
    BY <1>2, LineFacts DEF BeginDraw, SamplingInv
  <2>3. Len(chosen') <= LenLimit' /\ ChosenWithin'
    BY <2>1, <2>2, TargetFacts DEF LenLimit, ChosenWithin
  <2> QED
    BY <1>2, <2>2, <2>3 DEF BeginDraw, SamplingInv
<1>3. CASE Draw
  <2>0. PICK l \in NotEmpty : \E from \in ChunkStarts(l) :
          /\ chosen' = Append(chosen, [line |-> l, from |-> from, len |-> ChunkLength(l, from)])
          /\ filled' = filled + ChunkLength(l, from)
    BY <1>3 DEF Draw
  <2>1. PICK from \in ChunkStarts(l) :
          /\ chosen' = Append(chosen, [line |-> l, from |-> from, len |-> ChunkLength(l, from)])
          /\ filled' = filled + ChunkLength(l, from)
    BY <2>0
  <2>2. l \in Nat /\ from \in Nat /\ ChunkLength(l, from) \in 1..SampleLine
        /\ from + ChunkLength(l, from) <= lenIn[l]
    BY ChunkFacts DEF SamplingInv
  <2> DEFINE piece == [line |-> l, from |-> from, len |-> ChunkLength(l, from)]
  <2>3. lenIn' = lenIn /\ ownLens' = ownLens /\ ownLens /\ sampling' = "draw"
    BY <1>3 DEF Draw, SamplingInv
  <2>4. filled \in Nat /\ filled < SampleTarget /\ Len(chosen) < LenLimit
    BY <1>3, TargetFacts DEF Draw, WantsMore, SamplingInv
  <2>5. piece \in Piece /\ piece.len > 0 /\ piece.from + piece.len <= lenIn[piece.line]
    BY <2>2, TargetFacts DEF Piece
  <2>6. filled' \in 0..SampleMax
    <3>1. SampleMax \in Nat /\ ChunkLength(l, from) \in Nat /\ ChunkLength(l, from) <= SampleTarget
      BY <2>2, TargetFacts
    <3> HIDE DEF piece
    <3> QED
      BY <3>1, <2>1, <2>4, TargetFacts
  <2>7. /\ chosen' \in Seq(Piece) /\ Len(chosen') = Len(chosen) + 1
        /\ \A i \in 1..Len(chosen) : chosen'[i] = chosen[i]
        /\ chosen'[Len(chosen) + 1] = piece
    BY <2>1, <2>5, AppendProperties DEF SamplingInv
  <2>8. ChosenWithin'
    BY <2>3, <2>5, <2>7 DEF ChosenWithin, SamplingInv
  <2>9. Len(chosen') <= LenLimit'
    <3>1. LenLimit' = LenLimit /\ LenLimit \in Int /\ Len(chosen) \in Nat
      BY <2>3, LineFacts, TargetFacts DEF LenLimit, SamplingInv
    <3> QED
      BY <3>1, <2>4, <2>7
  <2> QED
    BY <2>3, <2>6, <2>7, <2>8, <2>9 DEF SamplingInv
<1>4. CASE EndDraw
  <2>1. UNCHANGED <<lenIn, chosen, filled, ownLens>> /\ ownLens /\ ~WantsMore /\ sampling' = "end"
    BY <1>4 DEF EndDraw, SamplingInv
  <2>2. ChosenWithin' /\ LenLimit' = LenLimit
    BY <2>1 DEF ChosenWithin, LenLimit, SamplingInv
  <2>3. filled >= SampleTarget \/ Len(chosen) = LenLimit
    <3>1. LenLimit \in Int /\ Len(chosen) \in Nat /\ filled \in Int
      BY LineFacts, TargetFacts DEF LenLimit, SamplingInv
    <3> QED
      BY <3>1, <2>1, TargetFacts DEF WantsMore, SamplingInv
  <2> QED
    BY <2>1, <2>2, <2>3 DEF SamplingInv
<1>5. CASE UNCHANGED samplingVars
  BY <1>5 DEF samplingVars, SamplingInv, ChosenWithin, LenLimit, AllLines
<1> QED
  BY <1>1, <1>2, <1>3, <1>4, <1>5 DEF SamplingNext

\* For every input of at least one line, whatever lines and chunks come up:
\* the sample is within its lines, its buffer and its array.
THEOREM SampleStaysInside == SamplingSpec => []SampleFits
<1>1. SamplingInv => SampleFits
  BY DEF SamplingInv, SampleFits, ChosenWithin
<1> QED
  BY <1>1, SamplingInitial, SamplingStep, PTL DEF SamplingSpec

-----------------------------------------------------------------------------
(* The dictionary                                                          *)

\* the symbols that travel
Travelling == SubSeq(symbols, zeroTerminated + 1, Len(symbols))

\* where the length of a string comes in the order of the final codes
RankOf(len) == IF len = 1 THEN MaxLen ELSE len - 1

\* the runs of equal lengths in that order
RunsOf(histo, zero) ==
  [l \in 1..MaxLen |->
    LET len == (l % MaxLen) + 1
        n == IF len = 1 THEN histo[1] - zero ELSE histo[len]
    IN [i \in 1..n |-> len]]

LEMMA TravellingFacts ==
  ASSUME final, FinalTable, FinalCounts
  PROVE  /\ Len(symbols) \in 1..255 /\ symbols \in Seq(Strings) /\ zeroTerminated \in {0, 1}
         /\ Travelling \in Seq(Strings) /\ Len(Travelling) = Len(symbols) - zeroTerminated
         /\ Len(Travelling) \in Nat
         /\ \A i \in 1..Len(Travelling) : /\ i + zeroTerminated \in 1..Len(symbols)
                                          /\ Travelling[i] = symbols[i + zeroTerminated]
                                          /\ Travelling[i] \in Seq(Byte)
                                          /\ Len(Travelling[i]) \in 1..MaxLen
         /\ zeroTerminated = 1 => Len(symbols[1]) = 1
<1>1. /\ Len(symbols) \in 1..255 /\ symbols \in Seq(Strings) /\ zeroTerminated \in {0, 1}
      /\ zeroTerminated = 1 => symbols[1] = <<0>>
  BY DEF FinalTable, FinalCounts
<1>2. /\ Travelling \in Seq(Strings) /\ Len(Travelling) = Len(symbols) - zeroTerminated
      /\ Len(Travelling) \in Nat
      /\ \A i \in 1..Len(Travelling) : Travelling[i] = symbols[i + zeroTerminated]
  BY <1>1 DEF Travelling
<1>3. \A i \in 1..Len(Travelling) : i + zeroTerminated \in 1..Len(symbols)
  <2> DEFINE N == Len(symbols)
             n == Len(Travelling)
  <2>1. N \in 1..255 /\ zeroTerminated \in {0, 1} /\ n = N - zeroTerminated /\ n \in Nat
    BY <1>1, <1>2
  <2> HIDE DEF N, n
  <2>2. \A i \in 1..n : i + zeroTerminated \in 1..N
    BY <2>1
  <2> QED BY <2>2 DEF N, n
<1>4. \A i \in 1..Len(Travelling) : Travelling[i] \in Strings
  BY <1>2
<1>5. \A i \in 1..Len(Travelling) : Travelling[i] \in Seq(Byte) /\ Len(Travelling[i]) \in 1..MaxLen
  BY <1>4, StringFacts
<1>6. Len(<<0>>) = 1
  OBVIOUS
<1> QED BY <1>1, <1>2, <1>3, <1>5, <1>6

\* The histogram tells how many travel of each length.
LEMMA TravellingCounts ==
  ASSUME final, FinalTable, FinalCounts, NEW l \in 1..MaxLen
  PROVE  Cardinality({i \in 1..Len(Travelling) : Len(Travelling[i]) = l})
           = IF l = 1 THEN lenHisto[1] - zeroTerminated ELSE lenHisto[l]
<1> DEFINE N == Len(symbols)
           n == Len(Travelling)
           z == zeroTerminated
           A == {i \in 1..n : Len(Travelling[i]) = l}
           B == {c \in z + 1 .. N : Len(symbols[c]) = l}
           f == [i \in A |-> i + z]
<1>1. /\ N \in 1..255 /\ z \in {0, 1}
      /\ n = N - z /\ n \in Nat
      /\ \A i \in 1..n : Travelling[i] = symbols[i + z]
      /\ z = 1 => Len(symbols[1]) = 1
  BY TravellingFacts
<1>2. lenHisto[l] = Cardinality(OfLength(l)) /\ lenHisto[1] = Cardinality(OfLength(1))
  <2>1. 1 \in 1..MaxLen
    BY SizeAssumption
  <2> QED BY <2>1 DEF FinalCounts
<1> HIDE DEF N, n, z
<1>3. Cardinality(A) = Cardinality(B)
  <2>1. \A i \in A : i + z \in B
    BY <1>1
  <2>2. \A i, k \in A : i + z = k + z => i = k
    BY <1>1
  <2>3. \A c \in B : c - z \in A /\ (c - z) + z = c
    <3> SUFFICES ASSUME NEW c \in B PROVE c - z \in A /\ (c - z) + z = c
      OBVIOUS
    <3>1. c - z \in 1..n /\ (c - z) + z = c
      BY <1>1
    <3> QED BY <1>1, <3>1
  <2>4. IsFiniteSet(A)
    <3>1. A \in SUBSET (1..n)
      OBVIOUS
    <3> HIDE DEF A
    <3> QED BY <1>1, <3>1, SizeOfRange, FS_Subset
  <2> HIDE DEF A, B
  <2>5. f \in [A -> B]
    BY <2>1
  <2>6. \A i, k \in A : f[i] = f[k] => i = k
    BY <2>2
  <2>7. \A c \in B : \E i \in A : f[i] = c
    BY <2>3
  <2>8. f \in Bijection(A, B)
    <3> HIDE DEF f
    <3> QED BY <2>5, <2>6, <2>7 DEF Bijection, Injection, Surjection, IsInjective
  <2> HIDE DEF f
  <2> QED BY <2>4, <2>8, FS_Bijection DEF ExistsBijection
<1>4. IsFiniteSet(OfLength(l))
  <2>1. OfLength(l) \in SUBSET (1..N)
    BY DEF OfLength, N
  <2>2. N \in Nat
    BY <1>1
  <2> QED BY <2>1, <2>2, SizeOfRange, FS_Subset
<1>5. CASE l = 1 /\ z = 1
  <2>1. OfLength(l) = B \cup {1} /\ B \cap {1} = {}
    <3>1. B = {c \in 2..N : Len(symbols[c]) = 1}
      BY <1>5
    <3>2. OfLength(l) = {c \in 1..N : Len(symbols[c]) = 1}
      BY <1>5 DEF OfLength, N
    <3>3. 1..N = 2..N \cup {1} /\ 1 \notin 2..N /\ Len(symbols[1]) = 1
      BY <1>1, <1>5
    <3> HIDE DEF B
    <3> QED BY <3>1, <3>2, <3>3
  <2> HIDE DEF B
  <2>2. IsFiniteSet(B \cup {1})
    BY <1>4, <2>1
  <2>3. Cardinality(OfLength(l)) = Cardinality(B) + Cardinality({1}) /\ Cardinality(B) \in Nat
    BY <2>1, <2>2, TwoParts
  <2>4. Cardinality({1}) = 1
    BY FS_Singleton
  <2> HIDE DEF A
  <2>5. Cardinality(A) = lenHisto[1] - z
    BY <1>2, <1>3, <1>5, <2>3, <2>4
  <2> QED BY <1>5, <2>5 DEF A, n, z
<1>6. CASE ~(l = 1 /\ z = 1)
  <2>1. OfLength(l) = B
    <3>1. CASE z = 0
      BY <3>1 DEF OfLength, N
    <3>2. CASE z = 1 /\ l # 1
      <4>1. B = {c \in 2..N : Len(symbols[c]) = l}
        BY <3>2
      <4>2. 1..N = 2..N \cup {1} /\ Len(symbols[1]) # l
        <5>1. 1..N = 2..N \cup {1}
          BY <1>1
        <5>2. Len(symbols[1]) = 1 /\ l # 1
          BY <1>1, <3>2
        <5> QED BY <5>1, <5>2
      <4> HIDE DEF B
      <4> QED BY <4>1, <4>2 DEF OfLength, N
    <3> QED BY <1>1, <1>6, <3>1, <3>2
  <2>2. z = 0 \/ l # 1
    BY <1>1, <1>6
  <2>3. Cardinality(OfLength(l)) \in Nat
    BY <1>4, FS_CardinalityType
  <2> HIDE DEF A, B
  <2>4. Cardinality(A) = IF l = 1 THEN lenHisto[1] - z ELSE lenHisto[l]
    BY <1>2, <1>3, <2>1, <2>2, <2>3
  <2> QED BY <2>4 DEF A, n, z
<1> QED BY <1>5, <1>6

\* The histogram alone gives the decoder the length of every string.
LEMMA RunsAreLengths ==
  ASSUME final, FinalTable, FinalLayout, FinalCounts
  PROVE  /\ Len(Runs(lenHisto, zeroTerminated)) = Len(Travelling)
         /\ \A i \in 1..Len(Travelling) : Runs(lenHisto, zeroTerminated)[i] = Len(Travelling[i])
<1> DEFINE N == Len(symbols)
           z == zeroTerminated
           n == Len(Travelling)
           r == [i \in 1..n |-> RankOf(Len(Travelling[i]))]
           s == RunsOf(lenHisto, z)
           LenAt(k) == (k % MaxLen) + 1
           Size(k) == IF LenAt(k) = 1 THEN lenHisto[1] - z ELSE lenHisto[LenAt(k)]
<1>0. MaxLen \in Nat /\ MaxLen >= 3
  BY SizeAssumption
<1>1. /\ n \in Nat /\ N \in 1..255 /\ z \in {0, 1} /\ n = N - z
      /\ \A i \in 1..n : /\ i + z \in 1..N
                         /\ Travelling[i] = symbols[i + z]
                         /\ Len(Travelling[i]) \in 1..MaxLen
  BY TravellingFacts
<1>2. \A k \in 1..MaxLen : LenAt(k) \in 1..MaxLen /\ LenAt(k) = (IF k = MaxLen THEN 1 ELSE k + 1)
  BY <1>0
<1>3. \A l \in 1..MaxLen : /\ RankOf(l) \in 1..MaxLen
                           /\ \A k \in 1..MaxLen : RankOf(l) = k <=> l = LenAt(k)
  <2> HIDE DEF LenAt
  <2>1. \A l \in 1..MaxLen : RankOf(l) \in 1..MaxLen
    BY <1>0 DEF RankOf
  <2>2. ASSUME NEW l \in 1..MaxLen, NEW k \in 1..MaxLen PROVE RankOf(l) = k <=> l = LenAt(k)
    <3>1. LenAt(k) = (IF k = MaxLen THEN 1 ELSE k + 1)
      BY <1>2
    <3> QED BY <1>0, <3>1 DEF RankOf
  <2> QED BY <2>1, <2>2
<1> HIDE DEF n, N, z
<1>4. \A i \in 1..n : r[i] \in 1..MaxLen
  BY <1>1, <1>3
<1>5. ASSUME NEW i \in 1..n, NEW j \in 1..n, i < j PROVE r[i] <= r[j]
  <2> DEFINE c == i + z
             d == j + z
  <2>1. c \in z + 1 .. N /\ d \in z + 1 .. N /\ c < d
    BY <1>1, <1>5
  <2>2. \/ Len(symbols[d]) = 1
        \/ Len(symbols[c]) # 1 /\ Len(symbols[c]) <= Len(symbols[d])
    <3> HIDE DEF c, d
    <3> QED BY <2>1 DEF FinalLayout, N, z
  <2>3. Len(symbols[c]) \in 1..MaxLen /\ Len(symbols[d]) \in 1..MaxLen
    BY <1>1
  <2>4. RankOf(Len(symbols[c])) <= RankOf(Len(symbols[d]))
    <3> HIDE DEF c, d
    <3> QED BY <1>0, <2>2, <2>3 DEF RankOf
  <2>5. r[i] = RankOf(Len(symbols[c])) /\ r[j] = RankOf(Len(symbols[d]))
    BY <1>1
  <2> QED BY <2>4, <2>5
<1>6. \A k \in 1..MaxLen : Cardinality({i \in 1..n : r[i] = k}) = Size(k)
  <2> TAKE k \in 1..MaxLen
  <2>1. {i \in 1..n : r[i] = k} = {i \in 1..n : Len(Travelling[i]) = LenAt(k)}
    <3>1. \A i \in 1..n : r[i] = k <=> Len(Travelling[i]) = LenAt(k)
      <4> TAKE i \in 1..n
      <4>1. Len(Travelling[i]) \in 1..MaxLen
        BY <1>1
      <4> HIDE DEF LenAt
      <4> QED BY <1>3, <4>1
    <3> HIDE DEF LenAt, r
    <3> QED BY <3>1
  <2> HIDE DEF r, LenAt
  <2>2. LenAt(k) \in 1..MaxLen
    BY <1>2
  <2> QED BY <2>1, <2>2, TravellingCounts DEF n, z
<1>7. \A k \in 1..MaxLen : Size(k) \in Nat
  <2> TAKE k \in 1..MaxLen
  <2>1. {i \in 1..n : r[i] = k} \in SUBSET (1..n)
    OBVIOUS
  <2>2. IsFiniteSet({i \in 1..n : r[i] = k})
    BY <1>1, <2>1, SizeOfRange, FS_Subset
  <2>3. Cardinality({i \in 1..n : r[i] = k}) \in Nat
    BY <2>2, FS_CardinalityType
  <2> HIDE DEF Size, r
  <2> QED BY <1>6, <2>3
<1>8. \A k \in 1..MaxLen : s[k] = [i \in 1..Size(k) |-> LenAt(k)]
  BY DEF RunsOf
<1>9. \A k \in 1..MaxLen : s[k] \in Seq(Nat) /\ Len(s[k]) = Size(k) /\ \A i \in 1..Size(k) : s[k][i] = LenAt(k)
  <2> TAKE k \in 1..MaxLen
  <2>1. LenAt(k) \in Nat
    <3>1. \A x \in 1..MaxLen : x \in Nat
      OBVIOUS
    <3> HIDE DEF LenAt
    <3> QED BY <1>2, <3>1
  <2> DEFINE m == Size(k)
             x == LenAt(k)
  <2>2. m \in Nat /\ s[k] = [i \in 1..m |-> x] /\ x \in Nat
    BY <1>7, <1>8, <2>1
  <2> HIDE DEF m, x, s
  <2>3. s[k] \in Seq(Nat) /\ Len(s[k]) = m /\ \A i \in 1..m : s[k][i] = x
    BY <2>2
  <2> QED BY <2>3 DEF m, x
<1>10. s \in Seq(Seq(Nat)) /\ Len(s) = MaxLen
  <2>1. DOMAIN s = 1..MaxLen /\ s = [k \in 1..MaxLen |-> s[k]]
    BY DEF RunsOf
  <2> HIDE DEF s
  <2>2. \A k \in 1..MaxLen : s[k] \in Seq(Nat)
    BY <1>9
  <2>3. s \in [1..MaxLen -> Seq(Nat)]
    BY <2>1, <2>2
  <2> QED BY <1>0, <2>3
<1>11. Runs(lenHisto, z) = FlattenSeq(s)
  BY DEF Runs, RunsOf, z
<1>12. /\ Len(FlattenSeq(s)) = n
       /\ \A i \in 1..n : \E j \in 1..Len(s[r[i]]) : FlattenSeq(s)[i] = s[r[i]][j]
  <2>1. RunsFit(s, r, n, MaxLen)
    <3> HIDE DEF s, r, Size
    <3> QED BY <1>6, <1>9, <1>10 DEF RankedAs, RunsFit
  <2> HIDE DEF s, r
  <2>2. InOrder(r, n, MaxLen)
    BY <1>4, <1>5 DEF InOrder
  <2>3. RunsMatch(s, r, n)
    BY <1>0, <1>1, <1>10, <2>1, <2>2, RunsInOrder
  <2> QED BY <2>3 DEF RunsMatch
<1>13. ASSUME NEW i \in 1..n PROVE FlattenSeq(s)[i] = Len(Travelling[i])
  <2>1. PICK j \in 1..Len(s[r[i]]) : FlattenSeq(s)[i] = s[r[i]][j]
    BY <1>12
  <2>2. r[i] \in 1..MaxLen
    BY <1>4
  <2>3. s[r[i]][j] = LenAt(r[i])
    <3> HIDE DEF s, r, LenAt, Size
    <3> QED BY <1>9, <2>1, <2>2
  <2>4. LenAt(r[i]) = Len(Travelling[i])
    <3>1. Len(Travelling[i]) \in 1..MaxLen /\ RankOf(Len(Travelling[i])) = r[i]
      BY <1>1
    <3> HIDE DEF LenAt, r
    <3> QED BY <1>3, <2>2, <3>1
  <2> QED BY <2>1, <2>3, <2>4
<1> HIDE DEF s
<1> QED BY <1>11, <1>12, <1>13 DEF n, z

\* The bytes of a string start behind those of the strings before it.
LEMMA OffsetIsLength ==
  ASSUME NEW E, NEW s \in Seq(Seq(E)), NEW runs, \A k \in 1..Len(s) : runs[k] = Len(s[k]),
         NEW i \in 1..Len(s)
  PROVE  Offset(runs, i) = LengthOf(s, i - 1)
<1> DEFINE n == Len(s)
           P == {j \in Nat : j < n => SumFunctionOnSet(runs, 1..j) = LengthOf(s, j)}
<1>1. /\ LengthOf(s, 0) = 0
      /\ \A j \in 0..n : LengthOf(s, j) \in Nat
      /\ \A j \in 0..n - 1 : LengthOf(s, j + 1) = LengthOf(s, j) + Len(s[j + 1])
  BY LengthOfPrefix
<1>2. n \in Nat /\ \A k \in 1..n : Len(s[k]) \in Nat
  OBVIOUS
<1> HIDE DEF n
<1>3. 0 \in P
  <2>1. 1..0 = {}
    OBVIOUS
  <2>2. SumFunctionOnSet(runs, 1..0) = 0
    BY <2>1, SumEmpty
  <2> QED BY <1>1, <2>2
<1>4. \A j \in Nat : j \in P => j + 1 \in P
  <2> SUFFICES ASSUME NEW j \in Nat, j \in P, j + 1 < n
               PROVE  SumFunctionOnSet(runs, 1..j + 1) = LengthOf(s, j + 1)
    OBVIOUS
  <2>1. 1..j + 1 = (1..j) \cup {j + 1} /\ j + 1 \notin 1..j /\ j + 1 \in 1..n /\ j \in 0..n - 1 /\ 1..j \subseteq 1..n
    BY <1>2
  <2>2. SumFunctionOnSet(runs, 1..j) = LengthOf(s, j)
    BY <1>2
  <2>3. IsFiniteSet(1..j)
    BY SizeOfRange
  <2>4. \A k \in 1..n : runs[k] = Len(s[k]) /\ runs[k] \in Int
    BY <1>2 DEF n
  <2>5. (\A y \in 1..j : runs[y] \in Int) /\ runs[j + 1] \in Int
    BY <2>1, <2>4
  <2>6. SumFunctionOnSet(runs, (1..j) \cup {j + 1}) = runs[j + 1] + SumFunctionOnSet(runs, 1..j)
    <3> DEFINE S == 1..j
               x == j + 1
    <3>1. IsFiniteSet(S) /\ (\A y \in S : runs[y] \in Int) /\ x \notin S /\ runs[x] \in Int
      BY <2>1, <2>3, <2>5
    <3> HIDE DEF S, x
    <3>2. SumFunctionOnSet(runs, S \cup {x}) = runs[x] + SumFunctionOnSet(runs, S)
      BY <3>1, SumAdd
    <3> QED BY <3>2 DEF S, x
  <2>7. runs[j + 1] = Len(s[j + 1]) /\ LengthOf(s, j + 1) = LengthOf(s, j) + Len(s[j + 1])
    BY <1>1, <2>1, <2>4
  <2>8. LengthOf(s, j) \in Nat /\ Len(s[j + 1]) \in Nat
    BY <1>1, <1>2, <2>1
  <2>9. SumFunctionOnSet(runs, 1..j + 1) = runs[j + 1] + SumFunctionOnSet(runs, 1..j)
    BY <2>1, <2>6
  <2> QED BY <2>2, <2>7, <2>8, <2>9
<1>5. i - 1 \in P
  <2> HIDE DEF P
  <2>1. i - 1 \in Nat
    BY <1>2 DEF n
  <2> QED BY <1>3, <1>4, <2>1, Induction
<1> QED BY <1>2, <1>5 DEF Offset, n

\* what fsst_export() writes of the final table
Exported == [zeroTerminated |-> zeroTerminated, lenHisto |-> lenHisto, bytes |-> FlattenSeq(Travelling)]

\* what fsst_import() cuts the bytes into
ReadBack(histo, zero, bytes) ==
  LET runs == Runs(histo, zero)
  IN [i \in 1..Len(runs) |-> SubSeq(bytes, Offset(runs, i) + 1, Offset(runs, i) + runs[i])]

\* Cut at the lengths that the histogram gives, the bytes are the symbols again.
LEMMA BytesAreSymbols ==
  ASSUME final, FinalTable, FinalLayout, FinalCounts
  PROVE  ReadBack(lenHisto, zeroTerminated, FlattenSeq(Travelling)) = Travelling
<1> DEFINE runs == Runs(lenHisto, zeroTerminated)
           n == Len(Travelling)
           bytes == FlattenSeq(Travelling)
           read == [i \in 1..Len(runs) |-> SubSeq(bytes, Offset(runs, i) + 1, Offset(runs, i) + runs[i])]
<1>1. Len(runs) = n /\ \A i \in 1..n : runs[i] = Len(Travelling[i])
  BY RunsAreLengths
<1>2. Travelling \in Seq(Seq(Byte)) /\ n \in Nat /\ Travelling \in Seq(Strings)
  <2>1. /\ Travelling \in Seq(Strings) /\ n \in Nat
        /\ \A i \in 1..n : Travelling[i] \in Seq(Byte)
    BY TravellingFacts
  <2> QED BY <2>1
<1>3. bytes \in Seq(Byte)
  BY <1>2, FlattenType
<1>4. ASSUME NEW i \in 1..n
      PROVE  SubSeq(bytes, Offset(runs, i) + 1, Offset(runs, i) + runs[i]) = Travelling[i]
  <2> DEFINE o == LengthOf(Travelling, i - 1)
             s == Travelling[i]
             m == Len(s)
             w == SubSeq(bytes, o + 1, o + m)
  <2>1. Offset(runs, i) = o
    <3> HIDE DEF runs, n
    <3> QED BY <1>1, <1>2, OffsetIsLength DEF n
  <2>2. /\ LengthOf(Travelling, i) = o + m
        /\ LengthOf(Travelling, i) <= Len(bytes)
        /\ \A j \in 1..m : bytes[o + j] = s[j]
    BY <1>2, FlattenPlace
  <2>3. o \in Nat
    <3>1. \A j \in 0..n : LengthOf(Travelling, j) \in Nat
      BY <1>2, LengthOfPrefix
    <3> QED BY <1>2, <3>1
  <2>4. s \in Seq(Byte) /\ m \in Nat
    BY <1>2
  <2>5. runs[i] = m
    BY <1>1
  <2> HIDE DEF runs, o, m, bytes
  <2>6. o + m <= Len(bytes) /\ Len(bytes) \in Nat
    BY <1>3, <2>2
  <2>7. Len(w) = m /\ \A j \in 1..m : w[j] = bytes[o + j]
    BY <1>3, <2>3, <2>4, <2>6
  <2>8. w = s
    <3>1. w \in Seq(Byte)
      BY <1>3, <2>3, <2>4, <2>6
    <3>2. Len(w) = Len(s) /\ \A j \in 1..Len(s) : w[j] = s[j]
      BY <2>2, <2>7 DEF m
    <3> HIDE DEF w, s
    <3> QED BY <2>4, <3>1, <3>2, SeqEqual
  <2> QED BY <2>1, <2>5, <2>8
<1>5. read = Travelling
  <2>1. read = [i \in 1..n |-> Travelling[i]]
    BY <1>1, <1>4
  <2>2. Travelling = [i \in 1..n |-> Travelling[i]]
    BY <1>2
  <2> HIDE DEF read
  <2> QED BY <2>1, <2>2
<1> QED BY <1>5 DEF ReadBack

\* The invariant: what was exported is the final table's, and what was
\* imported is the table.
DictInv ==
  /\ buf # NoBuffer => final /\ buf = Exported
  /\ decoder # << >> => final
  /\ DecoderKnowsEncoder

\* fsst_import() tells the decoder every code.
LEMMA ImportKnows ==
  ASSUME FinalTable, FinalLayout, FinalCounts, DictInv, Import
  PROVE  DictInv'
<1>1. final /\ buf = Exported /\ UNCHANGED <<buf, tvars>>
  BY DEF DictInv, Import
<1> DEFINE zero == IF zeroTerminated = 1 THEN <<<<0>>>> ELSE << >>
           known == zero \o Travelling
           n == Len(symbols)
<1>2. decoder' = known \o [i \in 1..255 - Len(known) |-> Corrupt]
  <2> DEFINE Known(h, z, b) == (IF z = 1 THEN <<<<0>>>> ELSE << >>) \o ReadBack(h, z, b)
  <2>1. buf.lenHisto = lenHisto /\ buf.zeroTerminated = zeroTerminated /\ buf.bytes = FlattenSeq(Travelling)
    BY <1>1 DEF Exported
  <2>2. decoder' = Known(buf.lenHisto, buf.zeroTerminated, buf.bytes)
                     \o [i \in 1..255 - Len(Known(buf.lenHisto, buf.zeroTerminated, buf.bytes)) |-> Corrupt]
    BY DEF Import, ReadBack
  <2>3. Known(lenHisto, zeroTerminated, FlattenSeq(Travelling)) = known
    BY <1>1, BytesAreSymbols
  <2> HIDE DEF Known, known
  <2> QED BY <2>1, <2>2, <2>3
<1>3. /\ n \in 1..255 /\ zeroTerminated \in {0, 1} /\ symbols \in Seq(Strings)
      /\ Travelling \in Seq(Strings) /\ Len(Travelling) = n - zeroTerminated
      /\ \A i \in 1..Len(Travelling) : Travelling[i] = symbols[i + zeroTerminated]
      /\ zeroTerminated = 1 => symbols[1] = <<0>>
  BY <1>1, TravellingFacts DEF FinalCounts
<1>4. known \in Seq(Strings) /\ Len(known) = n /\ \A c \in 1..n : known[c] = symbols[c]
  <2> DEFINE t == Travelling
  <2>0. /\ n \in Nat /\ t \in Seq(Strings) /\ Len(t) = n - zeroTerminated /\ Len(t) \in Nat
        /\ \A i \in 1..Len(t) : t[i] = symbols[i + zeroTerminated]
    <3>1. n \in Nat
      <4> HIDE DEF n
      <4> QED BY <1>3
    <3> QED BY <1>1, <1>3, <3>1, TravellingFacts
  <2> HIDE DEF n
  <2>1. CASE zeroTerminated = 0
    <3>1. known = Travelling
      <4> HIDE DEF t
      <4>1. << >> \o t = t
        BY <2>0, ConcatEmptySeq
      <4> QED BY <2>1, <4>1 DEF t
    <3>2. Len(t) = n /\ \A i \in 1..n : i + zeroTerminated = i
      BY <2>0, <2>1
    <3> HIDE DEF known, t
    <3>3. Travelling = t
      BY DEF t
    <3> QED BY <2>0, <3>1, <3>2, <3>3
  <2>2. CASE zeroTerminated = 1
    <3>1. zero = <<symbols[1]>> /\ symbols[1] \in Strings
      <4>1. symbols[1] = <<0>>
        BY <1>3, <2>2
      <4>2. 1 \in 1..n
        BY <1>3
      <4>3. 1 \in 1..Len(symbols)
        BY <4>2 DEF n
      <4>4. symbols \in Seq(Strings)
        BY <1>3
      <4>5. symbols[1] \in Strings
        BY <4>3, <4>4
      <4> QED BY <2>2, <4>1, <4>5
    <3> HIDE DEF zero
    <3>2. zero \in Seq(Strings) /\ Len(zero) = 1 /\ zero[1] = symbols[1]
      BY <3>1
    <3>3. /\ known \in Seq(Strings) /\ Len(known) = 1 + Len(Travelling)
          /\ known[1] = symbols[1] /\ \A i \in 1..Len(Travelling) : known[i + 1] = Travelling[i]
      <4> DEFINE first == symbols[1]
      <4>1. t \in Seq(Strings) /\ zero \in Seq(Strings) /\ Len(zero) = 1 /\ zero[1] = first
        BY <2>0, <3>2
      <4> HIDE DEF t, first, zero
      <4>2. /\ zero \o t \in Seq(Strings) /\ Len(zero \o t) = 1 + Len(t)
            /\ (zero \o t)[1] = first /\ \A i \in 1..Len(t) : (zero \o t)[i + 1] = t[i]
        BY <4>1, OneBefore
      <4> QED BY <4>2 DEF t, first, known
    <3> DEFINE m == Len(t)
    <3>4. m = n - 1 /\ m \in Nat /\ n \in Nat
      BY <2>0, <2>2
    <3>5. /\ known[1] = symbols[1] /\ known \in Seq(Strings) /\ Len(known) = 1 + m
          /\ \A i \in 1..m : known[i + 1] = t[i] /\ t[i] = symbols[i + 1]
      BY <2>0, <2>2, <3>3
    <3> HIDE DEF known, m, t
    <3>6. Len(known) = n
      BY <3>4, <3>5
    <3>7. ASSUME NEW c \in 1..n PROVE known[c] = symbols[c]
      <4>1. CASE c = 1
        BY <3>5, <4>1
      <4>2. CASE c # 1
        <5> DEFINE i == c - 1
        <5>1. i \in 1..m /\ c = i + 1
          BY <3>4, <4>2
        <5> HIDE DEF i
        <5> QED BY <3>5, <5>1
      <4> QED BY <4>1, <4>2
    <3> QED BY <3>5, <3>6, <3>7
  <2> QED BY <1>3, <2>1, <2>2
<1> HIDE DEF known
<1>5. /\ Len(decoder') = 255
      /\ \A c \in 1..255 : decoder'[c] = IF c <= n THEN symbols[c] ELSE Corrupt
  <2> DEFINE m == 255 - Len(known)
             rest == [i \in 1..m |-> Corrupt]
             T == Strings \cup {Corrupt}
  <2>1. m \in Nat /\ Len(known) + m = 255 /\ n = Len(known) /\ n \in Nat
    <3>1. Len(known) = n /\ n \in 1..255
      BY <1>3, <1>4
    <3> HIDE DEF n
    <3> QED BY <3>1
  <2>2. rest \in Seq(T) /\ Len(rest) = m /\ (\A i \in 1..m : rest[i] = Corrupt) /\ known \in Seq(T)
    <3>1. rest \in [1..m -> T]
      OBVIOUS
    <3>2. \A S, f : \A k \in Nat : f \in [1..k -> S] => f \in Seq(S)
      BY SeqDef
    <3>3. rest \in Seq(T)
      <4> HIDE DEF rest, m, T
      <4> QED BY <2>1, <3>1, <3>2
    <3>4. Len(rest) = m
      <4> HIDE DEF m
      <4> QED BY <2>1
    <3>5. \A i \in 1..m : rest[i] = Corrupt
      OBVIOUS
    <3>6. known \in Seq(T)
      <4>1. known \in Seq(Strings) /\ Strings \subseteq T
        BY <1>4
      <4> HIDE DEF T
      <4> QED BY <4>1
    <3> QED BY <3>3, <3>4, <3>5, <3>6
  <2>3. decoder' = known \o rest
    BY <1>2
  <2> HIDE DEF m, rest, T, n
  <2>4. Len(decoder') = 255
    BY <2>1, <2>2, <2>3
  <2>5. \A c \in 1..255 : decoder'[c] = IF c <= n THEN known[c] ELSE rest[c - n]
    BY <2>1, <2>2, <2>3
  <2>6. \A c \in 1..255 : ~(c <= n) => c - n \in 1..m
    BY <2>1
  <2>7. \A c \in 1..255 : c <= n => c \in 1..n
    BY <2>1
  <2>8. \A c \in 1..n : known[c] = symbols[c]
    BY <1>4 DEF n
  <2>9. ASSUME NEW c \in 1..255 PROVE decoder'[c] = IF c <= n THEN symbols[c] ELSE Corrupt
    <3>1. CASE c <= n
      BY <2>5, <2>7, <2>8, <3>1
    <3>2. CASE ~(c <= n)
      BY <2>2, <2>5, <2>6, <3>2
    <3> QED BY <3>1, <3>2
  <2> QED BY <2>4, <2>9
<1>6. UNCHANGED <<buf, symbols, lenHisto, zeroTerminated, final>>
  BY <1>1 DEF tvars, indexes, modes
<1>7. DecoderKnowsEncoder'
  BY <1>5, <1>6 DEF DecoderKnowsEncoder
<1>8. Exported' = Exported
  BY <1>6 DEF Exported, Travelling
<1> QED BY <1>1, <1>6, <1>7, <1>8 DEF DictInv

LEMMA DictStep ==
  FinalTable /\ FinalLayout /\ FinalCounts /\ DictInv /\ [DictNext]_<<tvars, dictVars>> => DictInv'
<1> SUFFICES ASSUME FinalTable, FinalLayout, FinalCounts, DictInv, [DictNext]_<<tvars, dictVars>>
             PROVE  DictInv'
  OBVIOUS
<1>1. CASE Next /\ UNCHANGED dictVars
  <2>1. ~final
    BY <1>1 DEF Next, Add, Clear, Finalize
  <2>2. buf = NoBuffer /\ decoder = << >>
    BY <2>1 DEF DictInv
  <2>3. buf' = NoBuffer /\ decoder' = << >>
    <3>1. NoBuffer' = NoBuffer
      BY DEF NoBuffer, NoSymbols
    <3> QED BY <1>1, <2>2, <3>1 DEF dictVars
  <2>4. NoBuffer' = NoBuffer
    BY DEF NoBuffer, NoSymbols
  <2> QED BY <2>3, <2>4 DEF DictInv, DecoderKnowsEncoder
<1>2. CASE Export
  <2>1. final /\ buf' = Exported /\ UNCHANGED <<decoder, tvars>>
    BY <1>2 DEF Export, Exported, Travelling
  <2>2. UNCHANGED <<symbols, lenHisto, zeroTerminated, final>>
    BY <2>1 DEF tvars, indexes, modes
  <2>3. Exported' = Exported
    BY <2>2 DEF Exported, Travelling
  <2>4. DecoderKnowsEncoder'
    BY <2>1, <2>2 DEF DictInv, DecoderKnowsEncoder
  <2> QED BY <2>1, <2>2, <2>3, <2>4 DEF DictInv
<1>3. CASE Import
  BY <1>3, ImportKnows
<1>4. CASE UNCHANGED <<tvars, dictVars>>
  <2>1. UNCHANGED <<buf, decoder, symbols, lenHisto, zeroTerminated, final>>
    BY <1>4 DEF tvars, indexes, modes, dictVars
  <2>2. Exported' = Exported
    BY <2>1 DEF Exported, Travelling
  <2> QED BY <2>1, <2>2 DEF DictInv, DecoderKnowsEncoder, NoBuffer, NoSymbols
<1> QED BY <1>1, <1>2, <1>3, <1>4 DEF DictNext

\* A dictionary that was exported and imported gives the decoder the codes
\* of the encoder, for every table that training can end with.
THEOREM DecoderAgrees == DictSpec => []DecoderKnowsEncoder
<1> DEFINE Known == /\ IndexInv /\ HistoInv /\ SlotInv /\ FinalTable /\ FinalLayout
                    /\ FinalCounts /\ DictInv
<1>1. DictInit => Known
  <2> SUFFICES ASSUME DictInit PROVE Known
    OBVIOUS
  <2>1. Init /\ buf = NoBuffer /\ decoder = << >>
    BY DEF DictInit
  <2>2. IndexInv /\ HistoInv /\ SlotInv /\ FinalTable /\ FinalLayout
    BY <2>1, InitIndex, InitHisto, InitSlots, InitLayout
  <2>3. FinalCounts
    BY <2>1 DEF Init, FinalCounts
  <2>4. DictInv
    BY <2>1 DEF DictInv, DecoderKnowsEncoder
  <2> QED BY <2>2, <2>3, <2>4
<1>2. Known /\ [DictNext]_<<tvars, dictVars>> => Known'
  <2> SUFFICES ASSUME Known, [DictNext]_<<tvars, dictVars>> PROVE Known'
    OBVIOUS
  <2>1. [Next]_tvars
    BY DEF DictNext, Export, Import
  <2>2. IndexInv' /\ HistoInv' /\ SlotInv' /\ FinalTable' /\ FinalLayout' /\ FinalCounts'
    BY <2>1, IndexStep, HistoStep, SlotStep, FinalTableStep, LayoutStep, CountsStep
  <2>3. DictInv'
    BY DictStep
  <2> QED BY <2>2, <2>3
<1>3. Known => DecoderKnowsEncoder
  BY DEF DictInv
<1> QED BY <1>1, <1>2, <1>3, PTL DEF DictSpec

-----------------------------------------------------------------------------
(* OptTrainer                                                              *)

\* one step of a fold over the positions in T, the last one last
FoldsAt(g, s, T) ==
  g[T] = IF T = {} THEN << >> ELSE Concat(g[T \ {Max(T)}], s[Max(T)])

\* The string of at most three is the concatenation from the left.
LEMMA JoinUnfolds ==
  ASSUME NEW n \in 1..3, NEW s, DOMAIN s = 1..n
  PROVE  /\ n = 1 => FoldLeft(Concat, << >>, s) = Concat(<< >>, s[1])
         /\ n = 2 => FoldLeft(Concat, << >>, s) = Concat(Concat(<< >>, s[1]), s[2])
         /\ n = 3 => FoldLeft(Concat, << >>, s) = Concat(Concat(Concat(<< >>, s[1]), s[2]), s[3])
<1> DEFINE S == DOMAIN s
           Q(g) == g = [T \in SUBSET S |-> IF T = {} THEN << >> ELSE Concat(g[T \ {Max(T)}], s[Max(T)])]
           G == CHOOSE g : Q(g)
           a(T) == IF 1 \in T THEN Concat(<< >>, s[1]) ELSE << >>
           b(T) == IF 2 \in T THEN Concat(a(T), s[2]) ELSE a(T)
           c(T) == IF 3 \in T THEN Concat(b(T), s[3]) ELSE b(T)
           h == [T \in SUBSET S |-> c(T)]
<1>1. FoldLeft(Concat, << >>, s) = G[S]
  BY DEF FoldLeft, MapThenFoldSet
<1>2. S = 1..n /\ S \subseteq {1, 2, 3}
  OBVIOUS
<1>3. ASSUME NEW T \in SUBSET S, T # {}
      PROVE  /\ Max(T) = IF 3 \in T THEN 3 ELSE IF 2 \in T THEN 2 ELSE 1
             /\ Max(T) \in T
  <2>0. T \subseteq {1, 2, 3} /\ T \in SUBSET Int
    BY <1>2
  <2>1. CASE 3 \in T
    <3>1. \A m \in T : m <= 3
      BY <2>0
    <3> QED BY <2>0, <2>1, <3>1, MaxIs
  <2>2. CASE 3 \notin T /\ 2 \in T
    <3>1. \A m \in T : m <= 2
      BY <2>0, <2>2
    <3> QED BY <2>0, <2>2, <3>1, MaxIs
  <2>3. CASE 3 \notin T /\ 2 \notin T
    <3>1. 1 \in T /\ \A m \in T : m <= 1
      BY <1>3, <2>0, <2>3
    <3> QED BY <2>0, <2>3, <3>1, MaxIs
  <2> QED BY <2>1, <2>2, <2>3
<1>4. ASSUME NEW T \in SUBSET S, T # {} PROVE c(T) = Concat(c(T \ {Max(T)}), s[Max(T)])
  <2>1. CASE 3 \in T
    <3>1. Max(T) = 3
      BY <1>3, <1>4, <2>1
    <3>2. c(T \ {3}) = b(T)
      OBVIOUS
    <3> QED BY <2>1, <3>1, <3>2
  <2>2. CASE 3 \notin T /\ 2 \in T
    <3>1. Max(T) = 2
      BY <1>3, <1>4, <2>2
    <3>2. c(T \ {2}) = a(T)
      BY <2>2
    <3> QED BY <2>2, <3>1, <3>2
  <2>3. CASE 3 \notin T /\ 2 \notin T
    <3>1. Max(T) = 1 /\ 1 \in T
      BY <1>3, <1>4, <2>3
    <3>2. c(T \ {1}) = << >>
      BY <2>3
    <3> QED BY <2>3, <3>1, <3>2
  <2> QED BY <2>1, <2>2, <2>3
<1>5. c({}) = << >>
  OBVIOUS
<1> HIDE DEF c
<1>6. Q(h)
  <2>1. \A T \in SUBSET S : h[T] = IF T = {} THEN << >> ELSE Concat(h[T \ {Max(T)}], s[Max(T)])
    <3> TAKE T \in SUBSET S
    <3>1. T \ {Max(T)} \in SUBSET S
      OBVIOUS
    <3> QED BY <1>4, <1>5, <3>1
  <2>2. h = [T \in SUBSET S |-> h[T]]
    OBVIOUS
  <2> HIDE DEF h
  <2> QED BY <2>1, <2>2
<1> HIDE DEF Q, h
<1>7. Q(G)
  BY <1>6
<1> HIDE DEF G
<1>8. \A T \in SUBSET S : FoldsAt(G, s, T)
  BY <1>7 DEF FoldsAt, Q
<1>9. G[{}] = << >>
  BY <1>8 DEF FoldsAt
<1>10. n >= 1 => G[{1}] = Concat(<< >>, s[1])
  <2>1. {1} \in SUBSET S /\ {1} # {} /\ 1 \in {1} /\ 2 \notin {1} /\ 3 \notin {1}
    BY <1>2
  <2>2. Max({1}) = 1 /\ {1} \ {1} = {}
    BY <1>3, <2>1
  <2> QED BY <1>8, <1>9, <2>1, <2>2 DEF FoldsAt
<1>11. n >= 2 => G[{1, 2}] = Concat(G[{1}], s[2])
  <2> SUFFICES ASSUME n >= 2 PROVE G[{1, 2}] = Concat(G[{1}], s[2])
    OBVIOUS
  <2>1. {1, 2} \in SUBSET S /\ {1, 2} # {} /\ 2 \in {1, 2} /\ 3 \notin {1, 2}
    BY <1>2
  <2>2. Max({1, 2}) = 2 /\ {1, 2} \ {2} = {1}
    BY <1>3, <2>1
  <2> QED BY <1>8, <2>1, <2>2 DEF FoldsAt
<1>12. n >= 3 => G[{1, 2, 3}] = Concat(G[{1, 2}], s[3])
  <2> SUFFICES ASSUME n >= 3 PROVE G[{1, 2, 3}] = Concat(G[{1, 2}], s[3])
    OBVIOUS
  <2>1. {1, 2, 3} \in SUBSET S /\ {1, 2, 3} # {} /\ 3 \in {1, 2, 3}
    BY <1>2
  <2>2. Max({1, 2, 3}) = 3 /\ {1, 2, 3} \ {3} = {1, 2}
    BY <1>3, <2>1
  <2> QED BY <1>8, <2>1, <2>2 DEF FoldsAt
<1> DEFINE v == FoldLeft(Concat, << >>, s)
           one == Concat(<< >>, s[1])
           two == Concat(one, s[2])
<1>13. (n = 1 => v = one) /\ (n = 2 => v = two) /\ (n = 3 => v = Concat(two, s[3]))
  <2>1. v = G[S]
    BY <1>1
  <2> HIDE DEF v
  <2>2. CASE n = 1
    <3>1. S = {1}
      BY <1>2, <2>2
    <3>2. v = one
      BY <2>1, <3>1, <1>10, <2>2
    <3> QED BY <3>2, <2>2
  <2>3. CASE n = 2
    <3>1. S = {1, 2}
      BY <1>2, <2>3
    <3>2. v = two
      BY <2>1, <3>1, <1>10, <1>11, <2>3
    <3> QED BY <3>2, <2>3
  <2>4. CASE n = 3
    <3>1. S = {1, 2, 3}
      BY <1>2, <2>4
    <3>2. v = Concat(two, s[3])
      BY <2>1, <3>1, <1>10, <1>11, <1>12, <2>4
    <3> QED BY <3>2, <2>4
  <2> QED BY <2>2, <2>3, <2>4
<1> QED BY <1>13

\* The counts are those of codes of a table, and with a triple its two pairs
\* are counted, with a pair its two codes.
CountsFit(table) ==
  /\ AllowedTable(table)
  /\ DOMAIN count1 \subseteq KeysOf(table)
  /\ DOMAIN count2 \subseteq (DOMAIN count1) \X (DOMAIN count1)
  /\ \A t \in DOMAIN count3 : \E a, b, c \in DOMAIN count1 :
       t = <<a, b, c>> /\ <<a, b>> \in DOMAIN count2 /\ <<b, c>> \in DOMAIN count2
  /\ \A c \in DOMAIN count1 : count1[c] \in Int
  /\ \A p \in DOMAIN count2 : count2[p] \in Int
  /\ \A t \in DOMAIN count3 : count3[t] \in Int

\* The codes in the heap are counted and refer to prevSym.
CodesFit == CountsFit(prevSym)

\* the entries of one, two and three codes
OneOf(of) == \E a \in DOMAIN count1 : of = <<a>>
TwoOf(of) ==
  \E a, b \in DOMAIN count1 :
    of = <<a, b>> /\ of \in DOMAIN count2 /\ Extends(Previous(a), Previous(b))
ThreeOf(of) ==
  \E a, b, c \in DOMAIN count1 :
    /\ of = <<a, b, c>> /\ of \in DOMAIN count3
    /\ <<a, b>> \in DOMAIN count2 /\ <<b, c>> \in DOMAIN count2
    /\ Len(Previous(a)) + Len(Previous(b)) < MaxLen
    /\ Previous(a)[1] # terminator /\ Previous(b)[1] # terminator /\ Previous(c)[1] # terminator

\* One, two or three codes may become a symbol.
LEMMA OfCases ==
  ASSUME CodesFit, NEW of
  PROVE  of \in Ofs <=> OneOf(of) \/ TwoOf(of) \/ ThreeOf(of)
<1>1. OneOf(of) <=> of \in {<<c>> : c \in DOMAIN count1}
  BY DEF OneOf
<1>2. TwoOf(of) <=> of \in Pairable(prevSym, DOMAIN count2)
  <2>1. ASSUME of \in DOMAIN count2 PROVE \E a, b \in DOMAIN count1 : of = <<a, b>>
    BY <2>1 DEF CodesFit, CountsFit
  <2>2. ASSUME NEW a, NEW b, of = <<a, b>>
        PROVE  of \in Pairable(prevSym, DOMAIN count2)
                 <=> of \in DOMAIN count2 /\ Extends(Previous(a), Previous(b))
    <3>1. of[1] = a /\ of[2] = b
      BY <2>2
    <3> QED BY <3>1 DEF Pairable, Previous
  <2>3. of \in Pairable(prevSym, DOMAIN count2) => of \in DOMAIN count2
    BY DEF Pairable
  <2> QED BY <2>1, <2>2, <2>3 DEF TwoOf
<1>3. ThreeOf(of) <=> of \in Joinable(prevSym, DOMAIN count3)
  <2>1. ASSUME of \in DOMAIN count3
        PROVE  \E a, b, c \in DOMAIN count1 :
                 of = <<a, b, c>> /\ <<a, b>> \in DOMAIN count2 /\ <<b, c>> \in DOMAIN count2
    BY <2>1 DEF CodesFit, CountsFit
  <2>2. ASSUME NEW a, NEW b, NEW c, of = <<a, b, c>>
        PROVE  of \in Joinable(prevSym, DOMAIN count3)
                 <=> /\ of \in DOMAIN count3
                     /\ Len(Previous(a)) + Len(Previous(b)) < MaxLen
                     /\ Previous(a)[1] # terminator /\ Previous(b)[1] # terminator
                     /\ Previous(c)[1] # terminator
    <3>1. of[1] = a /\ of[2] = b /\ of[3] = c
      BY <2>2
    <3>2. (\A i \in 1..3 : StringOf(prevSym, of[i])[1] # terminator)
            <=> Previous(a)[1] # terminator /\ Previous(b)[1] # terminator /\ Previous(c)[1] # terminator
      <4>1. \A i \in 1..3 : i = 1 \/ i = 2 \/ i = 3
        OBVIOUS
      <4>2. 1 \in 1..3 /\ 2 \in 1..3 /\ 3 \in 1..3
        OBVIOUS
      <4> QED BY <3>1, <4>1, <4>2 DEF Previous
    <3> QED BY <3>1, <3>2 DEF Joinable, Previous
  <2>3. of \in Joinable(prevSym, DOMAIN count3) => of \in DOMAIN count3
    BY DEF Joinable
  <2> QED BY <2>1, <2>2, <2>3 DEF ThreeOf
<1> QED BY <1>1, <1>2, <1>3 DEF Ofs

\* What a code of the last table stood for.
LEMMA PreviousAllowed ==
  ASSUME CodesFit, NEW c \in DOMAIN count1
  PROVE  Allowed(Previous(c)) /\ Previous(c) \in Strings
<1>1. Allowed(Previous(c))
  BY StringOfAllowed DEF CodesFit, CountsFit, Previous
<1> QED BY <1>1 DEF Allowed

\* A string of its own length needs no cut.
LEMMA ConcatShort ==
  ASSUME NEW s \in Strings
  PROVE  /\ Concat(<< >>, s) = s
         /\ \A t \in Strings : Len(s) + Len(t) < MaxLen =>
              Concat(s, t) = s \o t /\ Len(s \o t) = Len(s) + Len(t) /\ (s \o t)[1] = s[1]
<1>1. s \in Seq(Byte) /\ Len(s) \in 1..MaxLen /\ MaxLen \in Nat
  BY StringFacts, SizeAssumption
<1>2. << >> \o s = s
  BY <1>1
<1>3. ASSUME NEW E, NEW w \in Seq(E), Len(w) <= MaxLen
      PROVE  SubSeq(w, 1, IF Len(w) > MaxLen THEN MaxLen ELSE Len(w)) = w
  <2>1. Len(w) \in Nat /\ ~(Len(w) > MaxLen)
    BY <1>1, <1>3
  <2>2. SubSeq(w, 1, Len(w)) = w
    OBVIOUS
  <2> QED BY <2>1, <2>2
<1>4. Concat(<< >>, s) = s
  <2>1. Len(s) <= MaxLen
    BY <1>1
  <2> QED BY <1>1, <1>2, <1>3, <2>1 DEF Concat
<1>5. ASSUME NEW t \in Strings, Len(s) + Len(t) < MaxLen
      PROVE  Concat(s, t) = s \o t /\ Len(s \o t) = Len(s) + Len(t) /\ (s \o t)[1] = s[1]
  <2>1. t \in Seq(Byte) /\ Len(t) \in 1..MaxLen
    BY StringFacts
  <2>2. /\ s \o t \in Seq(Byte) /\ Len(s \o t) = Len(s) + Len(t)
        /\ \A i \in 1..Len(s) + Len(t) : (s \o t)[i] = IF i <= Len(s) THEN s[i] ELSE t[i - Len(s)]
    BY <1>1, <2>1, ConcatProperties
  <2>3. (s \o t)[1] = s[1]
    <3>1. 1 \in 1..Len(s) + Len(t) /\ 1 <= Len(s)
      BY <1>1, <2>1
    <3> QED BY <2>2, <3>1
  <2>4. Len(s \o t) <= MaxLen
    BY <1>1, <1>5, <2>1, <2>2
  <2> QED BY <1>3, <2>2, <2>3, <2>4 DEF Concat
<1> QED BY <1>4, <1>5

\* What the heap proposes may become a symbol.
LEMMA JoinedAllowed ==
  ASSUME CodesFit, NEW of \in Ofs
  PROVE  Allowed(Joined(of)) /\ Joined(of) \in Strings /\ Len(of) \in 1..3
<1> DEFINE strings(o) == [i \in 1..Len(o) |-> Previous(o[i])]
<1>0. OneOf(of) \/ TwoOf(of) \/ ThreeOf(of)
  BY OfCases
<1>1. CASE OneOf(of)
  <2>1. PICK a \in DOMAIN count1 : of = <<a>>
    BY <1>1 DEF OneOf
  <2>2. Len(of) = 1 /\ of[1] = a
    BY <2>1
  <2>3. PICK s : s = strings(of)
    OBVIOUS
  <2>4. DOMAIN s = 1..1 /\ s[1] = Previous(a)
    BY <2>2, <2>3
  <2>5. FoldLeft(Concat, << >>, s) = Concat(<< >>, s[1])
    <3>1. 1 \in 1..3
      OBVIOUS
    <3> QED BY <2>4, <3>1, JoinUnfolds
  <2>6. Joined(of) = Previous(a)
    <3>1. Joined(of) = FoldLeft(Concat, << >>, s)
      BY <2>3 DEF Joined
    <3> QED BY <2>4, <2>5, <3>1, PreviousAllowed, ConcatShort
  <2> QED BY <2>2, <2>6, PreviousAllowed
<1>2. CASE TwoOf(of)
  <2>1. PICK a, b \in DOMAIN count1 : of = <<a, b>> /\ Extends(Previous(a), Previous(b))
    BY <1>2 DEF TwoOf
  <2>2. Len(of) = 2 /\ of[1] = a /\ of[2] = b
    BY <2>1
  <2>3. PICK s : s = strings(of)
    OBVIOUS
  <2>4. DOMAIN s = 1..2 /\ s[1] = Previous(a) /\ s[2] = Previous(b)
    BY <2>2, <2>3
  <2>5. FoldLeft(Concat, << >>, s) = Concat(Concat(<< >>, s[1]), s[2])
    <3>1. 2 \in 1..3
      OBVIOUS
    <3> QED BY <2>4, <3>1, JoinUnfolds
  <2>6. Joined(of) = Concat(Previous(a), Previous(b))
    <3>1. Joined(of) = FoldLeft(Concat, << >>, s)
      BY <2>3 DEF Joined
    <3> QED BY <2>4, <2>5, <3>1, PreviousAllowed, ConcatShort
  <2>7. Allowed(Joined(of))
    BY <2>1, <2>6, PreviousAllowed, ConcatAllowed
  <2> QED BY <2>2, <2>7 DEF Allowed
<1>3. CASE ThreeOf(of)
  <2>1. PICK a, b, c \in DOMAIN count1 :
          /\ of = <<a, b, c>>
          /\ Len(Previous(a)) + Len(Previous(b)) < MaxLen
          /\ Previous(a)[1] # terminator /\ Previous(b)[1] # terminator /\ Previous(c)[1] # terminator
    BY <1>3 DEF ThreeOf
  <2>2. Len(of) = 3 /\ of[1] = a /\ of[2] = b /\ of[3] = c
    BY <2>1
  <2>3. PICK s : s = strings(of)
    OBVIOUS
  <2>4. DOMAIN s = 1..3 /\ s[1] = Previous(a) /\ s[2] = Previous(b) /\ s[3] = Previous(c)
    BY <2>2, <2>3
  <2>5. FoldLeft(Concat, << >>, s) = Concat(Concat(Concat(<< >>, s[1]), s[2]), s[3])
    <3>1. 3 \in 1..3
      OBVIOUS
    <3> QED BY <2>4, <3>1, JoinUnfolds
  <2>6. Joined(of) = Concat(Concat(Previous(a), Previous(b)), Previous(c))
    <3>1. Joined(of) = FoldLeft(Concat, << >>, s)
      BY <2>3 DEF Joined
    <3> QED BY <2>4, <2>5, <3>1, PreviousAllowed, ConcatShort
  <2>7. /\ Allowed(Previous(a)) /\ Allowed(Previous(b)) /\ Allowed(Previous(c))
        /\ Previous(a) \in Strings /\ Previous(b) \in Strings
    BY PreviousAllowed
  <2>8. Len(Previous(a)) \in Nat /\ Len(Previous(b)) \in Nat /\ Len(Previous(b)) >= 1 /\ MaxLen \in Nat
    BY <2>7, StringFacts, SizeAssumption
  <2> DEFINE ab == Concat(Previous(a), Previous(b))
  <2>9. Len(ab) < MaxLen /\ ab[1] = Previous(a)[1]
    BY <2>1, <2>7, ConcatShort
  <2>10. Allowed(ab)
    <3>1. Len(Previous(a)) < MaxLen
      BY <2>1, <2>8
    <3>2. Extends(Previous(a), Previous(b))
      BY <2>1, <3>1 DEF Extends
    <3> QED BY <2>7, <3>2, ConcatAllowed
  <2>11. Extends(ab, Previous(c))
    BY <2>1, <2>9 DEF Extends
  <2>12. Allowed(Joined(of))
    <3> HIDE DEF ab
    <3>1. Allowed(Concat(ab, Previous(c)))
      BY <2>7, <2>10, <2>11, ConcatAllowed
    <3> QED BY <2>6, <3>1 DEF ab
  <2> QED BY <2>2, <2>12 DEF Allowed
<1> QED BY <1>0, <1>1, <1>2, <1>3

-----------------------------------------------------------------------------
\* Adding only lets more strings be refused, and the one that was added.
LEMMA RefusedStays ==
  ASSUME TrainingTypes, flags' = flags, NEW s \in Strings, InsertSymbol(s)
  PROVE  Refused(s)' /\ \A t \in Strings : Refused(t) => Refused(t)'
<1>1. \A t : Number(t)' = Number(t)
  BY DEF Number
<1>2. \A t : PastIndex(t)' <=> PastIndex(t)
  BY DEF PastIndex, Bypass
<1>3. \A t \in Strings : t[1] \in Byte /\ Len(t) \in Nat /\ Len(t) >= 1 /\ (Len(t) = 2 => t[2] \in Byte)
  <2> TAKE t \in Strings
  <2>1. Len(t) \in 1..MaxLen /\ \A i \in 1..Len(t) : t[i] \in Byte
    BY StringFacts
  <2> QED BY <2>1, SizeAssumption
<1>4. CASE PastIndex(s)
  <2>1. /\ seen' = seen \cup {Number(s)}
        /\ byteCodes' = byteCodes /\ shortCodes' = shortCodes /\ hashTab' = hashTab
    BY <1>4 DEF InsertSymbol, AppendSymbol
  <2>2. \A t : Taken(t)' <=> Taken(t)
    BY <2>1 DEF Taken
  <2> QED BY <1>1, <1>2, <1>4, <2>1, <2>2 DEF Refused
<1>5. CASE ~PastIndex(s)
  <2>1. Insert(s) /\ seen' = seen
    BY <1>5 DEF InsertSymbol
  <2>2. PICK c : c = NextCode
    OBVIOUS
  <2>3. c \in Nat /\ c >= CodeBase
    BY <2>2 DEF TrainingTypes, NextCode, CodeBase
  <2>4. /\ byteCodes' = IF Len(s) = 1 THEN [byteCodes EXCEPT ![s[1]] = [code |-> c, len |-> 1]] ELSE byteCodes
        /\ shortCodes' = IF Len(s) = 2 THEN [shortCodes EXCEPT ![<<s[1], s[2]>>] = [code |-> c, len |-> 2]]
                         ELSE shortCodes
        /\ hashTab' = IF Len(s) > 2 THEN [hashTab EXCEPT ![BucketOf(s)] = [str |-> s, code |-> c]] ELSE hashTab
    BY <2>1, <2>2 DEF Insert, Index
  <2>5. /\ DOMAIN byteCodes = Byte /\ DOMAIN shortCodes = Byte \X Byte /\ DOMAIN hashTab = Buckets
    BY DEF TrainingTypes
  <2>6. ASSUME NEW t \in Strings, Taken(t) \/ t = s PROVE Taken(t)'
    <3>1. CASE Len(t) = 1
      <4>1. Len(s) = 1 => byteCodes'[t[1]] = IF t[1] = s[1] THEN [code |-> c, len |-> 1] ELSE byteCodes[t[1]]
        BY <1>3, <2>4, <2>5
      <4>2. Taken(t) <=> byteCodes[t[1]].code >= CodeBase
        BY <3>1 DEF Taken
      <4>3. Taken(t)' <=> byteCodes'[t[1]].code >= CodeBase
        BY <3>1 DEF Taken
      <4>4. CASE Len(s) = 1 /\ t[1] = s[1]
        <5>1. byteCodes'[t[1]].code = c
          BY <4>1, <4>4
        <5> QED BY <2>3, <4>3, <5>1
      <4>5. CASE ~(Len(s) = 1 /\ t[1] = s[1])
        <5>1. byteCodes'[t[1]] = byteCodes[t[1]]
          BY <2>4, <4>1, <4>5
        <5>2. t # s
          BY <3>1, <4>5
        <5> QED BY <2>6, <4>2, <4>3, <5>1, <5>2
      <4> QED BY <4>4, <4>5
    <3>2. CASE Len(t) = 2
      <4> DEFINE p == <<t[1], t[2]>>
                 q == <<s[1], s[2]>>
      <4>0. p \in Byte \X Byte
        BY <1>3, <3>2
      <4>1. Len(s) = 2 => shortCodes'[p] = IF p = q THEN [code |-> c, len |-> 2] ELSE shortCodes[p]
        <5> HIDE DEF p
        <5> QED BY <2>4, <2>5, <4>0
      <4>2. Taken(t) <=> shortCodes[p].code >= CodeBase
        BY <3>2 DEF Taken
      <4>3. Taken(t)' <=> shortCodes'[p].code >= CodeBase
        BY <3>2 DEF Taken
      <4>4. CASE Len(s) = 2 /\ p = q
        <5>1. shortCodes'[p].code = c
          BY <4>1, <4>4
        <5> QED BY <2>3, <4>3, <5>1
      <4>5. CASE ~(Len(s) = 2 /\ p = q)
        <5>1. t # s
          BY <3>2, <4>5
        <5> HIDE DEF p, q
        <5>2. shortCodes'[p] = shortCodes[p]
          BY <2>4, <4>1, <4>5
        <5> QED BY <2>6, <4>2, <4>3, <5>1, <5>2
      <4> QED BY <4>4, <4>5
    <3>3. CASE Len(t) # 1 /\ Len(t) # 2
      <4>0. BucketOf(t) \in Buckets /\ Len(t) > 2 /\ BucketOf(t)' = BucketOf(t)
        <5>1. BucketOf(t)' = BucketOf(t)
          BY DEF BucketOf, Key
        <5>2. Len(t) > 2
          <6>1. PICK n : n = Len(t)
            OBVIOUS
          <6>2. n \in Nat /\ n >= 1 /\ n # 1 /\ n # 2
            BY <1>3, <3>3, <6>1
          <6>3. n > 2
            BY <6>2
          <6> QED BY <6>1, <6>3
        <5> QED BY <5>1, <5>2, KeyFacts
      <4>1. Len(s) > 2 => hashTab'[BucketOf(t)] = IF BucketOf(t) = BucketOf(s) THEN [str |-> s, code |-> c]
                                                ELSE hashTab[BucketOf(t)]
        BY <2>4, <2>5, <4>0
      <4>2. Taken(t) <=> hashTab[BucketOf(t)] # Free
        BY <3>3 DEF Taken
      <4>3. Taken(t)' <=> hashTab'[BucketOf(t)] # Free
        BY <3>3, <4>0 DEF Taken, Free
      <4>4. CASE Len(s) > 2 /\ BucketOf(t) = BucketOf(s)
        <5>1. hashTab'[BucketOf(t)] = [str |-> s, code |-> c]
          BY <4>1, <4>4
        <5>2. [str |-> s, code |-> c] # Free
          <6>1. s # << >>
            BY <4>4
          <6> QED BY <6>1 DEF Free
        <5> QED BY <4>3, <5>1, <5>2
      <4>5. CASE ~(Len(s) > 2 /\ BucketOf(t) = BucketOf(s))
        <5>1. t # s
          BY <4>0, <4>5
        <5>2. hashTab'[BucketOf(t)] = hashTab[BucketOf(t)]
          BY <2>4, <4>1, <4>5
        <5> QED BY <2>6, <4>2, <4>3, <5>1, <5>2
      <4> QED BY <4>4, <4>5
    <3> QED BY <3>1, <3>2, <3>3
  <2> QED BY <1>1, <1>2, <1>5, <2>1, <2>6 DEF Refused
<1> QED BY <1>4, <1>5

\* What may be joined, and to what, depends on the codes that are counted.
LEMMA SameOfs ==
  ASSUME prevSym' = prevSym, terminator' = terminator, DOMAIN count1' = DOMAIN count1,
         DOMAIN count2' = DOMAIN count2, DOMAIN count3' = DOMAIN count3
  PROVE  Ofs' = Ofs /\ \A of : Joined(of)' = Joined(of)
<1>1. Ofs' = Ofs
  BY DEF Ofs, Pairable, Joinable, Extends, StringOf, IndexOf
<1>2. \A of : Joined(of)' = Joined(of)
  BY DEF Joined, Previous, StringOf, IndexOf
<1> QED BY <1>1, <1>2

\* Every entry is for codes that can be joined.
HeapEntries == \A e \in heap : \E o \in Ofs : \E k \in Int : e = [of |-> o, cnt |-> k]

\* Whatever could still be added is in the heap, with its count as it is.
HeapComplete ==
  \A o \in Ofs : Current(o) > 0 /\ ~Refused(Joined(o)) => [of |-> o, cnt |-> Current(o)] \in heap

\* Lower counts of the same codes fit the same table.
LEMMA FitStays ==
  ASSUME CodesFit, prevSym' = prevSym, terminator' = terminator, count3' = count3,
         DOMAIN count1' = DOMAIN count1, DOMAIN count2' = DOMAIN count2,
         \A c \in DOMAIN count1 : count1'[c] \in Int, \A p \in DOMAIN count2 : count2'[p] \in Int
  PROVE  CodesFit'
<1>1. \A table : AllowedTable(table)' <=> AllowedTable(table)
  BY DEF AllowedTable, Allowed
<1>2. KeysOf(prevSym)' = KeysOf(prevSym)
  BY DEF KeysOf
<1>3. AllowedTable(prevSym)'
  <2>1. AllowedTable(prevSym)
    BY DEF CodesFit, CountsFit
  <2> QED BY <1>1, <2>1 DEF AllowedTable, Allowed
<1>4. \A t \in DOMAIN count3 : \E a, b, c \in DOMAIN count1 :
        t = <<a, b, c>> /\ <<a, b>> \in DOMAIN count2 /\ <<b, c>> \in DOMAIN count2
  BY DEF CodesFit, CountsFit
<1>5. \A t \in DOMAIN count3' : \E a, b, c \in DOMAIN count1' :
        t = <<a, b, c>> /\ <<a, b>> \in DOMAIN count2' /\ <<b, c>> \in DOMAIN count2'
  BY <1>4
<1>6. /\ DOMAIN count1' \subseteq KeysOf(prevSym)'
      /\ DOMAIN count2' \subseteq (DOMAIN count1') \X (DOMAIN count1')
      /\ \A t \in DOMAIN count3' : count3'[t] \in Int
  BY <1>2 DEF CodesFit, CountsFit
<1> QED BY <1>3, <1>5, <1>6 DEF CodesFit, CountsFit

\* The part of an entry that a number of codes is counted by
LEMMA CurrentCases ==
  ASSUME NEW of
  PROVE  /\ Len(of) = 1 => Current(of) = count1[of[1]] /\ Current(of)' = count1'[of[1]]
         /\ Len(of) = 2 => Current(of) = count2[of] /\ Current(of)' = count2'[of]
         /\ Len(of) = 3 => Current(of) = count3[of] /\ Current(of)' = count3'[of]
BY DEF Current

\* Dropping what is outdated or refused loses nothing.
LEMMA DropKeeps ==
  ASSUME CodesFit, HeapEntries, HeapComplete, NEW e \in heap,
         Current(e.of) # e.cnt \/ Refused(Joined(e.of)), heap' = heap \ {e},
         UNCHANGED <<tvars, count1, count2, count3, seen, prevSym, flags>>
  PROVE  CodesFit' /\ HeapEntries' /\ HeapComplete'
<1>1. terminator' = terminator /\ byteCodes' = byteCodes /\ shortCodes' = shortCodes /\ hashTab' = hashTab
  BY DEF tvars, modes, indexes
<1>2. CodesFit'
  <2>1. (\A c \in DOMAIN count1 : count1[c] \in Int) /\ (\A p \in DOMAIN count2 : count2[p] \in Int)
    BY DEF CodesFit, CountsFit
  <2> QED BY <1>1, <2>1, FitStays
<1>3. Ofs' = Ofs /\ \A of : Joined(of)' = Joined(of)
  BY <1>1, SameOfs
<1>4. \A o : Current(o)' = Current(o)
  BY DEF Current
<1>5. \A s : Refused(s)' <=> Refused(s)
  BY <1>1 DEF Refused, PastIndex, Bypass, Taken, BucketOf, Key, Number, Free
<1>6. HeapEntries'
  BY <1>3 DEF HeapEntries
<1>7. ASSUME NEW o \in Ofs', Current(o)' > 0, ~Refused(Joined(o))'
      PROVE  [of |-> o, cnt |-> Current(o)'] \in heap'
  <2>1. [of |-> o, cnt |-> Current(o)] \in heap
    BY <1>3, <1>4, <1>5, <1>7 DEF HeapComplete
  <2>2. [of |-> o, cnt |-> Current(o)] # e
    <3> SUFFICES ASSUME [of |-> o, cnt |-> Current(o)] = e PROVE FALSE
      OBVIOUS
    <3>1. e.of = o /\ e.cnt = Current(o)
      OBVIOUS
    <3>2. ~Refused(Joined(o))
      BY <1>3, <1>5, <1>7
    <3> QED BY <3>1, <3>2
  <2> QED BY <1>4, <2>1, <2>2
<1>8. HeapComplete'
  BY <1>7 DEF HeapComplete
<1> QED BY <1>2, <1>6, <1>8

\* Nor does adding the string of an entry, which is refused from then on.
LEMMA AcceptKeeps ==
  ASSUME TrainingTypes, CodesFit, HeapEntries, HeapComplete, NEW e \in heap,
         InsertSymbol(Joined(e.of)), heap' = heap \ {e},
         UNCHANGED <<count1, count2, count3, prevSym, flags>>
  PROVE  CodesFit' /\ HeapEntries' /\ HeapComplete'
<1>1. terminator' = terminator
  BY DEF InsertSymbol, AppendSymbol, Insert, modes
<1>2. CodesFit'
  <2>1. (\A c \in DOMAIN count1 : count1[c] \in Int) /\ (\A p \in DOMAIN count2 : count2[p] \in Int)
    BY DEF CodesFit, CountsFit
  <2> QED BY <1>1, <2>1, FitStays
<1>3. Ofs' = Ofs /\ \A of : Joined(of)' = Joined(of)
  BY <1>1, SameOfs
<1>4. \A o : Current(o)' = Current(o)
  BY DEF Current
<1>5. e.of \in Ofs
  BY DEF HeapEntries
<1>6. HeapEntries'
  BY <1>3 DEF HeapEntries
<1>7. /\ \A o \in Ofs : Refused(Joined(o)) => Refused(Joined(o))'
      /\ Refused(Joined(e.of))'
  <2>1. \A o \in Ofs : Joined(o) \in Strings
    BY JoinedAllowed
  <2>2. PICK s \in Strings : s = Joined(e.of)
    BY <1>5, <2>1
  <2>3. InsertSymbol(s)
    BY <2>2
  <2>4. Refused(s)' /\ \A t \in Strings : Refused(t) => Refused(t)'
    BY <2>3, RefusedStays
  <2> QED BY <1>3, <1>5, <2>1, <2>2, <2>4
<1>8. ASSUME NEW o \in Ofs, Current(o)' > 0, ~Refused(Joined(o))'
      PROVE  [of |-> o, cnt |-> Current(o)'] \in heap'
  <2>1. [of |-> o, cnt |-> Current(o)] \in heap
    BY <1>4, <1>7, <1>8 DEF HeapComplete
  <2>2. [of |-> o, cnt |-> Current(o)] # e
    <3> SUFFICES ASSUME [of |-> o, cnt |-> Current(o)] = e PROVE FALSE
      OBVIOUS
    <3>1. e.of = o
      OBVIOUS
    <3> QED BY <1>7, <1>8, <3>1
  <2> QED BY <1>4, <2>1, <2>2
<1>9. HeapComplete'
  BY <1>3, <1>8 DEF HeapComplete
<1> QED BY <1>2, <1>6, <1>9

\* how often a part is in a string of codes
LEMMA TimesType ==
  ASSUME NEW part, NEW of, Len(part) \in Nat, Len(of) \in Nat, Len(part) <= Len(of)
  PROVE  /\ Times(part, of) \in Nat
         /\ (\A i \in 1..Len(of) - Len(part) + 1 : \E j \in 1..Len(part) : of[i + j - 1] # part[j])
              => Times(part, of) = 0
<1> DEFINE n == Len(of) - Len(part) + 1
           S == {i \in 1..n : \A j \in 1..Len(part) : of[i + j - 1] = part[j]}
<1>1. n \in Nat /\ S \subseteq 1..n /\ Times(part, of) = Cardinality(S)
  BY DEF Times
<1>2. (\A i \in 1..n : \E j \in 1..Len(part) : of[i + j - 1] # part[j]) => S = {}
  OBVIOUS
<1> HIDE DEF S
<1>3. IsFiniteSet(S)
  <2> HIDE DEF n
  <2>1. IsFiniteSet(1..n) /\ S \in SUBSET (1..n)
    BY <1>1, SizeOfRange
  <2> QED BY <2>1, FS_Subset
<1>4. Cardinality(S) \in Nat /\ (S = {} => Cardinality(S) = 0)
  BY <1>3, FS_CardinalityType, FS_EmptySet
<1> QED BY <1>1, <1>2, <1>4

\* The codes of a string of two or three, and their parts
LEMMA PartsCases ==
  ASSUME CodesFit, NEW of \in Ofs, Len(of) > 1
  PROVE  /\ Parts(of) \subseteq Ofs
         /\ \A c \in DOMAIN count1 :
              Times(<<c>>, of) \in Nat /\ (<<c>> \notin Parts(of) => Times(<<c>>, of) = 0)
         /\ \A p \in DOMAIN count2 : Len(of) = 3 =>
              Times(p, of) \in Nat /\ (p \notin Parts(of) => Times(p, of) = 0)
<1>0. TwoOf(of) \/ ThreeOf(of)
  <2>1. OneOf(of) => Len(of) = 1
    BY DEF OneOf
  <2>2. ~OneOf(of)
    <3> SUFFICES ASSUME OneOf(of) PROVE FALSE
      OBVIOUS
    <3>1. PICK n : n = Len(of)
      OBVIOUS
    <3>2. n = 1 /\ n > 1
      BY <2>1, <3>1
    <3> QED BY <3>2
  <2>3. OneOf(of) \/ TwoOf(of) \/ ThreeOf(of)
    BY OfCases
  <2> QED BY <2>2, <2>3
<1>1. PICK n : n = Len(of)
  OBVIOUS
<1>2. /\ n \in 2..3 /\ Len(of) \in Nat
      /\ \A i \in 1..n : of[i] \in DOMAIN count1
      /\ n = 3 => /\ <<of[1], of[2]>> \in Pairable(prevSym, DOMAIN count2)
                  /\ <<of[2], of[3]>> \in Pairable(prevSym, DOMAIN count2)
  <2>1. CASE TwoOf(of)
    <3>1. PICK a, b \in DOMAIN count1 : of = <<a, b>>
      BY <2>1 DEF TwoOf
    <3>2. n = 2 /\ of[1] = a /\ of[2] = b
      BY <1>1, <3>1
    <3>3. \A i \in 1..2 : i = 1 \/ i = 2
      OBVIOUS
    <3> QED BY <1>1, <3>2, <3>3
  <2>2. CASE ThreeOf(of)
    <3>1. PICK a, b, c \in DOMAIN count1 :
            /\ of = <<a, b, c>>
            /\ <<a, b>> \in DOMAIN count2 /\ <<b, c>> \in DOMAIN count2
            /\ Len(Previous(a)) + Len(Previous(b)) < MaxLen
            /\ Previous(a)[1] # terminator /\ Previous(b)[1] # terminator /\ Previous(c)[1] # terminator
      BY <2>2 DEF ThreeOf
    <3>2. n = 3 /\ of[1] = a /\ of[2] = b /\ of[3] = c
      BY <1>1, <3>1
    <3>3. \A i \in 1..3 : i = 1 \/ i = 2 \/ i = 3
      OBVIOUS
    <3>4. Len(Previous(a)) < MaxLen /\ Len(Previous(b)) < MaxLen
      <4>1. Len(Previous(a)) \in Nat /\ Len(Previous(b)) \in Nat /\ Len(Previous(a)) >= 1 /\ Len(Previous(b)) >= 1
        BY PreviousAllowed, StringFacts, SizeAssumption
      <4> QED BY <3>1, <4>1, SizeAssumption
    <3>5. Extends(Previous(a), Previous(b)) /\ Extends(Previous(b), Previous(c))
      BY <3>1, <3>4 DEF Extends
    <3>6. TwoOf(<<a, b>>) /\ TwoOf(<<b, c>>)
      BY <3>1, <3>5 DEF TwoOf
    <3>7. \A x, y : <<x, y>>[1] = x /\ <<x, y>>[2] = y
      OBVIOUS
    <3>8. <<a, b>> \in Pairable(prevSym, DOMAIN count2) /\ <<b, c>> \in Pairable(prevSym, DOMAIN count2)
      BY <3>1, <3>5, <3>7 DEF Pairable, Previous
    <3> QED BY <1>1, <3>2, <3>3, <3>8
  <2> QED BY <1>0, <2>1, <2>2
<1>3. Parts(of) \subseteq Ofs
  <2> SUFFICES ASSUME NEW q \in Parts(of) PROVE q \in Ofs
    OBVIOUS
  <2>1. CASE \E i \in 1..n : q = <<of[i]>>
    BY <1>2, <2>1 DEF Ofs
  <2>2. CASE n = 3 /\ (q = <<of[1], of[2]>> \/ q = <<of[2], of[3]>>)
    BY <1>2, <2>2 DEF Ofs
  <2> QED BY <1>1, <2>1, <2>2 DEF Parts
<1>4. ASSUME NEW c \in DOMAIN count1
      PROVE  Times(<<c>>, of) \in Nat /\ (<<c>> \notin Parts(of) => Times(<<c>>, of) = 0)
  <2>1. PICK part : part = <<c>>
    OBVIOUS
  <2>2. Len(part) = 1 /\ part[1] = c /\ 1 \in 1..1
    BY <2>1
  <2>3. Len(part) \in Nat /\ Len(part) <= Len(of) /\ Len(of) - Len(part) + 1 = n
    BY <1>1, <1>2, <2>2
  <2>4. ASSUME part \notin Parts(of), NEW i \in 1..n PROVE of[i + 1 - 1] # part[1]
    <3>1. of[i] # c
      BY <1>1, <2>1, <2>4 DEF Parts
    <3>2. i + 1 - 1 = i
      OBVIOUS
    <3> QED BY <2>2, <3>1, <3>2
  <2>5. part \notin Parts(of) => \A i \in 1..Len(of) - Len(part) + 1 :
          \E j \in 1..Len(part) : of[i + j - 1] # part[j]
    BY <2>2, <2>3, <2>4
  <2> QED BY <1>2, <2>1, <2>3, <2>5, TimesType
<1>5. ASSUME NEW p \in DOMAIN count2, n = 3
      PROVE  Times(p, of) \in Nat /\ (p \notin Parts(of) => Times(p, of) = 0)
  <2>1. PICK a, b : p = <<a, b>>
    BY DEF CodesFit, CountsFit
  <2>2. Len(p) = 2 /\ p[1] = a /\ p[2] = b /\ 1 \in 1..2 /\ 2 \in 1..2
    BY <2>1
  <2>3. Len(p) \in Nat /\ Len(p) <= Len(of) /\ Len(of) - Len(p) + 1 = 2
    BY <1>1, <1>5, <2>2
  <2>4. ASSUME p \notin Parts(of), NEW i \in 1..2
        PROVE  of[i + 1 - 1] # p[1] \/ of[i + 2 - 1] # p[2]
    <3>1. <<of[1], of[2]>> # p /\ <<of[2], of[3]>> # p
      BY <1>1, <1>5, <2>4 DEF Parts
    <3>2. ~(of[1] = a /\ of[2] = b) /\ ~(of[2] = a /\ of[3] = b)
      BY <2>1, <3>1
    <3>3. \/ i + 1 - 1 = 1 /\ i + 2 - 1 = 2
          \/ i + 1 - 1 = 2 /\ i + 2 - 1 = 3
      OBVIOUS
    <3> QED BY <2>2, <3>2, <3>3
  <2>5. p \notin Parts(of) => \A i \in 1..Len(of) - Len(p) + 1 :
          \E j \in 1..Len(p) : of[i + j - 1] # p[j]
    BY <2>2, <2>3, <2>4
  <2> QED BY <1>2, <2>3, <2>5, TimesType
<1> QED BY <1>1, <1>3, <1>4, <1>5

\* Nor does pruning: what has its count lowered is pushed again, and what
\* has not keeps its entry.
LEMMA PruneKeeps ==
  ASSUME TrainingTypes, CodesFit, HeapEntries, HeapComplete, NEW e \in heap, Len(e.of) > 1,
         InsertSymbol(Joined(e.of)), Prune(e, Parts(e.of)),
         UNCHANGED <<count3, prevSym, flags>>
  PROVE  CodesFit' /\ HeapEntries' /\ HeapComplete'
<1> DEFINE used == e.cnt \div 2
           less(part) == Current(part) - used * Times(part, e.of)
<1>1. PICK of \in Ofs, cnt \in Int : e = [of |-> of, cnt |-> cnt]
  BY DEF HeapEntries
<1>2. e.of = of /\ e.cnt = cnt /\ Len(of) > 1
  BY <1>1
<1>3. PICK u \in Int : u = used
  BY <1>2
<1>4. /\ count1' = [c \in DOMAIN count1 |-> less(<<c>>)]
      /\ count2' = IF Len(of) = 3 THEN [p \in DOMAIN count2 |-> less(p)] ELSE count2
      /\ heap' = (heap \ {e}) \cup {[of |-> p, cnt |-> less(p)] : p \in {q \in Parts(of) : less(q) > 0}}
  BY <1>2 DEF Prune
<1>5. \A part : less(part) = Current(part) - u * Times(part, of)
  BY <1>2, <1>3
<1> HIDE DEF less
<1>6. /\ Parts(of) \subseteq Ofs
      /\ \A c \in DOMAIN count1 :
           Times(<<c>>, of) \in Nat /\ (<<c>> \notin Parts(of) => Times(<<c>>, of) = 0)
      /\ \A p \in DOMAIN count2 : Len(of) = 3 =>
           Times(p, of) \in Nat /\ (p \notin Parts(of) => Times(p, of) = 0)
  BY <1>2, PartsCases
<1>7. /\ \A c \in DOMAIN count1 : Current(<<c>>) = count1[c] /\ Current(<<c>>)' = count1'[c] /\ count1[c] \in Int
      /\ \A p \in DOMAIN count2 : Current(p) = count2[p] /\ Current(p)' = count2'[p] /\ count2[p] \in Int
  <2>1. \A c \in DOMAIN count1 : Len(<<c>>) = 1 /\ <<c>>[1] = c
    OBVIOUS
  <2>2. \A p \in DOMAIN count2 : Len(p) = 2
    BY DEF CodesFit, CountsFit
  <2>3. (\A c \in DOMAIN count1 : count1[c] \in Int) /\ (\A p \in DOMAIN count2 : count2[p] \in Int)
    BY DEF CodesFit, CountsFit
  <2> QED BY <2>1, <2>2, <2>3, CurrentCases
<1>8. ASSUME NEW c \in DOMAIN count1
      PROVE  /\ count1'[c] = less(<<c>>) /\ less(<<c>>) \in Int
             /\ <<c>> \notin Parts(of) => less(<<c>>) = count1[c]
  <2>1. PICK t \in Nat : t = Times(<<c>>, of)
    BY <1>6
  <2>2. PICK k \in Int : k = count1[c] /\ k = Current(<<c>>)
    BY <1>7
  <2>3. less(<<c>>) = k - u * t
    BY <1>5, <2>1, <2>2
  <2>4. k - u * t \in Int /\ (t = 0 => k - u * t = k)
    OBVIOUS
  <2> QED BY <1>4, <1>6, <2>1, <2>2, <2>3, <2>4
<1>9. ASSUME NEW p \in DOMAIN count2, Len(of) = 3
      PROVE  /\ count2'[p] = less(p) /\ less(p) \in Int
             /\ p \notin Parts(of) => less(p) = count2[p]
  <2>1. PICK t \in Nat : t = Times(p, of)
    BY <1>6, <1>9
  <2>2. PICK k \in Int : k = count2[p] /\ k = Current(p)
    BY <1>7
  <2>3. less(p) = k - u * t
    BY <1>5, <2>1, <2>2
  <2>4. k - u * t \in Int /\ (t = 0 => k - u * t = k)
    OBVIOUS
  <2> QED BY <1>4, <1>6, <1>9, <2>1, <2>2, <2>3, <2>4
<1>10. terminator' = terminator
  BY DEF InsertSymbol, AppendSymbol, Insert, modes
<1>11. DOMAIN count1' = DOMAIN count1 /\ DOMAIN count2' = DOMAIN count2
  BY <1>4
<1>12. CodesFit'
  <2>1. \A c \in DOMAIN count1 : count1'[c] \in Int
    BY <1>8
  <2>2. \A p \in DOMAIN count2 : count2'[p] \in Int
    BY <1>4, <1>7, <1>9
  <2> QED BY <1>10, <1>11, <2>1, <2>2, FitStays
<1>13. Ofs' = Ofs /\ \A o : Joined(o)' = Joined(o)
  <2>1. DOMAIN count3' = DOMAIN count3
    OBVIOUS
  <2> QED BY <1>10, <1>11, <2>1, SameOfs
<1>14. ASSUME NEW o \in Ofs
       PROVE  IF o \in Parts(of) /\ (Len(o) = 1 \/ Len(of) = 3)
              THEN Current(o)' = less(o) /\ less(o) \in Int
              ELSE Current(o)' = Current(o)
  <2>0. OneOf(o) \/ TwoOf(o) \/ ThreeOf(o)
    BY OfCases
  <2>1. CASE OneOf(o)
    <3>1. PICK c \in DOMAIN count1 : o = <<c>>
      BY <2>1 DEF OneOf
    <3>2. Len(o) = 1
      BY <3>1
    <3> QED BY <1>7, <1>8, <3>1, <3>2
  <2>2. CASE TwoOf(o)
    <3>1. o \in DOMAIN count2 /\ Len(o) = 2
      BY <2>2 DEF TwoOf
    <3>2. CASE Len(of) = 3
      BY <1>7, <1>9, <3>1, <3>2
    <3>3. CASE Len(of) # 3
      <4>1. count2' = count2
        BY <1>4, <3>3
      <4> QED BY <1>7, <3>1, <3>3, <4>1
    <3> QED BY <3>2, <3>3
  <2>3. CASE ThreeOf(o)
    <3>1. Len(o) = 3
      BY <2>3 DEF ThreeOf
    <3>2. Current(o)' = Current(o)
      BY <3>1, CurrentCases
    <3>3. o \notin Parts(of)
      <4>1. \A q \in Parts(of) : Len(q) = 1 \/ Len(q) = 2
        <5> TAKE q \in Parts(of)
        <5>1. (\E a : q = <<a>>) \/ (\E a, b : q = <<a, b>>)
          BY DEF Parts
        <5> QED BY <5>1
      <4> QED BY <3>1, <4>1
    <3> QED BY <3>2, <3>3
  <2> QED BY <2>0, <2>1, <2>2, <2>3
<1>15. \A q \in Parts(of) : Len(q) = 1 \/ Len(of) = 3
  <2> TAKE q \in Parts(of)
  <2>1. CASE \E a : q = <<a>>
    BY <2>1
  <2>2. (\E a : q = <<a>>) \/ Len(of) = 3
    BY DEF Parts
  <2> QED BY <2>1, <2>2
<1>16. HeapEntries'
  <2> SUFFICES ASSUME NEW f \in heap' PROVE \E o \in Ofs : \E k \in Int : f = [of |-> o, cnt |-> k]
    BY <1>13 DEF HeapEntries
  <2>1. CASE f \in heap
    BY <2>1 DEF HeapEntries
  <2>2. CASE f \notin heap
    <3>1. PICK q \in Parts(of) : f = [of |-> q, cnt |-> less(q)]
      BY <1>4, <2>2
    <3>2. q \in Ofs /\ less(q) \in Int
      BY <1>6, <1>14, <1>15
    <3> QED BY <3>1, <3>2
  <2> QED BY <2>1, <2>2
<1>17. /\ \A o \in Ofs : Refused(Joined(o)) => Refused(Joined(o))'
       /\ Refused(Joined(of))'
  <2>1. \A o \in Ofs : Joined(o) \in Strings
    BY JoinedAllowed
  <2>2. PICK s \in Strings : s = Joined(of)
    BY <2>1
  <2>3. InsertSymbol(s)
    BY <1>2, <2>2
  <2>4. Refused(s)' /\ \A t \in Strings : Refused(t) => Refused(t)'
    BY <2>3, RefusedStays
  <2> QED BY <1>13, <2>1, <2>2, <2>4
<1>18. ASSUME NEW o \in Ofs, Current(o)' > 0, ~Refused(Joined(o))'
       PROVE  [of |-> o, cnt |-> Current(o)'] \in heap'
  <2>1. CASE o \in Parts(of)
    <3>1. Current(o)' = less(o)
      BY <1>14, <1>15, <2>1
    <3> QED BY <1>4, <1>18, <2>1, <3>1
  <2>2. CASE o \notin Parts(of)
    <3>1. Current(o)' = Current(o)
      BY <1>14, <2>2
    <3>2. [of |-> o, cnt |-> Current(o)] \in heap
      BY <1>17, <1>18, <3>1 DEF HeapComplete
    <3>3. [of |-> o, cnt |-> Current(o)] # e
      <4> SUFFICES ASSUME [of |-> o, cnt |-> Current(o)] = e PROVE FALSE
        OBVIOUS
      <4>1. e.of = o
        OBVIOUS
      <4> QED BY <1>2, <1>17, <1>18, <4>1
    <3> QED BY <1>4, <3>1, <3>2, <3>3
  <2> QED BY <2>1, <2>2
<1>19. HeapComplete'
  BY <1>13, <1>18 DEF HeapComplete
<1> QED BY <1>12, <1>16, <1>19

\* a step of either parse
StepType == {[code |-> c, counted |-> k] : c \in Codes, k \in SUBSET Codes}

\* A code stands for a byte at least.
LEMMA MeaningType ==
  ASSUME SlotsListed, NEW c \in Codes
  PROVE  Meaning(c) \in Strings
<1>0. symbols \in Seq(Strings) /\ Len(symbols) \in Nat
  BY DEF SlotsListed, TrainingTypes
<1>1. CASE c \in Byte
  <2>1. c < CodeBase
    BY <1>1, ByteAssumption DEF CodeBase
  <2> QED BY <1>1, <2>1, ByteIsString DEF Meaning
<1>2. CASE c \in CodeBase .. CodeBase - 1 + Len(symbols)
  <2>1. ~(c < CodeBase) /\ IndexOf(c) \in 1..Len(symbols)
    BY <1>0, <1>2 DEF IndexOf, CodeBase
  <2> QED BY <1>0, <2>1 DEF Meaning
<1> QED BY <1>1, <1>2 DEF Codes

\* the steps that count their own code, and those that count c
FullStep == {st \in StepType : st.code \in st.counted}
CountedFor(c) == {st \in StepType : c \in st.counted}

\* A parse takes the line once: the steps that count a code do not take
\* more bytes than there are.
ParseFits(line, steps) ==
  /\ steps \in Seq(FullStep)
  /\ \A c \in Codes : Len(Meaning(c)) * Cardinality(Where(steps, CountedFor(c))) <= Len(line)

\* The optimal parse of a line, too, is a sequence of codes of the table,
\* and takes the line once.
LEMMA DPParseSteps ==
  ASSUME SlotsListed, NEW line \in Seq(Byte)
  PROVE  ParseFits(line, DPSteps(line))
<1> DEFINE n == Len(line)
           literal(p) == byteCodes[line[p]].code
           matches(p) == {i \in 1..Len(symbols) :
                            /\ Len(symbols[i]) > 1
                            /\ StartsWith(SubSeq(line, p, Len(line)), symbols[i])}
           Cost == CHOOSE cost : cost = [p \in 1..Len(line) + 1 |->
             IF p > Len(line) THEN 0
             ELSE Min({(IF literal(p) < CodeBase THEN 2 ELSE 1) + cost[p + 1]} \cup
                      {1 + cost[p + Len(symbols[i])] : i \in matches(p)})]
           shortest(p) == {i \in matches(p) : 1 + Cost[p + Len(symbols[i])] = Cost[p]}
           code(p) == IF shortest(p) = {} THEN literal(p)
                      ELSE CodeBase - 1 + CHOOSE i \in shortest(p) :
                             \A j \in shortest(p) : Len(symbols[j]) <= Len(symbols[i])
           step(p) == [code |-> code(p),
                       counted |-> {code(p)} \cup IF code(p) >= CodeBase THEN {line[p]} ELSE {}]
           next(p) == p + Len(Meaning(code(p)))
           Q(f) == f = [p \in 1..Len(line) + 1 |->
                          IF p > Len(line) THEN << >> ELSE <<step(p)>> \o f[p + Len(Meaning(code(p)))]]
           F == CHOOSE f : Q(f)
           g == [p \in 1..n |-> step(p)]
           q == [p \in 1..n |-> next(p)]
<1>1. DPSteps(line) = F[1]
  BY DEF DPSteps
<1> HIDE DEF Cost
<1>2. symbols \in Seq(Strings) /\ Len(symbols) \in Nat /\ n \in Nat
  BY DEF SlotsListed, TrainingTypes
<1>3. ASSUME NEW p \in 1..n
      PROVE  code(p) \in Codes /\ next(p) \in p + 1..n + 1
  <2>0. line[p] \in Byte
    OBVIOUS
  <2>1. CASE shortest(p) = {}
    <3>1. PICK b \in Byte : b = line[p]
      BY <2>0
    <3>2. code(p) = byteCodes[b].code
      BY <2>1, <3>1
    <3> HIDE DEF code
    <3>3. /\ \/ byteCodes[b] = Escape(b)
             \/ \E i \in 1..Len(symbols) : symbols[i] = <<b>> /\ byteCodes[b].code = CodeBase + i - 1
      BY DEF SlotsListed, ByteSlots
    <3>4. code(p) \in Codes /\ Len(Meaning(code(p))) = 1
      <4>1. CASE byteCodes[b] = Escape(b)
        <5>1. code(p) = b
          BY <3>2, <4>1 DEF Escape
        <5>2. b < CodeBase
          BY ByteAssumption DEF CodeBase
        <5> QED BY <5>1, <5>2, ByteIsString DEF Meaning, Codes
      <4>2. CASE \E i \in 1..Len(symbols) : symbols[i] = <<b>> /\ byteCodes[b].code = CodeBase + i - 1
        <5>1. PICK i \in 1..Len(symbols) : symbols[i] = <<b>> /\ code(p) = CodeBase + i - 1
          BY <3>2, <4>2
        <5>2. code(p) \in CodeBase .. CodeBase - 1 + Len(symbols) /\ IndexOf(code(p)) = i /\ ~(code(p) < CodeBase)
          BY <1>2, <5>1 DEF IndexOf, CodeBase
        <5> QED BY <5>1, <5>2, ByteIsString DEF Meaning, Codes
      <4> QED BY <3>3, <4>1, <4>2
    <3> QED BY <1>2, <3>4
  <2>2. CASE shortest(p) # {}
    <3> DEFINE W == shortest(p)
               L == {Len(symbols[i]) : i \in W}
    <3>1. W \subseteq matches(p) /\ W # {}
      BY <2>2
    <3>2. \A i \in matches(p) : i \in 1..Len(symbols) /\ Len(symbols[i]) \in 1..MaxLen
      BY <1>2, StringFacts
    <3>3. PICK i \in W : \A j \in W : Len(symbols[j]) <= Len(symbols[i])
      <4> HIDE DEF W
      <4>0. ASSUME NEW i \in W PROVE Len(symbols[i]) \in 0..MaxLen
        <5>1. Len(symbols[i]) \in 1..MaxLen
          BY <3>1, <3>2
        <5> QED BY <5>1, SizeAssumption
      <4>1. L \subseteq 0..MaxLen /\ L # {}
        BY <3>1, <4>0
      <4>2. PICK m : m \in L /\ \A k \in L : k <= m
        BY <4>1, MaxExists, SizeAssumption
      <4> QED BY <4>2
    <3>4. PICK k : k = CHOOSE j \in W : \A h \in W : Len(symbols[h]) <= Len(symbols[j])
      OBVIOUS
    <3>5. k \in W
      BY <3>3, <3>4
    <3>6. code(p) = CodeBase - 1 + k
      BY <2>2, <3>4
    <3> HIDE DEF W, code
    <3>7. k \in 1..Len(symbols) /\ StartsWith(SubSeq(line, p, Len(line)), symbols[k]) /\ symbols[k] \in Strings
      BY <1>2, <3>1, <3>5
    <3>8. code(p) \in CodeBase .. CodeBase - 1 + Len(symbols) /\ IndexOf(code(p)) = k /\ ~(code(p) < CodeBase)
      BY <1>2, <3>6, <3>7 DEF IndexOf, CodeBase
    <3>9. Meaning(code(p)) = symbols[k]
      BY <3>8 DEF Meaning
    <3>10. Len(symbols[k]) \in Nat /\ Len(symbols[k]) >= 1
      BY <3>7, StringFacts, SizeAssumption
    <3>11. Len(SubSeq(line, p, Len(line))) = n - p + 1
      BY <1>2
    <3>12. Len(symbols[k]) <= n - p + 1
      BY <3>7, <3>11 DEF StartsWith
    <3>13. PICK m \in Nat : m = Len(symbols[k])
      BY <3>10
    <3>14. p + m \in p + 1..n + 1
      BY <1>2, <3>10, <3>12, <3>13
    <3> QED BY <3>8, <3>9, <3>13, <3>14 DEF Codes
  <2> QED BY <2>1, <2>2
<1> HIDE DEF code
<1>4. \A p \in 1..n : g[p] \in FullStep /\ q[p] \in p + 1..n + 1
  <2> TAKE p \in 1..n
  <2>1. line[p] \in Codes
    <3>1. line[p] \in Byte
      OBVIOUS
    <3> QED BY <3>1 DEF Codes
  <2>2. step(p) \in StepType
    <3>1. PICK c \in Codes : c = code(p)
      BY <1>3
    <3>2. PICK k : k = {c} \cup IF c >= CodeBase THEN {line[p]} ELSE {}
      OBVIOUS
    <3>3. k \in SUBSET Codes
      BY <2>1, <3>2
    <3>4. step(p) = [code |-> c, counted |-> k]
      BY <3>1, <3>2
    <3> HIDE DEF step
    <3> QED BY <3>3, <3>4 DEF StepType
  <2>3. g[p] = step(p) /\ q[p] = next(p)
    OBVIOUS
  <2>4. step(p).code \in step(p).counted
    <3>1. PICK c : c = code(p)
      OBVIOUS
    <3>2. step(p) = [code |-> c, counted |-> {c} \cup IF c >= CodeBase THEN {line[p]} ELSE {}]
      BY <3>1
    <3> HIDE DEF step
    <3>3. step(p).code = c /\ step(p).counted = {c} \cup IF c >= CodeBase THEN {line[p]} ELSE {}
      BY <3>2
    <3> QED BY <3>3
  <2> HIDE DEF g, q, step, next
  <2> QED BY <1>3, <2>2, <2>3, <2>4 DEF FullStep
<1>9. ASSUME NEW c \in Codes, NEW p \in 1..n, g[p] \in CountedFor(c)
      PROVE  p + Len(Meaning(c)) <= q[p]
  <2>1. PICK d \in Codes, b \in Byte : d = code(p) /\ b = line[p]
    <3>1. line[p] \in Byte
      OBVIOUS
    <3> QED BY <1>3, <3>1
  <2>2. g[p].counted = {d} \cup IF d >= CodeBase THEN {b} ELSE {}
    BY <2>1
  <2>3. c \in g[p].counted
    BY <1>9 DEF CountedFor
  <2>4. q[p] = p + Len(Meaning(d)) /\ q[p] \in p + 1..n + 1
    BY <1>3, <2>1
  <2> HIDE DEF g, q
  <2>5. CASE c = d
    <3>1. Len(Meaning(d)) \in Nat
      BY MeaningType, StringFacts
    <3> QED BY <2>4, <2>5, <3>1
  <2>6. CASE c = b
    <3>1. c < CodeBase
      <4>1. b \in 0..255
        BY ByteAssumption
      <4> QED BY <2>6, <4>1 DEF CodeBase
    <3>2. Len(Meaning(c)) = 1
      BY <3>1 DEF Meaning
    <3> QED BY <2>4, <3>2
  <2> QED BY <2>2, <2>3, <2>5, <2>6
<1>5. \A f : Q(f) <=> Follows(f, g, q, n)
  <2> TAKE f
  <2> DEFINE A == [p \in 1..n + 1 |-> IF p > n THEN << >> ELSE <<step(p)>> \o f[next(p)]]
             B == [p \in 1..n + 1 |-> IF p > n THEN << >> ELSE <<g[p]>> \o f[q[p]]]
  <2>1. ASSUME NEW p \in 1..n + 1, ~(p > n) PROVE g[p] = step(p) /\ q[p] = next(p)
    <3>1. p \in 1..n
      BY <1>2, <2>1
    <3> QED BY <3>1
  <2>2. A = B
    <3> HIDE DEF n, g, q, step, next
    <3> QED BY <2>1
  <2> QED BY <2>2 DEF Follows
<1> HIDE DEF g, q, n, step, next
<1>6. \E f : Follows(f, g, q, n)
  BY <1>2, <1>4, ChainExists
<1>7. Follows(F, g, q, n)
  <2> HIDE DEF Q
  <2>1. Q(F)
    BY <1>5, <1>6
  <2> QED BY <1>5, <2>1
<1> HIDE DEF F
<1>8. F[1] \in Seq(FullStep)
  BY <1>2, <1>4, <1>7, ChainSteps
<1>10. ASSUME NEW c \in Codes
       PROVE  Len(Meaning(c)) * Cardinality(Where(F[1], CountedFor(c))) <= n
  <2>1. PICK w \in Nat : w = Len(Meaning(c))
    BY MeaningType, StringFacts
  <2>2. \A p \in 1..n : g[p] \in FullStep
    BY <1>4
  <2>3. \A p \in 1..n : q[p] \in p + 1..n + 1
    BY <1>4
  <2>4. \A p \in 1..n : g[p] \in CountedFor(c) => p + w <= q[p]
    BY <1>9, <2>1
  <2>5. w * Cardinality(Where(F[1], CountedFor(c))) <= n
    BY <1>2, <1>7, <2>2, <2>3, <2>4, ChainWeight
  <2> QED BY <2>1, <2>5
<1> QED BY <1>1, <1>8, <1>10 DEF ParseFits, n

\* So does the greedy parse.
LEMMA GreedyParseSteps ==
  ASSUME IndexInv, ~final, NEW line \in Seq(Byte)
  PROVE  ParseFits(line, Steps(line))
<1> DEFINE n == Len(line)
           g == [p \in 1..n |-> StepAt(line, p)]
           q == [p \in 1..n |-> NextAt(line, p)]
           Q(f) == f = [p \in 1..n + 1 |-> IF p > n THEN << >> ELSE <<StepAt(line, p)>> \o f[NextAt(line, p)]]
           F == CHOOSE f : Q(f)
<1>1. n \in Nat
  OBVIOUS
<1>2. ASSUME NEW p \in 1..n
      PROVE  /\ g[p] \in FullStep /\ q[p] \in p + 1..n + 1
             /\ \A c \in Codes : g[p] \in CountedFor(c) => p + Len(Meaning(c)) <= q[p]
  <2>1. PICK st : st = StepAt(line, p) /\ g[p] = st
    OBVIOUS
  <2>2. PICK r : r = NextAt(line, p) /\ q[p] = r
    OBVIOUS
  <2>3. /\ st.code \in Codes
        /\ st.counted = {st.code} \cup IF Len(Meaning(st.code)) > 1 THEN {line[p]} ELSE {}
        /\ line[p] \in Byte
        /\ r = p + Len(Meaning(st.code)) /\ r \in p + 1..n + 1
    BY <2>1, <2>2, StepStands
  <2>4. PICK b \in Byte : b = line[p]
    BY <2>3
  <2> HIDE DEF g, q
  <2>5. st \in FullStep
    <3>1. b \in Codes
      BY DEF Codes
    <3>2. st.counted \in SUBSET Codes
      BY <2>3, <2>4, <3>1
    <3>3. st = [code |-> st.code, counted |-> st.counted]
      BY <2>1 DEF StepAt, Step
    <3> QED BY <2>3, <3>2, <3>3 DEF StepType, FullStep
  <2>6. ASSUME NEW c \in Codes, st \in CountedFor(c) PROVE p + Len(Meaning(c)) <= r
    <3>1. c = st.code \/ c = b
      BY <2>3, <2>4, <2>6 DEF CountedFor
    <3>2. CASE c = st.code
      <4>1. r \in Int
        BY <2>3
      <4>2. r <= r
        BY <4>1
      <4> QED BY <2>3, <3>2, <4>2
    <3>3. CASE c = b
      <4>1. c < CodeBase
        <5>1. b \in 0..255
          BY ByteAssumption
        <5> QED BY <3>3, <5>1 DEF CodeBase
      <4>2. Len(Meaning(c)) = 1
        BY <4>1 DEF Meaning
      <4>3. p + 1 <= r
        BY <2>3
      <4> QED BY <4>2, <4>3
    <3> QED BY <3>1, <3>2, <3>3
  <2> QED BY <2>1, <2>2, <2>3, <2>5, <2>6
<1>3. \A f : Q(f) <=> Follows(f, g, q, n)
  <2> TAKE f
  <2> DEFINE A == [p \in 1..n + 1 |-> IF p > n THEN << >> ELSE <<StepAt(line, p)>> \o f[NextAt(line, p)]]
             B == [p \in 1..n + 1 |-> IF p > n THEN << >> ELSE <<g[p]>> \o f[q[p]]]
  <2>1. ASSUME NEW p \in 1..n + 1, ~(p > n) PROVE g[p] = StepAt(line, p) /\ q[p] = NextAt(line, p)
    <3>1. p \in 1..n
      BY <1>1, <2>1
    <3> QED BY <3>1
  <2>2. A = B
    <3> HIDE DEF n, g, q
    <3> QED BY <2>1
  <2> QED BY <2>2 DEF Follows
<1>4. Steps(line) = F[1]
  BY DEF Steps, StepAt, NextAt
<1> HIDE DEF g, q, n
<1>5. /\ \A p \in 1..n : g[p] \in FullStep
      /\ \A p \in 1..n : q[p] \in p + 1..n + 1
  BY <1>2
<1>6. \E f : Follows(f, g, q, n)
  BY <1>1, <1>5, ChainExists
<1>7. Follows(F, g, q, n)
  <2> HIDE DEF Q
  <2>1. Q(F)
    BY <1>3, <1>6
  <2> QED BY <1>3, <2>1
<1> HIDE DEF F
<1>8. F[1] \in Seq(FullStep)
  BY <1>1, <1>5, <1>7, ChainSteps
<1>9. ASSUME NEW c \in Codes
      PROVE  Len(Meaning(c)) * Cardinality(Where(F[1], CountedFor(c))) <= n
  <2>1. PICK w \in Nat : w = Len(Meaning(c))
    <3>1. SlotsListed
      BY DEF IndexInv, SlotsListed
    <3> QED BY <3>1, MeaningType, StringFacts
  <2>2. \A p \in 1..n : g[p] \in CountedFor(c) => p + w <= q[p]
    BY <1>2, <2>1
  <2>3. w * Cardinality(Where(F[1], CountedFor(c))) <= n
    BY <1>1, <1>5, <1>7, <2>2, ChainWeight
  <2> QED BY <2>1, <2>3
<1> QED BY <1>4, <1>8, <1>9 DEF ParseFits, n

\* the pairs and the triples over T
TwosOf(T) == {<<a, b>> : a, b \in T}
ThreesOf(T) == {<<a, b, c>> : a, b, c \in T}

\* What is adjacent in parses
LEMMA AdjacentType ==
  ASSUME NEW T, NEW parses \in Seq(Seq(T))
  PROVE  /\ FlattenSeq(parses) \in Seq(T)
         /\ Pairs(parses) \in Seq(TwosOf(T))
         /\ Triples(parses) \in Seq(ThreesOf(T))
<1> DEFINE n == Len(parses)
           two(k) == IF parses[k] = << >> THEN << >>
                     ELSE [i \in 1..Len(parses[k]) - 1 |-> <<parses[k][i], parses[k][i + 1]>>]
           long(k, i) == Len(Meaning(parses[k][i].code)) + Len(Meaning(parses[k][i + 1].code)) >= MaxLen
           one(k, i) == IF long(k, i) THEN << >>
                        ELSE <<<<parses[k][i], parses[k][i + 1], parses[k][i + 2]>>>>
           three(k) == IF Len(parses[k]) < 3 THEN << >>
                       ELSE FlattenSeq([i \in 1..Len(parses[k]) - 2 |-> one(k, i)])
<1>1. n \in Nat /\ \A k \in 1..n : parses[k] \in Seq(T)
  OBVIOUS
<1>2. Pairs(parses) = FlattenSeq([k \in 1..n |-> two(k)])
  BY DEF Pairs
<1>3. Triples(parses) = FlattenSeq([k \in 1..n |-> three(k)])
  BY DEF Triples
<1>4. ASSUME NEW k \in 1..n PROVE two(k) \in Seq(TwosOf(T))
  <2>1. PICK s \in Seq(T) : s = parses[k]
    BY <1>1
  <2>2. CASE s = << >>
    BY <2>1, <2>2, EmptySeq
  <2>3. CASE s # << >>
    <3>1. Len(s) \in Nat /\ Len(s) # 0
      BY <2>3, EmptySeq
    <3>0. PICK L \in Nat : L = Len(s) /\ L # 0
      BY <3>1
    <3>2. PICK m \in Nat : m = Len(s) - 1 /\ m + 1 = L
      <4>1. L - 1 \in Nat /\ (L - 1) + 1 = L
        BY <3>0
      <4> QED BY <3>0, <4>1
    <3>3. \A i \in 1..m : <<s[i], s[i + 1]>> \in TwosOf(T)
      <4> TAKE i \in 1..m
      <4>0. i \in 1..L /\ i + 1 \in 1..L
        BY <3>0, <3>2
      <4>1. s[i] \in T /\ s[i + 1] \in T
        BY <3>0, <4>0
      <4> QED BY <4>1 DEF TwosOf
    <3>4. two(k) = [i \in 1..m |-> <<s[i], s[i + 1]>>]
      BY <2>1, <2>3, <3>2
    <3> HIDE DEF two
    <3>5. [i \in 1..m |-> <<s[i], s[i + 1]>>] \in [1..m -> TwosOf(T)]
      BY <3>3
    <3> QED BY <3>4, <3>5, SeqDef
  <2> QED BY <2>2, <2>3
<1>5. ASSUME NEW k \in 1..n PROVE three(k) \in Seq(ThreesOf(T))
  <2>1. PICK s \in Seq(T) : s = parses[k]
    BY <1>1
  <2>2. CASE Len(s) < 3
    BY <2>1, <2>2, EmptySeq
  <2>3. CASE ~(Len(s) < 3)
    <3>0. PICK L \in Nat : L = Len(s) /\ ~(L < 3)
      BY <2>3
    <3>1. PICK m \in Nat : m = Len(s) - 2 /\ m + 2 = L
      <4>1. L - 2 \in Nat /\ (L - 2) + 2 = L
        BY <3>0
      <4> QED BY <3>0, <4>1
    <3>2. ASSUME NEW i \in 1..m PROVE one(k, i) \in Seq(ThreesOf(T))
      <4>0. i \in 1..L /\ i + 1 \in 1..L /\ i + 2 \in 1..L
        BY <3>0, <3>1
      <4>1. PICK a, b, c \in T : a = s[i] /\ b = s[i + 1] /\ c = s[i + 2]
        BY <3>0, <4>0
      <4>2. PICK x \in ThreesOf(T) : x = <<s[i], s[i + 1], s[i + 2]>>
        <5>1. <<a, b, c>> \in ThreesOf(T)
          BY DEF ThreesOf
        <5>2. <<a, b, c>> = <<s[i], s[i + 1], s[i + 2]>>
          BY <4>1
        <5> QED BY <5>1, <5>2
      <4>3. one(k, i) = << >> \/ one(k, i) = <<x>>
        BY <2>1, <4>2
      <4>4. <<x>> \in Seq(ThreesOf(T)) /\ << >> \in Seq(ThreesOf(T))
        OBVIOUS
      <4> HIDE DEF one
      <4> QED BY <4>3, <4>4
    <3>3. three(k) = FlattenSeq([i \in 1..m |-> one(k, i)])
      BY <2>1, <2>3, <3>1
    <3> HIDE DEF three, one
    <3>4. [i \in 1..m |-> one(k, i)] \in Seq(Seq(ThreesOf(T)))
      <4>1. [i \in 1..m |-> one(k, i)] \in [1..m -> Seq(ThreesOf(T))]
        BY <3>2
      <4> QED BY <4>1, SeqDef
    <3> QED BY <3>3, <3>4, FlattenType
  <2> QED BY <2>2, <2>3
<1> HIDE DEF two, three
<1>6. [k \in 1..n |-> two(k)] \in Seq(Seq(TwosOf(T)))
  <2>1. [k \in 1..n |-> two(k)] \in [1..n -> Seq(TwosOf(T))]
    BY <1>4
  <2> QED BY <1>1, <2>1, SeqDef
<1>7. [k \in 1..n |-> three(k)] \in Seq(Seq(ThreesOf(T)))
  <2>1. [k \in 1..n |-> three(k)] \in [1..n -> Seq(ThreesOf(T))]
    BY <1>5
  <2> QED BY <1>1, <2>1, SeqDef
<1> HIDE DEF n
<1> QED BY <1>2, <1>3, <1>6, <1>7, FlattenType

\* The triples that are counted are of codes, and there are none in the
\* last round.
LEMMA TriplesCounted ==
  ASSUME NEW parses \in Seq(Seq(StepType)), NEW f, f = CountTriples(parses)
  PROVE  /\ \A t \in DOMAIN f : (\E a, b, c \in Codes : t = <<a, b, c>>) /\ f[t] \in Int
         /\ LastRound => DOMAIN f = {}
<1> DEFINE triples == IF LastRound \/ "TRIPLES" \notin flags THEN << >> ELSE Triples(parses)
           counted(t) == {<<t[1].code, t[2].code, c>> : c \in t[3].counted}
           n == Len(triples)
           at3(key) == {i \in 1..n : key \in counted(triples[i])}
<1>1. f = [key \in UNION {counted(triples[i]) : i \in 1..n} |-> Cardinality(at3(key))]
  BY DEF CountTriples
<1>2. triples \in Seq(ThreesOf(StepType))
  BY AdjacentType, EmptySeq
<1>3. LastRound => n = 0
  OBVIOUS
<1> HIDE DEF triples
<1>4. n \in Nat /\ \A i \in 1..n : triples[i] \in ThreesOf(StepType)
  BY <1>2
<1> HIDE DEF n
<1>5. ASSUME NEW t \in DOMAIN f PROVE (\E a, b, c \in Codes : t = <<a, b, c>>) /\ f[t] \in Int
  <2>1. PICK i \in 1..n : t \in counted(triples[i])
    BY <1>1
  <2>2. PICK x, y, z \in StepType : triples[i] = <<x, y, z>>
    BY <1>4 DEF ThreesOf
  <2>3. PICK u : u = triples[i]
    OBVIOUS
  <2>4. u[1] = x /\ u[2] = y /\ u[3] = z
    BY <2>2, <2>3
  <2>5. PICK c \in z.counted : t = <<x.code, y.code, c>>
    BY <2>1, <2>3, <2>4
  <2>6. x.code \in Codes /\ y.code \in Codes /\ z.counted \subseteq Codes
    BY DEF StepType
  <2>7. f[t] = Cardinality(at3(t)) /\ at3(t) \in SUBSET (1..n)
    BY <1>1
  <2> HIDE DEF at3
  <2>8. Cardinality(at3(t)) \in Nat
    BY <1>4, <2>7, SomeCounted
  <2> QED BY <2>5, <2>6, <2>7, <2>8
<1>6. LastRound => DOMAIN f = {}
  <2>1. n = 0 => UNION {counted(triples[i]) : i \in 1..n} = {}
    OBVIOUS
  <2> QED BY <1>1, <1>3, <2>1 DEF n
<1> QED BY <1>5, <1>6

\* The table in training: with the DP at both ends its indexes may lack the
\* longer symbols.
OptTable ==
  /\ SlotsListed /\ AllowedTable(symbols)
  /\ ~Bypass => EveryStringIndexed

\* The codes that are kept with the best table are its own.
BestFits ==
  /\ AllowedTable(best.symbols)
  /\ DOMAIN best.count1 \subseteq KeysOf(best.symbols)
  /\ \A c \in DOMAIN best.count1 : best.count1[c] \in Int

\* Counting with a table leaves counts that fit it.
LEMMA OptCounted ==
  ASSUME OptTable, ~final, SampleType, BestFits, DOMAIN count3 = {}, OptCompressCount
  PROVE  /\ CountsFit(symbols)' /\ BestFits'
         /\ at' = "restore" => DOMAIN count3' = {}
<1> DEFINE parses == [l \in 1..Len(sample) |->
                        IF "DP_TRAIN" \in flags THEN DPSteps(sample[l]) ELSE Steps(sample[l])]
           n == Len(sample)
<1>1. /\ CountParses(parses)
      /\ count3' = IF "DP_TRAIN" \in flags THEN CountTriples(parses) ELSE count3
      /\ at' = IF LastRound THEN "restore" ELSE "rank"
      /\ UNCHANGED tvars
  BY DEF OptCompressCount
<1>2. SlotsListed /\ AllowedTable(symbols)
  BY DEF OptTable
<1>3. "DP_TRAIN" \notin flags => IndexInv
  BY DEF OptTable, Bypass, SlotsListed, IndexInv
<1>4. n \in Nat /\ \A l \in 1..n : sample[l] \in Seq(Byte)
  BY DEF SampleType
<1>5. ASSUME NEW l \in 1..n
      PROVE  (IF "DP_TRAIN" \in flags THEN DPSteps(sample[l]) ELSE Steps(sample[l])) \in Seq(StepType)
  <2>1. PICK line \in Seq(Byte) : line = sample[l]
    BY <1>4
  <2>2. "DP_TRAIN" \in flags => ParseFits(line, DPSteps(line))
    BY <1>2, DPParseSteps
  <2>3. "DP_TRAIN" \notin flags => ParseFits(line, Steps(line))
    BY <1>3, GreedyParseSteps
  <2>4. \A st : ParseFits(line, st) => st \in Seq(StepType)
    <3>1. FullStep \subseteq StepType
      BY DEF FullStep
    <3>2. \A st \in Seq(FullStep) : st \in Seq(StepType)
      BY <3>1
    <3> QED BY <3>2 DEF ParseFits
  <2> QED BY <2>1, <2>2, <2>3, <2>4
<1>6. PICK ps \in Seq(Seq(StepType)) : ps = parses
  <2>1. parses \in [1..n -> Seq(StepType)]
    BY <1>5
  <2>2. parses \in Seq(Seq(StepType))
    <3> HIDE DEF parses
    <3> QED BY <1>4, <2>1, SeqDef
  <2> QED BY <2>2
<1>7. CountParses(ps) /\ count3' = IF "DP_TRAIN" \in flags THEN CountTriples(ps) ELSE count3
  BY <1>1, <1>6
<1> HIDE DEF parses
<1> DEFINE steps == FlattenSeq(ps)
           pairs == IF LastRound THEN << >> ELSE Pairs(ps)
           gain == SumFunction([i \in 1..Len(steps) |-> Saved(steps[i])])
           in1(c) == {i \in 1..Len(steps) : c \in steps[i].counted}
           in2(p) == {i \in 1..Len(pairs) : pairs[i][1].code = p[1] /\ p[2] \in pairs[i][2].counted}
           counts == [c \in Codes |-> Cardinality(in1(c))]
<1>8. /\ count1' = counts
      /\ count2' = [p \in Codes \X Codes |-> Cardinality(in2(p))]
      /\ best' = Kept(gain, counts)
  BY <1>7 DEF CountParses
<1>9. steps \in Seq(StepType) /\ pairs \in Seq(TwosOf(StepType))
  BY AdjacentType, EmptySeq
<1> HIDE DEF gain
<1>10. Len(steps) \in Nat /\ Len(pairs) \in Nat
  <2> HIDE DEF steps, pairs
  <2> QED BY <1>9
<1>11. Codes = KeysOf(symbols)
  BY DEF Codes, KeysOf
<1>12. \A c \in Codes : counts[c] \in Int
  <2> TAKE c \in Codes
  <2>1. in1(c) \in SUBSET (1..Len(steps)) /\ counts[c] = Cardinality(in1(c))
    OBVIOUS
  <2>2. PICK n1 \in Nat : n1 = Len(steps)
    BY <1>10
  <2>3. PICK S \in SUBSET (1..n1) : S = in1(c)
    BY <2>1, <2>2
  <2>4. Cardinality(S) \in Nat
    BY SomeCounted
  <2> QED BY <2>1, <2>3, <2>4
<1>13. \A p \in Codes \X Codes : count2'[p] \in Int
  <2> TAKE p \in Codes \X Codes
  <2>1. in2(p) \in SUBSET (1..Len(pairs)) /\ count2'[p] = Cardinality(in2(p))
    BY <1>8
  <2>2. PICK n2 \in Nat : n2 = Len(pairs)
    BY <1>10
  <2>3. PICK S \in SUBSET (1..n2) : S = in2(p)
    BY <2>1, <2>2
  <2>4. Cardinality(S) \in Nat
    BY SomeCounted
  <2> QED BY <2>1, <2>3, <2>4
<1>14. DOMAIN counts = Codes /\ DOMAIN count2' = Codes \X Codes
  BY <1>8
<1> HIDE DEF counts
<1>15. /\ \A t \in DOMAIN count3' : (\E a, b, c \in Codes : t = <<a, b, c>>) /\ count3'[t] \in Int
       /\ LastRound => DOMAIN count3' = {}
  <2>1. PICK f : f = CountTriples(ps)
    OBVIOUS
  <2>2. /\ \A t \in DOMAIN f : (\E a, b, c \in Codes : t = <<a, b, c>>) /\ f[t] \in Int
        /\ LastRound => DOMAIN f = {}
    BY <2>1, TriplesCounted
  <2>3. count3' = f \/ count3' = count3
    BY <1>7, <2>1
  <2> QED BY <2>2, <2>3
<1>16. symbols' = symbols /\ terminator' = terminator
  BY <1>1 DEF tvars, indexes, modes
<1>17. \A table : AllowedTable(table)' <=> AllowedTable(table)
  BY <1>16 DEF AllowedTable, Allowed
<1>18. CountsFit(symbols)'
  <2>1. AllowedTable(symbols)' /\ KeysOf(symbols)' = Codes
    <3>1. KeysOf(symbols)' = KeysOf(symbols)
      BY <1>16 DEF KeysOf
    <3> QED BY <1>2, <1>11, <1>16, <3>1 DEF AllowedTable, Allowed
  <2>2. \A t \in DOMAIN count3' : \E a, b, c \in DOMAIN count1' :
          t = <<a, b, c>> /\ <<a, b>> \in DOMAIN count2' /\ <<b, c>> \in DOMAIN count2'
    BY <1>8, <1>14, <1>15
  <2> QED BY <1>8, <1>12, <1>13, <1>14, <1>15, <2>1, <2>2 DEF CountsFit
<1>19. BestFits'
  <2>1. CASE best' = best
    BY <1>16, <2>1 DEF BestFits, AllowedTable, Allowed, KeysOf
  <2>2. CASE best' = [symbols |-> symbols, count1 |-> counts, gain |-> gain]
    <3>1. best'.symbols = symbols /\ best'.count1 = counts
      BY <2>2
    <3>2. AllowedTable(symbols)' /\ AllowedTable(best'.symbols)
      BY <1>2, <1>16, <3>1 DEF AllowedTable, Allowed
    <3>3. AllowedTable(best.symbols)'
      BY <1>2, <1>16, <3>1 DEF AllowedTable, Allowed
    <3>4. KeysOf(best.symbols)' = Codes
      BY <1>11, <3>1 DEF KeysOf
    <3> QED BY <1>12, <1>14, <3>1, <3>3, <3>4 DEF BestFits
  <2> QED BY <1>8, <2>1, <2>2 DEF Kept
<1> QED BY <1>1, <1>15, <1>18, <1>19

\* The heap is filled with all that may be joined and is counted at all.
LEMMA SeedComplete ==
  CodesFit /\ heap = Seeded(prevSym, count1, count2, count3) => HeapEntries /\ HeapComplete
<1> SUFFICES ASSUME CodesFit, heap = Seeded(prevSym, count1, count2, count3)
             PROVE  HeapEntries /\ HeapComplete
  OBVIOUS
<1> DEFINE singles == {<<c>> : c \in DOMAIN count1}
           single == [o \in singles |-> count1[o[1]]]
           twos == Pairable(prevSym, DOMAIN count2)
           threes == Joinable(prevSym, DOMAIN count3)
<1>1. heap = Entries(singles, single) \cup Entries(twos, count2) \cup Entries(threes, count3)
  BY DEF Seeded
<1>2. Ofs = singles \cup twos \cup threes
  BY DEF Ofs
<1>3. \A o \in singles : single[o] = Current(o) /\ Current(o) \in Int
  <2> TAKE o \in singles
  <2>1. PICK c \in DOMAIN count1 : o = <<c>>
    OBVIOUS
  <2>2. Len(o) = 1 /\ o[1] = c /\ count1[c] \in Int
    BY <2>1 DEF CodesFit, CountsFit
  <2> QED BY <2>2, CurrentCases
<1>4. \A o \in twos : count2[o] = Current(o) /\ Current(o) \in Int
  <2> TAKE o \in twos
  <2>1. o \in DOMAIN count2
    BY DEF Pairable
  <2>2. Len(o) = 2 /\ count2[o] \in Int
    BY <2>1 DEF CodesFit, CountsFit
  <2> QED BY <2>2, CurrentCases
<1>5. \A o \in threes : count3[o] = Current(o) /\ Current(o) \in Int
  <2> TAKE o \in threes
  <2>1. o \in DOMAIN count3
    BY DEF Joinable
  <2>2. \E a, b, c \in DOMAIN count1 :
          o = <<a, b, c>> /\ <<a, b>> \in DOMAIN count2 /\ <<b, c>> \in DOMAIN count2
    <3> HIDE DEF threes
    <3> QED BY <2>1 DEF CodesFit, CountsFit
  <2>4. count3[o] \in Int
    BY <2>1 DEF CodesFit, CountsFit
  <2>3. Len(o) = 3
    BY <2>2
  <2> QED BY <2>3, <2>4, CurrentCases
<1> HIDE DEF singles, single, twos, threes
<1>6. HeapEntries
  BY <1>1, <1>2, <1>3, <1>4, <1>5 DEF HeapEntries, Entries
<1>7. HeapComplete
  <2> SUFFICES ASSUME NEW o \in Ofs, Current(o) > 0 PROVE [of |-> o, cnt |-> Current(o)] \in heap
    BY DEF HeapComplete
  <2>1. CASE o \in singles
    BY <1>1, <1>3, <2>1 DEF Entries
  <2>2. CASE o \in twos
    BY <1>1, <1>4, <2>2 DEF Entries
  <2>3. CASE o \in threes
    BY <1>1, <1>5, <2>3 DEF Entries
  <2> QED BY <1>2, <2>1, <2>2, <2>3
<1> QED BY <1>6, <1>7

\* A cleared table is empty.
LEMMA ClearedTable ==
  ASSUME OptTable, terminator \in Byte, Clear
  PROVE  OptTable' /\ symbols' = << >> /\ terminator' = terminator /\ final' = final
<1>1. symbols' = << >> /\ terminator' = terminator /\ final' = final
  BY DEF Clear, modes
<1>2. SlotsListed'
  BY ClearSlots DEF OptTable
<1>3. AllowedTable(symbols)'
  BY <1>1, EmptyAllowed DEF AllowedTable, Allowed
<1>4. EveryStringIndexed'
  BY <1>1 DEF EveryStringIndexed
<1> QED BY <1>1, <1>2, <1>3, <1>4 DEF OptTable

\* A symbol that is added past the indexes leaves their slots as they were.
LEMMA AppendSlots ==
  ASSUME SlotsListed, NEW s \in Strings, Len(symbols) < MaxSymbols, AppendSymbol(s)
  PROVE  SlotsListed'
<1>1. TrainingTypes /\ ByteSlots /\ PairSlots /\ HashSlots
  BY DEF SlotsListed
<1>2. /\ symbols' = Append(symbols, s) /\ byteCodes' = byteCodes
      /\ shortCodes' = shortCodes /\ hashTab' = hashTab /\ terminator' = terminator
  BY DEF AppendSymbol, modes
<1>3. symbols \in Seq(Strings) /\ Len(symbols) \in Nat
  BY <1>1 DEF TrainingTypes
<1>4. /\ symbols' \in Seq(Strings) /\ Len(symbols') = Len(symbols) + 1
      /\ \A i \in 1..Len(symbols) : symbols'[i] = symbols[i] /\ i \in 1..Len(symbols')
  BY <1>2, <1>3, AppendProperties
<1>5. Len(symbols') <= MaxSymbols
  BY <1>3, <1>4, SizeAssumption
<1>6. TrainingTypes'
  BY <1>1, <1>2, <1>4, <1>5 DEF TrainingTypes
<1>7. ByteSlots'
  BY <1>1, <1>2, <1>4 DEF ByteSlots
<1>8. PairSlots'
  BY <1>1, <1>2, <1>4 DEF PairSlots
<1>9. HashSlots'
  <2>1. \A i \in 1..Len(symbols) : BucketOf(symbols[i])' = BucketOf(symbols[i])
    BY <1>4 DEF BucketOf, Key
  <2> QED BY <1>1, <1>2, <1>4, <2>1 DEF HashSlots, Free
<1> QED BY <1>6, <1>7, <1>8, <1>9 DEF SlotsListed

\* Adding what may become a symbol, past the indexes or not.
LEMMA InsertedTable ==
  ASSUME OptTable, ~final, NEW s, Allowed(s), Len(symbols) < MaxSymbols, InsertSymbol(s), flags' = flags,
         ~PastIndex(s) => ~Taken(s)
  PROVE  /\ OptTable' /\ terminator' = terminator /\ final' = final
         /\ symbols' = Append(symbols, s) /\ Len(symbols') = Len(symbols) + 1 /\ symbols'[Len(symbols')] = s
<1>1. s \in Strings /\ SlotsListed /\ AllowedTable(symbols)
  BY DEF Allowed, OptTable
<1>2. AppendSymbol(s) \/ Insert(s)
  BY DEF InsertSymbol
<1>3. symbols' = Append(symbols, s) /\ terminator' = terminator /\ final' = final
  BY <1>2 DEF AppendSymbol, Insert, modes
<1>4. symbols \in Seq(Strings) /\ Len(symbols) \in Nat
  BY <1>1 DEF AllowedTable
<1>5. /\ symbols' \in Seq(Strings) /\ Len(symbols') = Len(symbols) + 1
      /\ \A i \in 1..Len(symbols) : symbols'[i] = symbols[i]
      /\ symbols'[Len(symbols) + 1] = s
  BY <1>1, <1>3, <1>4, AppendProperties
<1>6. SlotsListed'
  BY <1>1, <1>2, AppendSlots, InsertSlots
<1>7. AllowedTable(symbols)'
  <2>1. \A i \in 1..Len(symbols') : Allowed(symbols'[i])
    <3> TAKE i \in 1..Len(symbols')
    <3>1. i \in 1..Len(symbols) \/ i = Len(symbols) + 1
      BY <1>4, <1>5
    <3> QED BY <1>1, <1>5, <3>1 DEF AllowedTable
  <2> QED BY <1>3, <1>5, <2>1 DEF AllowedTable, Allowed
<1>8. ~Bypass' => EveryStringIndexed'
  <2> SUFFICES ASSUME ~Bypass' PROVE EveryStringIndexed'
    OBVIOUS
  <2>1. ~Bypass
    BY DEF Bypass
  <2>2. Insert(s) /\ IndexInv
    BY <2>1 DEF InsertSymbol, PastIndex, OptTable, SlotsListed, IndexInv
  <2>3. IndexInv'
    BY <1>1, <2>2, InsertStep
  <2> QED BY <1>3, <2>3 DEF IndexInv
<1> QED BY <1>3, <1>5, <1>6, <1>7, <1>8 DEF OptTable

\* The inductive invariant of Optfsst_buildSymbolTable(): the symbols may be
\* symbols and whatever is indexed is listed; the counts are those of the
\* table they refer to, which in the heap is prevSym; and nothing that could
\* still be added has been lost from the heap.
OptInv ==
  /\ SampleType /\ terminator \in Byte
  /\ final <=> at = "trained"
  /\ at # "trained" => OptTable
  /\ BestFits
  /\ at \in {"count", "restore"} => DOMAIN count3 = {}
  /\ at = "rank" => CountsFit(symbols)
  /\ at = "add" => CodesFit /\ HeapEntries /\ HeapComplete

\* It holds of the empty table,
LEMMA OptInitial == CreateInit => OptInv
<1> SUFFICES ASSUME CreateInit PROVE OptInv
  OBVIOUS
<1>1. /\ Init /\ sample \in Samples /\ at = "count" /\ count3 = Uncounted
      /\ best = [symbols |-> << >>, count1 |-> Uncounted, gain |-> WorstGain]
  BY DEF CreateInit, TrainInit
<1>2. symbols = << >> /\ ~final
  BY <1>1 DEF Init
<1>3. OptTable /\ terminator \in Byte
  <2>1. IndexInv
    BY <1>1, InitIndex
  <2> QED BY <1>2, <2>1, EmptyAllowed DEF OptTable, IndexInv, SlotsListed, TrainingTypes
<1>4. BestFits
  BY <1>1, EmptyAllowed DEF BestFits, Uncounted
<1>5. DOMAIN count3 = {}
  BY <1>1 DEF Uncounted
<1> QED BY <1>1, <1>2, <1>3, <1>4, <1>5, SmallSample DEF OptInv

\* a step that leaves the table alone
LEMMA SameOptTable ==
  ASSUME UNCHANGED <<tvars, flags>>
  PROVE  /\ OptTable => OptTable'
         /\ BestFits /\ best' = best => BestFits'
         /\ terminator' = terminator /\ final' = final /\ symbols' = symbols
<1>1. UNCHANGED <<symbols, byteCodes, shortCodes, hashTab, terminator, final>>
  BY DEF tvars, indexes, modes
<1>2. SlotsListed => SlotsListed'
  <2>1. (TrainingTypes => TrainingTypes') /\ (ByteSlots => ByteSlots') /\ (PairSlots => PairSlots')
    BY <1>1 DEF TrainingTypes, ByteSlots, PairSlots
  <2>2. HashSlots => HashSlots'
    BY <1>1 DEF HashSlots, BucketOf, Key, Free
  <2> QED BY <2>1, <2>2 DEF SlotsListed
<1>3. EveryStringIndexed => EveryStringIndexed'
  BY <1>1 DEF EveryStringIndexed, BucketOf, Key
<1>4. AllowedTable(symbols) => AllowedTable(symbols)'
  BY <1>1 DEF AllowedTable, Allowed
<1>5. OptTable => OptTable'
  BY <1>2, <1>3, <1>4 DEF OptTable, Bypass
<1>6. BestFits /\ best' = best => BestFits'
  BY <1>1 DEF BestFits, AllowedTable, Allowed, KeysOf
<1> QED BY <1>1, <1>5, <1>6

\* The terminator's count is one of the counts, and all are numbers.
LEMMA TerminatorCounted ==
  ASSUME NEW table, NEW counts, \A c \in DOMAIN counts : counts[c] \in Int,
         NEW new, new = WithTerminator(table, counts)
  PROVE  DOMAIN new = DOMAIN counts /\ \A c \in DOMAIN new : new[c] \in Int
<1>1. PICK lead : lead = IF table = << >> THEN terminator ELSE CodeBase
  OBVIOUS
<1>2. new = [counts EXCEPT ![lead] = 65535]
  BY <1>1 DEF WithTerminator
<1> QED BY <1>2

\* Filling the heap
LEMMA SeedStep ==
  ASSUME NEW table, terminator' = terminator, AllowedTable(table), prevSym' = table,
         DOMAIN count1' \subseteq KeysOf(table),
         DOMAIN count2' \subseteq (DOMAIN count1') \X (DOMAIN count1'),
         \A t \in DOMAIN count3' : \E a, b, c \in DOMAIN count1' :
           t = <<a, b, c>> /\ <<a, b>> \in DOMAIN count2' /\ <<b, c>> \in DOMAIN count2',
         \A c \in DOMAIN count1' : count1'[c] \in Int,
         \A p \in DOMAIN count2' : count2'[p] \in Int,
         \A t \in DOMAIN count3' : count3'[t] \in Int,
         heap' = Seeded(table, count1', count2', count3')
  PROVE  CodesFit' /\ HeapEntries' /\ HeapComplete'
<1>1. AllowedTable(prevSym)' /\ KeysOf(prevSym)' = KeysOf(table)
  BY DEF AllowedTable, Allowed, KeysOf
<1>2. CodesFit'
  BY <1>1 DEF CodesFit, CountsFit
<1>3. (heap = Seeded(prevSym, count1, count2, count3))'
  BY DEF Seeded, Entries, Pairable, Joinable, Extends, StringOf, IndexOf
<1>4. CodesFit' /\ (heap = Seeded(prevSym, count1, count2, count3))' => HeapEntries' /\ HeapComplete'
  BY SeedComplete, PTL
<1> QED BY <1>2, <1>3, <1>4

\* In the last turn there are single codes only.
LEMMA NothingJoined ==
  ASSUME NEW table, NEW counts, NEW triples, DOMAIN triples = {}
  PROVE  Seeded(table, counts, Uncounted, Uncounted) = Seeded(table, counts, Uncounted, triples)
<1>1. DOMAIN Uncounted = {}
  BY DEF Uncounted
<1>2. Joinable(table, {}) = {}
  BY DEF Joinable
<1>3. Entries({}, triples) = {} /\ Entries({}, Uncounted) = {}
  BY DEF Entries
<1> QED BY <1>1, <1>2, <1>3 DEF Seeded

\* every step keeps it,
LEMMA OptStep == ~Greedy /\ OptInv /\ [CreateNext]_createVars => OptInv'
<1> SUFFICES ASSUME ~Greedy, OptInv, [CreateNext]_createVars PROVE OptInv'
  OBVIOUS
<1>0. /\ SampleType /\ terminator \in Byte
      /\ final <=> at = "trained"
      /\ at # "trained" => OptTable
      /\ BestFits
      /\ at \in {"count", "restore"} => DOMAIN count3 = {}
      /\ at = "rank" => CountsFit(symbols)
      /\ at = "add" => CodesFit /\ HeapEntries /\ HeapComplete
  BY DEF OptInv
<1>1. CASE OptCompressCount
  <2>1. /\ at = "count" /\ at' \in {"rank", "restore"} /\ sample' = sample
        /\ UNCHANGED <<tvars, flags>>
    BY <1>1 DEF OptCompressCount
  <2>2. ~final /\ OptTable /\ DOMAIN count3 = {}
    BY <1>0, <2>1
  <2>3. /\ CountsFit(symbols)' /\ BestFits'
        /\ at' = "restore" => DOMAIN count3' = {}
    BY <1>0, <1>1, <2>2, OptCounted
  <2> QED BY <1>0, <2>1, <2>2, <2>3, SameOptTable DEF OptInv, SampleType
<1>2. CASE OptRank
  <2>1. /\ at = "rank" /\ at' = "add" /\ sample' = sample /\ best' = best /\ Clear
        /\ count1' = WithTerminator(symbols, count1) /\ count2' = count2 /\ count3' = count3
        /\ heap' = Seeded(symbols, count1', count2, count3) /\ prevSym' = symbols /\ flags' = flags
    BY <1>2 DEF OptRank
  <2>2. ~final /\ OptTable /\ CountsFit(symbols)
    BY <1>0, <2>1
  <2>3. OptTable' /\ terminator' = terminator /\ final' = final
    BY <1>0, <2>1, <2>2, ClearedTable
  <2>4. PICK new : new = count1'
    OBVIOUS
  <2>5. DOMAIN new = DOMAIN count1 /\ \A c \in DOMAIN new : new[c] \in Int
    <3>1. \A c \in DOMAIN count1 : count1[c] \in Int
      BY <2>2 DEF CountsFit
    <3> QED BY <2>1, <2>4, <3>1, TerminatorCounted
  <2>6. CodesFit' /\ HeapEntries' /\ HeapComplete'
    <3>1. PICK table : table = symbols
      OBVIOUS
    <3>2. /\ AllowedTable(table) /\ DOMAIN count1' \subseteq KeysOf(table)
          /\ DOMAIN count2' \subseteq (DOMAIN count1') \X (DOMAIN count1')
          /\ \A c \in DOMAIN count1' : count1'[c] \in Int
          /\ \A p \in DOMAIN count2' : count2'[p] \in Int
          /\ \A t \in DOMAIN count3' : count3'[t] \in Int
      BY <2>1, <2>2, <2>4, <2>5, <3>1 DEF CountsFit
    <3>3. \A t \in DOMAIN count3' : \E a, b, c \in DOMAIN count1' :
            t = <<a, b, c>> /\ <<a, b>> \in DOMAIN count2' /\ <<b, c>> \in DOMAIN count2'
      <4>1. DOMAIN count1' = DOMAIN count1
        BY <2>4, <2>5
      <4> QED BY <2>1, <2>2, <4>1 DEF CountsFit
    <3>4. heap' = Seeded(table, count1', count2', count3') /\ prevSym' = table
      BY <2>1, <3>1
    <3> QED BY <2>3, <3>2, <3>3, <3>4, SeedStep
  <2>7. BestFits'
    BY <1>0, <2>1, <2>3 DEF BestFits, AllowedTable, Allowed, KeysOf
  <2> QED BY <1>0, <2>1, <2>2, <2>3, <2>6, <2>7 DEF OptInv, SampleType
<1>3. CASE OptRestore
  <2>1. /\ at = "restore" /\ at' = "add" /\ sample' = sample /\ best' = best /\ Clear
        /\ count1' = WithTerminator(best.symbols, best.count1) /\ count2' = Uncounted /\ count3' = count3
        /\ heap' = Seeded(best.symbols, count1', Uncounted, Uncounted)
        /\ prevSym' = best.symbols /\ flags' = flags
    BY <1>3 DEF OptRestore
  <2>2. ~final /\ OptTable /\ DOMAIN count3' = {}
    BY <1>0, <2>1
  <2>3. OptTable' /\ terminator' = terminator /\ final' = final
    BY <1>0, <2>1, <2>2, ClearedTable
  <2>4. PICK new : new = count1'
    OBVIOUS
  <2>5. DOMAIN new = DOMAIN best.count1 /\ \A c \in DOMAIN new : new[c] \in Int
    <3>1. \A c \in DOMAIN best.count1 : best.count1[c] \in Int
      BY <1>0 DEF BestFits
    <3> QED BY <2>1, <2>4, <3>1, TerminatorCounted
  <2>6. CodesFit' /\ HeapEntries' /\ HeapComplete'
    <3>1. PICK table : table = best.symbols
      OBVIOUS
    <3>2. DOMAIN count2' = {}
      BY <2>1 DEF Uncounted
    <3>3. /\ AllowedTable(table) /\ DOMAIN count1' \subseteq KeysOf(table)
          /\ \A c \in DOMAIN count1' : count1'[c] \in Int
      BY <1>0, <2>4, <2>5, <3>1 DEF BestFits
    <3>4. heap' = Seeded(table, count1', count2', count3') /\ prevSym' = table
      BY <2>1, <2>2, <3>1, NothingJoined
    <3>5. DOMAIN count2' \subseteq (DOMAIN count1') \X (DOMAIN count1')
      BY <3>2
    <3>6. \A t \in DOMAIN count3' : FALSE
      BY <2>2
    <3>7. \A p \in DOMAIN count2' : FALSE
      BY <3>2
    <3> QED BY <2>3, <3>3, <3>4, <3>5, <3>6, <3>7, SeedStep
  <2>7. BestFits'
    BY <1>0, <2>1, <2>3 DEF BestFits, AllowedTable, Allowed, KeysOf
  <2> QED BY <1>0, <2>1, <2>2, <2>3, <2>6, <2>7 DEF OptInv, SampleType
<1>4. CASE AddHighest
  <2>1. /\ at = "add" /\ at' = "add" /\ sample' = sample /\ best' = best /\ Len(symbols) < MaxSymbols
        /\ UNCHANGED <<flags, count3, prevSym>>
    BY <1>4 DEF AddHighest
  <2>2. ~final /\ OptTable /\ CodesFit /\ HeapEntries /\ HeapComplete
    BY <1>0, <2>1
  <2>3. PICK e \in heap :
          IF Current(e.of) # e.cnt \/ Refused(Joined(e.of))
          THEN /\ heap' = heap \ {e}
               /\ UNCHANGED <<tvars, count1, count2, seen>>
          ELSE /\ InsertSymbol(Joined(e.of))
               /\ IF "PRUNE" \in flags /\ Len(e.of) > 1
                  THEN Prune(e, Parts(e.of))
                  ELSE heap' = heap \ {e} /\ UNCHANGED <<count1, count2>>
    BY <1>4 DEF AddHighest
  <2>4. e.of \in Ofs
    BY <2>2 DEF HeapEntries
  <2>5. CASE Current(e.of) # e.cnt \/ Refused(Joined(e.of))
    <3>1. heap' = heap \ {e} /\ UNCHANGED <<tvars, count1, count2, count3, seen, prevSym, flags>>
      BY <2>1, <2>3, <2>5
    <3>2. CodesFit' /\ HeapEntries' /\ HeapComplete'
      BY <2>2, <2>5, <3>1, DropKeeps
    <3> QED BY <1>0, <2>1, <2>2, <3>1, <3>2, SameOptTable DEF OptInv, SampleType
  <2>6. CASE ~(Current(e.of) # e.cnt \/ Refused(Joined(e.of)))
    <3>1. InsertSymbol(Joined(e.of)) /\ Allowed(Joined(e.of)) /\ TrainingTypes
      BY <2>2, <2>3, <2>4, <2>6, JoinedAllowed DEF OptTable, SlotsListed
    <3>2. PICK s : s = Joined(e.of)
      OBVIOUS
    <3>3. InsertSymbol(s) /\ Allowed(s) /\ (~PastIndex(s) => ~Taken(s))
      BY <2>6, <3>1, <3>2 DEF Refused
    <3>4. OptTable' /\ terminator' = terminator /\ final' = final
      BY <2>1, <2>2, <3>3, InsertedTable
    <3>5. CodesFit' /\ HeapEntries' /\ HeapComplete'
      <4>1. CASE "PRUNE" \in flags /\ Len(e.of) > 1
        BY <2>1, <2>2, <2>3, <2>6, <3>1, <4>1, PruneKeeps
      <4>2. CASE ~("PRUNE" \in flags /\ Len(e.of) > 1)
        BY <2>1, <2>2, <2>3, <2>6, <3>1, <4>2, AcceptKeeps
      <4> QED BY <4>1, <4>2
    <3>6. BestFits'
      BY <1>0, <2>1, <3>4 DEF BestFits, AllowedTable, Allowed, KeysOf
    <3> QED BY <1>0, <2>1, <2>2, <3>4, <3>5, <3>6 DEF OptInv, SampleType
  <2> QED BY <2>5, <2>6
<1>5. CASE OptNextRound
  <2>1. /\ at = "add" /\ at' \in {"finalize", "count"} /\ sample' = sample /\ best' = best
        /\ count3' = Uncounted /\ UNCHANGED <<tvars, flags>>
    BY <1>5 DEF OptNextRound
  <2>2. DOMAIN count3' = {}
    BY <2>1 DEF Uncounted
  <2> QED BY <1>0, <2>1, <2>2, SameOptTable DEF OptInv, SampleType
<1>6. CASE End /\ UNCHANGED optVars
  <2>1. at = "finalize" /\ at' = "trained" /\ sample' = sample /\ best' = best /\ Finalize
    BY <1>6 DEF End
  <2>2. final' /\ terminator' = terminator
    BY <2>1 DEF Finalize
  <2>3. BestFits'
    BY <1>0, <2>1, <2>2 DEF BestFits, AllowedTable, Allowed, KeysOf
  <2> QED BY <1>0, <2>1, <2>2, <2>3 DEF OptInv, SampleType
<1>7. CASE UNCHANGED createVars
  <2>1. UNCHANGED <<tvars, flags>> /\ UNCHANGED <<at, sample, best, count1, count2, count3, heap, prevSym, seen>>
    BY <1>7 DEF createVars, allVars, trainVars, optVars
  <2>2. terminator' = terminator /\ symbols' = symbols /\ byteCodes' = byteCodes
        /\ shortCodes' = shortCodes /\ hashTab' = hashTab
    BY <2>1 DEF tvars, indexes, modes
  <2>3. AllowedTable(symbols)' <=> AllowedTable(symbols)
    BY <2>2 DEF AllowedTable, Allowed
  <2>4. CountsFit(symbols) => CountsFit(symbols)'
    BY <2>1, <2>2, <2>3 DEF CountsFit, KeysOf
  <2>5. CodesFit => CodesFit'
    <3>1. AllowedTable(prevSym)' <=> AllowedTable(prevSym)
      BY <2>1, <2>2 DEF AllowedTable, Allowed
    <3> QED BY <2>1, <2>2, <3>1 DEF CodesFit, CountsFit, KeysOf
  <2>6. Ofs' = Ofs /\ \A of : Joined(of)' = Joined(of) /\ Current(of)' = Current(of)
    BY <2>1, <2>2, SameOfs DEF Current
  <2>7. \A t : Refused(t)' <=> Refused(t)
    BY <2>1, <2>2 DEF Refused, PastIndex, Bypass, Taken, BucketOf, Key, Number, Free
  <2>8. (HeapEntries => HeapEntries') /\ (HeapComplete => HeapComplete')
    BY <2>1, <2>6, <2>7 DEF HeapEntries, HeapComplete
  <2> QED BY <1>0, <2>1, <2>2, <2>4, <2>5, <2>8, SameOptTable DEF OptInv, SampleType
<1> QED BY <1>1, <1>2, <1>3, <1>4, <1>5, <1>6, <1>7 DEF CreateNext, OptNext

\* and so it holds in all of the training that is not greedy.
LEMMA OptTraining == CreateSpec => [](~Greedy => OptInv)
<1>1. CreateInit => (~Greedy => OptInv)
  BY OptInitial
<1>2. (~Greedy => OptInv) /\ [CreateNext]_createVars => (~Greedy => OptInv)'
  <2> SUFFICES ASSUME ~Greedy => OptInv, [CreateNext]_createVars, ~Greedy' PROVE OptInv'
    OBVIOUS
  <2>1. flags' = flags
    BY DEF createVars, optVars, CreateNext, OptNext, OptCompressCount, OptRank, OptRestore, AddHighest,
           OptNextRound
  <2>2. ~Greedy
    BY <2>1 DEF Greedy
  <2> QED BY <2>2, OptStep
<1> QED BY <1>1, <1>2, PTL DEF CreateSpec

\* The symbol that a step adds is that of an entry with the highest gain,
\* and whatever could still be added has one.
LEMMA BestStep ==
  ASSUME ~Greedy, OptInv, CreateNext, Len(symbols') > Len(symbols)
  PROVE  \E of \in Ofs :
           /\ Joined(of) = Last(symbols')
           /\ \A o \in Ofs : Current(o) > 0 /\ ~Refused(Joined(o)) =>
                Gain(o, Current(o)) <= Gain(of, Current(of))
<1>0. /\ final <=> at = "trained"
      /\ at # "trained" => OptTable
      /\ at = "add" => CodesFit /\ HeapEntries /\ HeapComplete
  BY DEF OptInv
<1>1. CASE AddHighest
  <2>1. at = "add" /\ Len(symbols) < MaxSymbols /\ UNCHANGED <<flags, count3, prevSym>>
    BY <1>1 DEF AddHighest
  <2>2. ~final /\ OptTable /\ CodesFit /\ HeapEntries /\ HeapComplete
    BY <1>0, <2>1
  <2>3. PICK e \in heap :
          /\ Highest(e)
          /\ IF Current(e.of) # e.cnt \/ Refused(Joined(e.of))
             THEN UNCHANGED tvars
             ELSE InsertSymbol(Joined(e.of))
    BY <1>1 DEF AddHighest
  <2>4. Len(symbols) \in Nat
    BY <2>2 DEF OptTable, AllowedTable
  <2>5. Current(e.of) = e.cnt /\ ~Refused(Joined(e.of)) /\ InsertSymbol(Joined(e.of))
    <3>1. UNCHANGED tvars => symbols' = symbols
      BY DEF tvars, indexes
    <3>2. ~(Len(symbols) > Len(symbols))
      BY <2>4
    <3> QED BY <2>3, <3>1, <3>2
  <2>6. e.of \in Ofs
    BY <2>2 DEF HeapEntries
  <2>7. PICK s : s = Joined(e.of)
    OBVIOUS
  <2>8. InsertSymbol(s) /\ Allowed(s) /\ (~PastIndex(s) => ~Taken(s))
    BY <2>2, <2>5, <2>6, <2>7, JoinedAllowed DEF Refused
  <2>9. Last(symbols') = s
    <3>1. symbols'[Len(symbols')] = s
      BY <2>1, <2>2, <2>8, InsertedTable
    <3> QED BY <3>1 DEF Last
  <2>10. ASSUME NEW o \in Ofs, Current(o) > 0, ~Refused(Joined(o))
         PROVE  Gain(o, Current(o)) <= Gain(e.of, Current(e.of))
    <3>1. PICK f \in heap : f = [of |-> o, cnt |-> Current(o)]
      BY <2>2, <2>10 DEF HeapComplete
    <3>2. f.of = o /\ f.cnt = Current(o)
      BY <3>1
    <3>3. Gain(f.of, f.cnt) <= Gain(e.of, e.cnt)
      BY <2>3 DEF Highest
    <3> QED BY <2>5, <3>2, <3>3
  <2> QED BY <2>6, <2>7, <2>9, <2>10
<1>2. CASE OptRank \/ OptRestore
  <2>1. Clear /\ at # "trained"
    BY <1>2 DEF OptRank, OptRestore
  <2>2. symbols' = << >> /\ Len(symbols) \in Nat
    BY <1>0, <2>1 DEF Clear, OptTable, AllowedTable
  <2> QED BY <2>2
<1>3. CASE End
  <2>1. Finalize /\ at # "trained"
    BY <1>3 DEF End
  <2>2. symbols' = [c \in 1..Len(symbols) |-> RenumberedTo(c - 1)] /\ Len(symbols) \in Nat
    BY <1>0, <2>1 DEF Finalize, OptTable, AllowedTable
  <2>3. Len(symbols') = Len(symbols)
    <3>1. PICK n \in Nat : n = Len(symbols)
      BY <2>2
    <3>2. symbols' = [c \in 1..n |-> RenumberedTo(c - 1)]
      BY <2>2, <3>1
    <3>3. Len([c \in 1..n |-> RenumberedTo(c - 1)]) = n
      OBVIOUS
    <3> QED BY <3>1, <3>2, <3>3
  <2> QED BY <2>2, <2>3
<1>4. CASE OptCompressCount \/ OptNextRound
  <2>1. symbols' = symbols
    BY <1>4 DEF OptCompressCount, OptNextRound, tvars, indexes
  <2>2. at # "trained"
    BY <1>4 DEF OptCompressCount, OptNextRound
  <2>3. Len(symbols) \in Nat
    BY <1>0, <2>2 DEF OptTable, AllowedTable
  <2> QED BY <2>1, <2>3
<1> QED BY <1>1, <1>2, <1>3, <1>4 DEF CreateNext, OptNext

\* With the options of Optfsst_create(), for every sample: each symbol that is
\* added has the most gain by the counts as they are, of all single codes,
\* pairs and triples that could still be added, although pruning changes
\* counts without touching the entries that are already in the heap.
THEOREM HeapFindsTheBest == CreateSpec => TakesTheBest
<1>1. (~Greedy => OptInv) /\ [CreateNext]_createVars =>
        [~Greedy /\ Len(symbols') > Len(symbols) =>
          \E of \in Ofs :
            /\ Joined(of) = Last(symbols')
            /\ \A o \in Ofs : Current(o) > 0 /\ ~Refused(Joined(o)) =>
                 Gain(o, Current(o)) <= Gain(of, Current(of))]_createVars
  BY BestStep
<1> QED BY <1>1, OptTraining, PTL DEF CreateSpec, TakesTheBest

-----------------------------------------------------------------------------
(* The terminator in OptTrainer                                            *)

\* Parses that take each line once count no code more often than the bytes
\* of the sample allow.
LEMMA CodesWeighed ==
  ASSUME SampleType, NEW ps \in Seq(Seq(FullStep)), Len(ps) = Len(sample),
         \A l \in 1..Len(sample) : ParseFits(sample[l], ps[l]),
         NEW c \in Codes, Len(Meaning(c)) \in Nat
  PROVE  Len(Meaning(c)) * Cardinality(Where(FlattenSeq(ps), CountedFor(c))) <= Bytes(sample)
<1>1. PICK n \in Nat : n = Len(sample) /\ n = Len(ps)
  BY DEF SampleType
<1>2. PICK w \in Nat : w = Len(Meaning(c))
  OBVIOUS
<1>3. PICK lines \in Seq(Seq(Byte)) : lines = sample
  BY DEF SampleType
<1> DEFINE F(j) == FlattenSeq(SubSeq(lines, 1, j))
           h == [j \in 0..n |-> Len(F(j))]
<1>4. \A j \in 0..n : F(j) \in Seq(Byte)
  <2> TAKE j \in 0..n
  <2>1. SubSeq(lines, 1, j) \in Seq(Seq(Byte))
    BY <1>1, <1>3
  <2> QED BY <2>1, FlattenType
<1>5. ASSUME NEW j \in 0..n - 1 PROVE F(j + 1) = F(j) \o lines[j + 1]
  BY <1>1, <1>3, FlattenPrefix
<1>6. F(n) = FlattenSeq(lines)
  <2>1. SubSeq(lines, 1, n) = lines
    BY <1>1, <1>3
  <2> QED BY <2>1
<1> HIDE DEF F
<1>7. \A j \in 0..n : h[j] = Len(F(j)) /\ h[j] \in Nat
  BY <1>4
<1> HIDE DEF h
<1>8. ASSUME NEW j \in 0..n - 1
      PROVE  h[j] + w * Cardinality(Where(ps[j + 1], CountedFor(c))) <= h[j + 1]
  <2>1. j \in 0..n /\ j + 1 \in 0..n /\ j + 1 \in 1..n
    OBVIOUS
  <2>2. PICK a \in Seq(Byte), b \in Seq(Byte) : a = F(j) /\ b = lines[j + 1]
    BY <1>1, <1>3, <1>4, <2>1
  <2>3. Len(a \o b) = Len(a) + Len(b)
    OBVIOUS
  <2>4. h[j] = Len(a) /\ h[j + 1] = Len(a) + Len(b)
    BY <1>5, <1>7, <2>1, <2>2, <2>3
  <2>5. w * Cardinality(Where(ps[j + 1], CountedFor(c))) <= Len(b)
    BY <1>1, <1>2, <1>3, <2>1, <2>2 DEF ParseFits
  <2>6. PICK k \in Nat : k = Cardinality(Where(ps[j + 1], CountedFor(c)))
    <3>1. ps[j + 1] \in Seq(FullStep)
      BY <1>1, <2>1
    <3> QED BY <3>1, WhereType
  <2>7. PICK v \in Nat : v = w * k
    OBVIOUS
  <2>8. PICK x \in Nat, y \in Nat : x = Len(a) /\ y = Len(b)
    OBVIOUS
  <2> QED BY <2>4, <2>5, <2>6, <2>7, <2>8
<1>9. w * Cardinality(Where(FlattenSeq(ps), CountedFor(c))) <= h[n]
  <2>1. /\ \A j \in 0..Len(ps) : h[j] \in Nat
        /\ \A j \in 0..Len(ps) - 1 : h[j] + w * Cardinality(Where(ps[j + 1], CountedFor(c))) <= h[j + 1]
    BY <1>1, <1>7, <1>8
  <2>2. w * Cardinality(Where(FlattenSeq(ps), CountedFor(c))) <= h[Len(ps)]
    BY <2>1, FlattenWhere
  <2> QED BY <1>1, <2>2
<1>10. n \in 0..n
  OBVIOUS
<1> QED BY <1>2, <1>3, <1>6, <1>7, <1>9, <1>10 DEF Bytes

\* A part of a finite set is no larger.
LEMMA PartBelow ==
  ASSUME NEW A, NEW B, A \subseteq B, IsFiniteSet(B), NEW n \in Nat, Cardinality(B) <= n
  PROVE  Cardinality(A) \in Nat /\ Cardinality(A) <= n
<1>1. IsFiniteSet(A) /\ Cardinality(A) <= Cardinality(B)
  BY FS_Subset
<1>2. Cardinality(A) \in Nat /\ Cardinality(B) \in Nat
  BY <1>1, FS_CardinalityType
<1> QED BY <1>1, <1>2

\* A pair is counted no more often than either of its codes,
LEMMA PairsBelow ==
  ASSUME NEW ps \in Seq(Seq(FullStep)), NEW a \in Codes, NEW b \in Codes
  PROVE  LET P == {x \in TwosOf(FullStep) : x[1].code = a /\ b \in x[2].counted}
             size == Cardinality(Where(Pairs(ps), P))
         IN /\ size \in Nat
            /\ size <= Cardinality(Where(FlattenSeq(ps), CountedFor(a)))
            /\ size <= Cardinality(Where(FlattenSeq(ps), CountedFor(b)))
<1> DEFINE P == {x \in TwosOf(FullStep) : x[1].code = a /\ b \in x[2].counted}
           two(k) == IF ps[k] = << >> THEN << >>
                     ELSE [i \in 1..Len(ps[k]) - 1 |-> <<ps[k][i], ps[k][i + 1]>>]
           twos == [k \in 1..Len(ps) |-> two(k)]
<1>1. PICK n \in Nat : n = Len(ps)
  OBVIOUS
<1>2. Pairs(ps) = FlattenSeq(twos)
  BY DEF Pairs
<1>3. ASSUME NEW k \in 1..n
      PROVE  /\ two(k) \in Seq(TwosOf(FullStep))
             /\ Cardinality(Where(two(k), P)) <= Cardinality(Where(ps[k], CountedFor(a)))
             /\ Cardinality(Where(two(k), P)) <= Cardinality(Where(ps[k], CountedFor(b)))
  <2>1. PICK s \in Seq(FullStep) : s = ps[k]
    BY <1>1
  <2>2. PICK x \in Nat, y \in Nat :
          x = Cardinality(Where(s, CountedFor(a))) /\ y = Cardinality(Where(s, CountedFor(b)))
    BY WhereType
  <2>3. CASE s = << >>
    <3>1. two(k) = << >>
      BY <2>1, <2>3
    <3> HIDE DEF two
    <3>2. Where(<< >>, P) = {} /\ << >> \in Seq(TwosOf(FullStep))
      BY DEF Where
    <3>3. Cardinality(Where(two(k), P)) = 0
      BY <3>1, <3>2, FS_EmptySet
    <3> QED BY <2>1, <2>2, <3>1, <3>2, <3>3
  <2>4. CASE s # << >>
    <3>0. PICK L \in Nat : L = Len(s) /\ L # 0
      <4>1. Len(s) \in Nat /\ Len(s) # 0
        BY <2>4, EmptySeq
      <4> QED BY <4>1
    <3>1. PICK m \in Nat : m = Len(s) - 1 /\ m + 1 = L
      <4>1. L - 1 \in Nat /\ (L - 1) + 1 = L
        BY <3>0
      <4> QED BY <3>0, <4>1
    <3>2. PICK t : t = [i \in 1..m |-> <<s[i], s[i + 1]>>]
      OBVIOUS
    <3>3. two(k) = t
      BY <2>1, <2>4, <3>1, <3>2
    <3> HIDE DEF two
    <3>4. \A i \in 1..m : s[i] \in FullStep /\ s[i + 1] \in FullStep
      <4> TAKE i \in 1..m
      <4>1. i \in 1..L /\ i + 1 \in 1..L
        BY <3>0, <3>1
      <4> QED BY <3>0, <4>1
    <3>5. t \in Seq(TwosOf(FullStep)) /\ Len(t) = m
      <4>1. t \in [1..m -> TwosOf(FullStep)]
        BY <3>2, <3>4 DEF TwosOf
      <4> QED BY <4>1, SeqDef, LenProperties
    <3>6. ASSUME NEW i \in Where(t, P)
          PROVE  /\ i \in {j \in 1..m : s[0 + j] \in CountedFor(a)}
                 /\ i \in {j \in 1..m : s[1 + j] \in CountedFor(b)}
      <4>1. i \in 1..m /\ t[i] \in P
        BY <3>5 DEF Where
      <4>2. PICK u \in FullStep, v \in FullStep : u = s[i] /\ v = s[i + 1]
        BY <3>4, <4>1
      <4>3. t[i] = <<u, v>>
        BY <3>2, <4>1, <4>2
      <4>4. u.code = a /\ b \in v.counted
        <5>1. PICK z : z = t[i]
          OBVIOUS
        <5>2. z[1] = u /\ z[2] = v
          BY <4>3, <5>1
        <5>3. z[1].code = a /\ b \in z[2].counted
          BY <4>1, <5>1
        <5> QED BY <5>2, <5>3
      <4>5. u \in CountedFor(a) /\ v \in CountedFor(b)
        BY <4>4 DEF FullStep, CountedFor
      <4>6. 0 + i = i /\ 1 + i = i + 1
        BY <4>1
      <4> QED BY <4>1, <4>2, <4>5, <4>6
    <3> DEFINE A == {j \in 1..m : s[0 + j] \in CountedFor(a)}
               B == {j \in 1..m : s[1 + j] \in CountedFor(b)}
    <3>7. Cardinality(A) <= x
      <4>1. 0 \in Nat /\ 0 + m <= Len(s)
        BY <3>1
      <4> QED BY <2>2, <4>1, WhereBehind
    <3>8. Cardinality(B) <= y
      <4>1. 1 \in Nat /\ 1 + m <= Len(s)
        BY <3>0, <3>1
      <4> QED BY <2>2, <4>1, WhereBehind
    <3>9. IsFiniteSet(A) /\ IsFiniteSet(B)
      <4>1. A \in SUBSET (1..m) /\ B \in SUBSET (1..m)
        OBVIOUS
      <4> HIDE DEF A, B
      <4> QED BY <4>1, SizeOfRange, FS_Subset
    <3>10. Where(t, P) \subseteq A /\ Where(t, P) \subseteq B
      BY <3>6
    <3> HIDE DEF A, B, P
    <3>11. Cardinality(Where(t, P)) <= x /\ Cardinality(Where(t, P)) <= y
      BY <3>7, <3>8, <3>9, <3>10, PartBelow
    <3> QED BY <2>1, <2>2, <3>3, <3>5, <3>11
  <2> QED BY <2>3, <2>4
<1> HIDE DEF P, two
<1>4. twos \in Seq(Seq(TwosOf(FullStep))) /\ Len(twos) = n /\ \A k \in 1..n : twos[k] = two(k)
  <2>1. twos \in [1..n -> Seq(TwosOf(FullStep))]
    BY <1>1, <1>3
  <2>2. \A k \in 1..n : twos[k] = two(k)
    BY <1>1
  <2> HIDE DEF twos
  <2> QED BY <2>1, <2>2, SeqDef, LenProperties
<1> HIDE DEF twos
<1>5. Cardinality(Where(FlattenSeq(twos), P)) <= Cardinality(Where(FlattenSeq(ps), CountedFor(a)))
  <2>1. \A k \in 1..Len(twos) : Cardinality(Where(twos[k], P)) <= Cardinality(Where(ps[k], CountedFor(a)))
    BY <1>3, <1>4
  <2> QED BY <1>1, <1>4, <2>1, FlattenBelow
<1>6. Cardinality(Where(FlattenSeq(twos), P)) <= Cardinality(Where(FlattenSeq(ps), CountedFor(b)))
  <2>1. \A k \in 1..Len(twos) : Cardinality(Where(twos[k], P)) <= Cardinality(Where(ps[k], CountedFor(b)))
    BY <1>3, <1>4
  <2> QED BY <1>1, <1>4, <2>1, FlattenBelow
<1>7. Cardinality(Where(FlattenSeq(twos), P)) \in Nat
  <2>1. FlattenSeq(twos) \in Seq(TwosOf(FullStep))
    BY <1>4, FlattenType
  <2> QED BY <2>1, WhereType
<1> QED BY <1>2, <1>5, <1>6, <1>7 DEF P

\* and a triple no more often than any of its three.
LEMMA TriplesBelow ==
  ASSUME NEW ps \in Seq(Seq(FullStep)), NEW a \in Codes, NEW b \in Codes, NEW c \in Codes,
         NEW d \in 0..2, NEW code, code = IF d = 0 THEN a ELSE IF d = 1 THEN b ELSE c
  PROVE  LET P == {x \in ThreesOf(FullStep) : x[1].code = a /\ x[2].code = b /\ c \in x[3].counted}
             size == Cardinality(Where(Triples(ps), P))
         IN size \in Nat /\ size <= Cardinality(Where(FlattenSeq(ps), CountedFor(code)))
<1> DEFINE P == {x \in ThreesOf(FullStep) : x[1].code = a /\ x[2].code = b /\ c \in x[3].counted}
           long(k, i) == Len(Meaning(ps[k][i].code)) + Len(Meaning(ps[k][i + 1].code)) >= MaxLen
           one(k, i) == IF long(k, i) THEN << >>
                        ELSE <<<<ps[k][i], ps[k][i + 1], ps[k][i + 2]>>>>
           three(k) == IF Len(ps[k]) < 3 THEN << >>
                       ELSE FlattenSeq([i \in 1..Len(ps[k]) - 2 |-> one(k, i)])
           threes == [k \in 1..Len(ps) |-> three(k)]
           Q == CountedFor(code)
<1>1. PICK n \in Nat : n = Len(ps)
  OBVIOUS
<1>2. Triples(ps) = FlattenSeq(threes)
  BY DEF Triples
<1>3. ASSUME NEW k \in 1..n
      PROVE  /\ three(k) \in Seq(ThreesOf(FullStep))
             /\ Cardinality(Where(three(k), P)) <= Cardinality(Where(ps[k], Q))
  <2>1. PICK s \in Seq(FullStep) : s = ps[k]
    BY <1>1
  <2>2. PICK x \in Nat : x = Cardinality(Where(s, Q))
    BY WhereType
  <2>3. CASE Len(s) < 3
    <3>1. three(k) = << >>
      BY <2>1, <2>3
    <3> HIDE DEF three
    <3>2. Where(<< >>, P) = {} /\ << >> \in Seq(ThreesOf(FullStep))
      BY DEF Where
    <3>3. Cardinality(Where(three(k), P)) = 0
      BY <3>1, <3>2, FS_EmptySet
    <3> QED BY <2>1, <2>2, <3>1, <3>2, <3>3
  <2>4. CASE ~(Len(s) < 3)
    <3>0. PICK L \in Nat : L = Len(s) /\ ~(L < 3)
      BY <2>4
    <3>1. PICK m \in Nat : m = Len(s) - 2 /\ m + 2 = L
      <4>1. L - 2 \in Nat /\ (L - 2) + 2 = L
        BY <3>0
      <4> QED BY <3>0, <4>1
    <3>2. PICK f : f = [i \in 1..m |-> one(k, i)]
      OBVIOUS
    <3>3. three(k) = FlattenSeq(f)
      BY <2>1, <2>4, <3>1, <3>2
    <3> HIDE DEF three
    <3>4. ASSUME NEW i \in 1..m
          PROVE  /\ f[i] \in Seq(ThreesOf(FullStep))
                 /\ \/ f[i] = << >>
                    \/ \E y : f[i] = <<y>> /\ (y \in P => s[d + i] \in Q)
      <4>0. i \in 1..L /\ i + 1 \in 1..L /\ i + 2 \in 1..L
        BY <3>0, <3>1
      <4>1. PICK u \in FullStep, v \in FullStep, w \in FullStep : u = s[i] /\ v = s[i + 1] /\ w = s[i + 2]
        BY <3>0, <4>0
      <4>2. PICK y \in ThreesOf(FullStep) : y = <<s[i], s[i + 1], s[i + 2]>> /\ y = <<u, v, w>>
        <5>1. <<u, v, w>> \in ThreesOf(FullStep)
          BY DEF ThreesOf
        <5>2. <<u, v, w>> = <<s[i], s[i + 1], s[i + 2]>>
          BY <4>1
        <5> QED BY <5>1, <5>2
      <4>3. f[i] = << >> \/ f[i] = <<y>>
        <5>1. one(k, i) = << >> \/ one(k, i) = <<y>>
          BY <2>1, <4>2
        <5> HIDE DEF one
        <5> QED BY <3>2, <5>1
      <4>4. <<y>> \in Seq(ThreesOf(FullStep)) /\ << >> \in Seq(ThreesOf(FullStep))
        OBVIOUS
      <4>5. ASSUME y \in P PROVE s[d + i] \in Q
        <5>1. y[1] = u /\ y[2] = v /\ y[3] = w
          BY <4>2
        <5>2. u.code = a /\ v.code = b /\ c \in w.counted
          BY <4>5, <5>1
        <5>3. u \in CountedFor(a) /\ v \in CountedFor(b) /\ w \in CountedFor(c)
          BY <5>2 DEF FullStep, CountedFor
        <5>4. CASE d = 0
          <6>1. d + i = i /\ code = a
            BY <5>4
          <6> QED BY <4>1, <5>3, <6>1
        <5>5. CASE d = 1
          <6>1. d + i = i + 1 /\ code = b
            BY <5>5
          <6> QED BY <4>1, <5>3, <6>1
        <5>6. CASE d = 2
          <6>1. d + i = i + 2 /\ code = c
            BY <5>6
          <6> QED BY <4>1, <5>3, <6>1
        <5>7. d = 0 \/ d = 1 \/ d = 2
          OBVIOUS
        <5> QED BY <5>4, <5>5, <5>6, <5>7
      <4> HIDE DEF P, Q
      <4> QED BY <4>3, <4>4, <4>5
    <3> HIDE DEF one, P, Q
    <3>5. f \in Seq(Seq(ThreesOf(FullStep))) /\ Len(f) = m
      <4>1. f \in [1..m -> Seq(ThreesOf(FullStep))]
        BY <3>2, <3>4
      <4> QED BY <4>1, SeqDef, LenProperties
    <3>6. d \in Nat /\ d + m <= Len(s)
      BY <3>0, <3>1
    <3>7. \A i \in 1..m : f[i] = << >> \/ \E y : f[i] = <<y>> /\ (y \in P => s[d + i] \in Q)
      BY <3>4
    <3>8. Cardinality(Where(FlattenSeq(f), P)) <= Cardinality(Where(s, Q))
      BY <3>5, <3>6, <3>7, PlacesBelow
    <3>9. FlattenSeq(f) \in Seq(ThreesOf(FullStep))
      BY <3>5, FlattenType
    <3> QED BY <2>1, <3>3, <3>8, <3>9
  <2> QED BY <2>3, <2>4
<1> HIDE DEF P, Q, three
<1>4. threes \in Seq(Seq(ThreesOf(FullStep))) /\ Len(threes) = n /\ \A k \in 1..n : threes[k] = three(k)
  <2>1. threes \in [1..n -> Seq(ThreesOf(FullStep))]
    BY <1>1, <1>3
  <2>2. \A k \in 1..n : threes[k] = three(k)
    BY <1>1
  <2> HIDE DEF threes
  <2> QED BY <2>1, <2>2, SeqDef, LenProperties
<1> HIDE DEF threes
<1>5. Cardinality(Where(FlattenSeq(threes), P)) <= Cardinality(Where(FlattenSeq(ps), Q))
  <2>1. \A k \in 1..Len(threes) : Cardinality(Where(threes[k], P)) <= Cardinality(Where(ps[k], Q))
    BY <1>3, <1>4
  <2> QED BY <1>1, <1>4, <2>1, FlattenBelow
<1>6. Cardinality(Where(FlattenSeq(threes), P)) \in Nat
  <2>1. FlattenSeq(threes) \in Seq(ThreesOf(FullStep))
    BY <1>4, FlattenType
  <2> QED BY <2>1, WhereType
<1> QED BY <1>2, <1>5, <1>6 DEF P, Q

\* What the codes of a table weigh in the sample, and what pairs and triples
\* take of it
Weighed(table, counts) ==
  \A c \in DOMAIN counts :
    counts[c] \in Nat /\ Len(StringOf(table, c)) * counts[c] <= Bytes(sample)
PartsWeighed(counts, pairs, triples) ==
  /\ \A p \in DOMAIN pairs : \A i \in 1..2 : pairs[p] <= counts[p[i]]
  /\ \A t \in DOMAIN triples : \A i \in 1..3 : triples[t] <= counts[t[i]]

\* Counting leaves counts that the sample bounds.
LEMMA OptWeighed ==
  ASSUME OptTable, ~final, SampleType, DOMAIN count3 = {}, OptCompressCount
  PROVE  /\ Weighed(symbols, count1') /\ DOMAIN count1' = KeysOf(symbols)
         /\ PartsWeighed(count1', count2', count3')
         /\ best' = best \/ (best'.symbols = symbols /\ best'.count1 = count1')
<1> DEFINE parses == [l \in 1..Len(sample) |->
                        IF "DP_TRAIN" \in flags THEN DPSteps(sample[l]) ELSE Steps(sample[l])]
           n == Len(sample)
<1>1. /\ CountParses(parses)
      /\ count3' = IF "DP_TRAIN" \in flags THEN CountTriples(parses) ELSE count3
  BY DEF OptCompressCount
<1>2. SlotsListed
  BY DEF OptTable
<1>3. "DP_TRAIN" \notin flags => IndexInv
  BY DEF OptTable, Bypass, SlotsListed, IndexInv
<1>4. n \in Nat /\ \A l \in 1..n : sample[l] \in Seq(Byte)
  BY DEF SampleType
<1>5. ASSUME NEW l \in 1..n
      PROVE  ParseFits(sample[l], IF "DP_TRAIN" \in flags THEN DPSteps(sample[l]) ELSE Steps(sample[l]))
  <2>1. PICK line \in Seq(Byte) : line = sample[l]
    BY <1>4
  <2>2. "DP_TRAIN" \in flags => ParseFits(line, DPSteps(line))
    BY <1>2, DPParseSteps
  <2>3. "DP_TRAIN" \notin flags => ParseFits(line, Steps(line))
    BY <1>3, GreedyParseSteps
  <2> QED BY <2>1, <2>2, <2>3
<1>6. PICK ps \in Seq(Seq(FullStep)) : ps = parses /\ Len(ps) = n
  <2>1. parses \in [1..n -> Seq(FullStep)]
    BY <1>5 DEF ParseFits
  <2>2. parses \in Seq(Seq(FullStep)) /\ Len(parses) = n
    <3> HIDE DEF parses
    <3> QED BY <1>4, <2>1, SeqDef, LenProperties
  <2> HIDE DEF parses
  <2> QED BY <2>2
<1>7. \A l \in 1..Len(sample) : ParseFits(sample[l], ps[l])
  <2> TAKE l \in 1..Len(sample)
  <2>1. ps[l] = IF "DP_TRAIN" \in flags THEN DPSteps(sample[l]) ELSE Steps(sample[l])
    BY <1>6
  <2> QED BY <1>5, <2>1
<1>8. CountParses(ps) /\ count3' = IF "DP_TRAIN" \in flags THEN CountTriples(ps) ELSE count3
  BY <1>1, <1>6
<1> HIDE DEF parses
<1> DEFINE steps == FlattenSeq(ps)
           pairs == IF LastRound THEN << >> ELSE Pairs(ps)
           gain == SumFunction([i \in 1..Len(steps) |-> Saved(steps[i])])
           in1(c) == {i \in 1..Len(steps) : c \in steps[i].counted}
           in2(p) == {i \in 1..Len(pairs) : pairs[i][1].code = p[1] /\ p[2] \in pairs[i][2].counted}
           counts == [c \in Codes |-> Cardinality(in1(c))]
<1>9. /\ count1' = counts
      /\ count2' = [p \in Codes \X Codes |-> Cardinality(in2(p))]
      /\ best' = Kept(gain, counts)
  BY <1>8 DEF CountParses
<1>10. ps \in Seq(Seq(FullStep)) /\ steps \in Seq(FullStep) /\ Pairs(ps) \in Seq(TwosOf(FullStep))
       /\ Triples(ps) \in Seq(ThreesOf(FullStep))
  BY AdjacentType
<1>11. best' = best \/ (best'.symbols = symbols /\ best'.count1 = count1')
  <2> HIDE DEF gain, counts
  <2>1. Kept(gain, counts) = IF gain >= best.gain
                             THEN [symbols |-> symbols, count1 |-> counts, gain |-> gain]
                             ELSE best
    BY DEF Kept
  <2>2. PICK r : r = [symbols |-> symbols, count1 |-> counts, gain |-> gain]
    OBVIOUS
  <2>3. r.symbols = symbols /\ r.count1 = counts
    BY <2>2
  <2>4. best' = best \/ best' = r
    BY <1>9, <2>1, <2>2
  <2> QED BY <1>9, <2>3, <2>4
<1>12. DOMAIN count1' = Codes /\ Codes = KeysOf(symbols)
  BY <1>9 DEF Codes, KeysOf
<1>13. ASSUME NEW c \in Codes
       PROVE  count1'[c] = Cardinality(Where(steps, CountedFor(c))) /\ count1'[c] \in Nat
  <2>1. FullStep \subseteq StepType
    BY DEF FullStep
  <2>2. PICK z \in Seq(FullStep) : z = steps
    BY <1>10
  <2>3. in1(c) = {i \in 1..Len(z) : c \in z[i].counted}
    BY <2>2
  <2>4. \A i \in 1..Len(z) : c \in z[i].counted <=> z[i] \in CountedFor(c)
    BY <2>1 DEF CountedFor
  <2>5. in1(c) = Where(z, CountedFor(c))
    <3> HIDE DEF in1
    <3> QED BY <2>3, <2>4 DEF Where
  <2>6. Cardinality(Where(z, CountedFor(c))) \in Nat
    BY WhereType
  <2>7. count1'[c] = Cardinality(in1(c))
    BY <1>9
  <2> HIDE DEF in1, steps
  <2> QED BY <2>2, <2>5, <2>6, <2>7
<1>14. Weighed(symbols, count1')
  <2> SUFFICES ASSUME NEW c \in Codes
               PROVE  count1'[c] \in Nat /\ Len(StringOf(symbols, c)) * count1'[c] <= Bytes(sample)
    BY <1>12 DEF Weighed
  <2>1. Len(Meaning(c)) \in Nat /\ StringOf(symbols, c) = Meaning(c)
    <3>1. Len(Meaning(c)) \in 1..MaxLen
      BY <1>2, MeaningType, StringFacts
    <3>2. StringOf(symbols, c) = Meaning(c)
      BY DEF StringOf, Meaning
    <3> QED BY <3>1, <3>2
  <2>2. Len(Meaning(c)) * Cardinality(Where(steps, CountedFor(c))) <= Bytes(sample)
    BY <1>6, <1>7, <2>1, CodesWeighed
  <2> HIDE DEF steps
  <2> QED BY <1>13, <2>1, <2>2
<1>15. ASSUME NEW p \in DOMAIN count2', NEW j \in 1..2 PROVE count2'[p] <= count1'[p[j]]
  <2>1. PICK a \in Codes, b \in Codes : p = <<a, b>>
    BY <1>9
  <2>2. p[1] = a /\ p[2] = b /\ (j = 1 \/ j = 2)
    BY <2>1
  <2> DEFINE P == {x \in TwosOf(FullStep) : x[1].code = a /\ b \in x[2].counted}
  <2>3. count2'[p] = Cardinality(in2(p))
    BY <1>9, <2>1
  <2>4. PICK m \in Nat, k \in Nat : m = count1'[a] /\ k = count1'[b]
    BY <1>13
  <2>5. CASE LastRound
    <3>1. in2(p) = {}
      <4>1. Len(pairs) = 0
        BY <2>5
      <4> QED BY <4>1
    <3>2. count2'[p] = 0
      BY <2>3, <3>1, FS_EmptySet
    <3> QED BY <2>2, <2>4, <3>2
  <2>6. CASE ~LastRound
    <3>1. PICK z \in Seq(TwosOf(FullStep)) : z = Pairs(ps)
      BY <1>10
    <3>2. in2(p) = {i \in 1..Len(z) : z[i][1].code = a /\ b \in z[i][2].counted}
      BY <2>2, <2>6, <3>1
    <3> HIDE DEF in2, pairs
    <3>3. in2(p) = Where(z, P)
      BY <3>2 DEF Where
    <3>4. /\ Cardinality(Where(z, P)) \in Nat
          /\ Cardinality(Where(z, P)) <= Cardinality(Where(steps, CountedFor(a)))
          /\ Cardinality(Where(z, P)) <= Cardinality(Where(steps, CountedFor(b)))
      BY <3>1, PairsBelow
    <3> HIDE DEF P, steps
    <3>5. count2'[p] <= count1'[a] /\ count2'[p] <= count1'[b]
      BY <1>13, <2>3, <3>3, <3>4
    <3> QED BY <2>2, <3>5
  <2> QED BY <2>5, <2>6
<1>16. ASSUME NEW t \in DOMAIN count3', NEW j \in 1..3 PROVE count3'[t] <= count1'[t[j]]
  <2> DEFINE triples == IF LastRound \/ "TRIPLES" \notin flags THEN << >> ELSE Triples(ps)
             counted(x) == {<<x[1].code, x[2].code, c>> : c \in x[3].counted}
             in3(key) == {i \in 1..Len(triples) : key \in counted(triples[i])}
  <2>1. count3' = [key \in UNION {counted(triples[i]) : i \in 1..Len(triples)} |-> Cardinality(in3(key))]
    <3>1. count3' # count3
      OBVIOUS
    <3> QED BY <1>8, <3>1 DEF CountTriples
  <2>2. PICK h \in 1..Len(triples) : t \in counted(triples[h])
    BY <2>1
  <2>3. triples = Triples(ps)
    <3>1. triples # << >>
      BY <2>2
    <3> QED BY <3>1
  <2>4. PICK z \in Seq(ThreesOf(FullStep)) : z = Triples(ps) /\ z = triples
    BY <1>10, <2>3
  <2> HIDE DEF triples
  <2>5. FullStep \subseteq StepType
    BY DEF FullStep
  <2>6. PICK a \in Codes, b \in Codes, c \in Codes : t = <<a, b, c>>
    <3>1. PICK x \in FullStep, y \in FullStep, w \in FullStep : z[h] = <<x, y, w>>
      <4>1. z[h] \in ThreesOf(FullStep)
        BY <2>2, <2>4
      <4> QED BY <4>1 DEF ThreesOf
    <3>2. PICK u : u = z[h] /\ u = triples[h]
      BY <2>4
    <3>3. u[1] = x /\ u[2] = y /\ u[3] = w
      BY <3>1, <3>2
    <3>4. PICK c \in w.counted : t = <<x.code, y.code, c>>
      BY <2>2, <3>2, <3>3
    <3>5. x.code \in Codes /\ y.code \in Codes /\ w.counted \subseteq Codes
      BY <2>5 DEF StepType
    <3> QED BY <3>4, <3>5
  <2> DEFINE P == {x \in ThreesOf(FullStep) : x[1].code = a /\ x[2].code = b /\ c \in x[3].counted}
  <2>7. ASSUME NEW x PROVE t \in counted(x) <=> x[1].code = a /\ x[2].code = b /\ c \in x[3].counted
    BY <2>6
  <2>8. in3(t) = Where(z, P)
    <3>1. in3(t) = {i \in 1..Len(z) : t \in counted(z[i])}
      BY <2>4
    <3>2. \A i \in 1..Len(z) : z[i] \in ThreesOf(FullStep)
      OBVIOUS
    <3> HIDE DEF in3, counted
    <3>3. \A i \in 1..Len(z) : t \in counted(z[i]) <=> z[i] \in P
      BY <2>7, <3>2
    <3> HIDE DEF P
    <3> QED BY <3>1, <3>3 DEF Where
  <2>9. count3'[t] = Cardinality(in3(t))
    BY <2>1
  <2> HIDE DEF in3, counted
  <2>10. ASSUME NEW d \in 0..2, NEW code \in Codes, code = IF d = 0 THEN a ELSE IF d = 1 THEN b ELSE c
         PROVE  count3'[t] <= count1'[code]
    <3>1. Cardinality(Where(Triples(ps), P)) <= Cardinality(Where(steps, CountedFor(code)))
      BY <2>10, TriplesBelow
    <3> HIDE DEF P, steps
    <3> QED BY <1>13, <2>4, <2>8, <2>9, <3>1
  <2>11. t[1] = a /\ t[2] = b /\ t[3] = c /\ (j = 1 \/ j = 2 \/ j = 3)
    BY <2>6
  <2>12. 0 \in 0..2 /\ 1 \in 0..2 /\ 2 \in 0..2 /\ 1 # 0 /\ 2 # 0 /\ 2 # 1
    OBVIOUS
  <2>13. count3'[t] <= count1'[a]
    BY <2>10, <2>12
  <2>14. count3'[t] <= count1'[b]
    BY <2>10, <2>12
  <2>15. count3'[t] <= count1'[c]
    BY <2>10, <2>12
  <2> QED BY <2>11, <2>13, <2>14, <2>15
<1> QED BY <1>11, <1>12, <1>14, <1>15, <1>16 DEF PartsWeighed

\* What one, two or three codes make.
LEMMA JoinedIs ==
  ASSUME CodesFit, NEW a \in DOMAIN count1
  PROVE  /\ Joined(<<a>>) = Previous(a)
         /\ \A b \in DOMAIN count1 : Joined(<<a, b>>) = Concat(Previous(a), Previous(b))
         /\ \A b, c \in DOMAIN count1 :
              Joined(<<a, b, c>>) = Concat(Concat(Previous(a), Previous(b)), Previous(c))
<1> DEFINE strings(o) == [i \in 1..Len(o) |-> Previous(o[i])]
<1>0. Concat(<< >>, Previous(a)) = Previous(a)
  BY PreviousAllowed, ConcatShort
<1>1. Joined(<<a>>) = Previous(a)
  <2>1. PICK s : s = strings(<<a>>)
    OBVIOUS
  <2>2. DOMAIN s = 1..1 /\ s[1] = Previous(a)
    BY <2>1
  <2>3. FoldLeft(Concat, << >>, s) = Concat(<< >>, s[1])
    <3>1. 1 \in 1..3
      OBVIOUS
    <3> QED BY <2>2, <3>1, JoinUnfolds
  <2>4. Joined(<<a>>) = FoldLeft(Concat, << >>, s)
    BY <2>1 DEF Joined
  <2> QED BY <1>0, <2>2, <2>3, <2>4
<1>2. ASSUME NEW b \in DOMAIN count1 PROVE Joined(<<a, b>>) = Concat(Previous(a), Previous(b))
  <2>1. PICK s : s = strings(<<a, b>>)
    OBVIOUS
  <2>2. DOMAIN s = 1..2 /\ s[1] = Previous(a) /\ s[2] = Previous(b)
    BY <2>1
  <2>3. FoldLeft(Concat, << >>, s) = Concat(Concat(<< >>, s[1]), s[2])
    <3>1. 2 \in 1..3
      OBVIOUS
    <3> QED BY <2>2, <3>1, JoinUnfolds
  <2>4. Joined(<<a, b>>) = FoldLeft(Concat, << >>, s)
    BY <2>1 DEF Joined
  <2> QED BY <1>0, <2>2, <2>3, <2>4
<1>3. ASSUME NEW b \in DOMAIN count1, NEW c \in DOMAIN count1
      PROVE  Joined(<<a, b, c>>) = Concat(Concat(Previous(a), Previous(b)), Previous(c))
  <2>1. PICK s : s = strings(<<a, b, c>>)
    OBVIOUS
  <2>2. DOMAIN s = 1..3 /\ s[1] = Previous(a) /\ s[2] = Previous(b) /\ s[3] = Previous(c)
    BY <2>1
  <2>3. FoldLeft(Concat, << >>, s) = Concat(Concat(Concat(<< >>, s[1]), s[2]), s[3])
    <3>1. 3 \in 1..3
      OBVIOUS
    <3> QED BY <2>2, <3>1, JoinUnfolds
  <2>4. Joined(<<a, b, c>>) = FoldLeft(Concat, << >>, s)
    BY <2>1 DEF Joined
  <2> QED BY <1>0, <2>2, <2>3, <2>4
<1> QED BY <1>1, <1>2, <1>3

\* A concatenation is no longer than its parts.
LEMMA ConcatLength ==
  ASSUME NEW s \in Strings, NEW t \in Strings
  PROVE  Concat(s, t) \in Strings /\ Len(Concat(s, t)) <= Len(s) + Len(t)
<1> DEFINE st == s \o t
           n == IF Len(st) > MaxLen THEN MaxLen ELSE Len(st)
           w == SubSeq(st, 1, n)
<1>1. /\ s \in Seq(Byte) /\ t \in Seq(Byte) /\ Len(s) \in Nat /\ Len(t) \in Nat
      /\ Len(s) >= 1 /\ Len(t) >= 1 /\ MaxLen \in Nat /\ MaxLen >= 1
  <2>1. s \in Seq(Byte) /\ t \in Seq(Byte) /\ Len(s) \in 1..MaxLen /\ Len(t) \in 1..MaxLen
    BY StringFacts
  <2>2. MaxLen \in Nat /\ MaxLen >= 1
    BY SizeAssumption
  <2> QED BY <2>1, <2>2
<1>2. st \in Seq(Byte) /\ Len(st) = Len(s) + Len(t)
  BY <1>1, ConcatProperties
<1>3. n \in 1..MaxLen /\ n <= Len(st) /\ n \in Nat
  BY <1>1, <1>2
<1> HIDE DEF st, n
<1>4. w \in Seq(Byte) /\ Len(w) = n
  <2>1. PICK z \in Nat : z = 0 /\ z + 1 = 1 /\ z + n = n
    BY <1>3
  <2>2. z + n <= Len(st)
    BY <1>3, <2>1
  <2>3. SubSeq(st, z + 1, z + n) \in Seq(Byte) /\ Len(SubSeq(st, z + 1, z + n)) = n
    BY <1>2, <1>3, <2>2, Slice
  <2> QED BY <2>1, <2>3
<1> HIDE DEF w
<1>5. w \in Strings
  <2>1. w \in [1..n -> Byte]
    BY <1>4, LenProperties
  <2> QED BY <1>3, <2>1 DEF Strings
<1>6. Concat(s, t) = w
  BY DEF Concat, w, n, st
<1> QED BY <1>2, <1>3, <1>4, <1>5, <1>6

\* a factor that is smaller
LEMMA LessTimes ==
  ASSUME NEW k \in Nat, NEW n \in Nat, k <= n, NEW x \in Nat
  PROVE  k * x <= x * n
<1>1. PICK d \in Nat : n = k + d
  <2>1. n - k \in Nat /\ n = k + (n - k)
    OBVIOUS
  <2> QED BY <2>1
<1>2. x * n = x * k + x * d /\ x * d \in Nat /\ x * k \in Nat /\ k * x = x * k
  BY <1>1
<1> QED BY <1>2

\* The counts before the terminator's was set
SeedFits ==
  \E counts :
    /\ DOMAIN counts = {} \/ DOMAIN counts = KeysOf(prevSym)
    /\ count1 = WithTerminator(prevSym, counts)
    /\ Weighed(prevSym, counts)
    /\ PartsWeighed(counts, count2, count3)

\* the terminator's entry, of more gain than all others
LeadEntry(e) ==
  /\ e.cnt = 65535 /\ Current(e.of) = 65535 /\ Joined(e.of) = <<terminator>>
  /\ \A f \in heap \ {e} : Gain(f.of, f.cnt) < 65535

\* The terminator's count is more than a sample can give.
LEMMA SeedLeads ==
  /\ SampleType /\ 3 * Bytes(sample) < TerminatorCount /\ terminator \in Byte
  /\ prevSym # << >> => prevSym[1] = <<terminator>>
  /\ CodesFit /\ heap = Seeded(prevSym, count1, count2, count3) /\ SeedFits
  => heap = {} \/ \E e \in heap : LeadEntry(e)
<1> SUFFICES ASSUME SampleType, 3 * Bytes(sample) < TerminatorCount, terminator \in Byte,
                    prevSym # << >> => prevSym[1] = <<terminator>>,
                    CodesFit, heap = Seeded(prevSym, count1, count2, count3), SeedFits
             PROVE  heap = {} \/ \E e \in heap : LeadEntry(e)
  OBVIOUS
<1>1. PICK counts :
        /\ DOMAIN counts = {} \/ DOMAIN counts = KeysOf(prevSym)
        /\ count1 = WithTerminator(prevSym, counts)
        /\ Weighed(prevSym, counts)
        /\ PartsWeighed(counts, count2, count3)
  BY DEF SeedFits
<1>2. PICK lead : lead = IF prevSym = << >> THEN terminator ELSE CodeBase
  OBVIOUS
<1>3. count1 = [counts EXCEPT ![lead] = 65535]
  BY <1>1, <1>2 DEF WithTerminator
<1>4. HeapEntries /\ HeapComplete
  BY SeedComplete
<1>5. PICK m \in Nat : m = Bytes(sample) /\ 3 * m < 65535
  <2>1. Bytes(sample) \in Nat
    BY BytesType
  <2> QED BY <2>1 DEF TerminatorCount
<1>6. DOMAIN count1 = DOMAIN counts
  BY <1>3
<1>7. CASE DOMAIN counts = {}
  <2>1. \A o : ~OneOf(o) /\ ~TwoOf(o) /\ ~ThreeOf(o)
    BY <1>6, <1>7 DEF OneOf, TwoOf, ThreeOf
  <2>2. Ofs = {}
    BY <2>1, OfCases
  <2> QED BY <1>4, <2>2 DEF HeapEntries
<1>8. CASE DOMAIN counts = KeysOf(prevSym)
  <2>1. lead \in DOMAIN count1 /\ Previous(lead) = <<terminator>>
    <3>1. prevSym \in Seq(Strings)
      BY DEF CodesFit, CountsFit, AllowedTable
    <3> QED BY <1>2, <1>6, <1>8, <3>1, LeadCode DEF Previous
  <2>2. count1[lead] = 65535 /\ \A c \in DOMAIN count1 : c # lead => count1[c] = counts[c]
    BY <1>3, <1>6, <2>1
  <2> DEFINE e == [of |-> <<lead>>, cnt |-> 65535]
  <2>3. e.of = <<lead>> /\ e.cnt = 65535
    OBVIOUS
  <2>4. Current(<<lead>>) = 65535 /\ Joined(<<lead>>) = <<terminator>>
    <3>1. Len(<<lead>>) = 1 /\ <<lead>>[1] = lead
      OBVIOUS
    <3>2. Current(<<lead>>) = count1[lead]
      BY <3>1, CurrentCases
    <3>3. Joined(<<lead>>) = Previous(lead)
      BY <2>1, JoinedIs
    <3> QED BY <2>1, <2>2, <3>2, <3>3
  <2> DEFINE singles == {<<c>> : c \in DOMAIN count1}
             single == [o \in singles |-> count1[o[1]]]
             twos == Pairable(prevSym, DOMAIN count2)
             threes == Joinable(prevSym, DOMAIN count3)
  <2>5. heap = Entries(singles, single) \cup Entries(twos, count2) \cup Entries(threes, count3)
    BY DEF Seeded
  <2>6. e \in heap
    <3>1. <<lead>> \in singles /\ single[<<lead>>] = 65535
      <4>1. <<lead>> \in singles
        BY <2>1
      <4>2. single[<<lead>>] = count1[<<lead>>[1]]
        BY <4>1
      <4>3. <<lead>>[1] = lead
        OBVIOUS
      <4> QED BY <2>2, <4>1, <4>2, <4>3
    <3> HIDE DEF singles, single
    <3>2. 65535 > 0
      OBVIOUS
    <3> QED BY <2>5, <3>1, <3>2 DEF Entries
  <2>7. \A o \in singles : single[o] = Current(o)
    <3> TAKE o \in singles
    <3>1. PICK c \in DOMAIN count1 : o = <<c>>
      OBVIOUS
    <3>2. Len(o) = 1 /\ o[1] = c
      BY <3>1
    <3> QED BY <3>2, CurrentCases
  <2>8. \A c \in DOMAIN counts : /\ counts[c] \in Nat /\ Previous(c) \in Strings
                                 /\ Len(Previous(c)) \in Nat
                                 /\ Len(Previous(c)) * counts[c] <= m
    <3> TAKE c \in DOMAIN counts
    <3>1. counts[c] \in Nat /\ Len(Previous(c)) * counts[c] <= m
      BY <1>1, <1>5 DEF Weighed, Previous
    <3>2. Previous(c) \in Strings
      BY <1>6, PreviousAllowed
    <3>3. Len(Previous(c)) \in Nat
      BY <3>2, StringFacts
    <3> QED BY <3>1, <3>2, <3>3
  <2>9. ASSUME NEW o \in singles, o # <<lead>>
        PROVE  Gain(o, single[o]) < 65535
    <3>1. PICK c \in DOMAIN count1 : o = <<c>> /\ c # lead
      BY <2>9
    <3>2. single[o] = counts[c]
      <4>1. single[o] = count1[o[1]] /\ o[1] = c
        BY <3>1
      <4> QED BY <2>2, <3>1, <4>1
    <3> HIDE DEF single, singles
    <3>3. Joined(o) = Previous(c)
      BY <3>1, JoinedIs
    <3>4. PICK x \in Nat, y \in Nat : x = counts[c] /\ y = Len(Previous(c)) /\ y * x <= m
      BY <1>6, <2>8
    <3>5. Gain(o, single[o]) = x * y
      BY <3>2, <3>3, <3>4 DEF Gain
    <3>6. x * y = y * x /\ y * x \in Nat
      OBVIOUS
    <3> QED BY <1>5, <3>4, <3>5, <3>6
  <2>10. ASSUME NEW o \in twos, count2[o] > 0 PROVE Gain(o, count2[o]) < 65535
    <3>1. PICK a \in DOMAIN counts, b \in DOMAIN counts : o = <<a, b>>
      <4>1. o \in DOMAIN count2
        BY DEF Pairable
      <4> QED BY <1>6, <4>1 DEF CodesFit, CountsFit
    <3>2. o \in DOMAIN count2 /\ count2[o] \in Int
      <4>1. o \in DOMAIN count2
        BY DEF Pairable
      <4> QED BY <4>1 DEF CodesFit, CountsFit
    <3>3. o[1] = a /\ o[2] = b
      BY <3>1
    <3>4. PICK k \in Nat : k = count2[o]
      BY <2>10, <3>2
    <3>5. k <= counts[a] /\ k <= counts[b]
      <4>1. 1 \in 1..2 /\ 2 \in 1..2
        OBVIOUS
      <4>2. k <= counts[o[1]] /\ k <= counts[o[2]]
        BY <1>1, <3>2, <3>4, <4>1 DEF PartsWeighed
      <4> QED BY <3>3, <4>2
    <3>6. PICK x \in Nat, y \in Nat : x = Len(Previous(a)) /\ y = Len(Previous(b))
      BY <2>8
    <3>7. k * x <= m /\ k * y <= m
      <4>1. k * x <= x * counts[a] /\ k * y <= y * counts[b]
        BY <2>8, <3>5, LessTimes
      <4>2. x * counts[a] <= m /\ y * counts[b] <= m
        BY <2>8, <3>6
      <4>3. PICK u \in Nat, v \in Nat : u = x * counts[a] /\ v = y * counts[b]
        BY <2>8
      <4>4. PICK w \in Nat, z \in Nat : w = k * x /\ z = k * y
        OBVIOUS
      <4> QED BY <4>1, <4>2, <4>3, <4>4
    <3>8. PICK l \in Nat : l = Len(Joined(o)) /\ l <= x + y
      <4>1. Joined(o) = Concat(Previous(a), Previous(b))
        BY <1>6, <3>1, JoinedIs
      <4>2. Concat(Previous(a), Previous(b)) \in Strings
            /\ Len(Concat(Previous(a), Previous(b))) <= x + y
        BY <2>8, <3>6, ConcatLength
      <4>3. Len(Concat(Previous(a), Previous(b))) \in Nat
        BY <4>2, StringFacts
      <4> QED BY <4>1, <4>2, <4>3
    <3>9. k * l <= k * x + k * y
      <4>1. PICK d \in Nat : x + y = l + d
        <5>1. (x + y) - l \in Nat /\ x + y = l + ((x + y) - l)
          BY <3>8
        <5> QED BY <5>1
      <4>2. k * (x + y) = k * x + k * y /\ k * (l + d) = k * l + k * d
        OBVIOUS
      <4>3. k * l \in Nat /\ k * d \in Nat /\ k * x \in Nat /\ k * y \in Nat
        OBVIOUS
      <4>4. k * l + k * d = k * x + k * y
        BY <4>1, <4>2
      <4> QED BY <4>3, <4>4
    <3>10. Gain(o, count2[o]) = k * l
      BY <3>4, <3>8 DEF Gain
    <3>11. k * l \in Nat /\ k * x \in Nat /\ k * y \in Nat
      OBVIOUS
    <3> QED BY <1>5, <3>7, <3>9, <3>10, <3>11
  <2>11. ASSUME NEW o \in threes, count3[o] > 0 PROVE Gain(o, count3[o]) < 65535
    <3>1. o \in DOMAIN count3
      BY DEF Joinable
    <3>2. PICK a \in DOMAIN counts, b \in DOMAIN counts, c \in DOMAIN counts : o = <<a, b, c>>
      <4> HIDE DEF threes
      <4>1. \A t \in DOMAIN count3 : \E a, b, c \in DOMAIN count1 :
              t = <<a, b, c>> /\ <<a, b>> \in DOMAIN count2 /\ <<b, c>> \in DOMAIN count2
        BY DEF CodesFit, CountsFit
      <4>2. PICK a, b, c \in DOMAIN count1 :
              o = <<a, b, c>> /\ <<a, b>> \in DOMAIN count2 /\ <<b, c>> \in DOMAIN count2
        BY <3>1, <4>1
      <4> QED BY <1>6, <4>2
    <3>3. o[1] = a /\ o[2] = b /\ o[3] = c
      BY <3>2
    <3>4. PICK k \in Nat : k = count3[o]
      <4>1. count3[o] \in Int
        BY <3>1 DEF CodesFit, CountsFit
      <4> QED BY <2>11, <4>1
    <3>5. k <= counts[a] /\ k <= counts[b] /\ k <= counts[c]
      <4>1. 1 \in 1..3 /\ 2 \in 1..3 /\ 3 \in 1..3
        OBVIOUS
      <4>2. k <= counts[o[1]] /\ k <= counts[o[2]] /\ k <= counts[o[3]]
        <5> HIDE DEF threes
        <5> QED BY <1>1, <3>1, <3>4, <4>1 DEF PartsWeighed
      <4> QED BY <3>3, <4>2
    <3>6. PICK x \in Nat, y \in Nat, z \in Nat :
            x = Len(Previous(a)) /\ y = Len(Previous(b)) /\ z = Len(Previous(c))
      BY <2>8
    <3>7. k * x <= m /\ k * y <= m /\ k * z <= m
      <4>1. k * x <= x * counts[a] /\ k * y <= y * counts[b] /\ k * z <= z * counts[c]
        BY <2>8, <3>5, LessTimes
      <4>2. x * counts[a] <= m /\ y * counts[b] <= m /\ z * counts[c] <= m
        BY <2>8, <3>6
      <4>5. counts[a] \in Nat /\ counts[b] \in Nat /\ counts[c] \in Nat
        BY <2>8
      <4>3. PICK u \in Nat, v \in Nat, w \in Nat : u = x * counts[a] /\ v = y * counts[b] /\ w = z * counts[c]
        <5>1. x * counts[a] \in Nat /\ y * counts[b] \in Nat /\ z * counts[c] \in Nat
          BY <4>5
        <5> QED BY <5>1
      <4>4. PICK q \in Nat, r \in Nat, t \in Nat : q = k * x /\ r = k * y /\ t = k * z
        OBVIOUS
      <4> QED BY <4>1, <4>2, <4>3, <4>4
    <3>8. PICK l \in Nat : l = Len(Joined(o)) /\ l <= x + y + z
      <4>1. Joined(o) = Concat(Concat(Previous(a), Previous(b)), Previous(c))
        <5>1. a \in DOMAIN count1 /\ b \in DOMAIN count1 /\ c \in DOMAIN count1
          BY <1>6
        <5>2. Joined(<<a, b, c>>) = Concat(Concat(Previous(a), Previous(b)), Previous(c))
          BY <5>1, JoinedIs
        <5> QED BY <3>2, <5>2
      <4>2. PICK ab \in Strings : ab = Concat(Previous(a), Previous(b)) /\ Len(ab) <= x + y
        BY <2>8, <3>6, ConcatLength
      <4>3. PICK abc \in Strings : abc = Concat(ab, Previous(c)) /\ Len(abc) <= Len(ab) + z
        BY <2>8, <3>6, ConcatLength
      <4>4. Len(ab) \in Nat /\ Len(abc) \in Nat
        BY StringFacts
      <4>5. Len(abc) <= x + y + z
        BY <4>2, <4>3, <4>4
      <4> QED BY <4>1, <4>2, <4>3, <4>4, <4>5
    <3>9. k * l <= k * x + k * y + k * z
      <4>1. PICK d \in Nat : x + y + z = l + d
        <5>1. (x + y + z) - l \in Nat /\ x + y + z = l + ((x + y + z) - l)
          BY <3>8
        <5> QED BY <5>1
      <4>2. k * (x + y + z) = k * x + k * y + k * z /\ k * (l + d) = k * l + k * d
        OBVIOUS
      <4>3. k * l \in Nat /\ k * d \in Nat /\ k * x \in Nat /\ k * y \in Nat /\ k * z \in Nat
        OBVIOUS
      <4>4. k * l + k * d = k * x + k * y + k * z
        BY <4>1, <4>2
      <4> QED BY <4>3, <4>4
    <3>10. Gain(o, count3[o]) = k * l
      BY <3>4, <3>8 DEF Gain
    <3>11. k * l \in Nat /\ k * x \in Nat /\ k * y \in Nat /\ k * z \in Nat
      OBVIOUS
    <3> QED BY <1>5, <3>7, <3>9, <3>10, <3>11
  <2>12. ASSUME NEW f \in heap \ {e} PROVE Gain(f.of, f.cnt) < 65535
    <3> HIDE DEF twos, threes
    <3>1. CASE f \in Entries(singles, single)
      <4>1. PICK o \in singles : f = [of |-> o, cnt |-> single[o]]
        BY <3>1 DEF Entries
      <4>2. o # <<lead>>
        <5>1. single[<<lead>>] = 65535
          <6>1. <<lead>> \in singles
            BY <2>1
          <6>2. single[<<lead>>] = count1[<<lead>>[1]]
            BY <6>1
          <6>3. <<lead>>[1] = lead
            OBVIOUS
          <6> QED BY <2>2, <6>2, <6>3
        <5> HIDE DEF single
        <5> QED BY <4>1, <5>1
      <4>3. f.of = o /\ f.cnt = single[o]
        BY <4>1
      <4> HIDE DEF single, singles
      <4> QED BY <2>9, <4>2, <4>3
    <3>2. CASE f \in Entries(twos, count2)
      <4>1. PICK o \in twos : f = [of |-> o, cnt |-> count2[o]] /\ count2[o] > 0
        BY <3>2 DEF Entries
      <4>2. f.of = o /\ f.cnt = count2[o]
        BY <4>1
      <4> QED BY <2>10, <4>1, <4>2
    <3>3. CASE f \in Entries(threes, count3)
      <4>1. PICK o \in threes : f = [of |-> o, cnt |-> count3[o]] /\ count3[o] > 0
        BY <3>3 DEF Entries
      <4>2. f.of = o /\ f.cnt = count3[o]
        BY <4>1
      <4> QED BY <2>11, <4>1, <4>2
    <3> QED BY <2>5, <3>1, <3>2, <3>3
  <2> HIDE DEF singles, single, twos, threes
  <2>13. LeadEntry(e)
    <3> HIDE DEF e
    <3> QED BY <2>3, <2>4, <2>12 DEF LeadEntry
  <2> QED BY <2>6, <2>13
<1> QED BY <1>1, <1>7, <1>8

\* What the rounds keep true beside OptInv: no code has been counted more
\* often than the sample can hold it, no pair or triple more often than its
\* codes; so the terminator's entry leads every heap that fills an empty
\* table, and is the first symbol.
HeadInv ==
  /\ 3 * Bytes(sample) < TerminatorCount
  /\ at # "trained" /\ symbols # << >> => symbols[1] = <<terminator>>
  /\ best.symbols # << >> => best.symbols[1] = <<terminator>>
  /\ Weighed(best.symbols, best.count1)
  /\ DOMAIN best.count1 = {} \/ DOMAIN best.count1 = KeysOf(best.symbols)
  /\ at = "rank" => /\ Weighed(symbols, count1) /\ DOMAIN count1 = KeysOf(symbols)
                    /\ PartsWeighed(count1, count2, count3)
  /\ at = "add" /\ symbols = << >> => heap = {} \/ \E e \in heap : LeadEntry(e)

\* It holds of the empty table,
LEMMA HeadInitial == CreateInit => HeadInv
<1> SUFFICES ASSUME CreateInit PROVE HeadInv
  OBVIOUS
<1>1. /\ Init /\ sample \in Samples /\ at = "count"
      /\ best = [symbols |-> << >>, count1 |-> Uncounted, gain |-> WorstGain]
  BY DEF CreateInit, TrainInit
<1>2. symbols = << >>
  BY <1>1 DEF Init
<1>3. best.symbols = << >> /\ best.count1 = Uncounted
  BY <1>1
<1>4. DOMAIN best.count1 = {}
  BY <1>3 DEF Uncounted
<1>5. Weighed(best.symbols, best.count1)
  BY <1>4 DEF Weighed
<1> QED BY <1>1, <1>2, <1>3, <1>4, <1>5, SmallSample DEF HeadInv

\* The top of a heap that the terminator leads is the terminator.
LEMMA TopLeads ==
  ASSUME OptTable, ~final, terminator \in Byte, symbols = << >>, CodesFit, HeapEntries,
         NEW lead \in heap, LeadEntry(lead), NEW e \in heap, Highest(e)
  PROVE  Current(e.of) = e.cnt /\ Joined(e.of) = <<terminator>> /\ ~Refused(<<terminator>>)
<1>1. lead.cnt = 65535 /\ Current(lead.of) = 65535 /\ Joined(lead.of) = <<terminator>>
  BY DEF LeadEntry
<1>2. Gain(lead.of, lead.cnt) = 65535
  <2>1. Len(<<terminator>>) = 1
    OBVIOUS
  <2> QED BY <1>1, <2>1 DEF Gain
<1>3. e = lead
  <2> SUFFICES ASSUME e # lead PROVE FALSE
    OBVIOUS
  <2>1. Gain(e.of, e.cnt) < 65535
    BY DEF LeadEntry
  <2>2. 65535 <= Gain(e.of, e.cnt)
    BY <1>2 DEF Highest
  <2>3. Gain(e.of, e.cnt) \in Int
    <3>1. PICK o \in Ofs, k \in Int : e = [of |-> o, cnt |-> k]
      BY DEF HeapEntries
    <3>2. Len(Joined(o)) \in Nat
      <4>1. Joined(o) \in Strings
        BY JoinedAllowed
      <4> QED BY <4>1, StringFacts
    <3>3. PICK l \in Nat : l = Len(Joined(o))
      BY <3>2
    <3>4. Gain(e.of, e.cnt) = k * l
      BY <3>1, <3>3 DEF Gain
    <3> QED BY <3>4
  <2> QED BY <2>1, <2>2, <2>3
<1>4. ~Taken(<<terminator>>)
  <2>1. ByteSlots
    BY DEF OptTable, SlotsListed
  <2>2. byteCodes[terminator] = Escape(terminator)
    <3>1. \A i \in 1..Len(symbols) : FALSE
      OBVIOUS
    <3> QED BY <2>1, <3>1 DEF ByteSlots
  <2>3. byteCodes[terminator].code = terminator /\ terminator \in 0..255
    BY <2>2, ByteAssumption DEF Escape
  <2>4. ~(byteCodes[terminator].code >= CodeBase)
    BY <2>3 DEF CodeBase
  <2>5. Len(<<terminator>>) = 1 /\ <<terminator>>[1] = terminator
    OBVIOUS
  <2> QED BY <2>4, <2>5 DEF Taken
<1>5. ~PastIndex(<<terminator>>)
  <2>1. ~(Len(<<terminator>>) > 2)
    OBVIOUS
  <2> QED BY <2>1 DEF PastIndex
<1> QED BY <1>1, <1>3, <1>4, <1>5 DEF Refused

\* Adding the top of the heap keeps the first symbol the terminator.
LEMMA AddHead ==
  ASSUME OptInv, HeadInv, AddHighest, symbols' # symbols
  PROVE  \E s : /\ Allowed(s) /\ InsertSymbol(s) /\ ~Refused(s) /\ (~PastIndex(s) => ~Taken(s))
                /\ symbols = << >> => s = <<terminator>>
                /\ symbols' = Append(symbols, s) /\ symbols' # << >> /\ symbols'[1] = <<terminator>>
                /\ terminator' = terminator
<1>0. terminator \in Byte
  BY DEF OptInv
<1>1. at = "add" /\ Len(symbols) < MaxSymbols /\ UNCHANGED <<flags, count3, prevSym>>
  BY DEF AddHighest
<1>2. ~final /\ OptTable /\ CodesFit /\ HeapEntries
  BY <1>1 DEF OptInv
<1>3. PICK e \in heap :
        /\ Highest(e)
        /\ IF Current(e.of) # e.cnt \/ Refused(Joined(e.of))
           THEN UNCHANGED tvars
           ELSE InsertSymbol(Joined(e.of))
  BY DEF AddHighest
<1>4. UNCHANGED tvars => symbols' = symbols
  BY DEF tvars, indexes
<1>5. ~Refused(Joined(e.of)) /\ InsertSymbol(Joined(e.of))
  BY <1>3, <1>4
<1>6. e.of \in Ofs
  BY <1>2 DEF HeapEntries
<1>7. PICK s : s = Joined(e.of)
  OBVIOUS
<1>8. InsertSymbol(s) /\ Allowed(s) /\ ~Refused(s) /\ (~PastIndex(s) => ~Taken(s))
  BY <1>2, <1>5, <1>6, <1>7, JoinedAllowed DEF Refused
<1>9. terminator' = terminator /\ symbols' = Append(symbols, s)
  BY <1>1, <1>2, <1>8, InsertedTable
<1>10. symbols = << >> => s = <<terminator>>
  <2> SUFFICES ASSUME symbols = << >> PROVE s = <<terminator>>
    OBVIOUS
  <2>1. PICK lead \in heap : LeadEntry(lead)
    <3>1. heap = {} \/ \E x \in heap : LeadEntry(x)
      BY <1>1 DEF HeadInv
    <3> QED BY <3>1
  <2> QED BY <1>0, <1>2, <1>3, <1>7, <2>1, TopLeads
<1>11. symbols # << >> => symbols[1] = <<terminator>>
  BY <1>1 DEF HeadInv
<1>12. symbols' # << >> /\ symbols'[1] = <<terminator>>
  <2>1. s \in Strings /\ symbols \in Seq(Strings)
    BY <1>2, <1>8 DEF Allowed, OptTable, AllowedTable
  <2>2. PICK n \in Nat : n = Len(symbols)
    BY <2>1
  <2>3. PICK t \in Seq(Strings) : t = symbols'
    BY <1>9, <2>1, AppendProperties
  <2>4. Len(t) = n + 1 /\ (\A i \in 1..n : t[i] = symbols[i]) /\ t[n + 1] = s
    BY <1>9, <2>1, <2>2, <2>3, AppendProperties
  <2>5. CASE n = 0
    <3>1. symbols = << >>
      BY <2>1, <2>2, <2>5, EmptySeq
    <3>2. t[1] = s
      BY <2>4, <2>5
    <3>3. t # << >>
      BY <2>4, <2>5
    <3> QED BY <1>10, <2>3, <3>1, <3>2, <3>3
  <2>6. CASE n # 0
    <3>1. symbols # << >>
      BY <2>2, <2>6
    <3>2. t[1] = symbols[1]
      BY <2>4, <2>6
    <3>3. t # << >>
      BY <2>4, <2>6
    <3> QED BY <1>11, <2>3, <3>1, <3>2, <3>3
  <2> QED BY <2>5, <2>6
<1> QED BY <1>8, <1>9, <1>10, <1>12

\* A heap that is filled with counts that the sample bounds
LEMMA SeedHead ==
  ASSUME SampleType, 3 * Bytes(sample) < TerminatorCount, terminator \in Byte,
         sample' = sample, terminator' = terminator,
         NEW table, table # << >> => table[1] = <<terminator>>, prevSym' = table,
         NEW counts, DOMAIN counts = {} \/ DOMAIN counts = KeysOf(table),
         count1' = WithTerminator(table, counts), Weighed(table, counts),
         PartsWeighed(counts, count2', count3'),
         CodesFit', heap' = Seeded(table, count1', count2', count3')
  PROVE  heap' = {} \/ \E e \in heap' : LeadEntry(e)'
<1>1. SampleType' /\ Bytes(sample)' = Bytes(sample)
  BY DEF SampleType, Bytes
<1>2. (3 * Bytes(sample) < TerminatorCount)' /\ (terminator \in Byte)'
  BY <1>1 DEF TerminatorCount
<1>3. (prevSym # << >> => prevSym[1] = <<terminator>>)'
  OBVIOUS
<1>4. (heap = Seeded(prevSym, count1, count2, count3))'
  BY DEF Seeded, Entries, Pairable, Joinable, Extends, StringOf, IndexOf
<1>5. SeedFits'
  <2>1. KeysOf(prevSym)' = KeysOf(table)
    BY DEF KeysOf
  <2>2. WithTerminator(prevSym, counts)' = WithTerminator(table, counts)
    BY DEF WithTerminator
  <2>3. Weighed(prevSym, counts)'
    BY <1>1 DEF Weighed, StringOf, IndexOf
  <2>4. PartsWeighed(counts, count2, count3)'
    BY DEF PartsWeighed
  <2> QED BY <2>1, <2>2, <2>3, <2>4 DEF SeedFits
<1>6. /\ SampleType' /\ (3 * Bytes(sample) < TerminatorCount)' /\ (terminator \in Byte)'
      /\ (prevSym # << >> => prevSym[1] = <<terminator>>)'
      /\ CodesFit' /\ (heap = Seeded(prevSym, count1, count2, count3))' /\ SeedFits'
      => (heap = {} \/ \E e \in heap : LeadEntry(e))'
  BY SeedLeads, PTL
<1> QED BY <1>1, <1>2, <1>3, <1>4, <1>5, <1>6

\* A step that leaves the sample, the best table and the terminator
LEMMA SameHead ==
  ASSUME HeadInv, sample' = sample, best' = best, terminator' = terminator
  PROVE  /\ (3 * Bytes(sample) < TerminatorCount)'
         /\ (best.symbols # << >> => best.symbols[1] = <<terminator>>)'
         /\ Weighed(best.symbols, best.count1)'
         /\ (DOMAIN best.count1 = {} \/ DOMAIN best.count1 = KeysOf(best.symbols))'
<1>1. Bytes(sample)' = Bytes(sample)
  BY DEF Bytes
<1>2. (3 * Bytes(sample) < TerminatorCount)'
  BY <1>1 DEF HeadInv, TerminatorCount
<1>3. (best.symbols # << >> => best.symbols[1] = <<terminator>>)'
  BY DEF HeadInv
<1>4. Weighed(best.symbols, best.count1)'
  BY <1>1 DEF HeadInv, Weighed, StringOf, IndexOf
<1>5. (DOMAIN best.count1 = {} \/ DOMAIN best.count1 = KeysOf(best.symbols))'
  BY DEF HeadInv, KeysOf
<1> QED BY <1>2, <1>3, <1>4, <1>5

\* The top of the heap is dropped only if there is a symbol already.
LEMMA NoneAdded ==
  ASSUME OptInv, HeadInv, AddHighest, symbols' = symbols
  PROVE  UNCHANGED tvars /\ terminator' = terminator /\ symbols # << >>
<1>0. terminator \in Byte
  BY DEF OptInv
<1>1. at = "add" /\ Len(symbols) < MaxSymbols /\ UNCHANGED <<flags, count3, prevSym>>
  BY DEF AddHighest
<1>2. ~final /\ OptTable /\ CodesFit /\ HeapEntries
  BY <1>1 DEF OptInv
<1>3. PICK e \in heap :
        /\ Highest(e)
        /\ IF Current(e.of) # e.cnt \/ Refused(Joined(e.of))
           THEN UNCHANGED tvars
           ELSE InsertSymbol(Joined(e.of))
  BY DEF AddHighest
<1>4. e.of \in Ofs
  BY <1>2 DEF HeapEntries
<1>5. Current(e.of) # e.cnt \/ Refused(Joined(e.of))
  <2> SUFFICES ASSUME Current(e.of) = e.cnt, ~Refused(Joined(e.of)) PROVE FALSE
    OBVIOUS
  <2>1. PICK s : s = Joined(e.of)
    OBVIOUS
  <2>2. InsertSymbol(s) /\ Allowed(s) /\ (~PastIndex(s) => ~Taken(s))
    BY <1>2, <1>3, <1>4, <2>1, JoinedAllowed DEF Refused
  <2>3. Len(symbols') = Len(symbols) + 1
    BY <1>1, <1>2, <2>2, InsertedTable
  <2>4. Len(symbols) \in Nat
    BY <1>2 DEF OptTable, AllowedTable
  <2> QED BY <2>3, <2>4
<1>6. UNCHANGED tvars
  BY <1>3, <1>5
<1>7. symbols # << >>
  <2> SUFFICES ASSUME symbols = << >> PROVE FALSE
    OBVIOUS
  <2>1. PICK lead \in heap : LeadEntry(lead)
    <3>1. heap = {} \/ \E x \in heap : LeadEntry(x)
      BY <1>1 DEF HeadInv
    <3> QED BY <3>1
  <2>2. Current(e.of) = e.cnt /\ Joined(e.of) = <<terminator>> /\ ~Refused(<<terminator>>)
    BY <1>0, <1>2, <1>3, <2>1, TopLeads
  <2> QED BY <1>5, <2>2
<1> QED BY <1>6, <1>7 DEF tvars, modes

\* every step keeps it,
LEMMA HeadStep == ~Greedy /\ OptInv /\ HeadInv /\ [CreateNext]_createVars => HeadInv'
<1> SUFFICES ASSUME ~Greedy, OptInv, HeadInv, [CreateNext]_createVars PROVE HeadInv'
  OBVIOUS
<1>0. /\ SampleType /\ terminator \in Byte
      /\ final <=> at = "trained"
      /\ at # "trained" => OptTable
      /\ at \in {"count", "restore"} => DOMAIN count3 = {}
      /\ OptInv'
  BY OptStep DEF OptInv
<1>8. /\ 3 * Bytes(sample) < TerminatorCount
      /\ at # "trained" /\ symbols # << >> => symbols[1] = <<terminator>>
      /\ best.symbols # << >> => best.symbols[1] = <<terminator>>
      /\ Weighed(best.symbols, best.count1)
      /\ DOMAIN best.count1 = {} \/ DOMAIN best.count1 = KeysOf(best.symbols)
      /\ at = "rank" => /\ Weighed(symbols, count1) /\ DOMAIN count1 = KeysOf(symbols)
                        /\ PartsWeighed(count1, count2, count3)
  BY DEF HeadInv
<1>1. CASE OptCompressCount
  <2>1. /\ at = "count" /\ at' \in {"rank", "restore"} /\ sample' = sample /\ UNCHANGED tvars
    BY <1>1 DEF OptCompressCount
  <2>2. symbols' = symbols /\ terminator' = terminator
    BY <2>1 DEF tvars, indexes, modes
  <2>3. ~final /\ OptTable /\ DOMAIN count3 = {}
    BY <1>0, <2>1
  <2>4. /\ Weighed(symbols, count1') /\ DOMAIN count1' = KeysOf(symbols)
        /\ PartsWeighed(count1', count2', count3')
        /\ best' = best \/ (best'.symbols = symbols /\ best'.count1 = count1')
    BY <1>0, <1>1, <2>3, OptWeighed
  <2>5. Bytes(sample)' = Bytes(sample)
    BY <2>1 DEF Bytes
  <2>6. Weighed(symbols, count1)' /\ (DOMAIN count1 = KeysOf(symbols))'
    BY <2>2, <2>4, <2>5 DEF Weighed, KeysOf, StringOf, IndexOf
  <2>7. PartsWeighed(count1, count2, count3)'
    BY <2>4 DEF PartsWeighed
  <2>8. (symbols # << >> => symbols[1] = <<terminator>>)'
    BY <1>8, <2>1, <2>2
  <2>9. CASE best' = best
    <3>1. /\ (3 * Bytes(sample) < TerminatorCount)'
          /\ (best.symbols # << >> => best.symbols[1] = <<terminator>>)'
          /\ Weighed(best.symbols, best.count1)'
          /\ (DOMAIN best.count1 = {} \/ DOMAIN best.count1 = KeysOf(best.symbols))'
      BY <2>1, <2>2, <2>9, SameHead
    <3> QED BY <2>1, <2>6, <2>7, <2>8, <3>1 DEF HeadInv
  <2>10. CASE best'.symbols = symbols /\ best'.count1 = count1'
    <3>1. (best.symbols # << >> => best.symbols[1] = <<terminator>>)'
      BY <2>2, <2>8, <2>10
    <3>2. Weighed(best.symbols, best.count1)'
      BY <2>2, <2>6, <2>10 DEF Weighed
    <3>3. (DOMAIN best.count1 = KeysOf(best.symbols))'
      BY <2>2, <2>6, <2>10 DEF KeysOf
    <3>4. (3 * Bytes(sample) < TerminatorCount)'
      BY <1>8, <2>5 DEF TerminatorCount
    <3> QED BY <2>1, <2>6, <2>7, <2>8, <3>1, <3>2, <3>3, <3>4 DEF HeadInv
  <2> QED BY <2>4, <2>9, <2>10
<1>2. CASE OptRank
  <2>1. /\ at = "rank" /\ at' = "add" /\ sample' = sample /\ best' = best /\ Clear
        /\ count1' = WithTerminator(symbols, count1) /\ count2' = count2 /\ count3' = count3
        /\ heap' = Seeded(symbols, count1', count2, count3) /\ prevSym' = symbols
    BY <1>2 DEF OptRank
  <2>2. symbols' = << >> /\ terminator' = terminator
    BY <2>1 DEF Clear, modes
  <2>3. CodesFit'
    BY <1>0, <2>1 DEF OptInv
  <2>4. PICK table, counts : table = symbols /\ counts = count1
    OBVIOUS
  <2>5. /\ table # << >> => table[1] = <<terminator>>
        /\ DOMAIN counts = KeysOf(table) /\ Weighed(table, counts)
        /\ PartsWeighed(counts, count2', count3')
        /\ count1' = WithTerminator(table, counts)
        /\ heap' = Seeded(table, count1', count2', count3') /\ prevSym' = table
    BY <1>8, <2>1, <2>4
  <2>6. heap' = {} \/ \E e \in heap' : LeadEntry(e)'
    BY <1>0, <1>8, <2>1, <2>2, <2>3, <2>5, SeedHead
  <2> QED BY <2>1, <2>2, <2>6, SameHead DEF HeadInv
<1>3. CASE OptRestore
  <2>1. /\ at = "restore" /\ at' = "add" /\ sample' = sample /\ best' = best /\ Clear
        /\ count1' = WithTerminator(best.symbols, best.count1) /\ count2' = Uncounted /\ count3' = count3
        /\ heap' = Seeded(best.symbols, count1', Uncounted, Uncounted) /\ prevSym' = best.symbols
    BY <1>3 DEF OptRestore
  <2>2. symbols' = << >> /\ terminator' = terminator
    BY <2>1 DEF Clear, modes
  <2>3. CodesFit'
    BY <1>0, <2>1 DEF OptInv
  <2>4. PICK table, counts : table = best.symbols /\ counts = best.count1
    OBVIOUS
  <2>5. DOMAIN count2' = {} /\ DOMAIN count3' = {}
    BY <1>0, <2>1 DEF Uncounted
  <2>6. PartsWeighed(counts, count2', count3')
    BY <2>5 DEF PartsWeighed
  <2>7. /\ table # << >> => table[1] = <<terminator>>
        /\ DOMAIN counts = {} \/ DOMAIN counts = KeysOf(table)
        /\ Weighed(table, counts)
        /\ count1' = WithTerminator(table, counts) /\ prevSym' = table
    BY <1>8, <2>1, <2>4
  <2>8. heap' = Seeded(table, count1', count2', count3')
    BY <2>1, <2>4, <2>5, NothingJoined
  <2>9. heap' = {} \/ \E e \in heap' : LeadEntry(e)'
    BY <1>0, <1>8, <2>1, <2>2, <2>3, <2>6, <2>7, <2>8, SeedHead
  <2> QED BY <2>1, <2>2, <2>9, SameHead DEF HeadInv
<1>4. CASE AddHighest
  <2>1. at = "add" /\ at' = "add" /\ sample' = sample /\ best' = best
    BY <1>4 DEF AddHighest
  <2>2. CASE symbols' # symbols
    <3>1. symbols' # << >> /\ symbols'[1] = <<terminator>> /\ terminator' = terminator
      BY <1>4, <2>2, AddHead
    <3> QED BY <2>1, <3>1, SameHead DEF HeadInv
  <2>3. CASE symbols' = symbols
    <3>1. terminator' = terminator /\ symbols # << >>
      BY <1>4, <2>3, NoneAdded
    <3> QED BY <1>8, <2>1, <2>3, <3>1, SameHead DEF HeadInv
  <2> QED BY <2>2, <2>3
<1>5. CASE OptNextRound
  <2>1. at = "add" /\ at' \in {"finalize", "count"} /\ sample' = sample /\ best' = best /\ UNCHANGED tvars
    BY <1>5 DEF OptNextRound
  <2>2. symbols' = symbols /\ terminator' = terminator
    BY <2>1 DEF tvars, indexes, modes
  <2> QED BY <1>8, <2>1, <2>2, SameHead DEF HeadInv
<1>6. CASE End /\ UNCHANGED optVars
  <2>1. at = "finalize" /\ at' = "trained" /\ sample' = sample /\ best' = best /\ Finalize
    BY <1>6 DEF End
  <2>2. terminator' = terminator
    BY <2>1 DEF Finalize
  <2> QED BY <2>1, <2>2, SameHead DEF HeadInv
<1>7. CASE UNCHANGED createVars
  <2>1. UNCHANGED tvars /\ UNCHANGED <<at, sample, best, count1, count2, count3, heap, prevSym>>
    BY <1>7 DEF createVars, allVars, trainVars, optVars
  <2>2. symbols' = symbols /\ terminator' = terminator
    BY <2>1 DEF tvars, indexes, modes
  <2>3. Bytes(sample)' = Bytes(sample)
    BY <2>1 DEF Bytes
  <2>4. at' = "rank" => /\ Weighed(symbols, count1)' /\ (DOMAIN count1 = KeysOf(symbols))'
                        /\ PartsWeighed(count1, count2, count3)'
    BY <1>8, <2>1, <2>2, <2>3 DEF Weighed, KeysOf, PartsWeighed, StringOf, IndexOf
  <2>5. \A e : LeadEntry(e) => LeadEntry(e)'
    <3>1. \A o : Joined(o)' = Joined(o)
      BY <2>1 DEF Joined, Previous, StringOf, IndexOf
    <3>2. \A o : Current(o)' = Current(o)
      BY <2>1 DEF Current
    <3>3. \A o, k : Gain(o, k)' = Gain(o, k)
      BY <3>1 DEF Gain
    <3> QED BY <2>1, <2>2, <3>1, <3>2, <3>3 DEF LeadEntry
  <2>6. at' = "add" /\ symbols' = << >> => heap' = {} \/ \E e \in heap' : LeadEntry(e)'
    <3>1. at = "add" /\ symbols = << >> => heap = {} \/ \E e \in heap : LeadEntry(e)
      BY DEF HeadInv
    <3> QED BY <2>1, <2>2, <2>5, <3>1
  <2> QED BY <1>8, <2>1, <2>2, <2>4, <2>6, SameHead DEF HeadInv
<1> QED BY <1>1, <1>2, <1>3, <1>4, <1>5, <1>6, <1>7 DEF CreateNext, OptNext

\* Training that is not greedy fills the table as SymbolTable says.
LEMMA OptTableStep ==
  ~Greedy /\ OptInv /\ HeadInv /\ [CreateNext]_createVars => [Bypass \/ Next]_tvars
<1> SUFFICES ASSUME ~Greedy, OptInv, HeadInv, [CreateNext]_createVars, ~Bypass PROVE [Next]_tvars
  OBVIOUS
<1>1. CASE OptCompressCount \/ OptNextRound
  BY <1>1 DEF OptCompressCount, OptNextRound
<1>2. CASE OptRank \/ OptRestore
  BY <1>2 DEF OptRank, OptRestore, Next
<1>3. CASE AddHighest
  <2>1. at = "add" /\ Len(symbols) < MaxSymbols
    BY <1>3 DEF AddHighest
  <2>2. ~final
    BY <2>1 DEF OptInv
  <2>3. CASE symbols' = symbols
    BY <1>3, <2>3, NoneAdded
  <2>4. CASE symbols' # symbols
    <3>1. PICK s : /\ Allowed(s) /\ InsertSymbol(s) /\ (~PastIndex(s) => ~Taken(s))
                   /\ symbols = << >> => s = <<terminator>>
      BY <1>3, <2>4, AddHead
    <3>2. Insert(s)
      BY <3>1 DEF InsertSymbol, PastIndex
    <3>3. s \in Candidates
      BY <3>1, ProposalAssumption DEF Allowed
    <3>4. \A i \in 1..Len(s) : s[i] = terminator => Len(s) = 1
      <4>1. PICK n \in 1..MaxLen : n = Len(s)
        BY <3>1, StringFacts DEF Allowed
      <4>2. n > 1 => \A i \in 1..Len(s) : s[i] # terminator
        BY <3>1, <4>1 DEF Allowed
      <4>3. n > 1 \/ n = 1
        OBVIOUS
      <4> QED BY <4>1, <4>2, <4>3
    <3>5. Proposed(s)
      BY <3>1, <3>3, <3>4 DEF Proposed
    <3>6. Add(s)
      BY <2>1, <2>2, <3>2, <3>5 DEF Add
    <3> QED BY <3>3, <3>6 DEF Next
  <2> QED BY <2>3, <2>4
<1>4. CASE End
  BY <1>4 DEF End, Next
<1>5. CASE UNCHANGED createVars
  BY <1>5 DEF createVars, allVars
<1> QED BY <1>1, <1>2, <1>3, <1>4, <1>5 DEF CreateNext, OptNext

\* The options do not change in training.
LEMMA FlagsStay ==
  ASSUME [CreateNext]_createVars
  PROVE  flags' = flags /\ (Greedy' <=> Greedy) /\ (Greedy => [TrainNext]_allVars)
<1>1. flags' = flags
  BY DEF createVars, optVars, CreateNext, OptNext, OptCompressCount, OptRank, OptRestore, AddHighest,
         OptNextRound
<1>2. Greedy' <=> Greedy
  BY <1>1 DEF Greedy
<1>3. Greedy => [TrainNext]_allVars
  BY DEF CreateNext, createVars
<1> QED BY <1>1, <1>2, <1>3

\* One or the other set of invariants holds in all training.
LEMMA CreateLeads ==
  CreateSpec => [](/\ Greedy => TrainInv /\ HistoInv /\ LeadInv
                   /\ ~Greedy => OptInv /\ HeadInv)
<1> DEFINE Inv == /\ Greedy => TrainInv /\ HistoInv /\ LeadInv
                  /\ ~Greedy => OptInv /\ HeadInv
<1>1. CreateInit => Inv
  <2> SUFFICES ASSUME CreateInit PROVE Inv
    OBVIOUS
  <2>1. TrainInit /\ Init
    BY DEF CreateInit, TrainInit
  <2>2. TrainInv /\ HistoInv /\ LeadInv
    BY <2>1, TrainInitial, LeadInit, InitHisto
  <2>3. OptInv /\ HeadInv
    BY OptInitial, HeadInitial
  <2> QED BY <2>2, <2>3
<1>2. Inv /\ [CreateNext]_createVars => Inv'
  <2> SUFFICES ASSUME Inv, [CreateNext]_createVars PROVE Inv'
    OBVIOUS
  <2>1. CASE Greedy
    <3>1. TrainInv /\ HistoInv /\ LeadInv /\ [TrainNext]_allVars /\ Greedy'
      BY <2>1, FlagsStay
    <3>2. IndexInv
      BY <3>1 DEF TrainInv
    <3>3. TrainInv' /\ HistoInv' /\ LeadInv'
      BY <3>1, <3>2, TrainStep, TableStep, HistoStep, LeadStep
    <3> QED BY <3>1, <3>3
  <2>2. CASE ~Greedy
    <3>1. OptInv /\ HeadInv /\ ~Greedy'
      BY <2>2, FlagsStay
    <3>2. OptInv' /\ HeadInv'
      BY <2>2, <3>1, OptStep, HeadStep
    <3> QED BY <3>1, <3>2
  <2> QED BY <2>1, <2>2
<1> QED BY <1>1, <1>2, PTL DEF CreateSpec

\* With the options of Optfsst_create(), for every sample: training, greedy or
\* not, with or without pruning, fills the table as SymbolTable says a table
\* is filled.  It adds the terminator first and no longer string with the
\* terminator in it, and never adds to a full or a final table.  Only with the
\* DP at both ends, where long symbols are not indexed, may it do otherwise.
THEOREM OptTrainingFillsTable == CreateSpec => UsesTheTable
<1>1. CreateInit => Init
  BY DEF CreateInit, TrainInit
<1>2. /\ Greedy => TrainInv /\ HistoInv /\ LeadInv
      /\ ~Greedy => OptInv /\ HeadInv
      /\ [CreateNext]_createVars
      => [Bypass \/ Next]_tvars
  <2> SUFFICES ASSUME Greedy => TrainInv /\ HistoInv /\ LeadInv, ~Greedy => OptInv /\ HeadInv,
                      [CreateNext]_createVars
               PROVE  [Bypass \/ Next]_tvars
    OBVIOUS
  <2>1. CASE Greedy
    <3>1. [Next]_tvars
      BY <2>1, FlagsStay, TableStep
    <3> QED BY <3>1
  <2>2. CASE ~Greedy
    BY <2>2, OptTableStep
  <2> QED BY <2>1, <2>2
<1> QED BY <1>1, <1>2, CreateLeads, PTL DEF CreateSpec, UsesTheTable

-----------------------------------------------------------------------------
(* No string is listed twice, indexed or not, until finalize().            *)


\* What finalize() makes of a list of strings without duplicates.
LEMMA FinalTrained ==
  ASSUME ListInv, HistoInv, ByteSlots, \A t \in Listed : Len(t) = 1 => Taken(t), Finalize
  PROVE  TrainedTable'
<1>0. ~final /\ symbols # << >> /\ zeroTerminated' = zeroTerminated
      /\ byteCodes' = [b \in Byte |-> IF byteCodes[b].code >= CodeBase THEN Renumber(byteCodes[b]) ELSE NoCode]
  BY DEF Finalize
<1>1. /\ symbols' \in Seq(Strings) /\ Len(symbols') = Len(symbols)
      /\ \A i \in 1..Len(symbols) : NewCode(i) + 1 \in 1..Len(symbols) /\ symbols'[NewCode(i) + 1] = symbols[i]
      /\ \A c \in 1..Len(symbols) : \E i \in 1..Len(symbols) : c = NewCode(i) + 1
      /\ Listed' = Listed
  BY FinalSymbols
<1>2. Cardinality(Listed)' = Len(symbols')
  <2>1. Cardinality(Listed) = Len(symbols)
    BY <1>0, ListCounted
  <2> QED BY <1>1, <2>1
<1>3. zeroTerminated \in {0, 1} /\ Len(symbols) \in Nat
  BY <1>0, TableFacts
<1>4. \A c \in 1..Len(symbols') : symbols'[c] \in Strings /\ Len(symbols'[c]) \in 1..MaxLen
  BY <1>1, StringFacts
<1>5. ASSUME NEW c \in zeroTerminated' + 1..Len(symbols'), NEW d \in zeroTerminated' + 1..Len(symbols'), c < d
      PROVE  Len(symbols'[d]) = 1 \/ Len(symbols'[c]) \in 2..Len(symbols'[d])
  <2>1. c \in 1..Len(symbols') /\ d \in 1..Len(symbols')
    BY <1>0, <1>1, <1>3
  <2>2. PICK m \in 1..MaxLen : m = Len(symbols'[c])
    BY <1>4, <2>1
  <2>3. PICK n \in 1..MaxLen : n = Len(symbols'[d])
    BY <1>4, <2>1
  <2>4. n = 1 \/ (m # 1 /\ m <= n)
    <3>1. c \in zeroTerminated + 1..Len(symbols) /\ d \in zeroTerminated + 1..Len(symbols)
      BY <1>0, <1>1
    <3>2. Len(symbols'[d]) = 1 \/ (Len(symbols'[c]) # 1 /\ Len(symbols'[c]) <= Len(symbols'[d]))
      BY <1>5, <3>1, FinalOrder
    <3> QED BY <2>2, <2>3, <3>2
  <2>5. n = 1 \/ m \in 2..n
    BY <2>4, SizeAssumption
  <2> QED BY <2>2, <2>3, <2>5
<1>6. \A l \in 1..MaxLen : lenHisto'[l] = Cardinality({c \in 1..Len(symbols') : Len(symbols'[c]) = l})
  <2>1. FinalCounts'
    BY FinalizeCounts
  <2>2. final'
    BY DEF Finalize
  <2> QED BY <2>1, <2>2 DEF FinalCounts, OfLength
<1>7. ASSUME NEW c \in 1..Len(symbols'), Len(symbols'[c]) = 1
      PROVE  byteCodes'[symbols'[c][1]].code = c - 1
  <2>1. PICK i \in 1..Len(symbols) : c = NewCode(i) + 1
    BY <1>1
  <2>2. symbols'[c] = symbols[i]
    BY <1>1, <2>1
  <2>3. PICK s \in Strings : s = symbols[i]
    BY <1>4, <2>2
  <2>4. Len(s) = 1 /\ s \in Listed
    BY <1>7, <2>2, <2>3 DEF Listed
  <2>5. PICK b \in Byte : b = s[1]
    BY <2>4, StringFacts
  <2>6. s = <<b>>
    BY <2>4, <2>5, StringFacts
  <2>7. byteCodes[b].code >= CodeBase
    <3>1. Taken(s)
      BY <2>4
    <3> QED BY <2>4, <2>5, <3>1 DEF Taken
  <2>8. byteCodes[b] # Escape(b)
    <3>1. b \in 0..255 /\ Escape(b).code = b
      BY ByteAssumption DEF Escape
    <3>2. ~(b >= CodeBase)
      BY <3>1 DEF CodeBase
    <3> QED BY <2>7, <3>1, <3>2
  <2>9. PICK k \in 1..Len(symbols) : symbols[k] = <<b>> /\ byteCodes[b].code = CodeBase + k - 1
    BY <2>8 DEF ByteSlots
  <2>10. k = i
    BY <1>0, <2>3, <2>6, <2>9 DEF ListInv
  <2>11. byteCodes'[b].code = NewCode(IndexOf(byteCodes[b].code))
    <3>1. byteCodes'[b] = [byteCodes[b] EXCEPT !.code = NewCode(IndexOf(byteCodes[b].code))]
      BY <1>0, <2>7 DEF Renumber
    <3> QED BY <3>1
  <2>12. IndexOf(byteCodes[b].code) = i
    <3>1. i \in Nat /\ byteCodes[b].code = CodeBase + i - 1
      BY <2>9, <2>10
    <3> QED BY <3>1 DEF IndexOf, CodeBase
  <2>13. NewCode(i) \in Int
    BY <1>0, <1>3, NewCodesPermute
  <2>14. NewCode(i) = c - 1
    BY <2>1, <2>13
  <2> QED BY <2>2, <2>3, <2>5, <2>11, <2>12, <2>14
<1> QED BY <1>2, <1>5, <1>6, <1>7 DEF TrainedTable

\* The inductive invariant behind TrainedTable: no string is listed twice,
\* for as long as a string is added only if it is not refused, and all that
\* are listed are refused, by the index or by the set of seen numbers.
OnceInv ==
  /\ ListInv /\ HistoInv
  /\ at # "trained" => \A t \in Listed : Len(t) = 1 => Taken(t)
  /\ at = "add" => \A t \in Listed : Refused(t)
  /\ at = "trained" => TrainedTable

\* It holds of the empty table,
LEMMA OnceInitial == CreateInit => OnceInv
<1> SUFFICES ASSUME CreateInit PROVE OnceInv
  OBVIOUS
<1>1. Init /\ at = "count"
  BY DEF CreateInit, TrainInit
<1>2. Listed = {}
  BY <1>1 DEF Init, Listed
<1>3. ListInv /\ HistoInv
  BY <1>1, InitIndex, IndexedOnce, InitHisto
<1> QED BY <1>1, <1>2, <1>3 DEF OnceInv

\* A table that is left alone or cleared lists no string twice.
LEMMA SameOnce ==
  ASSUME ListInv, HistoInv, UNCHANGED tvars
  PROVE  /\ ListInv' /\ HistoInv' /\ Listed' = Listed
         /\ \A t : Taken(t)' <=> Taken(t)
<1>1. UNCHANGED <<symbols, byteCodes, shortCodes, hashTab, lenHisto, terminator, zeroTerminated, final>>
  BY DEF tvars, indexes, modes
<1> QED BY <1>1 DEF ListInv, HistoInv, OfLength, Listed, Taken, BucketOf, Key, Free

\* Adding a string that is not refused, indexed or not
LEMMA AddOnce ==
  ASSUME ListInv, HistoInv, TrainingTypes, ~final, Len(symbols) < MaxSymbols, flags' = flags,
         \A t \in Listed : Len(t) = 1 => Taken(t), \A t \in Listed : Refused(t),
         NEW s \in Strings, InsertSymbol(s), ~Refused(s), symbols = << >> => s = <<terminator>>
  PROVE  /\ ListInv' /\ HistoInv'
         /\ (\A t \in Listed : Len(t) = 1 => Taken(t))' /\ (\A t \in Listed : Refused(t))'
<1>1. /\ symbols' = Append(symbols, s) /\ lenHisto' = [lenHisto EXCEPT ![Len(s)] = @ + 1]
      /\ UNCHANGED <<terminator, zeroTerminated, final>>
  BY DEF InsertSymbol, AppendSymbol, Insert, modes
<1>2. symbols \in Seq(Strings) /\ Len(symbols) \in Nat
  BY DEF TrainingTypes
<1>3. HistoInv'
  BY <1>1, <1>2, AppendHisto
<1>4. /\ symbols' \in Seq(Strings) /\ Len(symbols') = Len(symbols) + 1
      /\ \A i \in 1..Len(symbols) : symbols'[i] = symbols[i]
      /\ symbols'[Len(symbols) + 1] = s
  BY <1>1, <1>2, AppendProperties
<1>5. \A i \in 1..Len(symbols') : i \in 1..Len(symbols) \/ i = Len(symbols) + 1
  BY <1>2, <1>4
<1>6. s \notin Listed
  OBVIOUS
<1>7. Listed' = Listed \cup {s}
  <2>1. \A t \in Listed' : t \in Listed \/ t = s
    BY <1>4, <1>5 DEF Listed
  <2>2. \A i \in 1..Len(symbols) : i \in 1..Len(symbols')
    BY <1>2, <1>4
  <2>3. Len(symbols) + 1 \in 1..Len(symbols')
    BY <1>2, <1>4
  <2>4. \A t \in Listed : t \in Listed'
    BY <1>4, <2>2 DEF Listed
  <2>5. s \in Listed'
    BY <1>4, <2>3 DEF Listed
  <2> QED BY <2>1, <2>4, <2>5
<1>8. ListInv'
  <2>1. Len(symbols') <= MaxSymbols
    BY <1>2, <1>4, SizeAssumption
  <2>2. \A i \in 1..Len(symbols) : symbols[i] # s
    BY <1>6 DEF Listed
  <2>3. \A i, j \in 1..Len(symbols) : symbols[i] = symbols[j] => i = j
    BY DEF ListInv
  <2>4. \A i, j \in 1..Len(symbols') : symbols'[i] = symbols'[j] => i = j
    BY <1>4, <1>5, <2>2, <2>3
  <2> QED BY <1>4, <2>1, <2>4 DEF ListInv
<1>9. Refused(s)' /\ \A t \in Strings : Refused(t) => Refused(t)'
  BY RefusedStays
<1>10. Listed \subseteq Strings
  BY <1>2 DEF Listed
<1>11. (\A t \in Listed : Refused(t))'
  BY <1>7, <1>9, <1>10
<1>12. (\A t \in Listed : Len(t) = 1 => Taken(t))'
  <2>1. \A t : Len(t) = 1 => ~PastIndex(t)'
    BY DEF PastIndex
  <2>2. \A t : Len(t) = 1 /\ Refused(t)' => Taken(t)'
    BY <2>1 DEF Refused
  <2> QED BY <1>11, <2>2
<1> QED BY <1>3, <1>8, <1>11, <1>12

\* every step keeps it.
LEMMA OnceStep ==
  ~Greedy /\ OptInv /\ HeadInv /\ OnceInv /\ [CreateNext]_createVars => OnceInv'
<1> SUFFICES ASSUME ~Greedy, OptInv, HeadInv, OnceInv, [CreateNext]_createVars PROVE OnceInv'
  OBVIOUS
<1>0. /\ ListInv /\ HistoInv
      /\ at # "trained" => \A t \in Listed : Len(t) = 1 => Taken(t)
      /\ at = "add" => \A t \in Listed : Refused(t)
      /\ at = "trained" => TrainedTable
  BY DEF OnceInv
<1>1. CASE OptCompressCount \/ OptNextRound
  <2>1. at # "trained" /\ at' \notin {"add", "trained"} /\ UNCHANGED tvars
    BY <1>1 DEF OptCompressCount, OptNextRound
  <2>2. ListInv' /\ HistoInv' /\ Listed' = Listed /\ \A t : Taken(t)' <=> Taken(t)
    BY <1>0, <2>1, SameOnce
  <2> QED BY <1>0, <2>1, <2>2 DEF OnceInv
<1>2. CASE OptRank \/ OptRestore
  <2>1. at # "trained" /\ at' # "trained" /\ Clear
    BY <1>2 DEF OptRank, OptRestore
  <2>2. symbols' = << >>
    BY <2>1 DEF Clear
  <2>3. Listed' = {}
    BY <2>2 DEF Listed
  <2>4. HistoInv'
    BY <1>0, <2>1, ClearHisto
  <2>5. ListInv'
    <3>1. << >> \in Seq(Strings) /\ Len(<< >>) = 0
      OBVIOUS
    <3>2. 0 <= MaxSymbols /\ \A i \in 1..0 : FALSE
      BY SizeAssumption
    <3> QED BY <2>2, <3>1, <3>2 DEF ListInv
  <2> QED BY <2>1, <2>3, <2>4, <2>5 DEF OnceInv
<1>3. CASE AddHighest
  <2>1. at = "add" /\ at' = "add" /\ Len(symbols) < MaxSymbols /\ flags' = flags
    BY <1>3 DEF AddHighest
  <2>2. ~final /\ TrainingTypes
    BY <2>1 DEF OptInv, OptTable, SlotsListed
  <2>3. CASE symbols' = symbols
    <3>1. UNCHANGED tvars
      BY <1>3, <2>3, NoneAdded
    <3>2. ListInv' /\ HistoInv' /\ Listed' = Listed /\ \A t : Taken(t)' <=> Taken(t)
      BY <1>0, <3>1, SameOnce
    <3>3. \A t : Refused(t) => Refused(t)'
      <4>1. seen \subseteq seen'
        BY <1>3 DEF AddHighest, InsertSymbol, AppendSymbol
      <4>2. \A t : PastIndex(t)' <=> PastIndex(t)
        BY <2>1 DEF PastIndex, Bypass
      <4>3. \A t : Number(t)' = Number(t)
        BY DEF Number
      <4> QED BY <3>2, <4>1, <4>2, <4>3 DEF Refused
    <3> QED BY <1>0, <2>1, <3>2, <3>3 DEF OnceInv
  <2>4. CASE symbols' # symbols
    <3>1. PICK s : /\ Allowed(s) /\ InsertSymbol(s) /\ ~Refused(s)
                   /\ symbols = << >> => s = <<terminator>>
      BY <1>3, <2>4, AddHead
    <3>2. s \in Strings
      BY <3>1 DEF Allowed
    <3>3. /\ ListInv' /\ HistoInv'
          /\ (\A t \in Listed : Len(t) = 1 => Taken(t))' /\ (\A t \in Listed : Refused(t))'
      BY <1>0, <2>1, <2>2, <3>1, <3>2, AddOnce
    <3> QED BY <2>1, <3>3 DEF OnceInv
  <2> QED BY <2>3, <2>4
<1>4. CASE End
  <2>1. at = "finalize" /\ at' = "trained" /\ Finalize
    BY <1>4 DEF End
  <2>2. ByteSlots
    BY <2>1 DEF OptInv, OptTable, SlotsListed
  <2>3. TrainedTable'
    BY <1>0, <2>1, <2>2, FinalTrained
  <2>4. final'
    BY <2>1 DEF Finalize
  <2>5. ListInv' /\ HistoInv'
    BY <2>4 DEF ListInv, HistoInv
  <2> QED BY <2>1, <2>3, <2>5 DEF OnceInv
<1>5. CASE UNCHANGED createVars
  <2>1. UNCHANGED tvars /\ at' = at /\ UNCHANGED <<flags, seen>>
    BY <1>5 DEF createVars, allVars, trainVars, optVars
  <2>2. ListInv' /\ HistoInv' /\ Listed' = Listed /\ \A t : Taken(t)' <=> Taken(t)
    BY <1>0, <2>1, SameOnce
  <2>3. \A t : Refused(t) => Refused(t)'
    <3>1. \A t : Number(t)' = Number(t)
      BY DEF Number
    <3>2. \A t : PastIndex(t)' <=> PastIndex(t)
      BY <2>1 DEF PastIndex, Bypass
    <3> QED BY <2>1, <2>2, <3>1, <3>2 DEF Refused
  <2>4. TrainedTable => TrainedTable'
    BY <2>1, <2>2 DEF TrainedTable, tvars, indexes, modes
  <2> QED BY <1>0, <2>1, <2>2, <2>3, <2>4 DEF OnceInv
<1> QED BY <1>1, <1>2, <1>3, <1>4, <1>5 DEF CreateNext, OptNext

\* Greedy training indexes every string that it lists.
LEMMA GreedyOnce ==
  ASSUME TrainInv, HistoInv, at = "trained" => TrainedTable, [TrainNext]_allVars
  PROVE  at' = "trained" => TrainedTable'
<1> SUFFICES ASSUME at' = "trained" PROVE TrainedTable'
  OBVIOUS
<1>1. IndexInv /\ (final <=> at = "trained")
  BY DEF TrainInv
<1>2. CASE End
  <2>1. Finalize /\ ~final
    BY <1>2 DEF End, Finalize
  <2>2. ListInv /\ ByteSlots /\ TrainingTypes /\ EveryStringIndexed
    BY <1>1, <2>1, IndexedOnce DEF IndexInv
  <2>3. \A t \in Listed : Len(t) = 1 => Taken(t)
    <3> SUFFICES ASSUME NEW t \in Listed, Len(t) = 1 PROVE Taken(t)
      OBVIOUS
    <3>1. PICK i \in 1..Len(symbols) : t = symbols[i]
      BY DEF Listed
    <3>2. byteCodes[t[1]].code = CodeBase + i - 1
      BY <2>2, <3>1 DEF EveryStringIndexed
    <3>3. i \in Nat /\ i >= 1
      BY <2>2 DEF TrainingTypes
    <3>4. CodeBase + i - 1 >= CodeBase
      BY <3>3 DEF CodeBase
    <3> QED BY <3>2, <3>4 DEF Taken
  <2> QED BY <2>1, <2>2, <2>3, FinalTrained
<1>3. CASE UNCHANGED allVars
  <2>1. at = "trained" /\ UNCHANGED tvars
    BY <1>3 DEF allVars, trainVars
  <2>2. TrainedTable => TrainedTable'
    BY <2>1 DEF TrainedTable, Listed, tvars, indexes, modes
  <2> QED BY <2>1, <2>2
<1>4. ~(CompressCount \/ Rank \/ Restore \/ AddTop \/ NextRound)
  BY DEF CompressCount, Rank, Restore, AddTop, NextRound
<1> QED BY <1>2, <1>3, <1>4 DEF TrainNext

\* With the options of Optfsst_create(), for every sample: no string has two
\* codes in any table in training, whether it is indexed or only appended,
\* and in the table that comes out the lengths are in the order that a
\* histogram of them stands for, and a byte's code is the code of its symbol.
THEOREM NoStringHasTwoCodes == CreateSpec => []TrainedTable
<1> DEFINE Inv == /\ Greedy => TrainInv /\ HistoInv /\ LeadInv
                  /\ ~Greedy => OptInv /\ HeadInv
           Once == /\ ~Greedy => OnceInv
                   /\ at = "trained" => TrainedTable
<1>1. CreateInit => Once
  <2> SUFFICES ASSUME CreateInit PROVE Once
    OBVIOUS
  <2>1. at = "count"
    BY DEF CreateInit, TrainInit
  <2> QED BY <2>1, OnceInitial
<1>2. Inv /\ Once /\ [CreateNext]_createVars => Once'
  <2> SUFFICES ASSUME Inv, Once, [CreateNext]_createVars PROVE Once'
    OBVIOUS
  <2>1. CASE Greedy
    <3>1. TrainInv /\ HistoInv /\ [TrainNext]_allVars /\ Greedy'
      BY <2>1, FlagsStay
    <3>2. at' = "trained" => TrainedTable'
      BY <3>1, GreedyOnce
    <3> QED BY <3>1, <3>2
  <2>2. CASE ~Greedy
    <3>1. OnceInv' /\ ~Greedy'
      BY <2>2, OnceStep, FlagsStay
    <3> QED BY <3>1 DEF OnceInv
  <2> QED BY <2>1, <2>2
<1>3. Inv /\ Once => TrainedTable
  <2> SUFFICES ASSUME Inv, Once PROVE TrainedTable
    OBVIOUS
  <2>1. CASE at = "trained"
    BY <2>1
  <2>2. CASE at # "trained"
    <3>1. ListInv /\ ~final
      <4>1. CASE Greedy
        BY <2>2, <4>1, IndexedOnce DEF TrainInv
      <4>2. CASE ~Greedy
        BY <2>2, <4>2 DEF OptInv, OnceInv
      <4> QED BY <4>1, <4>2
    <3>2. Cardinality(Listed) = Len(symbols)
      BY <3>1, ListCounted
    <3> QED BY <2>2, <3>2 DEF TrainedTable
  <2> QED BY <2>1, <2>2
<1>4. CreateSpec => []Inv
  BY CreateLeads
<1> HIDE DEF Inv, Once
<1> QED BY <1>1, <1>2, <1>3, <1>4, PTL DEF CreateSpec

=============================================================================
