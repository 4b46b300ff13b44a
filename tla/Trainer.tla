------------------------------- MODULE Trainer -------------------------------
(***************************************************************************)
(* buildSymbolTable() of libfsst.cpp: a table is bootstrapped from a       *)
(* sample in rounds.  A round compresses the sample (or some lines of it)  *)
(* with the table, counts how often each code occurs and which two codes   *)
(* are adjacent, and refills the table with the strings of most gain among *)
(* the symbols counted and the concatenations of adjacent ones.  The table *)
(* that compressed best is kept with its counts; after the last round it   *)
(* is refilled from these counts and finalized.                            *)
(*                                                                         *)
(* The variables of SymbolTable are the table in training (st); the best   *)
(* one is no more than its strings here, since they determine its indexes  *)
(* and it is never probed.  The counters count exactly (see Counters for   *)
(* when they do).                                                          *)
(***************************************************************************)
EXTENDS SymbolTable, SequencesExt

CONSTANTS
  Samples,   \* the samples, sequences of lines
  MinCount   \* for each round, the count below which there is no candidate

Rounds == Len(MinCount)    \* 5 in the code, sampleFrac = 8, 38, 68, 98, 128

TerminatorCount == 65279    \* what count1GetNext reads after count1Set(65535)

WorstGain == -32768    \* -FSST_SAMPLEMAXSZ, "everything exception"

Bytes(lines) == Len(FlattenSeq(lines))

\* Five counts at most ("improves both compression speed and quality").
ASSUME RoundsAssumption ==
  /\ MinCount \in Seq(Nat) /\ MinCount # << >>
  /\ \A r \in 1..Rounds : MinCount[r] <= TerminatorCount

\* makeSample() returns fewer than 16896 bytes, and a symbol has eight.
ASSUME SamplesAssumption ==
  /\ Samples \subseteq Seq(Seq(Byte))
  /\ \A s \in Samples :
       /\ Bytes(s) <= -WorstGain
       /\ \A k \in {24, 3 * MaxLen} : k * Bytes(s) < 8 * TerminatorCount

\* Any string may come out of a sample.
ASSUME ProposalAssumption == Candidates = Strings

VARIABLES
  at,       \* "count", "rank", "add", "restore", "finalize" or "trained"
  sample,
  round,
  count1,   \* how often each code occurs
  count2,   \* how often each pair of codes is adjacent
  cands,    \* the candidates still queued, with their gains
  best      \* the best table's strings, its count1 and its gain

trainVars == <<at, sample, round, count1, count2, cands, best>>
allVars == <<tvars, trainVars>>

Codes == Byte \cup (CodeBase .. CodeBase - 1 + Len(symbols))

LastRound == round = Rounds

Uncounted == [c \in {} |-> 0]

\* With zeroTerminated the lines end with the only zero they contain; the
\* sample may have cut it off.
LegalSample ==
  zeroTerminated = 1 =>
    \A l \in 1..Len(sample) : \A i \in 1..Len(sample[l]) :
      sample[l][i] = 0 => i = Len(sample[l])

Occurrences(b) ==
  SumFunction([l \in 1..Len(sample) |-> Cardinality({i \in 1..Len(sample[l]) : sample[l][i] = b})])

\* "We use the (lowest) most infrequent byte as terminator"
LowestRarest ==
  CHOOSE b \in Byte : \A c \in Byte :
    \/ Occurrences(b) < Occurrences(c)
    \/ Occurrences(b) = Occurrences(c) /\ b <= c

TrainInit ==
  /\ Init
  /\ sample \in Samples /\ LegalSample
  /\ zeroTerminated = 0 => terminator = LowestRarest
  /\ at = "count" /\ round = 1
  /\ count1 = Uncounted /\ count2 = Uncounted /\ cands = Uncounted
  /\ best = [symbols |-> << >>, count1 |-> Uncounted, gain |-> WorstGain]

-----------------------------------------------------------------------------
(* compressCount                                                           *)

Upto(line, p) == SubSeq(line, p, IF p + MaxLen - 1 <= Len(line) THEN p + MaxLen - 1 ELSE Len(line))

\* A step of a parse, and the codes it is counted for: its own, and that of
\* its first byte as an alternative.
Step(c, first) ==
  [code |-> c, counted |-> {c} \cup IF Len(Meaning(c)) > 1 THEN {first} ELSE {}]

\* the greedy parse
Steps(line) ==
  LET from[p \in 1..Len(line) + 1] ==
        IF p > Len(line) THEN << >>
        ELSE LET c == Find(Upto(line, p))
             IN <<Step(c, line[p])>> \o from[p + Len(Meaning(c))]
  IN from[1]

Saved(step) == Len(Meaning(step.code)) - (IF step.code < CodeBase THEN 2 ELSE 1)

\* (mutant) the last code of a line is paired with the first of the next one
PairsAcrossLines(parses) ==
  LET all == FlattenSeq(parses)
  IN IF all = << >> THEN << >>
     ELSE [i \in 1..Len(all) - 1 |-> <<all[i], all[i + 1]>>]

\* the adjacent steps
Pairs(parses) ==
  FlattenSeq([k \in 1..Len(parses) |->
    LET steps == parses[k]
    IN IF steps = << >> THEN << >>
       ELSE [i \in 1..Len(steps) - 1 |-> <<steps[i], steps[i + 1]>>]])

\* (mutant) backs up the counters of every round
KeptCounts(gain, counts) ==
  IF gain >= best.gain
  THEN [symbols |-> symbols, count1 |-> counts, gain |-> gain]
  ELSE [best EXCEPT !.count1 = counts]

\* the table in training and its counts, if it is "a new best solution"
Kept(gain, counts) ==
  IF gain >= best.gain
  THEN [symbols |-> symbols, count1 |-> counts, gain |-> gain]
  ELSE best

\* Pairs are counted in all but the last round.
CountParses(parses) ==
  LET steps == FlattenSeq(parses)
      pairs == IF LastRound THEN << >> ELSE Pairs(parses)
      gain == SumFunction([i \in 1..Len(steps) |-> Saved(steps[i])])
      counts == [c \in Codes |->
                   Cardinality({i \in 1..Len(steps) : c \in steps[i].counted})]
  IN /\ count1' = counts
     /\ count2' = [p \in Codes \X Codes |->
          Cardinality({i \in 1..Len(pairs) :
            pairs[i][1].code = p[1] /\ p[2] \in pairs[i][2].counted})]
     /\ best' = Kept(gain, counts)

\* In all but the last round some of the lines are skipped.
CompressCount ==
  /\ at = "count"
  /\ \E taken \in SUBSET (1..Len(sample)) :
       /\ LastRound => taken = 1..Len(sample)
       /\ CountParses([l \in 1..Len(sample) |->
                         IF l \in taken THEN Steps(sample[l]) ELSE << >>])
  /\ at' = IF LastRound THEN "restore" ELSE "rank"
  /\ UNCHANGED <<tvars, sample, round, cands>>

-----------------------------------------------------------------------------
(* makeTable                                                               *)

StringOf(table, code) == IF code < CodeBase THEN <<code>> ELSE table[IndexOf(code)]

\* a concatenation is cut to the length of a symbol
Concat(s, t) == LET st == s \o t IN SubSeq(st, 1, IF Len(st) > MaxLen THEN MaxLen ELSE Len(st))

\* (mutant) looks at the first symbol only
ExtendsFirst(s, t) == Len(s) < MaxLen /\ s[1] # terminator

\* "multi-byte symbols cannot contain the terminator byte"
Extends(s, t) == Len(s) < MaxLen /\ s[1] # terminator /\ t[1] # terminator

\* the gain of every candidate string; a string gets what all its codes and
\* all its pairs contribute that occur often enough
Candidate(table, counts, pairs) ==
  LET isTerminator(c) == c = IF table = << >> THEN terminator ELSE CodeBase
      count(c) == IF isTerminator(c) THEN TerminatorCount ELSE counts[c]
      weight(c) == IF Len(StringOf(table, c)) = 1 THEN 8 * count(c) ELSE count(c)
      enough(n) == n > 0 /\ n >= MinCount[round]
      single == {c \in DOMAIN counts : count(c) > 0 /\ enough(weight(c))}
      double == {p \in DOMAIN pairs :
                   /\ count(p[1]) > 0
                   /\ Extends(StringOf(table, p[1]), StringOf(table, p[2]))
                   /\ enough(pairs[p])}
      str1(c) == StringOf(table, c)
      str2(p) == Concat(StringOf(table, p[1]), StringOf(table, p[2]))
  IN [s \in {str1(c) : c \in single} \cup {str2(p) : p \in double} |->
        Len(s) * (SumFunction([c \in {d \in single : str1(d) = s} |-> weight(c)])
                  + SumFunction([p \in {q \in double : str2(q) = s} |-> pairs[p]]))]

Rank ==
  /\ at = "rank"
  /\ cands' = Candidate(symbols, count1, count2)
  /\ Clear
  /\ at' = "add"
  /\ UNCHANGED <<sample, round, count1, count2, best>>

\* After the last round it is bestTable's turn.  Its indexes are erased as
\* those of st would be: both tables are like new (ClearForgets).
Restore ==
  /\ at = "restore"
  /\ cands' = Candidate(best.symbols, best.count1, Uncounted)
  /\ Clear
  /\ at' = "add"
  /\ UNCHANGED <<sample, round, count1, count2, best>>

Number(s) == SumFunction([i \in 1..Len(s) |-> s[i] * 256^(i - 1)])

\* most gain first; for equal gains the smallest number
Top(s) ==
  \A t \in DOMAIN cands :
    \/ cands[s] > cands[t]
    \/ cands[s] = cands[t] /\ Number(s) <= Number(t)

\* the top of the queue, which add() may refuse
AddTop ==
  /\ at = "add"
  /\ Len(symbols) < MaxSymbols
  /\ \E s \in DOMAIN cands :
       /\ Top(s)
       /\ IF Taken(s) THEN UNCHANGED tvars ELSE Insert(s)
       /\ cands' = Restrict(cands, DOMAIN cands \ {s})
  /\ UNCHANGED <<at, sample, round, count1, count2, best>>

NextRound ==
  /\ at = "add"
  /\ Len(symbols) = MaxSymbols \/ DOMAIN cands = {}
  /\ at' = IF LastRound THEN "finalize" ELSE "count"
  /\ round' = IF LastRound THEN round ELSE round + 1
  /\ cands' = Uncounted
  /\ count1' = Uncounted /\ count2' = Uncounted
  /\ UNCHANGED <<tvars, sample, best>>

End ==
  /\ at = "finalize"
  /\ Finalize
  /\ at' = "trained"
  /\ UNCHANGED <<sample, round, count1, count2, cands, best>>

TrainNext ==
  \/ CompressCount
  \/ Rank
  \/ Restore
  \/ AddTop
  \/ NextRound
  \/ End

TrainSpec == TrainInit /\ [][TrainNext]_allVars

-----------------------------------------------------------------------------
(* Properties                                                              *)

Occurs(s) ==
  \E l \in 1..Len(sample) : \E p \in 1..Len(sample[l]) :
    /\ p + Len(s) - 1 <= Len(sample[l])
    /\ SubSeq(sample[l], p, p + Len(s) - 1) = s

\* Every symbol of every round occurs in a line of the sample, over all the
\* concatenations, the cuts to MaxLen and the change to the best table: no
\* code is spent on a string the data does not have.
SymbolsOccur == \A s \in Listed : s = <<terminator>> \/ Occurs(s)

\* Nothing the best counts refer to is missing in the best table: the codes
\* that were counted with one table are never read against another.
CountsFitTable ==
  at = "restore" => \A c \in DOMAIN best.count1 :
    best.count1[c] > 0 => c < CodeBase + Len(best.symbols)

=============================================================================
