------------------------------ MODULE Trainer12 ------------------------------
(***************************************************************************)
(* fsst_create() and Optfsst_create() of libfsst12.cpp: the training of    *)
(* the 12-bit library.  It is OptTrainer's scheme with other rules: there  *)
(* is no terminator and no least count, the bytes are always in the map,   *)
(* the gain of a parse is counted in half bytes, every round but the last  *)
(* skips some lines, and the map that compressed best is the result as it  *)
(* is.  The variables of OptTrainer are used for the same things; the      *)
(* table of SymbolTable rests.                                             *)
(***************************************************************************)
EXTENDS OptTrainer

CONSTANTS
  MaxSymbols12,   \* 3840
  Bucket12        \* the hash of four bytes

VARIABLE map      \* the map in training

M12 == INSTANCE SymbolMap12 WITH MaxSymbols <- MaxSymbols12, Bucket <- Bucket12

create12Vars == <<createVars, map>>

Create12Init ==
  /\ Init /\ zeroTerminated = 0 /\ terminator = 0
  /\ sample \in Samples
  /\ flags \in Options
  /\ at = "count12" /\ round = 1
  /\ count1 = Uncounted /\ count2 = Uncounted /\ count3 = Uncounted
  /\ cands = Uncounted /\ heap = {} /\ prevSym = << >> /\ seen = {}
  /\ map = M12!Cleared
  /\ best = [map |-> map, gain |-> -1000]

-----------------------------------------------------------------------------
(* compressCount and compressCountDP                                       *)

GreedyCodes(line) ==
  LET from[p \in 1..Len(line) + 1] ==
        IF p > Len(line) THEN << >>
        ELSE LET c == M12!Find(map, Upto(line, p))
             IN <<c>> \o from[p + Len(M12!Meaning(map, c))]
  IN from[1]

DPCodes(line) ==
  LET dp == M12!BuildDP(map, line)
      from[p \in 1..Len(line) + 1] ==
        IF p > Len(line) THEN << >>
        ELSE <<dp[p].choice>> \o from[p + Len(M12!Meaning(map, dp[p].choice))]
  IN from[1]

\* the runs of n codes in the parses
Runs(parses, n) ==
  FlattenSeq([k \in 1..Len(parses) |->
    IF Len(parses[k]) < n THEN << >>
    ELSE [i \in 1..Len(parses[k]) - n + 1 |-> SubSeq(parses[k], i, i + n - 1)]])

Tally(runs) == [r \in Range(runs) |-> Cardinality({i \in 1..Len(runs) : runs[i] = r})]

\* half bytes saved; the greedy loop does not count the first code of a line
Saved12(parse, first) ==
  FoldLeft(+, 0, [i \in 1..Len(parse) |->
    IF i < first THEN 0 ELSE 2 * Len(M12!Meaning(map, parse[i])) - 3])

ShortRun(run) == Len(M12!Meaning(map, run[1])) + Len(M12!Meaning(map, run[2])) < MaxLen

\* "in earlier rounds we skip data in the sample"
CompressCount12 ==
  /\ at = "count12"
  /\ \E taken \in SUBSET (1..Len(sample)) :
       LET dp == "DP_TRAIN" \in flags
           lines == SetToSortSeq(taken, <)
           parses == [k \in 1..Len(lines) |->
             IF dp THEN DPCodes(sample[lines[k]]) ELSE GreedyCodes(sample[lines[k]])]
           gain == FoldLeft(+, 0, [k \in 1..Len(parses) |-> Saved12(parses[k], IF dp THEN 1 ELSE 2)])
           codes == FlattenSeq(parses)
       IN
       /\ LastRound => taken = 1..Len(sample)
       /\ count1' = Tally(codes)
       /\ count2' = Tally(IF LastRound THEN << >> ELSE Runs(parses, 2))
       /\ count3' = Tally(IF LastRound \/ ~{"DP_TRAIN", "TRIPLES"} \subseteq flags THEN << >>
                          ELSE SelectSeq(Runs(parses, 3), ShortRun))
       /\ best' = IF gain >= best.gain THEN [map |-> map, gain |-> gain] ELSE best
  /\ at' = IF LastRound THEN "trained12" ELSE IF Greedy THEN "rank12" ELSE "rankEx12"
  /\ UNCHANGED <<tvars, sample, round, cands, flags, heap, prevSym, seen, map>>

-----------------------------------------------------------------------------
(* makeMap                                                                 *)

\* "1-byte symbols are always in the map"
Rank12 ==
  LET str1(c) == M12!Meaning(map, c)
      str2(p) == Concat(str1(p[1]), str1(p[2]))
      single == {c \in DOMAIN count1 : Len(str1(c)) > 1}
      double == {p \in DOMAIN count2 : Len(str1(p[1])) < MaxLen}
  IN
  /\ at = "rank12"
  /\ cands' = [s \in {str1(c) : c \in single} \cup {str2(p) : p \in double} |->
       Len(s) * (SumFunctionOnSet(count1, {c \in single : str1(c) = s})
                 + SumFunctionOnSet(count2, {p \in double : str2(p) = s}))]
  /\ map' = M12!Cleared
  /\ at' = "add12"
  /\ UNCHANGED <<tvars, sample, round, count1, count2, best, optVars>>

\* Of equal gains any is the top.
AddTop12 ==
  /\ at = "add12"
  /\ Len(map.symbols) < MaxSymbols12
  /\ \E s \in DOMAIN cands :
       /\ \A t \in DOMAIN cands : cands[t] <= cands[s]
       /\ map' = M12!Added(map, s)
       /\ cands' = Restrict(cands, DOMAIN cands \ {s})
  /\ UNCHANGED <<tvars, at, sample, round, count1, count2, best, optVars>>

-----------------------------------------------------------------------------
(* makeMapEx                                                               *)

Extendable == {p \in DOMAIN count2 : Len(M12!Meaning(map, p[1])) < MaxLen}

RankEx12 ==
  /\ at = "rankEx12"
  /\ heap' = Entries({<<c>> : c \in {d \in DOMAIN count1 : Len(M12!Meaning(map, d)) > 1}},
                     [o \in {<<c>> : c \in DOMAIN count1} |-> count1[o[1]]])
               \cup Entries(Extendable, count2)
               \cup Entries(DOMAIN count3, count3)
  /\ prevSym' = map.symbols
  /\ map' = M12!Cleared
  /\ at' = "addEx12"
  /\ UNCHANGED <<tvars, sample, round, count1, count2, cands, best, flags, count3, seen>>

\* (mutant) relies on add() to refuse a symbol twice
RefusedByAdd12(s) == ~PastIndex(s) /\ M12!Taken(map, s)

\* not added, or there already
Refused12(s) ==
  IF PastIndex(s) THEN Number(s) \in seen ELSE M12!Taken(map, s)

\* (mutant) pushes all that is left but what was joined first
PushedOfLast(of) == {part \in Parts(of) : part[1] # of[1] /\ Len(Joined(part)) > 1}

\* pushSingle() has no use for bytes
Pushed(of) == {part \in Parts(of) : Len(Joined(part)) > 1}

AddHighest12 ==
  /\ at = "addEx12"
  /\ Len(map.symbols) < MaxSymbols12
  /\ \E e \in heap : LET s == Joined(e.of) IN
       /\ Highest(e)
       /\ IF Current(e.of) # e.cnt \/ Refused12(s)
          THEN /\ heap' = heap \ {e}
               /\ UNCHANGED <<map, count1, count2, seen>>
          ELSE /\ map' = IF PastIndex(s) THEN M12!Listed(map, s) ELSE M12!Added(map, s)
               /\ seen' = IF PastIndex(s) THEN seen \cup {Number(s)} ELSE seen
               /\ IF "PRUNE" \in flags /\ Len(e.of) > 1
                  THEN Prune(e, Pushed(e.of))
                  ELSE heap' = heap \ {e} /\ UNCHANGED <<count1, count2>>
  /\ UNCHANGED <<tvars, at, sample, round, cands, best, flags, count3, prevSym>>

NextRound12 ==
  /\ at \in {"add12", "addEx12"}
  /\ \/ Len(map.symbols) = MaxSymbols12
     \/ at = "add12" /\ DOMAIN cands = {}
     \/ at = "addEx12" /\ heap = {}
  /\ at' = "count12" /\ round' = round + 1
  /\ cands' = Uncounted /\ heap' = {} /\ prevSym' = << >> /\ seen' = {}
  /\ count1' = Uncounted /\ count2' = Uncounted /\ count3' = Uncounted
  /\ UNCHANGED <<tvars, sample, best, flags, map>>

Create12Next ==
  \/ CompressCount12
  \/ Rank12 \/ AddTop12
  \/ RankEx12 \/ AddHighest12
  \/ NextRound12

-----------------------------------------------------------------------------
(* Properties                                                              *)

MapStrings(m) == Range(m.symbols)

\* What findExpansion() finds is a listed string, and only one of three
\* bytes may be missed for a shorter one: it is hashed with a fourth byte
\* that the text does not have.  Longer ones are found although the hash
\* is lossy.
OnlyThreesMissed(m) ==
  \A l \in 1..Len(sample) : \A p \in 1..Len(sample[l]) :
    LET text == Upto(sample[l], p)
        found == M12!Meaning(m, M12!Find(m, text))
    IN /\ StartsWith(text, found)
       /\ \A s \in MapStrings(m) :
            StartsWith(text, s) /\ Len(s) > Len(found) => Len(s) = 3 /\ Len(text) > 3

\* Every map in training, and the one that is returned, lists strings of
\* the sample, none of them twice and none a byte, although symbols get
\* there through an index and past it; the histogram, from which the
\* decoder takes the number of codes, counts them; and lookups miss none
\* but strings of three bytes, unless only the DP uses the map.
TrainedMap ==
  \A m \in {map} \cup IF at = "trained12" THEN {best.map} ELSE {} :
    /\ Cardinality(MapStrings(m)) = Len(m.symbols)
    /\ \A s \in MapStrings(m) : Len(s) > 1 /\ Occurs(s)
    /\ \A l \in 2..MaxLen :
         m.lenHisto[l] = Cardinality({i \in 1..Len(m.symbols) : Len(m.symbols[i]) = l})
    /\ Bypass \/ OnlyThreesMissed(m)

\* The heap gives what a search of all counts would, here as in OptTrainer,
\* where bytes, which are not candidates, are never pushed again.
TakesTheBest12 ==
  [][at = "addEx12" /\ map' # map =>
       LET ofs == {<<c>> : c \in DOMAIN count1} \cup DOMAIN count3 \cup
                  {p \in DOMAIN count2 : Len(Previous(p[1])) < MaxLen}
       IN \E of \in ofs :
            /\ Joined(of) = Last(map'.symbols)
            /\ \A o \in ofs :
                 LET s == Joined(o) IN
                 Current(o) > 0 /\ Len(s) > 1 /\ ~Refused12(s) =>
                   Gain(o, Current(o)) <= Gain(of, Current(of))]_create12Vars

=============================================================================
