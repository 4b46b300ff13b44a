----------------------------- MODULE OptTrainer -----------------------------
(***************************************************************************)
(* Optfsst_create() of libfsst.cpp: depending on its options it trains as  *)
(* Trainer does, or by Optfsst_buildSymbolTable(), which may parse the     *)
(* sample optimally instead of greedily (DP_TRAIN), join three adjacent    *)
(* symbols as well as two (TRIPLES), and lower the counts of the parts of  *)
(* a symbol it takes (PRUNE).                                              *)
(*                                                                         *)
(* makeTableEx() takes candidates from a heap.  Pruning leaves the heap's  *)
(* outdated entries where they are and pushes new ones; an entry is        *)
(* outdated if its count is not the current one.                           *)
(***************************************************************************)
EXTENDS Trainer

CONSTANT Options   \* the sets of flags that training is called with

ASSUME OptionsAssumption ==
  Options \subseteq SUBSET {"DP_TRAIN", "DP_ENCODE", "TRIPLES", "PRUNE"}

VARIABLES
  flags,
  count3,     \* how often three codes are adjacent, if they ever are
  heap,       \* entries [of, cnt]: one, two or three codes and their count
  prevSym,    \* the table that the codes in the heap refer to
  seen        \* the numbers of the symbols that were added past the indexes

optVars == <<flags, count3, heap, prevSym, seen>>
createVars == <<allVars, optVars>>

CreateInit ==
  /\ TrainInit
  /\ flags \in Options
  /\ count3 = Uncounted /\ heap = {} /\ prevSym = << >> /\ seen = {}

Greedy == flags \cap {"DP_TRAIN", "TRIPLES", "PRUNE"} = {}

-----------------------------------------------------------------------------
(* compressCountDP                                                         *)

\* the optimal parse: the fewest bytes, and of the choices that lead to
\* them a symbol of several bytes before one byte, and the longest first
DPSteps(line) ==
  LET literal(p) == byteCodes[line[p]].code
      matches(p) == {i \in 1..Len(symbols) :
                       /\ Len(symbols[i]) > 1
                       /\ StartsWith(SubSeq(line, p, Len(line)), symbols[i])}
      cost[p \in 1..Len(line) + 1] ==
        IF p > Len(line) THEN 0
        ELSE Min({(IF literal(p) < CodeBase THEN 2 ELSE 1) + cost[p + 1]} \cup
                 {1 + cost[p + Len(symbols[i])] : i \in matches(p)})
      shortest(p) == {i \in matches(p) : 1 + cost[p + Len(symbols[i])] = cost[p]}
      code(p) == IF shortest(p) = {} THEN literal(p)
                 ELSE CodeBase - 1 + CHOOSE i \in shortest(p) :
                        \A j \in shortest(p) : Len(symbols[j]) <= Len(symbols[i])
      step(p) == [code |-> code(p),
                  counted |-> {code(p)} \cup IF code(p) >= CodeBase THEN {line[p]} ELSE {}]
      from[p \in 1..Len(line) + 1] ==
        IF p > Len(line) THEN << >>
        ELSE <<step(p)>> \o from[p + Len(Meaning(code(p)))]
  IN from[1]

\* three adjacent steps, the first two of which leave room for a third
Triples(parses) ==
  FlattenSeq([k \in 1..Len(parses) |->
    LET steps == parses[k]
        long(i) == Len(Meaning(steps[i].code)) + Len(Meaning(steps[i + 1].code)) >= MaxLen
    IN IF Len(steps) < 3 THEN << >>
       ELSE FlattenSeq([i \in 1..Len(steps) - 2 |->
              IF long(i) THEN << >> ELSE <<<<steps[i], steps[i + 1], steps[i + 2]>>>>])])

CountTriples(parses) ==
  LET triples == IF LastRound \/ "TRIPLES" \notin flags THEN << >> ELSE Triples(parses)
      counted(t) == {<<t[1].code, t[2].code, c>> : c \in t[3].counted}
  IN [key \in UNION {counted(triples[i]) : i \in 1..Len(triples)} |->
        Cardinality({i \in 1..Len(triples) : key \in counted(triples[i])})]

\* Every line counts, in every round.
OptCompressCount ==
  /\ at = "count"
  /\ LET parses == [l \in 1..Len(sample) |->
                      IF "DP_TRAIN" \in flags THEN DPSteps(sample[l]) ELSE Steps(sample[l])]
     IN /\ CountParses(parses)
        /\ count3' = IF "DP_TRAIN" \in flags THEN CountTriples(parses) ELSE count3
  /\ at' = IF LastRound THEN "restore" ELSE "rank"
  /\ UNCHANGED <<tvars, sample, round, cands, flags, heap, prevSym, seen>>

-----------------------------------------------------------------------------
(* makeTableEx                                                             *)

\* prevSym[code]
Previous(code) == StringOf(prevSym, code)

\* the string that an entry's codes make
Joined(of) == FoldLeft(Concat, << >>, [i \in 1..Len(of) |-> Previous(of[i])])

\* the current count of one, two or three codes
Current(of) ==
  CASE Len(of) = 1 -> count1[of[1]]
    [] Len(of) = 2 -> count2[of]
    [] Len(of) = 3 -> count3[of]

\* Single bytes are not promoted: only the comment over the code says so.
Gain(of, cnt) == cnt * Len(Joined(of))

\* The counts with the terminator's, which makes it the first symbol.
WithTerminator(table, counts) ==
  [counts EXCEPT ![IF table = << >> THEN terminator ELSE CodeBase] = 65535]

\* the pairs and triples that may become a symbol
Pairable(table, pairs) ==
  {p \in pairs : Extends(StringOf(table, p[1]), StringOf(table, p[2]))}
Joinable(table, triples) ==
  {t \in triples :
     /\ Len(StringOf(table, t[1])) + Len(StringOf(table, t[2])) < MaxLen
     /\ \A i \in 1..3 : StringOf(table, t[i])[1] # terminator}

Entries(ofs, count) == {[of |-> o, cnt |-> count[o]] : o \in {p \in ofs : count[p] > 0}}

Seeded(table, counts, pairs, triples) ==
  Entries({<<c>> : c \in DOMAIN counts}, [o \in {<<c>> : c \in DOMAIN counts} |-> counts[o[1]]])
    \cup Entries(Pairable(table, DOMAIN pairs), pairs)
    \cup Entries(Joinable(table, DOMAIN triples), triples)

OptRank ==
  /\ at = "rank"
  /\ count1' = WithTerminator(symbols, count1)
  /\ heap' = Seeded(symbols, count1', count2, count3)
  /\ prevSym' = symbols
  /\ Clear
  /\ at' = "add"
  /\ UNCHANGED <<sample, round, count2, cands, best, flags, count3, seen>>

\* the best table's turn: single symbols only
OptRestore ==
  /\ at = "restore"
  /\ count1' = WithTerminator(best.symbols, best.count1)
  /\ count2' = Uncounted
  /\ heap' = Seeded(best.symbols, count1', Uncounted, Uncounted)
  /\ prevSym' = best.symbols
  /\ Clear
  /\ at' = "add"
  /\ UNCHANGED <<sample, round, cands, best, flags, count3, seen>>

\* If only the DP is going to use the table, long symbols are not indexed.
Bypass == {"DP_TRAIN", "DP_ENCODE"} \subseteq flags
PastIndex(s) == Bypass /\ Len(s) > 2

\* (mutant) relies on add() to refuse a symbol twice
RefusedByAdd(s) == ~PastIndex(s) /\ Taken(s)

\* A string is seen by its number, in which zeros at its end do not count.
Refused(s) == IF PastIndex(s) THEN Number(s) \in seen ELSE Taken(s)

AppendSymbol(s) ==
  /\ symbols' = Append(symbols, s)
  /\ lenHisto' = [lenHisto EXCEPT ![Len(s)] = @ + 1]
  /\ seen' = seen \cup {Number(s)}
  /\ UNCHANGED <<byteCodes, shortCodes, hashTab, modes>>

InsertSymbol(s) ==
  IF PastIndex(s) THEN AppendSymbol(s) ELSE Insert(s) /\ UNCHANGED seen

\* (mutant) pushes the single codes again, but not the pairs
PartsOfOne(of) == {<<of[i]>> : i \in 1..Len(of)}

\* what has its count lowered with a pair or a triple
Parts(of) ==
  {<<of[i]>> : i \in 1..Len(of)} \cup
  IF Len(of) = 3 THEN {<<of[1], of[2]>>, <<of[2], of[3]>>} ELSE {}

\* how often the sequence part is in of
Times(part, of) ==
  Cardinality({i \in 1..Len(of) - Len(part) + 1 :
                 \A j \in 1..Len(part) : of[i + j - 1] = part[j]})

\* "reduce counts for parts used", and push those that are left
Prune(e, pushed) ==
  LET used == e.cnt \div 2
      less(part) == Current(part) - used * Times(part, e.of)
  IN /\ count1' = [c \in DOMAIN count1 |-> less(<<c>>)]
     /\ count2' = IF Len(e.of) = 3 THEN [p \in DOMAIN count2 |-> less(p)] ELSE count2
     /\ heap' = (heap \ {e}) \cup
          {[of |-> p, cnt |-> less(p)] : p \in {q \in pushed : less(q) > 0}}

Highest(e) == \A f \in heap : Gain(f.of, f.cnt) <= Gain(e.of, e.cnt)

\* The top of the heap is dropped if it is outdated or refused.
AddHighest ==
  /\ at = "add"
  /\ Len(symbols) < MaxSymbols
  /\ \E e \in heap :
       /\ Highest(e)
       /\ IF Current(e.of) # e.cnt \/ Refused(Joined(e.of))
          THEN /\ heap' = heap \ {e}
               /\ UNCHANGED <<tvars, count1, count2, seen>>
          ELSE /\ InsertSymbol(Joined(e.of))
               /\ IF "PRUNE" \in flags /\ Len(e.of) > 1
                  THEN Prune(e, Parts(e.of))
                  ELSE heap' = heap \ {e} /\ UNCHANGED <<count1, count2>>
  /\ UNCHANGED <<at, sample, round, cands, best, flags, count3, prevSym>>

OptNextRound ==
  /\ at = "add"
  /\ Len(symbols) = MaxSymbols \/ heap = {}
  /\ at' = IF LastRound THEN "finalize" ELSE "count"
  /\ round' = IF LastRound THEN round ELSE round + 1
  /\ count1' = Uncounted /\ count2' = Uncounted /\ count3' = Uncounted
  /\ heap' = {} /\ prevSym' = << >> /\ seen' = {}
  /\ UNCHANGED <<tvars, sample, cands, best, flags>>

OptNext ==
  \/ OptCompressCount
  \/ OptRank
  \/ OptRestore
  \/ AddHighest
  \/ OptNextRound
  \/ End /\ UNCHANGED optVars

CreateNext ==
  \/ Greedy /\ TrainNext /\ UNCHANGED optVars
  \/ ~Greedy /\ OptNext

CreateSpec == CreateInit /\ [][CreateNext]_createVars

-----------------------------------------------------------------------------
(* Properties                                                              *)

\* Training uses the table as SymbolTable assumes: whatever the sample, the
\* terminator is the first symbol of every table, no longer symbol ever
\* contains it, and add() is never called on a full or a final table.  Only
\* with the DP at both ends are the indexes left behind.
UsesTheTable == Init /\ [][Bypass \/ Next]_tvars

Ofs ==
  {<<c>> : c \in DOMAIN count1} \cup Pairable(prevSym, DOMAIN count2)
    \cup Joinable(prevSym, DOMAIN count3)

\* "check if this candidate is deleted (ie. count is outdated)": the heap
\* gives what a search of all counts would.  Whatever pruning did to them,
\* each symbol that is added has the most gain by the counts as they are,
\* of all that could still be added.
TakesTheBest ==
  [][~Greedy /\ Len(symbols') > Len(symbols) =>
       \E of \in Ofs :
         /\ Joined(of) = Last(symbols')
         /\ \A o \in Ofs : Current(o) > 0 /\ ~Refused(Joined(o)) =>
              Gain(o, Current(o)) <= Gain(of, Current(of))]_createVars

\* No string has two codes, in any table in training, indexed or not; and in
\* the final table, as the DP encoder and fsst_export() take it, the lengths
\* are in the order that a histogram of them stands for, and a byte's code
\* is the code of its symbol.
TrainedTable ==
  /\ Cardinality(Listed) = Len(symbols)
  /\ at = "trained" =>
       /\ \A c, d \in zeroTerminated + 1..Len(symbols) :
            c < d => Len(symbols[d]) = 1 \/ Len(symbols[c]) \in 2..Len(symbols[d])
       /\ \A l \in 1..MaxLen :
            lenHisto[l] = Cardinality({c \in 1..Len(symbols) : Len(symbols[c]) = l})
       /\ \A c \in 1..Len(symbols) :
            Len(symbols[c]) = 1 => byteCodes[symbols[c][1]].code = c - 1

=============================================================================
