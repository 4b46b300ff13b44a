------------------------------ MODULE BottomUp -------------------------------
(***************************************************************************)
(* fsst-paper/vcw.cpp: the symbol table of the first FSST prototype.  It   *)
(* is trained bottom-up, each round with more symbols than the last; codes *)
(* from 256 on stand for an escaped byte.  The symbols are indexed by      *)
(* their first two bytes.  compressAdaptive() renumbers the codes and      *)
(* encodes string by string; compressBulk() encodes one text with words    *)
(* that are read without regard to its end.                                *)
(*                                                                         *)
(* A map is a record with the fields of struct SymbolMap.  The symbols     *)
(* behind symbolCount are what earlier rounds left there, and before that  *)
(* whatever the memory held: Symbol() initializes nothing.                 *)
(***************************************************************************)
EXTENDS Integers, Sequences, FiniteSets, FiniteSetsExt, SequencesExt, Functions

CONSTANTS
  Alphabet,      \* the bytes: 0..n
  Longest,       \* Symbol::maxLength and the bytes of a word: 8
  NormalCodes,   \* 255
  Targets,       \* the number of symbols to aim at, round by round
  SampleUnit,    \* a threshold of 1 for every so many bytes of the sample: 4096
  Garbage,       \* what the memory of a new map may hold: a symbol, or << >>
  Inputs,        \* the texts: sequences of strings
  Tails          \* what the memory may hold behind a text

VARIABLES
  stage,
  texts,       \* the strings
  sample,      \* some of them
  behind,      \* the bytes behind the text of compressBulk()
  symbolMap,
  bestMap, bestSize,
  round,
  dist,        \* the strings, or the bytes of the one text, that are done
  coded,       \* the bytes written for the current string or the text
  bulk         \* compressBulk() rather than compressAdaptive()

bvars == <<stage, texts, sample, behind, symbolMap, bestMap, bestSize, round, dist, coded, bulk>>

-----------------------------------------------------------------------------
(* struct SymbolMap                                                        *)

Escape(b) == NormalCodes + 1 + b
IsEscape(code) == code > NormalCodes
Slots == Cardinality(Alphabet) ^ 2

\* a word is padded with zeros
WordByte(text, i) == IF i <= Len(text) THEN text[i] ELSE 0
First2(text) == WordByte(text, 1) + Cardinality(Alphabet) * WordByte(text, 2)
IsPrefixOf(s, text) == s # << >> /\ \A i \in 1..Len(s) : s[i] = WordByte(text, i)

NewMap(garbage) ==
  [symbols |-> [c \in 1..NormalCodes |-> garbage],
   symbolCount |-> 0,
   index1 |-> [b \in Alphabet |-> Escape(b)],
   index2 |-> [p \in 0..Slots |-> 0]]

\* symbols[code]: normal ones are numbered from 0
SymbolOf(map, code) ==
  IF IsEscape(code) THEN <<code - NormalCodes - 1>> ELSE map.symbols[code + 1]

Live(map) == SubSeq(map.symbols, 1, map.symbolCount)

\* (mutant) the length does not matter
AheadByFirst(s, t) == First2(s) < First2(t)

Ahead(s, t) == First2(s) < First2(t) \/ (First2(s) = First2(t) /\ Len(s) > Len(t))

\* The longer symbols to the front, by their first two bytes and the longest
\* first; index2 filled as the first bytes come up
BuildIndex(map) ==
  LET isLong(s) == Len(s) > 1
      long == SortSeq(SelectSeq(Live(map), isLong), Ahead)
      live == long \o SelectSeq(Live(map), LAMBDA s : ~isLong(s))
      fill(acc, i) ==
        LET curr == First2(long[i + 1]) IN
        IF curr = acc.prev THEN acc
        ELSE [prev |-> curr,
              index2 |-> [p \in 0..Slots |-> IF p \in acc.prev + 1..curr THEN i ELSE acc.index2[p]]]
      filled == FoldLeft(fill, [prev |-> 0, index2 |-> [p \in 0..Slots |-> 0]],
                         [i \in 1..Len(long) |-> i - 1])
      singles(b) == {i \in Len(long) + 1..Len(live) : Head(live[i]) = b}
  IN [map EXCEPT
        !.symbols = [c \in 1..NormalCodes |-> IF c <= Len(live) THEN live[c] ELSE map.symbols[c]],
        !.index2 = [p \in 0..Slots |-> IF p > filled.prev THEN Len(long) ELSE filled.index2[p]],
        !.index1 = [b \in Alphabet |-> IF singles(b) = {} THEN Escape(b) ELSE Max(singles(b)) - 1]]

\* the codes from index2 that fit, of which the first is taken
FindExpansion(map, text) ==
  LET fits == {i \in map.index2[First2(text)]..map.index2[First2(text) + 1] - 1 :
                 IsPrefixOf(map.symbols[i + 1], text)}
  IN IF fits = {} THEN map.index1[Head(text)] ELSE Min(fits)

\* finalize(): the codes by the length of their symbols, those behind
\* symbolCount included; then the index sorts them as it always does
Finalized(map) ==
  LET ofLength(len) == SelectSeq(map.symbols, LAMBDA s : Len(s) = len)
      grouped == FlattenSeq([k \in 1..Longest |-> ofLength(Longest + 1 - k)])
  IN BuildIndex([map EXCEPT !.symbols =
       [c \in 1..NormalCodes |-> IF c <= Len(grouped) THEN grouped[c] ELSE map.symbols[c]]])

-----------------------------------------------------------------------------
(* buildSymbolMap                                                          *)

\* the codes of a string
Walk(map, s) ==
  LET from[p \in 1..Len(s) + 1] ==
        IF p > Len(s) THEN << >>
        ELSE LET code == FindExpansion(map, SubSeq(s, p, Min({Len(s), p + Longest - 1})))
             IN <<code>> \o from[p + Len(SymbolOf(map, code))]
  IN from[1]

Walks(map) == [t \in 1..Len(sample) |-> Walk(map, sample[t])]
AllCodes(map) == FlattenSeq(Walks(map))
SampleSize == Len(FlattenSeq(sample))
Size(map) == Len(AllCodes(map)) + Cardinality({i \in 1..Len(AllCodes(map)) : IsEscape(AllCodes(map)[i])})

\* how often codes follow each other within a string
PairCount(walks, a, b) ==
  FoldLeft(LAMBDA n, w : n + Cardinality({i \in 1..Len(w) - 1 : w[i] = a /\ w[i + 1] = b}), 0, walks)

Concat(s, t) == SubSeq(s \o t, 1, Min({Longest, Len(s) + Len(t)}))

\* The candidates with their gains: every code that was used, and every two
\* that followed each other more often than the threshold.  A string that
\* comes up in more than one way has the sum of its gains.
Candidates(map) ==
  LET walks == Walks(map)
      codes == Range(AllCodes(map))
      count(c) == Cardinality({i \in 1..Len(AllCodes(map)) : AllCodes(map)[i] = c})
      pairs == {p \in codes \X codes :
                  /\ PairCount(walks, p[1], p[2]) > SampleSize \div SampleUnit
                  /\ Len(SymbolOf(map, p[1])) < Longest}
      joined(p) == Concat(SymbolOf(map, p[1]), SymbolOf(map, p[2]))
      strings == {SymbolOf(map, c) : c \in codes} \cup {joined(p) : p \in pairs}
      gain(s) == Len(s) *
        (FoldSet(LAMBDA c, n : n + count(c), 0, {c \in codes : SymbolOf(map, c) = s}) +
         FoldSet(LAMBDA p, n : n + PairCount(walks, p[1], p[2]), 0, {p \in pairs : joined(p) = s}))
  IN [s \in strings |-> gain(s)]

\* the sets of the best; which of those that gain the same, is the queue's
\* choice
BestSets(cands, target) ==
  LET strings == DOMAIN cands
      better(s) == Cardinality({t \in strings : cands[t] > cands[s]})
      sure == {s \in strings : better(s) + Cardinality({t \in strings : cands[t] = cands[s]}) <= target}
      tied == {s \in strings \ sure : better(s) < target}
  IN IF tied = {} THEN {sure}
     ELSE {sure \cup more : more \in kSubset(target - Cardinality(sure), tied)}

\* clear(), then add() for each: the rest of the array stays
Refilled(map, set) ==
  LET new == SetToSeq(set)
  IN BuildIndex([map EXCEPT
       !.symbols = [c \in 1..NormalCodes |-> IF c <= Len(new) THEN new[c] ELSE map.symbols[c]],
       !.symbolCount = Len(new)])

InitBottomUp ==
  /\ stage = "sample"
  /\ texts \in Inputs /\ sample = << >>
  /\ behind \in Tails
  /\ bulk \in BOOLEAN
  /\ symbolMap \in {NewMap(g) : g \in Garbage}
  /\ bestMap = symbolMap
  /\ bestSize = 0
  /\ round = 1 /\ dist = 0 /\ coded = << >>

\* The strings are shuffled and taken until there are enough: as they are, or
\* as one text.  compressAdaptive() goes on with them as they are now.
Sample ==
  /\ stage = "sample"
  /\ \E order \in SetToSeqs(DOMAIN texts), n \in 1..Len(texts) :
       LET shuffled == [i \in DOMAIN texts |-> texts[order[i]]]
           some == SubSeq(shuffled, 1, n)
       IN /\ texts' = IF bulk THEN texts ELSE shuffled
          /\ sample' = IF bulk THEN <<FlattenSeq(some)>> ELSE some
          /\ bestSize' = 2 * Len(FlattenSeq(some))
  /\ stage' = "train"
  /\ UNCHANGED <<behind, symbolMap, bestMap, round, dist, coded, bulk>>

\* countDict(): the best map so far is remembered
CountDict ==
  IF Size(symbolMap) < bestSize
  THEN bestMap' = symbolMap /\ bestSize' = Size(symbolMap)
  ELSE UNCHANGED <<bestMap, bestSize>>

TrainRound ==
  /\ stage = "train" /\ round <= Len(Targets)
  /\ CountDict
  /\ \E set \in BestSets(Candidates(symbolMap), Targets[round]) :
       symbolMap' = Refilled(symbolMap, set)
  /\ round' = round + 1
  /\ UNCHANGED <<stage, texts, sample, behind, dist, coded, bulk>>

\* the last map is only tested
TrainEnd ==
  /\ stage = "train" /\ round = Len(Targets) + 1
  /\ CountDict
  /\ round' = round + 1
  /\ stage' = IF bulk THEN "fast" ELSE "finalize"
  /\ UNCHANGED <<texts, sample, behind, symbolMap, dist, coded, bulk>>

-----------------------------------------------------------------------------
(* compressAdaptive: finalize(), then compress() each string               *)

\* a code, or 255 and the byte
Written(code) == IF IsEscape(code) THEN <<NormalCodes, code - NormalCodes - 1>> ELSE <<code>>

Finalize ==
  /\ stage = "finalize"
  /\ bestMap' = Finalized(bestMap)
  /\ stage' = "adaptive"
  /\ UNCHANGED <<texts, sample, behind, symbolMap, bestSize, round, dist, coded, bulk>>

CompressString ==
  /\ stage = "adaptive" /\ dist < Len(texts)
  /\ LET codes == Walk(bestMap, texts[dist + 1])
     IN coded' = FlattenSeq([i \in 1..Len(codes) |-> Written(codes[i])])
  /\ dist' = dist + 1
  /\ UNCHANGED <<stage, texts, sample, behind, symbolMap, bestMap, bestSize, round, bulk>>

\* decompress()
Decoded(map, bytes) ==
  LET from[p \in 1..Len(bytes) + 1] ==
        IF p > Len(bytes) THEN << >>
        ELSE IF bytes[p] = NormalCodes THEN <<bytes[p + 1]>> \o from[p + 2]
        ELSE SymbolOf(map, bytes[p]) \o from[p + 1]
  IN from[1]

-----------------------------------------------------------------------------
(* compressBulk: the strings as one text                                   *)

Whole == FlattenSeq(texts)
Memory == Whole \o behind
WordAt(p) == SubSeq(Memory, p + 1, p + Longest)

\* (mutant) the only symbol of a slot is taken without a look
FirstOfSlot(map, word) ==
  LET begin == map.index2[First2(word)]
      end == map.index2[First2(word) + 1]
  IN IF end - begin = 1 THEN begin ELSE FindExpansion(map, word)

\* fastExpansion(): the slot's symbols with their masks, in the same order
FastExpansion(map, word) ==
  LET begin == map.index2[First2(word)]
      end == map.index2[First2(word) + 1]
      matches == {i \in begin..end - 1 : IsPrefixOf(map.symbols[i + 1], word)}
  IN IF matches = {} THEN map.index1[Head(word)] ELSE Min(matches)

Emit(code) ==
  /\ coded' = coded \o Written(code)
  /\ dist' = dist + Len(SymbolOf(bestMap, code))
  /\ UNCHANGED <<texts, sample, behind, symbolMap, bestMap, bestSize, round, bulk>>

\* whole words, to the end of the text: the last ones reach beyond it
FastStep ==
  /\ stage = "fast" /\ Len(Whole) > Longest /\ dist < Len(Whole)
  /\ Emit(FastExpansion(bestMap, WordAt(dist)))
  /\ UNCHANGED stage

\* "end+=8": of an end that was not moved before
TextEnd == IF Len(Whole) > Longest THEN Len(Whole) + Longest ELSE Len(Whole)

FastEnd ==
  /\ stage = "fast" /\ (Len(Whole) <= Longest \/ dist >= Len(Whole))
  /\ stage' = "rest"
  /\ UNCHANGED <<texts, sample, behind, symbolMap, bestMap, bestSize, round, dist, coded, bulk>>

RestStep ==
  /\ stage = "rest" /\ dist < TextEnd
  /\ Emit(FindExpansion(bestMap, SubSeq(Memory, dist + 1, Min({TextEnd, dist + Longest}))))
  /\ UNCHANGED stage

RestEnd ==
  /\ stage = "rest" /\ dist >= TextEnd
  /\ stage' = "written"
  /\ UNCHANGED <<texts, sample, behind, symbolMap, bestMap, bestSize, round, dist, coded, bulk>>

NextBottomUp ==
  \/ Sample \/ TrainRound \/ TrainEnd
  \/ Finalize \/ CompressString
  \/ FastStep \/ FastEnd \/ RestStep \/ RestEnd

-----------------------------------------------------------------------------
(* Properties                                                              *)

\* The index of a map finds the longest of its symbols that begins a text,
\* whatever the map went through: two indexes, one by length and one by the
\* first two bytes, over an array that is sorted in place and keeps the
\* symbols of earlier rounds behind its end.
FindsLongest(map) ==
  \A t \in Range(texts) : \A p \in 1..Len(t) :
    LET text == SubSeq(t, p, Min({Len(t), p + Longest - 1}))
        code == FindExpansion(map, text)
        fits == {s \in Range(Live(map)) : IsPrefix(s, text)}
    IN IF fits = {} THEN code = Escape(Head(text))
       ELSE /\ code < map.symbolCount
            /\ SymbolOf(map, code) \in fits
            /\ \A s \in fits : Len(s) <= Len(SymbolOf(map, code))
IndexFindsLongest == FindsLongest(symbolMap) /\ FindsLongest(bestMap)

\* The text comes back: string by string from renumbered codes, even though
\* finalize() may have let stale symbols take the place of live ones; and
\* from the bulk encoder, which goes past the end of the text by less than
\* two words, but neither skips nor repeats a byte before it.
TextComesBack ==
  /\ stage = "adaptive" /\ dist > 0 => Decoded(bestMap, coded) = texts[dist]
  /\ stage \in {"fast", "rest", "written"} =>
       /\ Decoded(bestMap, coded) = SubSeq(Memory, 1, dist)
       /\ stage = "written" => dist \in Len(Whole)..Len(Whole) + 2 * Longest - 1
       /\ stage = "written" /\ Len(Whole) <= Longest => dist = Len(Whole)

=============================================================================
