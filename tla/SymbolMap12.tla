----------------------------- MODULE SymbolMap12 -----------------------------
(***************************************************************************)
(* struct SymbolMap of libfsst12.hpp, the dictionary of the 12-bit         *)
(* library.  Codes 0..255 are the bytes; symbols[i] has code 255 + i.      *)
(* Strings of two bytes are indexed by shortCodes, longer ones by a lossy  *)
(* hash of four bytes, of which a string of three pads the last with zero. *)
(*                                                                         *)
(* A map is a record, and the operations are operators on maps: training   *)
(* and the encoders use them, at a time of their own each.                 *)
(***************************************************************************)
EXTENDS Integers, Sequences, FiniteSets, SequencesExt

CONSTANTS
  Byte,
  MaxLen,     \* Symbol::maxLength (8 in the code)
  MaxSymbols, \* how many symbols there are besides the bytes (3840)
  Bucket      \* hash() & (hashTabSize-1), by the four bytes it hashes

FirstCode == 256

StartsWith(text, s) == Len(s) <= Len(text) /\ SubSeq(text, 1, Len(s)) = s

BucketOf(s) == Bucket[[i \in 1..4 |-> IF i <= Len(s) THEN s[i] ELSE 0]]

Free == [str |-> << >>, code |-> 4095]    \* FSST_GCL_FREE

\* clear(): all the indexes anew, whatever was listed
Cleared ==
  [symbols |-> << >>,
   shortCodes |-> [p \in Byte \X Byte |-> p[1]],
   hashTab |-> [k \in {Bucket[w] : w \in [1..4 -> Byte]} |-> Free],
   lenHisto |-> [l \in 1..MaxLen |-> IF l = 1 THEN FirstCode ELSE 0]]

Meaning(map, code) ==
  IF code < FirstCode THEN <<code>> ELSE map.symbols[code - FirstCode + 1]

-----------------------------------------------------------------------------
(* add() and hashInsert()                                                  *)

\* "collision in hash table", or a pair that has its code already
Taken(map, s) ==
  IF Len(s) = 2 THEN map.shortCodes[s] # s[1] ELSE map.hashTab[BucketOf(s)] # Free

\* the next code, without an entry in an index
Listed(map, s) ==
  [map EXCEPT !.symbols = Append(@, s), !.lenHisto[Len(s)] = @ + 1]

Added(map, s) ==
  LET code == FirstCode + Len(map.symbols) IN
  IF Taken(map, s) THEN map
  ELSE IF Len(s) = 2 THEN [Listed(map, s) EXCEPT !.shortCodes[s] = code]
  ELSE [Listed(map, s) EXCEPT !.hashTab[BucketOf(s)] = [str |-> s, code |-> code]]

\* "don't use fsst hashing": a map that is trained for the DP alone lists
\* strings of three bytes and more past the index, and takes one for known by
\* its number, in which zeros at its end do not count
Seen(map, s) ==
  \E t \in Range(map.symbols) :
    /\ Len(t) > 2
    /\ \A i \in 1..MaxLen : (IF i <= Len(t) THEN t[i] ELSE 0) = (IF i <= Len(s) THEN s[i] ELSE 0)

Entered(map, s, past) ==
  IF ~past \/ Len(s) = 2 THEN Added(map, s)
  ELSE IF Seen(map, s) THEN map
  ELSE Listed(map, s)

-----------------------------------------------------------------------------
(* findExpansion() and hashFind(), on up to MaxLen bytes                   *)

Find(map, text) ==
  LET e == map.hashTab[BucketOf(text)]
  IN IF Len(text) = 1 THEN text[1]
     ELSE IF e # Free /\ StartsWith(text, e.str) THEN e.code
     ELSE map.shortCodes[<<text[1], text[2]>>]

-----------------------------------------------------------------------------
(* buildDP(): from the end of the line, the fewest codes.  The trie has    *)
(* every symbol, also those that no index has.                             *)

\* cost <= bestCost: of the best matches the longest
LastShortest(candidates, strings) ==
  CHOOSE i \in candidates : \A j \in candidates : Len(strings[j]) <= Len(strings[i])

Matches(map, text) == {i \in 1..Len(map.symbols) : StartsWith(text, map.symbols[i])}

\* what a match costs, given the cost of what is left after n bytes
CostOf(map, text, costs) ==
  [i \in Matches(map, text) |-> 1 + costs[Len(map.symbols[i])]]

\* [cost, choice] at a position, given those of the positions after it
Position(map, text, after) ==
  LET costs == [n \in 1..Len(text) |-> IF n = Len(text) THEN 0 ELSE after[n].cost]
      match == CostOf(map, text, costs)
      byte == 1 + costs[1]
      best == {i \in DOMAIN match :
                 match[i] <= byte /\ \A j \in DOMAIN match : match[i] <= match[j]}
      i == LastShortest(best, map.symbols)
  IN IF best = {} THEN [cost |-> byte, choice |-> text[1]]
     ELSE [cost |-> match[i], choice |-> FirstCode - 1 + i]

\* dpCost and dpChoice
BuildDP(map, line) ==
  FoldLeft(LAMBDA after, n : <<Position(map, SubSeq(line, Len(line) - n + 1, Len(line)), after)>> \o after,
           << >>, [n \in 1..Len(line) |-> n])

-----------------------------------------------------------------------------
(* fsst_export() and fsst_import()                                         *)

Exported(map) ==
  [lenHisto |-> map.lenHisto,
   strings |-> [c \in 1..FirstCode + Len(map.symbols) |-> Meaning(map, c - 1)]]

\* "Gives a chance to detect corrupted code sequences"
Corrupt == [i \in 1..MaxLen |-> "corrupt"]

CountOf(lenHisto) == FoldLeft(LAMBDA n, l : n + l, 0, lenHisto)

\* decoder->symbol[code]
Imported(buf, code) ==
  IF code < CountOf(buf.lenHisto) THEN buf.strings[code + 1] ELSE Corrupt

=============================================================================
