---------------------------- MODULE SubsetSelect -----------------------------
(***************************************************************************)
(* class SubsetSelect of fsst-paper/cw.cpp: the symbols of a code without  *)
(* escapes.  Every byte the text uses keeps its own code; the other codes  *)
(* are given to the substrings that save most.  The substrings are read    *)
(* off a suffix array: the occurrences of a repeated string are an         *)
(* interval of it.  A candidate's gain is only brought up to date when the *)
(* candidate is the best of the heap.                                      *)
(*                                                                         *)
(* Positions count from 0 as in the code.  A symbol is the sequence of its *)
(* bytes; 0 ends a line of the text, and no symbol has a 0.                *)
(***************************************************************************)
EXTENDS Integers, Sequences, FiniteSets, FiniteSetsExt, SequencesExt

CONSTANTS
  NumCodes,   \* 256
  MaxLen,     \* the bytes of a symbol: 8
  MaxQueue,   \* maxQueueSize: the candidates kept of one length
  Corpora     \* the texts: sequences of lines of bytes 1..NumCodes - 1

VARIABLES
  phase,
  lines,       \* the lines to add, then those of the file
  used,        \* the bytes that occur
  data,        \* the lines of two bytes and more, each with its 0
  suffixes,    \* the suffix array
  lcp,         \* what a suffix has in common with the one before it
  index,       \* the scan of lcp
  depth,       \* currentDepth
  begins,      \* for each length, where the current interval begins
  lists,       \* perSizeLists
  candidates,  \* the heap
  modified,    \* the marked positions: modified[0]; the others are not used
  result       \* the symbols of the codes decided so far

vars == <<phase, lines, used, data, suffixes, lcp, index, depth, begins, lists,
          candidates, modified, result>>

Lengths == 2..MaxLen
Positions == 0..Len(data) - 1

\* a byte of data, which has zeros behind its end
ByteAt(p) == IF p < Len(data) THEN data[p + 1] ELSE 0
StringAt(p, len) == [i \in 1..len |-> ByteAt(p + i - 1)]

InitSelect ==
  /\ phase = "add"
  /\ lines \in Corpora
  /\ used = {} /\ data = << >> /\ suffixes = << >> /\ lcp = << >>
  /\ index = 0 /\ depth = 0
  /\ begins = [len \in 1..MaxLen |-> 0]
  /\ lists = [len \in Lengths |-> {}]
  /\ candidates = {} /\ modified = {} /\ result = << >>

\* add()
Add ==
  /\ phase = "add" /\ index < Len(lines)
  /\ LET s == lines[index + 1] IN
       /\ used' = used \cup Range(s)
       /\ data' = IF Len(s) < 2 THEN data ELSE data \o s \o <<0>>
  /\ index' = index + 1
  /\ UNCHANGED <<phase, lines, suffixes, lcp, depth, begins, lists, candidates, modified, result>>

-----------------------------------------------------------------------------
(* The suffix array and its common prefixes                                *)

\* saisxx(): the positions in the order of what follows them; the end of the
\* text is less than any byte
Before(p, q) ==
  LET same == Max({n \in 0..Len(data) - Max({p, q}) : StringAt(p, n) = StringAt(q, n)})
  IN p + same = Len(data) \/ (q + same < Len(data) /\ ByteAt(p + same) < ByteAt(q + same))

Sorted == SortSeq([i \in 1..Len(data) |-> i - 1], Before)

\* how far two suffixes agree, given that they do for height bytes: up to a 0
Agree(p, q, height) ==
  LET stop == CHOOSE n \in height..Len(data) :
                /\ ByteAt(p + n) # ByteAt(q + n) \/ ByteAt(p + n) = 0
                /\ \A m \in height..n - 1 : ByteAt(p + m) = ByteAt(q + m) /\ ByteAt(p + m) # 0
  IN stop

\* computeLCP(): in the order of the text, so that the height of one position
\* tells that of the next
ComputeLCP(sa) ==
  LET rank == [p \in Positions |-> CHOOSE i \in 1..Len(sa) : sa[i] = p]
      step(acc, p) ==
        IF rank[p] = 1 THEN acc
        ELSE LET height == Agree(p, sa[rank[p] - 1], acc.height)
             IN [lcp |-> [acc.lcp EXCEPT ![rank[p]] = height],
                 height |-> Max({height - 1, 0})]
  IN FoldLeft(step, [lcp |-> [i \in 1..Len(sa) |-> 0], height |-> 0],
              [i \in 1..Len(data) |-> i - 1]).lcp

SortSuffixes ==
  /\ phase = "add" /\ index = Len(lines)
  /\ suffixes' = Sorted
  /\ lcp' = ComputeLCP(Sorted)
  /\ index' = 0
  /\ phase' = "scan"
  /\ UNCHANGED <<lines, used, data, depth, begins, lists, candidates, modified, result>>

-----------------------------------------------------------------------------
(* The candidates: one for every interval of the scan                      *)

Gain(len, count) == Max({(len - 1) * count - len, 0})

\* the best of each length are kept; which one goes, of those that gain
\* least, is the heap's choice
Pushed(list, c) ==
  IF c.gain = 0 THEN list
  ELSE IF Cardinality(list) < MaxQueue THEN list \cup {c}
  ELSE LET least == CHOOSE d \in list : \A e \in list : d.gain <= e.gain
       IN IF c.gain > least.gain THEN (list \ {least}) \cup {c} ELSE list

\* flushTo(): the intervals that are deeper than target end before pos
FlushTo(pos, target) ==
  [len \in Lengths |->
     IF len \in target + 1..depth
     THEN Pushed(lists[len],
            [symbol |-> StringAt(suffixes[pos], len), from |-> begins[len], to |-> pos,
             gain |-> Gain(len, pos - begins[len]), step |-> 0])
     ELSE lists[len]]

\* (mutant) the suffix at which the common prefix was found is the first of
\* the interval, and not the one before it
ScanFromIndex ==
  LET newDepth == Min({lcp[index + 1], MaxLen}) IN
  /\ phase = "scan" /\ index < Len(lcp)
  /\ lists' = IF newDepth < depth THEN FlushTo(index, newDepth) ELSE lists
  /\ begins' = [len \in 1..MaxLen |-> IF len \in depth + 1..newDepth THEN index ELSE begins[len]]
  /\ depth' = newDepth
  /\ index' = index + 1
  /\ UNCHANGED <<phase, lines, used, data, suffixes, lcp, candidates, modified, result>>

Scan ==
  LET newDepth == Min({lcp[index + 1], MaxLen}) IN
  /\ phase = "scan" /\ index < Len(lcp)
  /\ lists' = IF newDepth < depth THEN FlushTo(index, newDepth) ELSE lists
  /\ begins' = [len \in 1..MaxLen |-> IF len \in depth + 1..newDepth THEN index - 1 ELSE begins[len]]
  /\ depth' = newDepth
  /\ index' = index + 1
  /\ UNCHANGED <<phase, lines, used, data, suffixes, lcp, candidates, modified, result>>

EndScan ==
  LET flushed == FlushTo(Len(lcp), 0) IN
  /\ phase = "scan" /\ index = Len(lcp)
  /\ candidates' = UNION Range(flushed)
  /\ lists' = [len \in Lengths |-> {}]
  /\ phase' = "select"
  /\ UNCHANGED <<lines, used, data, suffixes, lcp, index, depth, begins, modified, result>>

-----------------------------------------------------------------------------
(* The selection                                                           *)

Code == Len(result)

\* the positions that a candidate's interval names
Places(c) == {suffixes[i] : i \in c.from + 1..c.to}
Covered(p, len) == p..p + len - 1

\* recomputeGain(): only what meets no marked position still counts
Recomputed(c) ==
  LET len == Len(c.symbol)
      free == {p \in Places(c) : Covered(p, len) \cap modified = {}}
  IN [c EXCEPT !.gain = Gain(len, Cardinality(free)), !.step = Code]

Best == {c \in candidates : \A d \in candidates : d.gain <= c.gain}

OwnByte ==
  /\ phase = "select" /\ Code < NumCodes
  /\ Code \in used \/ candidates = {}
  /\ result' = Append(result, <<Code>>)
  /\ UNCHANGED <<phase, lines, used, data, suffixes, lcp, index, depth, begins, lists, candidates, modified>>

Refresh ==
  /\ phase = "select" /\ Code < NumCodes /\ Code \notin used
  /\ \E best \in Best :
       /\ best.step < Code
       /\ candidates' = (candidates \ {best}) \cup {c \in {Recomputed(best)} : c.gain > 0}
  /\ UNCHANGED <<phase, lines, used, data, suffixes, lcp, index, depth, begins, lists, modified, result>>

\* (mutant) the gain of the heap is taken for granted
Current(c) == TRUE

\* the gain was computed since the last choice
UpToDate(c) == c.step >= Code

\* invalidatePositions(): every occurrence is marked
Pick ==
  /\ phase = "select" /\ Code < NumCodes /\ Code \notin used
  /\ \E best \in Best :
       /\ UpToDate(best)
       /\ result' = Append(result, best.symbol)
       /\ candidates' = candidates \ {best}
       /\ modified' = modified \cup UNION {Covered(p, Len(best.symbol)) : p \in Places(best)}
  /\ UNCHANGED <<phase, lines, used, data, suffixes, lcp, index, depth, begins, lists>>

EndSelect ==
  /\ phase = "select" /\ Code = NumCodes
  /\ phase' = "build"
  /\ UNCHANGED <<lines, used, data, suffixes, lcp, index, depth, begins, lists, candidates, modified, result>>

NextSelect == Add \/ SortSuffixes \/ Scan \/ EndScan \/ OwnByte \/ Refresh \/ Pick \/ EndSelect

-----------------------------------------------------------------------------
(* Properties                                                              *)

\* Where a string occurs in the text, and what is left of its gain
Occurrences(s) == {p \in Positions : StringAt(p, Len(s)) = s}
Worth(s) ==
  Gain(Len(s), Cardinality({p \in Occurrences(s) : Covered(p, Len(s)) \cap modified = {}}))

\* the strings within a line that could be symbols
Substrings == {StringAt(p, len) : p \in Positions, len \in Lengths}
Symbols == {s \in Substrings : 0 \notin Range(s)}

NoListWasFull ==
  \A len \in Lengths :
    Cardinality({s \in Symbols : Len(s) = len /\ Gain(len, Cardinality(Occurrences(s))) > 0})
      <= MaxQueue

\* The scan of the common prefixes, with the height that is carried from one
\* position to the next, loses nothing and invents nothing: the candidates
\* are the strings with a gain, each with exactly the places where it occurs,
\* and a string is only missing when the list of its length is full of
\* strings that gain as much.
IntervalsAreOccurrences ==
  phase = "select" /\ result = << >> =>
    /\ \A c \in candidates :
         c.symbol \in Symbols /\ Places(c) = Occurrences(c.symbol) /\ c.gain = Worth(c.symbol)
    /\ \A s \in Symbols :
         LET kept == {c \in candidates : Len(c.symbol) = Len(s)} IN
         Worth(s) > 0 /\ (\A c \in kept : c.symbol # s) =>
           Cardinality(kept) = MaxQueue /\ \A c \in kept : c.gain >= Worth(s)

\* The heap's gains grow old with every choice, and are only recomputed at
\* its top; still the symbol that gets a code is one that no string of the
\* text would beat at that moment, and a code the text uses is never given
\* away.
PicksTheBest ==
  [][Len(result') > Len(result) /\ Len(Last(result')) > 1 =>
       /\ Code \notin used
       /\ \A c \in candidates : Worth(c.symbol) <= Worth(Last(result'))
       /\ NoListWasFull => \A s \in Symbols : Worth(s) <= Worth(Last(result'))]_vars

=============================================================================
