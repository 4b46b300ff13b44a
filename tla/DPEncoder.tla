------------------------------ MODULE DPEncoder ------------------------------
(***************************************************************************)
(* Optfsst_compress() with FSST_OPT_DP_ENCODE: compressBulkDP() of         *)
(* libfsst.cpp, and buildDP() and the trie of libfsst.hpp.                 *)
(*                                                                         *)
(* The text is cut into pieces by dynamic programming, from the end of     *)
(* each chunk, so that the output is as short as any.  The trie and the    *)
(* tables of the program live in the SymbolTable, which encoders made by   *)
(* fsst_duplicate() share.  A thread here is one call of Optfsst_compress  *)
(* on one of them.  A step of rebuildTrie() is one symbol and a step of     *)
(* buildDP() one position: finer steps would only add interleavings.       *)
(***************************************************************************)
EXTENDS FsstCode, FiniteSets

CONSTANTS
  Thread,    \* the calls that run concurrently
  MaxLen,    \* Symbol::maxLength (8 in the code)
  ChunkMax,  \* the bytes of a chunk (511 in the code)
  Tables,    \* final tables: sequences of strings, by code
  Batches,   \* the batches of lines a caller may pass
  Sizes      \* the sizes of the output buffer

\* A code is a byte that is not the escape's.
ASSUME DPAssumption ==
  /\ MaxLen \in Nat \ {0} /\ ChunkMax \in Nat \ {0}
  /\ \A table \in Tables :
       /\ table \in Seq(Seq(Nat)) /\ Len(table) <= Esc
       /\ \A c \in 1..Len(table) : Len(table[c]) \in 1..MaxLen
  /\ Batches \subseteq Seq(Seq(Nat)) /\ Sizes \subseteq Nat

VARIABLES
  symbols,     \* the final table, never written
  trie,        \* the paths of the trie: the code that ends there, or NoCode
  trieReady,   \* trieReadyFinal
  dpCost,      \* the cost of the text from each position
  dpChoice,    \* the code that attains it
  at, batch, size, curOff, chunk, k, i, pos, out, mark, count

shared == <<symbols, trie, trieReady, dpCost, dpChoice>>
call == <<at, batch, size, curOff, chunk, k, i, pos, out, mark, count>>
vars == <<shared, call>>

Escape == 511      \* the code of an escape in a final table
NoCode == -1
Garbage == 10000   \* what new leaves in dpCost and dpChoice

Init ==
  /\ symbols \in Tables
  /\ trie = << >> /\ trieReady = FALSE
  /\ dpCost = [p \in 0..ChunkMax + 8 |-> Garbage]
  /\ dpChoice = [p \in 0..ChunkMax |-> Garbage]
  /\ at = [t \in Thread |-> "line"]
  /\ batch \in [Thread -> Batches] /\ size \in [Thread -> Sizes]
  /\ curOff = [t \in Thread |-> 0] /\ chunk = [t \in Thread |-> << >>]
  /\ k = [t \in Thread |-> 0] /\ i = [t \in Thread |-> 0]
  /\ pos = [t \in Thread |-> 0]
  /\ out = [t \in Thread |-> << >>] /\ mark = [t \in Thread |-> 0]
  /\ count = [t \in Thread |-> -1]

Goto(t, l) == at' = [at EXCEPT ![t] = l]
Line(t) == batch[t][Len(out[t])]
Written(t) == Len(FlattenSeq(out[t]))

-----------------------------------------------------------------------------
(* compressBulkDP: lines and chunks                                        *)

StartLine(t) ==
  /\ at[t] = "line"
  /\ Len(out[t]) < Len(batch[t])
  /\ out' = [out EXCEPT ![t] = Append(@, << >>)]
  /\ curOff' = [curOff EXCEPT ![t] = 0]
  /\ Goto(t, "chunk")
  /\ UNCHANGED <<shared, batch, size, chunk, k, i, pos, mark, count>>

Return(t) ==
  /\ at[t] = "line"
  /\ Len(out[t]) = Len(batch[t])
  /\ count' = [count EXCEPT ![t] = Len(batch[t])]
  /\ Goto(t, "returned")
  /\ UNCHANGED <<shared, batch, size, curOff, chunk, k, i, pos, out, mark>>

Rest(t) == Min({Len(Line(t)) - curOff[t], ChunkMax})
HasRoom(t) == 2 * Rest(t) + 7 <= size[t] - Written(t)

NoRoom(t) ==
  /\ at[t] = "chunk"
  /\ ~HasRoom(t)
  /\ count' = [count EXCEPT ![t] = Len(out[t]) - 1]
  /\ Goto(t, "returned")
  /\ UNCHANGED <<shared, batch, size, curOff, chunk, k, i, pos, out, mark>>

BeginChunk(t) ==
  /\ at[t] = "chunk"
  /\ HasRoom(t)
  /\ chunk' = [chunk EXCEPT ![t] = SubSeq(Line(t), curOff[t] + 1, curOff[t] + Rest(t))]
  /\ mark' = [mark EXCEPT ![t] = Len(out[t][Len(out[t])])]
  /\ Goto(t, "trie")
  /\ UNCHANGED <<shared, batch, size, curOff, k, i, pos, out, count>>

EndChunk(t) ==
  /\ at[t] = "emit"
  /\ pos[t] >= Len(chunk[t])
  /\ IF curOff[t] + Len(chunk[t]) < Len(Line(t))
     THEN /\ curOff' = [curOff EXCEPT ![t] = @ + Len(chunk[t])]
          /\ Goto(t, "chunk")
     ELSE UNCHANGED curOff /\ Goto(t, "line")
  /\ UNCHANGED <<shared, batch, size, chunk, k, i, pos, out, mark, count>>

-----------------------------------------------------------------------------
(* rebuildTrie(), once, by the first call that finds the trie not ready    *)

CheckTrie(t) ==
  /\ at[t] = "trie"
  /\ IF trieReady
     THEN Goto(t, "dp") /\ UNCHANGED <<trie, k>>
     ELSE Goto(t, "insert") /\ trie' = << >> /\ k' = [k EXCEPT ![t] = 1]
  /\ UNCHANGED <<symbols, trieReady, dpCost, dpChoice, batch, size, curOff, chunk,
                 i, pos, out, mark, count>>

PathsTo(s) == {SubSeq(s, 1, n) : n \in 1..Len(s)}

\* single bytes are handled through byteCodes
Inserted(s, code) ==
  IF Len(s) <= 1 THEN trie
  ELSE [p \in DOMAIN trie \cup PathsTo(s) |->
          IF p = s THEN code ELSE IF p \in DOMAIN trie THEN trie[p] ELSE NoCode]

InsertSymbol(t) ==
  /\ at[t] = "insert"
  /\ IF k[t] <= Len(symbols)
     THEN /\ trie' = Inserted(symbols[k[t]], k[t] - 1)
          /\ k' = [k EXCEPT ![t] = @ + 1]
          /\ UNCHANGED <<trieReady, at>>
     ELSE /\ trieReady' = TRUE
          /\ Goto(t, "dp")
          /\ UNCHANGED <<trie, k>>
  /\ UNCHANGED <<symbols, dpCost, dpChoice, batch, size, curOff, chunk,
                 i, pos, out, mark, count>>

-----------------------------------------------------------------------------
(* buildDP()                                                               *)

ZeroCosts(t) ==
  /\ at[t] = "dp"
  /\ dpCost' = [p \in DOMAIN dpCost |->
                  IF p \in Len(chunk[t]) .. Len(chunk[t]) + 7 THEN 0 ELSE dpCost[p]]
  /\ i' = [i EXCEPT ![t] = Len(chunk[t])]
  /\ Goto(t, "cell")
  /\ UNCHANGED <<symbols, trie, trieReady, dpChoice, batch, size, curOff, chunk,
                 k, pos, out, mark, count>>

\* byteCodes[]: the code of a single byte, or the escape
ByteCode(b) ==
  LET codes == {c \in 1..Len(symbols) : symbols[c] = <<b>>}
  IN IF codes = {} THEN Escape ELSE (CHOOSE c \in codes : TRUE) - 1

\* what the walk down the trie from position p finds: the lengths
Matches(text, p) ==
  {n \in 2..Min({MaxLen, Len(text) - p}) :
     LET path == SubSeq(text, p + 1, p + n)
     IN path \in DOMAIN trie /\ trie[path] # NoCode}

\* (mutant) an escape counted as one byte
LiteralCostOne(b) == 1

LiteralCost(b) == IF ByteCode(b) = Escape THEN 2 ELSE 1

Cell(t) ==
  LET p == i[t] - 1
      b == chunk[t][p + 1]
      literal == LiteralCost(b) + dpCost[p + 1]
      matches == Matches(chunk[t], p)
      best == Min({literal} \cup {1 + dpCost[p + n] : n \in matches})
      longest == Max({n \in matches : 1 + dpCost[p + n] = best})
  IN
  /\ at[t] = "cell"
  /\ i[t] > 0
  /\ i' = [i EXCEPT ![t] = p]
  /\ dpCost' = [dpCost EXCEPT ![p] = best]
  /\ dpChoice' = [dpChoice EXCEPT ![p] =
       IF \E n \in matches : 1 + dpCost[p + n] = best   \* cost <= bestCost
       THEN trie[SubSeq(chunk[t], p + 1, p + longest)]
       ELSE ByteCode(b)]
  /\ UNCHANGED <<symbols, trie, trieReady, at, batch, size, curOff, chunk,
                 k, pos, out, mark, count>>

EndCells(t) ==
  /\ at[t] = "cell"
  /\ i[t] = 0
  /\ pos' = [pos EXCEPT ![t] = 0]
  /\ Goto(t, "emit")
  /\ UNCHANGED <<shared, batch, size, curOff, chunk, k, i, out, mark, count>>

\* (mutant) an escape whose code is written and whose byte is not
CodesWithoutByte(t, code) == IF code = Escape THEN <<Esc>> ELSE <<code>>

Codes(t, code) == IF code = Escape THEN <<Esc, chunk[t][pos[t] + 1]>> ELSE <<code>>

Emit(t) ==
  LET code == dpChoice[pos[t]] IN
  /\ at[t] = "emit"
  /\ pos[t] < Len(chunk[t])
  /\ out' = [out EXCEPT ![t][Len(out[t])] = @ \o Codes(t, code)]
  /\ pos' = [pos EXCEPT ![t] = @ + IF code = Escape THEN 1 ELSE Len(symbols[code + 1])]
  /\ UNCHANGED <<shared, at, batch, size, curOff, chunk, k, i, mark, count>>

Step(t) ==
  \/ StartLine(t) \/ Return(t)
  \/ NoRoom(t) \/ BeginChunk(t) \/ EndChunk(t)
  \/ CheckTrie(t) \/ InsertSymbol(t)
  \/ ZeroCosts(t) \/ Cell(t) \/ EndCells(t)
  \/ Emit(t)

Next == \E t \in Thread : Step(t)

Spec == Init /\ [][Next]_vars

-----------------------------------------------------------------------------
(* Properties                                                              *)

\* Every way to cut a text into symbols and escaped bytes has its cost; the
\* least of them, by the first piece.
LeastCost(text) ==
  LET cost[p \in 0..Len(text)] ==
        IF p = Len(text) THEN 0
        ELSE Min({2 + cost[p + 1]} \cup
                 {1 + cost[p + Len(symbols[c])] :
                    c \in {d \in 1..Len(symbols) :
                             /\ p + Len(symbols[d]) <= Len(text)
                             /\ SubSeq(text, p + 1, p + Len(symbols[d])) = symbols[d]}})
  IN cost[0]

\* The codes of a chunk are as few as any parse of it takes, at every point
\* of the output: what is written and the cost of what is left.
IsOptimal ==
  \A t \in Thread : at[t] = "emit" =>
    Len(out[t][Len(out[t])]) - mark[t] + dpCost[pos[t]] = LeastCost(chunk[t])

\* the lines a call has finished
Finished(t) ==
  CASE at[t] = "returned" -> 1..count[t]
    [] at[t] = "line"     -> 1..Len(out[t])
    [] OTHER              -> 1..Len(out[t]) - 1

\* "Create another encoder instance, necessary to do multi-threaded encoding
\* using the same symbol table" (fsst.h): whatever the other calls do, what
\* a call has written for a line stands for the line.
StandsForLine ==
  \A t \in Thread : \A l \in Finished(t) :
    /\ WellFormed(out[t][l])
    /\ Text(Pieces(symbols, out[t][l])) = batch[t][l]

=============================================================================
