---------------------------- MODULE ExpansionMap -----------------------------
(***************************************************************************)
(* The rest of fsst-paper/cw.cpp: class SymbolMap, an index of the symbols *)
(* of SubsetSelect by their first byte; compress(), which cuts a line into *)
(* chunks and finds the cheapest parse of each; and compressGreedy().      *)
(***************************************************************************)
EXTENDS SubsetSelect

CONSTANT ChunkLen   \* 128

VARIABLES
  entries,   \* the symbols of two bytes and more, by first byte, longest first
  table,     \* for each byte, the entries before those that begin with it
  greedy,    \* compiled with GREEDY
  line,      \* the lines that are done
  cur,       \* the bytes of the next line that are done
  code       \* its codes

mapVars == <<entries, table, greedy, line, cur, code>>
mvars == <<vars, mapVars>>

InitMap ==
  /\ InitSelect
  /\ entries = << >> /\ table = << >>
  /\ greedy \in BOOLEAN
  /\ line = 0 /\ cur = 0 /\ code = << >>

-----------------------------------------------------------------------------
(* class SymbolMap                                                         *)

First(e) == Head(e.symbol)

\* addEntry() for every code; the two sorts of buildTable()
SortedEntries ==
  LET coded == [c \in 1..Len(result) |-> [symbol |-> result[c], c |-> c - 1]]
      before(a, b) ==
        \/ First(a) < First(b)
        \/ First(a) = First(b) /\ Len(a.symbol) > Len(b.symbol)
  IN SortSeq(SelectSeq(coded, LAMBDA e : Len(e.symbol) > 1), before)

\* the loop that fills the table as it comes across the first bytes
Table(es) ==
  LET start == [current |-> 0, table |-> [b \in 0..NumCodes |-> 0]]
      fill(acc, i) ==
        LET v == First(es[i + 1]) IN
        IF v = acc.current THEN acc
        ELSE [current |-> v,
              table |-> [b \in 0..NumCodes |->
                           IF b \in acc.current + 1..v THEN i ELSE acc.table[b]]]
      filled == FoldLeft(fill, start, [i \in 1..Len(es) |-> i - 1])
  IN [b \in 0..NumCodes |-> IF b > filled.current THEN Len(es) ELSE filled.table[b]]

BuildTable ==
  /\ phase = "build"
  /\ entries' = SortedEntries
  /\ table' = Table(entries')
  /\ phase' = "encode"
  /\ UNCHANGED <<lines, used, data, suffixes, lcp, index, depth, begins, lists, candidates,
                 modified, result, greedy, line, cur, code>>

\* (mutant) the first entry that fits is enough
LongestOnly(text) ==
  LET slot == table[Head(text)] + 1..table[Head(text) + 1]
      fits == {i \in slot : IsPrefix(entries[i].symbol, text)}
  IN {entries[i] : i \in {j \in fits : \A k \in fits : j <= k}}

\* findExpansions(): what the slot of the first byte has for the text.  (The
\* bytes beyond the text are 0 in the word, and no symbol has a 0.)
Expansions(text) ==
  LET slot == table[Head(text)] + 1..table[Head(text) + 1]
  IN {entries[i] : i \in {j \in slot : IsPrefix(entries[j].symbol, text)}}

\* findExpansion(): the first of them is the longest; or the byte itself
Expansion(text) ==
  IF Expansions(text) = {} THEN [symbol |-> <<Head(text)>>, c |-> Head(text)]
  ELSE CHOOSE e \in Expansions(text) :
         \A f \in Expansions(text) : Len(f.symbol) <= Len(e.symbol)

-----------------------------------------------------------------------------
(* compress128: the cheapest way to every position, forward                *)

Single(b) == [symbol |-> <<b>>, c |-> b]

DPTable(text) ==
  LET start == [p \in 0..Len(text) |->
                  IF p = 0 THEN [cost |-> 0, prev |-> 0, c |-> 0]
                  ELSE [cost |-> Len(text) + 1, prev |-> 0, c |-> 0]]
      \* a single byte wins against what costs as much, a symbol does not
      improve(dp, p, e) ==
        LET to == p + Len(e.symbol)
            better == IF Len(e.symbol) = 1 THEN dp[p].cost + 1 <= dp[to].cost
                      ELSE dp[p].cost + 1 < dp[to].cost
        IN IF better THEN [dp EXCEPT ![to] = [cost |-> dp[p].cost + 1, prev |-> p, c |-> e.c]]
           ELSE dp
      advance(dp, p) ==
        LET rest == SubSeq(text, p + 1, Len(text))
            one == improve(dp, p, Single(text[p + 1]))
        IN FoldSet(LAMBDA e, d : improve(d, p, e), one, Expansions(rest))
  IN FoldLeft(advance, start, [i \in 1..Len(text) |-> i - 1])

\* the way back
Compress128(text) ==
  LET dp == DPTable(text)
      to[p \in 0..Len(text)] == IF p = 0 THEN << >> ELSE Append(to[dp[p].prev], dp[p].c)
  IN to[Len(text)]

Line == lines[line + 1]
Chunk == SubSeq(Line, cur + 1, Min({cur + ChunkLen, Len(Line)}))

\* compress(): chunk by chunk
CompressChunk ==
  /\ phase = "encode" /\ line < Len(lines) /\ cur < Len(Line) /\ ~greedy
  /\ code' = code \o Compress128(Chunk)
  /\ cur' = cur + Len(Chunk)
  /\ UNCHANGED <<vars, entries, table, greedy, line>>

\* compressGreedy(): symbol by symbol, across the whole line
CompressGreedy ==
  /\ phase = "encode" /\ line < Len(lines) /\ cur < Len(Line) /\ greedy
  /\ LET e == Expansion(SubSeq(Line, cur + 1, Len(Line))) IN
       /\ code' = Append(code, e.c)
       /\ cur' = cur + Len(e.symbol)
  /\ UNCHANGED <<vars, entries, table, greedy, line>>

NextLine ==
  /\ phase = "encode" /\ line < Len(lines) /\ cur = Len(Line)
  /\ line' = line + 1 /\ cur' = 0 /\ code' = << >>
  /\ UNCHANGED <<vars, entries, table, greedy>>

\* decompress(): code 0 stands for the byte 0, which has no length
Decompress(codes) ==
  FlattenSeq([i \in 1..Len(codes) |->
    LET symbol == result[codes[i] + 1] IN IF symbol = <<0>> THEN << >> ELSE symbol])

NextMap ==
  \/ NextSelect /\ UNCHANGED mapVars
  \/ BuildTable \/ CompressChunk \/ CompressGreedy \/ NextLine

-----------------------------------------------------------------------------
(* Properties                                                              *)

\* the least number of pieces, bytes or symbols, that text can be cut into
FewestPieces(text) ==
  LET ends(p) == {p + 1} \cup {p + Len(s) : s \in
                   {t \in Range(result) : IsPrefix(t, SubSeq(text, p + 1, Len(text)))}}
      reach[n \in 0..Len(text)] ==
        IF n = 0 THEN {0} ELSE UNION {ends(p) : p \in reach[n - 1]} \cap (0..Len(text))
  IN Min({n \in 0..Len(text) : Len(text) \in reach[n]})

\* A line comes back from its codes, whichever way it was encoded, since no
\* byte of the text lost its code to a symbol; and every chunk has as few
\* codes as any way to cut it up has, which the index by first bytes, the
\* ties of the DP and the bound of its first cost could spoil.
ShortestCover ==
  phase = "encode" /\ line < Len(lines) =>
    /\ Decompress(code) = SubSeq(Line, 1, cur)
    /\ ~greedy =>
         LET begin(k) == ChunkLen * (k - 1) + 1
             pieces == [k \in 1..(cur + ChunkLen - 1) \div ChunkLen |->
                          FewestPieces(SubSeq(Line, begin(k), Min({begin(k) + ChunkLen - 1, Len(Line)})))]
         IN Len(code) = FoldLeft(LAMBDA a, b : a + b, 0, pieces)

=============================================================================
