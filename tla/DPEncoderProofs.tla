--------------------------- MODULE DPEncoderProofs ---------------------------
(***************************************************************************)
(* Proofs about DPEncoder for every table, all lines and sizes, and one    *)
(* call at a time: its codes stand for the lines, and no parse of a chunk  *)
(* into symbols and escaped bytes takes fewer.  Two calls at once on a     *)
(* shared table do not have this: see the run of MCSharedEncoder.          *)
(***************************************************************************)
EXTENDS DPEncoder, DataLemmas

\* no second call runs
OneCall == \A s, t \in Thread : s = t

-----------------------------------------------------------------------------
(* The trie                                                                *)

\* what the provers need of a final table
GoodTable(table) ==
  /\ table \in Seq(Seq(Nat)) /\ Len(table) \in 0..Esc
  /\ \A c \in 1..Len(table) : Len(table[c]) \in 1..MaxLen /\ table[c] \in Seq(Nat)

LEMMA TablesAreGood == \A table \in Tables : GoodTable(table)
<1> SUFFICES ASSUME NEW table \in Tables PROVE GoodTable(table)
  OBVIOUS
<1>1. /\ table \in Seq(Seq(Nat)) /\ Len(table) <= Esc
      /\ \A c \in 1..Len(table) : Len(table[c]) \in 1..MaxLen
  BY DPAssumption
<1>2. Len(table) \in 0..Esc
  <2> DEFINE n == Len(table)
  <2>1. n \in Nat /\ n <= Esc
    BY <1>1
  <2> HIDE DEF n
  <2>2. n \in 0..Esc
    BY <2>1 DEF Esc
  <2> QED BY <2>2 DEF n
<1> QED BY <1>1, <1>2 DEF GoodTable

\* The trie knows the first m symbols, those of several bytes: every code in
\* it is that of its path, and each of them is in it.
TrieKnows(m) ==
  /\ \A p \in DOMAIN trie : trie[p] # NoCode =>
       /\ trie[p] \in 0..m - 1 /\ symbols[trie[p] + 1] = p /\ Len(p) > 1
  /\ \A c \in 1..m : Len(symbols[c]) > 1 =>
       symbols[c] \in DOMAIN trie /\ trie[symbols[c]] # NoCode

LEMMA EmptyTrie == trie = << >> => TrieKnows(0)
<1> SUFFICES ASSUME trie = << >> PROVE TrieKnows(0)
  OBVIOUS
<1>1. \A p : p \notin DOMAIN trie
  OBVIOUS
<1>2. \A c \in 1..0 : FALSE
  OBVIOUS
<1> QED BY <1>1, <1>2 DEF TrieKnows

LEMMA TrieGrows ==
  ASSUME GoodTable(symbols), NEW c \in 1..Len(symbols), TrieKnows(c - 1),
         trie' = Inserted(symbols[c], c - 1), symbols' = symbols
  PROVE  TrieKnows(c)'
<1> DEFINE s == symbols[c]
           D == DOMAIN trie \cup PathsTo(s)
<1>0. c \in Nat /\ c >= 1 /\ s \in Seq(Nat) /\ Len(s) \in Nat /\ Len(s) >= 1 /\ c - 1 \in Nat
  BY DPAssumption DEF GoodTable
<1>1. CASE Len(s) <= 1
  <2>1. trie' = trie
    BY <1>1 DEF Inserted
  <2>2. \A d \in 1..c : d \in 1..c - 1 \/ (d = c /\ ~(Len(symbols[d]) > 1))
    BY <1>0, <1>1
  <2>3. \A x \in 0..(c - 1) - 1 : x \in 0..c - 1
    BY <1>0
  <2> QED BY <2>1, <2>2, <2>3 DEF TrieKnows
<1>2. CASE ~(Len(s) <= 1)
  <2>1. trie' = [p \in D |-> IF p = s THEN c - 1 ELSE IF p \in DOMAIN trie THEN trie[p] ELSE NoCode]
    BY <1>2 DEF Inserted
  <2>2. s \in D
    <3>1. SubSeq(s, 1, Len(s)) = s
      BY <1>0
    <3>2. Len(s) \in 1..Len(s)
      BY <1>0
    <3> QED BY <3>1, <3>2 DEF PathsTo
  <2> HIDE DEF D
  <2>3. DOMAIN trie' = D /\ \A p \in D : trie'[p] = IF p = s THEN c - 1 ELSE IF p \in DOMAIN trie THEN trie[p] ELSE NoCode
    BY <2>1
  <2>4. ASSUME NEW p \in D, trie'[p] # NoCode
        PROVE  trie'[p] \in 0..c - 1 /\ symbols[trie'[p] + 1] = p /\ Len(p) > 1
    <3>1. CASE p = s
      <4>1. trie'[p] = c - 1
        BY <2>3, <3>1
      <4>2. (c - 1) + 1 = c /\ c - 1 \in 0..c - 1
        BY <1>0
      <4> QED BY <1>0, <1>2, <3>1, <4>1, <4>2
    <3>2. CASE p # s
      <4>1. p \in DOMAIN trie /\ trie'[p] = trie[p] /\ trie[p] # NoCode
        BY <2>3, <2>4, <3>2
      <4>2. trie[p] \in 0..(c - 1) - 1 /\ symbols[trie[p] + 1] = p /\ Len(p) > 1
        BY <4>1 DEF TrieKnows
      <4>3. trie[p] \in 0..c - 1
        BY <1>0, <4>2
      <4> QED BY <4>1, <4>2, <4>3
    <3> QED BY <3>1, <3>2
  <2>5. ASSUME NEW d \in 1..c, Len(symbols[d]) > 1
        PROVE  symbols[d] \in D /\ trie'[symbols[d]] # NoCode
    <3>0. c - 1 # NoCode
      BY <1>0 DEF NoCode
    <3>1. CASE symbols[d] = s
      BY <2>2, <2>3, <3>0, <3>1
    <3>2. CASE symbols[d] # s
      <4>1. d \in 1..c - 1
        BY <1>0, <3>2
      <4>2. symbols[d] \in DOMAIN trie /\ trie[symbols[d]] # NoCode
        BY <2>5, <4>1 DEF TrieKnows
      <4>3. symbols[d] \in D
        BY <4>2 DEF D
      <4> QED BY <2>3, <3>2, <4>2, <4>3
    <3> QED BY <3>1, <3>2
  <2> QED BY <2>3, <2>4, <2>5 DEF TrieKnows
<1> QED BY <1>1, <1>2

\* byteCodes[] has the code of every symbol of one byte.
LEMMA ByteCodeFacts ==
  ASSUME GoodTable(symbols), NEW b
  PROVE  \/ ByteCode(b) = Escape /\ \A c \in 1..Len(symbols) : symbols[c] # <<b>>
         \/ /\ ByteCode(b) \in 0..Len(symbols) - 1 /\ ByteCode(b) # Escape
            /\ symbols[ByteCode(b) + 1] = <<b>>
<1> DEFINE codes == {c \in 1..Len(symbols) : symbols[c] = <<b>>}
           c == CHOOSE x \in codes : TRUE
<1>1. CASE codes = {}
  <2>1. ByteCode(b) = Escape
    BY <1>1 DEF ByteCode
  <2> QED BY <1>1, <2>1
<1>2. CASE codes # {}
  <2>1. ByteCode(b) = c - 1
    BY <1>2 DEF ByteCode
  <2>2. c \in codes
    BY <1>2
  <2>3. c \in 1..Len(symbols) /\ symbols[c] = <<b>>
    BY <2>2
  <2> HIDE DEF c, codes
  <2> DEFINE n == Len(symbols)
  <2>4. n \in 0..Esc /\ c \in 1..n
    BY <2>3 DEF GoodTable
  <2> HIDE DEF n
  <2>5. c - 1 \in 0..n - 1 /\ (c - 1) + 1 = c /\ c - 1 # Escape
    BY <2>4 DEF Esc, Escape
  <2> QED BY <2>1, <2>3, <2>5 DEF n
<1> QED BY <1>1, <1>2

-----------------------------------------------------------------------------
(* The least cost                                                          *)

\* the symbols that the text continues with at p
Options(text, p) ==
  {d \in 1..Len(symbols) : /\ p + Len(symbols[d]) <= Len(text)
                           /\ SubSeq(text, p + 1, p + Len(symbols[d])) = symbols[d]}

\* the recursion of LeastCost
Costs(f, text) ==
  f = [p \in 0..Len(text) |->
        IF p = Len(text) THEN 0
        ELSE Min({2 + f[p + 1]} \cup {1 + f[p + Len(symbols[c])] : c \in Options(text, p)})]

LEMMA CostsExist ==
  ASSUME GoodTable(symbols), NEW text \in Seq(Nat)
  PROVE  \E f : Costs(f, text) /\ LeastCost(text) = f[0]
<1> DEFINE N == Len(text)
           Dom(m) == {p \in 0..N : p + m >= N}
           Body(f, p) == IF p = N THEN 0
                         ELSE Min({2 + f[p + 1]} \cup {1 + f[p + Len(symbols[c])] : c \in Options(text, p)})
           P == {m \in Nat : \E f : f = [p \in Dom(m) |-> Body(f, p)]}
<1>0. N \in Nat
  OBVIOUS
<1>1. ASSUME NEW p \in 0..N, p # N, NEW c \in Options(text, p)
      PROVE  p + Len(symbols[c]) \in 0..N /\ p + Len(symbols[c]) > p
  <2> DEFINE n == Len(symbols[c])
  <2>1. n \in 1..MaxLen /\ p + n <= N
    BY DEF GoodTable, Options
  <2> HIDE DEF n, N
  <2>2. p + n \in 0..N /\ p + n > p
    BY <1>0, <2>1
  <2> QED BY <2>2 DEF n
<1> HIDE DEF N
<1>2. 0 \in P
  <2> DEFINE f == [p \in Dom(0) |-> 0]
  <2>1. \A p \in Dom(0) : p = N
    BY <1>0
  <2>2. f = [p \in Dom(0) |-> Body(f, p)]
    BY <2>1
  <2> QED BY <2>2
<1>3. ASSUME NEW m \in Nat, m \in P PROVE m + 1 \in P
  <2>1. PICK f : f = [p \in Dom(m) |-> Body(f, p)]
    BY <1>3
  <2> DEFINE h == [p \in Dom(m + 1) |-> IF p \in Dom(m) THEN f[p] ELSE Body(f, p)]
  <2>2. \A p \in Dom(m) : p \in Dom(m + 1) /\ f[p] = Body(f, p)
    <3>1. \A p \in Dom(m) : p \in Dom(m + 1)
      BY <1>0
    <3>2. \A p \in Dom(m) : f[p] = Body(f, p)
      <4> DEFINE g == [p \in Dom(m) |-> Body(f, p)]
      <4>1. \A p \in Dom(m) : g[p] = Body(f, p)
        OBVIOUS
      <4>2. f = g
        BY <2>1
      <4> HIDE DEF g
      <4> QED BY <4>1, <4>2
    <3> QED BY <3>1, <3>2
  <2>3. \A p \in Dom(m + 1) : h[p] = Body(f, p)
    BY <2>2
  <2>4. \A p \in Dom(m) : h[p] = f[p]
    BY <2>2
  <2>5. ASSUME NEW p \in Dom(m + 1) PROVE Body(h, p) = Body(f, p)
    <3>1. CASE p = N
      BY <3>1
    <3>2. CASE p # N
      <4>1. p + 1 \in Dom(m)
        BY <1>0, <3>2
      <4>2. \A c \in Options(text, p) : p + Len(symbols[c]) \in Dom(m)
        <5> TAKE c \in Options(text, p)
        <5> DEFINE n == p + Len(symbols[c])
        <5>1. n \in 0..N /\ n > p
          BY <1>1, <3>2
        <5> HIDE DEF n
        <5>2. n \in Dom(m)
          BY <1>0, <5>1
        <5> QED BY <5>2 DEF n
      <4>3. h[p + 1] = f[p + 1] /\ \A c \in Options(text, p) : h[p + Len(symbols[c])] = f[p + Len(symbols[c])]
        BY <2>4, <4>1, <4>2
      <4> HIDE DEF h, Dom
      <4>4. {1 + h[p + Len(symbols[c])] : c \in Options(text, p)} = {1 + f[p + Len(symbols[c])] : c \in Options(text, p)}
        BY <4>3
      <4> QED BY <4>3, <4>4
    <3> QED BY <3>1, <3>2
  <2>6. h = [p \in Dom(m + 1) |-> Body(h, p)]
    <3>1. \A p \in Dom(m + 1) : h[p] = Body(h, p)
      BY <2>3, <2>5
    <3>2. h = [p \in Dom(m + 1) |-> h[p]]
      OBVIOUS
    <3> HIDE DEF h, Dom, Body
    <3> QED BY <3>1, <3>2
  <2> HIDE DEF h, Dom, Body
  <2>7. \E g : g = [p \in Dom(m + 1) |-> Body(g, p)]
    BY <2>6
  <2> QED BY <2>7
<1>4. N \in P
  <2> HIDE DEF P
  <2>1. Nat \subseteq P
    BY <1>2, <1>3, Induction
  <2> QED BY <1>0, <2>1
<1>5. Dom(N) = 0..N
  BY <1>0
<1>6. \E f : f = [p \in 0..N |-> Body(f, p)]
  <2>1. \E f : f = [p \in Dom(N) |-> Body(f, p)]
    BY <1>4
  <2> HIDE DEF Dom, Body
  <2> QED BY <1>5, <2>1
<1>7. \E f : Costs(f, text)
  BY <1>6 DEF Costs, N
<1> DEFINE F == CHOOSE f : Costs(f, text)
<1>8. Costs(F, text)
  BY <1>7
<1>9. LeastCost(text) = F[0]
  BY DEF LeastCost, Costs, Options
<1> QED BY <1>8, <1>9

LEMMA CostAt ==
  ASSUME NEW text \in Seq(Nat), NEW f, Costs(f, text)
  PROVE  /\ f[Len(text)] = 0
         /\ \A p \in 0..Len(text) - 1 :
              f[p] = Min({2 + f[p + 1]} \cup {1 + f[p + Len(symbols[c])] : c \in Options(text, p)})
<1> DEFINE N == Len(text)
           h == [p \in 0..N |->
                  IF p = N THEN 0
                  ELSE Min({2 + f[p + 1]} \cup {1 + f[p + Len(symbols[c])] : c \in Options(text, p)})]
<1>1. f = h
  BY DEF Costs
<1>2. N \in Nat
  OBVIOUS
<1>3. h[N] = 0 /\ \A p \in 0..N - 1 :
        h[p] = Min({2 + f[p + 1]} \cup {1 + f[p + Len(symbols[c])] : c \in Options(text, p)})
  <2> HIDE DEF N
  <2>1. N \in 0..N /\ \A p \in 0..N - 1 : p \in 0..N /\ p # N
    BY <1>2
  <2> QED BY <2>1
<1> HIDE DEF h
<1> QED BY <1>1, <1>3

-----------------------------------------------------------------------------
(* One position of buildDP()                                               *)

\* What a walk down the trie finds are the symbols of several bytes ...
LEMMA MatchIsOption ==
  ASSUME GoodTable(symbols), TrieKnows(Len(symbols)), NEW text \in Seq(Nat),
         NEW p \in 0..Len(text) - 1, NEW n \in Matches(text, p)
  PROVE  LET code == trie[SubSeq(text, p + 1, p + n)] IN
         /\ code \in 0..Len(symbols) - 1 /\ code + 1 \in Options(text, p)
         /\ Len(symbols[code + 1]) = n
         /\ n \in 1..MaxLen /\ p + n <= Len(text)
<1> DEFINE N == Len(text)
           path == SubSeq(text, p + 1, p + n)
           code == trie[path]
<1>0. N \in Nat /\ p \in 0..N - 1 /\ MaxLen \in Nat
  BY DPAssumption
<1>1. n \in 2..Min({MaxLen, N - p}) /\ path \in DOMAIN trie /\ code # NoCode
  BY DEF Matches
<1>2. n \in 1..MaxLen /\ p + n <= N
  <2> HIDE DEF N
  <2>1. Min({MaxLen, N - p}) = IF MaxLen <= N - p THEN MaxLen ELSE N - p
    BY <1>0, LesserOfTwo
  <2> QED BY <1>0, <1>1, <2>1
<1>3. code \in 0..Len(symbols) - 1 /\ symbols[code + 1] = path
  BY <1>1 DEF TrieKnows
<1>4. Len(path) = n
  <2>1. p \in Nat /\ n \in Nat /\ p + n <= Len(text)
    BY <1>0, <1>2
  <2> QED BY <2>1, Slice
<1>5. Len(symbols) \in Nat
  BY DEF GoodTable
<1>6. code + 1 \in 1..Len(symbols)
  <2> DEFINE m == Len(symbols)
  <2>1. m \in Nat /\ code \in 0..m - 1
    BY <1>3, <1>5
  <2> HIDE DEF m, code
  <2>2. code + 1 \in 1..m
    BY <2>1
  <2> QED BY <2>2 DEF m
<1>7. code + 1 \in Options(text, p)
  BY <1>2, <1>3, <1>4, <1>6 DEF Options
<1> QED BY <1>2, <1>3, <1>4, <1>7

\* ... that the text continues with.
LEMMA OptionIsMatch ==
  ASSUME GoodTable(symbols), TrieKnows(Len(symbols)), NEW text \in Seq(Nat),
         NEW p \in 0..Len(text) - 1, NEW c \in Options(text, p)
  PROVE  /\ Len(symbols[c]) > 1 => Len(symbols[c]) \in Matches(text, p)
         /\ Len(symbols[c]) = 1 => symbols[c] = <<text[p + 1]>>
         /\ Len(symbols[c]) \in 1..MaxLen /\ p + Len(symbols[c]) <= Len(text)
<1> DEFINE N == Len(text)
           n == Len(symbols[c])
           path == SubSeq(text, p + 1, p + n)
<1>0. N \in Nat /\ p \in 0..N - 1 /\ MaxLen \in Nat
  BY DPAssumption
<1>1. c \in 1..Len(symbols) /\ p + n <= N /\ path = symbols[c]
  BY DEF Options
<1>2. n \in 1..MaxLen
  BY <1>1 DEF GoodTable
<1>3. ASSUME n > 1 PROVE n \in Matches(text, p)
  <2>1. path \in DOMAIN trie /\ trie[path] # NoCode
    BY <1>1, <1>3 DEF TrieKnows
  <2>2. n \in 2..Min({MaxLen, N - p})
    <3> HIDE DEF N, n
    <3>1. Min({MaxLen, N - p}) = IF MaxLen <= N - p THEN MaxLen ELSE N - p
      BY <1>0, LesserOfTwo
    <3> QED BY <1>0, <1>1, <1>2, <1>3, <3>1
  <2> HIDE DEF n
  <2> QED BY <2>1, <2>2 DEF Matches
<1>4. ASSUME n = 1 PROVE symbols[c] = <<text[p + 1]>>
  <2>1. path = SubSeq(text, p + 1, p + 1)
    BY <1>4
  <2>2. SubSeq(text, p + 1, p + 1) = <<text[p + 1]>>
    <3>1. p \in Nat /\ p + 1 <= Len(text)
      BY <1>0
    <3> QED BY <3>1, OneElement
  <2> QED BY <1>1, <2>1, <2>2
<1> QED BY <1>1, <1>2, <1>3, <1>4

LiteralAt(text, p) == LiteralCost(text[p + 1]) + dpCost[p + 1]

\* bestCost
BestAt(text, p) ==
  Min({LiteralAt(text, p)} \cup {1 + dpCost[p + n] : n \in Matches(text, p)})

\* dpChoice[p]
ChosenAt(text, p) ==
  IF \E n \in Matches(text, p) : 1 + dpCost[p + n] = BestAt(text, p)
  THEN trie[SubSeq(text, p + 1,
                   p + Max({n \in Matches(text, p) : 1 + dpCost[p + n] = BestAt(text, p)}))]
  ELSE ByteCode(text[p + 1])

\* the code stands for the next bytes of the text, and attains the cost
Attains(code, cost, costs, text, p) ==
  \/ code = Escape /\ cost = 2 + costs[p + 1]
  \/ /\ code \in 0..Len(symbols) - 1 /\ code # Escape
     /\ code + 1 \in Options(text, p)
     /\ cost = 1 + costs[p + Len(symbols[code + 1])]

\* the costs of all the ways to go on, by the definition of LeastCost
WaysAt(costs, text, p) ==
  {2 + costs[p + 1]} \cup {1 + costs[p + Len(symbols[c])] : c \in Options(text, p)}

LEMMA LiteralFacts ==
  ASSUME GoodTable(symbols), NEW text \in Seq(Nat), NEW p \in 0..Len(text) - 1,
         NEW d \in Nat, d = dpCost[p + 1]
  PROVE  /\ LiteralAt(text, p) \in {1 + d, 2 + d}
         /\ Attains(ByteCode(text[p + 1]), LiteralAt(text, p), dpCost, text, p)
         /\ (\E c \in 1..Len(symbols) : symbols[c] = <<text[p + 1]>>) => LiteralAt(text, p) = 1 + d
<1> DEFINE b == text[p + 1]
           code == ByteCode(b)
           N == Len(text)
<1>0. N \in Nat /\ p \in 0..N - 1
  OBVIOUS
<1>1. LiteralAt(text, p) = (IF code = Escape THEN 2 ELSE 1) + d
  BY DEF LiteralAt, LiteralCost
<1>2. CASE code = Escape /\ \A c \in 1..Len(symbols) : symbols[c] # <<b>>
  <2>1. LiteralAt(text, p) = 2 + d
    BY <1>1, <1>2
  <2> HIDE DEF code
  <2> QED BY <1>2, <2>1 DEF Attains, code
<1>3. CASE code \in 0..Len(symbols) - 1 /\ code # Escape /\ symbols[code + 1] = <<b>>
  <2>1. LiteralAt(text, p) = 1 + d
    BY <1>1, <1>3
  <2>2. Len(symbols[code + 1]) = 1
    BY <1>3
  <2>3. code + 1 \in 1..Len(symbols)
    <3> DEFINE m == Len(symbols)
    <3>1. m \in Nat /\ code \in 0..m - 1
      BY <1>3 DEF GoodTable
    <3> HIDE DEF m, code
    <3>2. code + 1 \in 1..m
      BY <3>1
    <3> QED BY <3>2 DEF m
  <2>4. SubSeq(text, p + 1, p + 1) = <<b>> /\ p + 1 <= Len(text)
    <3>1. p \in Nat /\ p + 1 <= Len(text)
      BY <1>0
    <3> QED BY <3>1, OneElement
  <2> HIDE DEF code, b
  <2>5. code + 1 \in Options(text, p)
    BY <1>3, <2>2, <2>3, <2>4 DEF Options
  <2>6. Attains(code, LiteralAt(text, p), dpCost, text, p)
    BY <1>3, <2>1, <2>2, <2>5 DEF Attains
  <2> QED BY <2>1, <2>6 DEF code, b
<1> QED BY <1>2, <1>3, ByteCodeFacts

\* What is computed from the trie and byteCodes[] is the least cost, and the
\* choice attains it.
LEMMA BestIsLeast ==
  ASSUME GoodTable(symbols), TrieKnows(Len(symbols)), NEW text \in Seq(Nat),
         NEW p \in 0..Len(text) - 1, \A q \in p + 1..Len(text) : dpCost[q] \in Nat
  PROVE  /\ BestAt(text, p) = Min(WaysAt(dpCost, text, p))
         /\ BestAt(text, p) \in Nat
         /\ Attains(ChosenAt(text, p), BestAt(text, p), dpCost, text, p)
<1> DEFINE N == Len(text)
           M == Matches(text, p)
           O == Options(text, p)
           d == dpCost[p + 1]
           literal == LiteralAt(text, p)
           A == {literal} \cup {1 + dpCost[p + n] : n \in M}
           W == WaysAt(dpCost, text, p)
           best == BestAt(text, p)
<1>0. N \in Nat /\ p \in 0..N - 1 /\ p \in Nat
  OBVIOUS
<1>1. d \in Nat
  <2>1. p + 1 \in p + 1..N
    BY <1>0
  <2> QED BY <2>1
<1>2. /\ literal \in {1 + d, 2 + d}
      /\ Attains(ByteCode(text[p + 1]), literal, dpCost, text, p)
      /\ (\E c \in 1..Len(symbols) : symbols[c] = <<text[p + 1]>>) => literal = 1 + d
  BY <1>1, LiteralFacts
<1>3. ASSUME NEW n \in M
      PROVE  LET code == trie[SubSeq(text, p + 1, p + n)] IN
             /\ code \in 0..Len(symbols) - 1 /\ code + 1 \in O
             /\ Len(symbols[code + 1]) = n
             /\ n \in 1..MaxLen /\ p + n <= N
  BY MatchIsOption
<1>4. ASSUME NEW c \in O
      PROVE  /\ Len(symbols[c]) > 1 => Len(symbols[c]) \in M
             /\ Len(symbols[c]) = 1 => symbols[c] = <<text[p + 1]>>
             /\ Len(symbols[c]) \in 1..MaxLen /\ p + Len(symbols[c]) <= N
             /\ c \in 1..Len(symbols)
  <2>1. c \in 1..Len(symbols)
    BY DEF Options
  <2> QED BY <2>1, OptionIsMatch
<1>5. \A n \in M : n \in 1..MaxLen /\ p + n <= N /\ dpCost[p + n] \in Nat
  <2> TAKE n \in M
  <2>1. n \in 1..MaxLen /\ p + n <= N
    BY <1>3
  <2> HIDE DEF M, N
  <2>2. p + n \in p + 1..N
    BY <1>0, <2>1, DPAssumption
  <2> QED BY <2>1, <2>2 DEF N
<1>6. \A c \in O : dpCost[p + Len(symbols[c])] \in Nat
  <2> TAKE c \in O
  <2> DEFINE n == Len(symbols[c])
  <2>1. n \in 1..MaxLen /\ p + n <= N
    BY <1>4
  <2> HIDE DEF n, N
  <2>2. p + n \in p + 1..N
    BY <1>0, <2>1, DPAssumption
  <2> QED BY <2>2 DEF n, N
<1>7. A \subseteq Nat /\ W \subseteq Nat /\ literal \in A /\ literal \in Nat
  <2>1. literal \in Nat
    <3> HIDE DEF literal
    <3> QED BY <1>1, <1>2
  <2> HIDE DEF M, O, literal
  <2> QED BY <1>1, <1>5, <1>6, <2>1 DEF WaysAt, O
<1>8. \A x \in A : x \in W
  <2>1. \A n \in M : 1 + dpCost[p + n] \in W
    <3> TAKE n \in M
    <3> DEFINE c == trie[SubSeq(text, p + 1, p + n)] + 1
    <3>1. c \in O /\ Len(symbols[c]) = n
      BY <1>3
    <3> HIDE DEF c
    <3> QED BY <3>1 DEF WaysAt
  <2>2. literal \in W
    <3>1. CASE literal = 2 + dpCost[p + 1]
      BY <3>1 DEF WaysAt
    <3>2. CASE literal # 2 + dpCost[p + 1]
      <4> DEFINE c == ByteCode(text[p + 1]) + 1
      <4>1. c \in O /\ literal = 1 + dpCost[p + Len(symbols[c])]
        BY <1>2, <3>2 DEF Attains
      <4> HIDE DEF c, literal
      <4> QED BY <4>1 DEF WaysAt
    <3> QED BY <3>1, <3>2
  <2> HIDE DEF literal, W, M
  <2> QED BY <2>1, <2>2
<1>9. \A x \in W : \E y \in A : y <= x
  <2>1. \E y \in A : y <= 2 + d
    <3>1. literal <= 2 + d
      <4> HIDE DEF literal, d
      <4> QED BY <1>1, <1>2
    <3> HIDE DEF A
    <3> QED BY <1>7, <3>1
  <2>2. \A c \in O : \E y \in A : y <= 1 + dpCost[p + Len(symbols[c])]
    <3> TAKE c \in O
    <3> DEFINE n == Len(symbols[c])
    <3>1. CASE n > 1
      <4>1. n \in M
        BY <1>4, <3>1
      <4> HIDE DEF M, n
      <4>2. 1 + dpCost[p + n] \in A
        BY <4>1
      <4>3. dpCost[p + n] \in Nat
        BY <1>5, <4>1
      <4>4. 1 + dpCost[p + n] <= 1 + dpCost[p + n]
        BY <4>3
      <4> QED BY <4>2, <4>4 DEF n
    <3>2. CASE ~(n > 1)
      <4>1. n = 1
        <5>1. n \in 1..MaxLen
          BY <1>4
        <5> HIDE DEF n
        <5> QED BY <3>2, <5>1, DPAssumption
      <4>2. symbols[c] = <<text[p + 1]>> /\ c \in 1..Len(symbols)
        BY <1>4, <4>1
      <4>3. literal = 1 + d
        BY <1>2, <4>2
      <4>4. 1 + dpCost[p + n] = 1 + d
        <5> HIDE DEF n
        <5> QED BY <4>1
      <4> HIDE DEF literal, A, d, n
      <4>5. literal <= 1 + dpCost[p + n]
        BY <1>1, <4>3, <4>4
      <4> QED BY <1>7, <4>5 DEF n
    <3> QED BY <3>1, <3>2
  <2> HIDE DEF A
  <2> QED BY <2>1, <2>2 DEF WaysAt
<1>10. best \in A /\ \A x \in A : best <= x
  <2>1. best = Min(A)
    BY DEF BestAt
  <2>2. A # {}
    BY <1>7
  <2> HIDE DEF A, best
  <2>3. \E x \in A : \A y \in A : x <= y
    BY <1>7, <2>2, LeastNatural
  <2> QED BY <2>1, <2>3 DEF Min
<1>11. best \in Nat
  <2> HIDE DEF A, best
  <2> QED BY <1>7, <1>10
<1>12. best = Min(W)
  <2> HIDE DEF A, W, best
  <2>1. best \in W
    BY <1>8, <1>10
  <2>2. \A x \in W : best <= x
    <3> TAKE x \in W
    <3>1. PICK y \in A : y <= x
      BY <1>9
    <3>2. best <= y /\ y \in Nat /\ x \in Nat
      BY <1>7, <1>10
    <3> QED BY <1>11, <3>1, <3>2
  <2>3. W \in SUBSET Int
    BY <1>7
  <2> QED BY <2>1, <2>2, <2>3, MinIs
<1>13. Attains(ChosenAt(text, p), best, dpCost, text, p)
  <2> DEFINE H == {n \in M : 1 + dpCost[p + n] = best}
  <2>1. CASE \E n \in M : 1 + dpCost[p + n] = best
    <3> DEFINE n == Max(H)
               code == trie[SubSeq(text, p + 1, p + n)]
    <3>1. ChosenAt(text, p) = code
      BY <2>1 DEF ChosenAt
    <3>2. n \in H
      <4>1. H # {}
        BY <2>1
      <4>2. H \in SUBSET (0..MaxLen)
        BY <1>5, DPAssumption
      <4>3. MaxLen \in Nat
        BY DPAssumption
      <4> HIDE DEF H
      <4> QED BY <4>1, <4>2, <4>3, MaxExists
    <3>3. n \in M /\ 1 + dpCost[p + n] = best
      <4> HIDE DEF M, best
      <4> QED BY <3>2
    <3> HIDE DEF n
    <3>4. /\ code \in 0..Len(symbols) - 1 /\ code + 1 \in O
          /\ Len(symbols[code + 1]) = n
      BY <1>3, <3>3
    <3>5. code # Escape
      <4> DEFINE m == Len(symbols)
      <4>1. m \in 0..Esc /\ code \in 0..m - 1
        BY <3>4 DEF GoodTable
      <4> HIDE DEF m, code
      <4> QED BY <4>1 DEF Esc, Escape
    <3> HIDE DEF code, best
    <3> QED BY <3>1, <3>3, <3>4, <3>5 DEF Attains
  <2>2. CASE ~(\E n \in M : 1 + dpCost[p + n] = best)
    <3>1. ChosenAt(text, p) = ByteCode(text[p + 1])
      BY <2>2 DEF ChosenAt
    <3>2. best = literal
      <4> HIDE DEF best, literal, M
      <4> QED BY <1>10, <2>2
    <3> HIDE DEF best, literal
    <3> QED BY <1>2, <3>1, <3>2 DEF literal
  <2> QED BY <2>1, <2>2
<1> QED BY <1>11, <1>12, <1>13

-----------------------------------------------------------------------------
(* The costs of a chunk                                                    *)

\* From n on, the costs are those of the recursion, and the choices attain
\* them.
Settled(costs, choices, text, n) ==
  \A f : Costs(f, text) =>
    \A p \in n..Len(text) :
      /\ costs[p] = f[p]
      /\ p < Len(text) => Attains(choices[p], costs[p], costs, text, p)

\* Costs below p do not matter to the ways on from p.
LEMMA WaysAhead ==
  ASSUME GoodTable(symbols), NEW text \in Seq(Nat), NEW p \in 0..Len(text) - 1, NEW f, NEW g,
         \A q \in p + 1..Len(text) : f[q] = g[q]
  PROVE  /\ WaysAt(f, text, p) = WaysAt(g, text, p)
         /\ \A code, cost : Attains(code, cost, f, text, p) => Attains(code, cost, g, text, p)
<1> DEFINE N == Len(text)
<1>0. N \in Nat /\ p \in 0..N - 1
  OBVIOUS
<1>1. f[p + 1] = g[p + 1]
  <2>1. p + 1 \in p + 1..N
    BY <1>0
  <2> QED BY <2>1
<1>2. \A c \in Options(text, p) : f[p + Len(symbols[c])] = g[p + Len(symbols[c])]
  <2> TAKE c \in Options(text, p)
  <2> DEFINE n == Len(symbols[c])
  <2>1. n \in 1..MaxLen /\ p + n <= N
    BY DEF GoodTable, Options
  <2> HIDE DEF n, N
  <2>2. p + n \in p + 1..N
    BY <1>0, <2>1, DPAssumption
  <2> QED BY <2>2 DEF n, N
<1>3. {1 + f[p + Len(symbols[c])] : c \in Options(text, p)} = {1 + g[p + Len(symbols[c])] : c \in Options(text, p)}
  BY <1>2
<1>4. WaysAt(f, text, p) = WaysAt(g, text, p)
  BY <1>1, <1>3 DEF WaysAt
<1>5. ASSUME NEW code, NEW cost, Attains(code, cost, f, text, p)
      PROVE  Attains(code, cost, g, text, p)
  BY <1>1, <1>2, <1>5 DEF Attains
<1> QED BY <1>4, <1>5

\* At the end of the text nothing is left to pay.
LEMMA SettledAtEnd ==
  ASSUME NEW text \in Seq(Nat), NEW costs, NEW choices, costs[Len(text)] = 0
  PROVE  Settled(costs, choices, text, Len(text))
<1> DEFINE N == Len(text)
<1>0. N \in Nat
  OBVIOUS
<1>1. \A p \in N..N : p = N /\ ~(p < N)
  BY <1>0
<1>2. \A f : Costs(f, text) => f[N] = 0
  BY CostAt
<1> QED BY <1>1, <1>2 DEF Settled

\* One step of buildDP() settles one more position.
LEMMA SettledGrows ==
  ASSUME GoodTable(symbols), TrieKnows(Len(symbols)), NEW text \in Seq(Nat), NEW n \in 1..Len(text),
         Settled(dpCost, dpChoice, text, n),
         \A q \in n..Len(text) : dpCost[q] \in Nat,
         NEW costs, NEW choices,
         costs[n - 1] = BestAt(text, n - 1), choices[n - 1] = ChosenAt(text, n - 1),
         \A q \in n..Len(text) : costs[q] = dpCost[q] /\ choices[q] = dpChoice[q]
  PROVE  Settled(costs, choices, text, n - 1)
<1> DEFINE N == Len(text)
           p == n - 1
<1>0. N \in Nat /\ p \in 0..N - 1 /\ p + 1 = n /\ n \in 1..N
  OBVIOUS
<1>1. \A q \in p + 1..N : dpCost[q] \in Nat /\ costs[q] = dpCost[q]
  BY <1>0
<1> HIDE DEF p
<1>2. /\ BestAt(text, p) = Min(WaysAt(dpCost, text, p))
      /\ Attains(ChosenAt(text, p), BestAt(text, p), dpCost, text, p)
  BY <1>0, <1>1, BestIsLeast
<1> SUFFICES ASSUME NEW f, Costs(f, text), NEW q \in p..N
             PROVE  /\ costs[q] = f[q]
                    /\ q < N => Attains(choices[q], costs[q], costs, text, q)
  BY <1>0 DEF Settled, p
<1>3. \A r \in n..N : /\ dpCost[r] = f[r]
                      /\ r < N => Attains(dpChoice[r], dpCost[r], dpCost, text, r)
  BY DEF Settled
<1>4. CASE q = p
  <2>1. \A r \in p + 1..N : dpCost[r] = f[r] /\ dpCost[r] = costs[r]
    BY <1>0, <1>1, <1>3
  <2>2. WaysAt(dpCost, text, p) = WaysAt(f, text, p)
    BY <1>0, <2>1, WaysAhead
  <2>3. f[p] = Min(WaysAt(f, text, p))
    BY <1>0, CostAt DEF WaysAt
  <2>4. costs[p] = f[p]
    BY <1>2, <2>2, <2>3 DEF p
  <2>5. Attains(ChosenAt(text, p), BestAt(text, p), costs, text, p)
    BY <1>0, <1>2, <2>1, WaysAhead
  <2>6. Attains(choices[p], costs[p], costs, text, p)
    BY <2>5 DEF p
  <2> QED BY <1>4, <2>4, <2>6
<1>5. CASE q # p
  <2>1. q \in n..N
    BY <1>0, <1>5
  <2>2. costs[q] = f[q] /\ costs[q] = dpCost[q] /\ choices[q] = dpChoice[q]
    BY <1>3, <2>1
  <2>3. ASSUME q < N PROVE Attains(choices[q], costs[q], costs, text, q)
    <3>1. q \in 0..N - 1
      BY <1>0, <2>1, <2>3
    <3>2. \A r \in q + 1..N : dpCost[r] = costs[r]
      BY <1>0, <1>1, <2>1
    <3>3. Attains(choices[q], costs[q], dpCost, text, q)
      BY <1>3, <2>1, <2>2, <2>3
    <3> QED BY <3>1, <3>2, <3>3, WaysAhead
  <2> QED BY <2>2, <2>3
<1> QED BY <1>4, <1>5

-----------------------------------------------------------------------------
(* What codes stand for                                                    *)

Piece == [str : Seq(Nat), escaped : BOOLEAN]

Stands(codes, text) ==
  /\ codes \in Seq(Nat) /\ Closed(codes)
  /\ Pieces(symbols, codes) \in Seq(Piece)
  /\ Text(Pieces(symbols, codes)) = text

LEMMA StandsEmpty == Stands(<< >>, << >>)
<1>1. Pieces(symbols, << >>) = << >> /\ Closed(<< >>)
  BY ClosedEmpty
<1>2. << >> \in Seq(Nat) /\ << >> \in Seq(Piece)
  OBVIOUS
<1> QED BY <1>1, <1>2, TextEmpty DEF Stands

\* A code, or an escape with its byte, adds its string.
LEMMA StandsAppend ==
  ASSUME NEW codes, NEW text, Stands(codes, text), NEW tail \in Seq(Nat), Len(tail) \in 1..2,
         AfterCode(tail, 1) = Len(tail) + 1, PieceAt(symbols, tail, 1) \in Piece
  PROVE  Stands(codes \o tail, text \o PieceAt(symbols, tail, 1).str)
<1> DEFINE ps == Pieces(symbols, codes)
           p == PieceAt(symbols, tail, 1)
<1>1. codes \in Seq(Nat) /\ Closed(codes) /\ ps \in Seq(Piece) /\ Text(ps) = text
  BY DEF Stands
<1>2. Closed(codes \o tail) /\ Pieces(symbols, codes \o tail) = Append(ps, p)
  BY <1>1, PieceAppended
<1>3. codes \o tail \in Seq(Nat)
  BY <1>1
<1> HIDE DEF ps, p
<1>4. Append(ps, p) \in Seq(Piece)
  BY <1>1 DEF p
<1>5. p.str \in Seq(Nat) /\ \A j \in 1..Len(ps) : ps[j].str \in Seq(Nat)
  <2>1. \A x \in Piece : x.str \in Seq(Nat)
    BY DEF Piece
  <2>2. \A j \in 1..Len(ps) : ps[j] \in Piece
    BY <1>1
  <2> QED BY <2>1, <2>2 DEF p
<1>6. Text(Append(ps, p)) = Text(ps) \o p.str
  BY <1>1, <1>5, TextAppend
<1> QED BY <1>1, <1>2, <1>3, <1>4, <1>6 DEF Stands, p

LEMMA EscapeAppended ==
  ASSUME NEW codes, NEW text, Stands(codes, text), NEW b \in Nat
  PROVE  Stands(codes \o <<Esc, b>>, text \o <<b>>)
<1> DEFINE tail == <<Esc, b>>
<1>1. tail \in Seq(Nat) /\ Len(tail) = 2 /\ tail[1] = Esc /\ tail[2] = b
  BY DEF Esc
<1>2. AfterCode(tail, 1) = Len(tail) + 1
  BY <1>1 DEF AfterCode
<1>3. PieceAt(symbols, tail, 1) = [str |-> <<b>>, escaped |-> TRUE]
  BY <1>1 DEF PieceAt
<1>4. [str |-> <<b>>, escaped |-> TRUE] \in Piece
  BY DEF Piece
<1> HIDE DEF tail
<1>5. Stands(codes \o tail, text \o PieceAt(symbols, tail, 1).str)
  <2>1. PieceAt(symbols, tail, 1) \in Piece
    BY <1>3, <1>4
  <2>2. Len(tail) \in 1..2 /\ tail \in Seq(Nat)
    BY <1>1
  <2> QED BY <1>2, <2>1, <2>2, StandsAppend
<1> QED BY <1>3, <1>5 DEF tail

LEMMA CodeAppended ==
  ASSUME GoodTable(symbols), NEW codes, NEW text, Stands(codes, text), NEW code \in 0..Len(symbols) - 1
  PROVE  Stands(codes \o <<code>>, text \o symbols[code + 1])
<1> DEFINE tail == <<code>>
           m == Len(symbols)
<1>0. code \in Nat /\ code # Esc /\ code + 1 \in 1..m
  <2>1. m \in 0..Esc /\ code \in 0..m - 1
    BY DEF GoodTable
  <2> HIDE DEF m
  <2> QED BY <2>1 DEF Esc
<1>1. tail \in Seq(Nat) /\ Len(tail) = 1 /\ tail[1] = code
  BY <1>0
<1>2. AfterCode(tail, 1) = Len(tail) + 1
  BY <1>0, <1>1 DEF AfterCode
<1>3. PieceAt(symbols, tail, 1) = [str |-> symbols[code + 1], escaped |-> FALSE]
  BY <1>0, <1>1 DEF PieceAt
<1>4. symbols[code + 1] \in Seq(Nat)
  BY <1>0 DEF GoodTable
<1>5. [str |-> symbols[code + 1], escaped |-> FALSE] \in Piece
  BY <1>4 DEF Piece
<1> HIDE DEF tail
<1>6. Stands(codes \o tail, text \o PieceAt(symbols, tail, 1).str)
  <2>1. PieceAt(symbols, tail, 1) \in Piece
    BY <1>3, <1>5
  <2>2. Len(tail) \in 1..2 /\ tail \in Seq(Nat)
    BY <1>1
  <2> QED BY <1>2, <2>1, <2>2, StandsAppend
<1> QED BY <1>3, <1>6 DEF tail

-----------------------------------------------------------------------------
(* The inductive invariant of the one call                                 *)

Locations == {"line", "chunk", "trie", "insert", "dp", "cell", "emit", "returned"}

Types ==
  /\ symbols \in Tables /\ trieReady \in BOOLEAN
  /\ dpCost \in [0..ChunkMax + 8 -> Nat] /\ dpChoice \in [0..ChunkMax -> Nat]
  /\ at \in [Thread -> Locations]
  /\ batch \in [Thread -> Batches] /\ size \in [Thread -> Sizes]
  /\ curOff \in [Thread -> Nat] /\ chunk \in [Thread -> Seq(Nat)]
  /\ k \in [Thread -> Nat] /\ i \in [Thread -> Nat] /\ pos \in [Thread -> Nat]
  /\ out \in [Thread -> Seq(Seq(Nat))] /\ mark \in [Thread -> Nat]
  /\ count \in [Thread -> Int]

\* what the call has inserted is in the trie, and the trie is ready when the
\* costs are computed
TrieInv(t) ==
  /\ at[t] = "insert" => k[t] \in 1..Len(symbols) + 1 /\ TrieKnows(k[t] - 1) /\ ~trieReady
  /\ trieReady => TrieKnows(Len(symbols))
  /\ at[t] \in {"dp", "cell", "emit"} => trieReady

\* the chunk is the part of the line behind curOff
InChunk == {"trie", "insert", "dp", "cell", "emit"}

LineInv(t) ==
  /\ Len(out[t]) <= Len(batch[t])
  /\ at[t] \in InChunk \cup {"chunk"} => Len(out[t]) >= 1 /\ curOff[t] <= Len(Line(t))
  /\ at[t] \in InChunk =>
       /\ curOff[t] + Len(chunk[t]) <= Len(Line(t)) /\ Len(chunk[t]) <= ChunkMax
       /\ chunk[t] = SubSeq(Line(t), curOff[t] + 1, curOff[t] + Len(chunk[t]))
  /\ at[t] \in InChunk \ {"emit"} => mark[t] = Len(out[t][Len(out[t])])
  /\ at[t] = "cell" => i[t] <= Len(chunk[t])
  /\ at[t] = "emit" => pos[t] <= Len(chunk[t])

\* the costs are those of the rest of the chunk, and what is written and what
\* is left make up the cost of the chunk
CostInv(t) ==
  /\ at[t] = "cell" => Settled(dpCost, dpChoice, chunk[t], i[t])
  /\ at[t] = "emit" =>
       /\ Settled(dpCost, dpChoice, chunk[t], 0)
       /\ Len(out[t][Len(out[t])]) + dpCost[pos[t]] = mark[t] + dpCost[0]

\* the codes of the finished lines stand for them, and those of the open line
\* for its text up to the next position
Covered(t) == curOff[t] + IF at[t] = "emit" THEN pos[t] ELSE 0

TextInv(t) ==
  /\ \A l \in Finished(t) : Stands(out[t][l], batch[t][l])
  /\ at[t] \in InChunk \cup {"chunk"} =>
       Stands(out[t][Len(out[t])], SubSeq(Line(t), 1, Covered(t)))

CallInv(t) == Types /\ TrieInv(t) /\ LineInv(t) /\ CostInv(t) /\ TextInv(t)

\* What the provers need of the state of a call.
LEMMA StateFacts ==
  ASSUME Types, NEW t \in Thread
  PROVE  /\ GoodTable(symbols) /\ symbols \in Tables
         /\ at[t] \in Locations
         /\ batch[t] \in Seq(Seq(Nat)) /\ out[t] \in Seq(Seq(Nat)) /\ chunk[t] \in Seq(Nat)
         /\ Len(batch[t]) \in Nat /\ Len(out[t]) \in Nat /\ Len(chunk[t]) \in Nat
         /\ curOff[t] \in Nat /\ k[t] \in Nat /\ i[t] \in Nat /\ pos[t] \in Nat /\ mark[t] \in Nat
<1>1. symbols \in Tables /\ batch[t] \in Batches /\ at[t] \in Locations
  BY DEF Types
<1>2. batch[t] \in Seq(Seq(Nat))
  BY <1>1, DPAssumption
<1>3. out[t] \in Seq(Seq(Nat)) /\ chunk[t] \in Seq(Nat)
  BY DEF Types
<1>4. curOff[t] \in Nat /\ k[t] \in Nat /\ i[t] \in Nat /\ pos[t] \in Nat /\ mark[t] \in Nat
  BY DEF Types
<1>5. Len(batch[t]) \in Nat /\ Len(out[t]) \in Nat /\ Len(chunk[t]) \in Nat
  BY <1>2, <1>3, LenProperties
<1> QED BY <1>1, <1>2, <1>3, <1>4, <1>5, TablesAreGood

\* ... and of the line it is at.
LEMMA LineFacts ==
  ASSUME Types, NEW t \in Thread, Len(out[t]) >= 1, Len(out[t]) <= Len(batch[t])
  PROVE  /\ Line(t) \in Seq(Nat) /\ Len(Line(t)) \in Nat
         /\ out[t][Len(out[t])] \in Seq(Nat) /\ Len(out[t][Len(out[t])]) \in Nat
<1>1. /\ batch[t] \in Seq(Seq(Nat)) /\ out[t] \in Seq(Seq(Nat))
      /\ Len(batch[t]) \in Nat /\ Len(out[t]) \in Nat
  BY StateFacts
<1>2. Len(out[t]) \in 1..Len(batch[t]) /\ Len(out[t]) \in 1..Len(out[t])
  BY <1>1
<1>3. Line(t) \in Seq(Nat)
  BY <1>1, <1>2, ElementOfSeq DEF Line
<1>4. out[t][Len(out[t])] \in Seq(Nat)
  BY <1>1, <1>2, ElementOfSeq
<1> QED BY <1>3, <1>4, LenProperties

LEMMA CallInitial == ASSUME Init, NEW t \in Thread PROVE CallInv(t)
<1>1. Types
  <2>1. symbols \in Tables /\ trieReady \in BOOLEAN
    BY DEF Init
  <2>2. dpCost \in [0..ChunkMax + 8 -> Nat] /\ dpChoice \in [0..ChunkMax -> Nat]
    BY DEF Init, Garbage
  <2>3. batch \in [Thread -> Batches] /\ size \in [Thread -> Sizes]
    BY DEF Init
  <2>4. at \in [Thread -> Locations]
    BY DEF Init, Locations
  <2>5. /\ curOff \in [Thread -> Nat] /\ k \in [Thread -> Nat] /\ i \in [Thread -> Nat]
        /\ pos \in [Thread -> Nat] /\ mark \in [Thread -> Nat] /\ count \in [Thread -> Int]
    BY DEF Init
  <2>6. chunk \in [Thread -> Seq(Nat)] /\ out \in [Thread -> Seq(Seq(Nat))]
    BY DEF Init
  <2> QED BY <2>1, <2>2, <2>3, <2>4, <2>5, <2>6 DEF Types
<1>2. at[t] = "line" /\ out[t] = << >> /\ ~trieReady /\ batch[t] \in Seq(Seq(Nat))
  BY DPAssumption DEF Init
<1>3. TrieInv(t)
  BY <1>2 DEF TrieInv
<1>4. LineInv(t)
  <2>1. Len(out[t]) = 0 /\ Len(batch[t]) \in Nat
    BY <1>2
  <2> QED BY <1>2, <2>1 DEF LineInv, InChunk
<1>5. CostInv(t)
  BY <1>2 DEF CostInv
<1>6. TextInv(t)
  <2>1. Finished(t) = {}
    BY <1>2 DEF Finished
  <2> QED BY <1>2, <2>1 DEF TextInv, InChunk
<1> QED BY <1>1, <1>3, <1>4, <1>5, <1>6 DEF CallInv

\* Parts of the invariant that a step leaves alone.
LEMMA TrieKept ==
  ASSUME NEW t \in Thread, TrieInv(t), UNCHANGED <<symbols, trie, trieReady, k>>,
         at'[t] = "insert" => at[t] = "insert",
         at'[t] \in {"dp", "cell", "emit"} => trieReady
  PROVE  TrieInv(t)'
BY DEF TrieInv, TrieKnows

LEMMA CostIdle == ASSUME NEW t \in Thread, at'[t] \notin {"cell", "emit"} PROVE CostInv(t)'
BY DEF CostInv

LEMMA TextKept ==
  ASSUME NEW t \in Thread, TextInv(t), UNCHANGED <<symbols, batch, out>>,
         Finished(t)' = Finished(t),
         at'[t] \in InChunk \cup {"chunk"} =>
           at[t] \in InChunk \cup {"chunk"} /\ Covered(t)' = Covered(t)
  PROVE  TextInv(t)'
<1>1. \A l \in Finished(t)' : Stands(out[t][l], batch[t][l])'
  BY DEF TextInv, Stands
<1>2. ASSUME at'[t] \in InChunk \cup {"chunk"}
      PROVE  Stands(out[t][Len(out[t])], SubSeq(Line(t), 1, Covered(t)))'
  <2>1. Stands(out[t][Len(out[t])], SubSeq(Line(t), 1, Covered(t)))
    BY <1>2 DEF TextInv
  <2>2. Line(t)' = Line(t) /\ Covered(t)' = Covered(t)
    BY <1>2 DEF Line
  <2> QED BY <2>1, <2>2 DEF Stands
<1> QED BY <1>1, <1>2 DEF TextInv

\* Where the call is when it goes on.
LEMMA Arrives ==
  ASSUME Types, NEW t \in Thread, NEW l, Goto(t, l)
  PROVE  at'[t] = l /\ (l \in Locations => at' \in [Thread -> Locations])
<1>1. at \in [Thread -> Locations]
  BY DEF Types
<1> QED BY <1>1 DEF Goto

-----------------------------------------------------------------------------
(* The steps                                                               *)

LEMMA StartLineStep ==
  ASSUME OneCall, NEW t \in Thread, CallInv(t), StartLine(t)
  PROVE  CallInv(t)'
<1>0. Types /\ TrieInv(t) /\ LineInv(t) /\ TextInv(t)
  BY DEF CallInv
<1>1. at[t] = "line" /\ at'[t] = "chunk" /\ at' \in [Thread -> Locations]
  BY <1>0, Arrives DEF StartLine, Locations
<1>2. /\ out[t] \in Seq(Seq(Nat)) /\ batch[t] \in Seq(Seq(Nat)) /\ GoodTable(symbols)
      /\ Len(out[t]) \in Nat /\ Len(batch[t]) \in Nat /\ Len(out[t]) < Len(batch[t])
  BY <1>0, StateFacts DEF StartLine
<1> DEFINE n == Len(out[t])
           o == Append(out[t], << >>)
<1>3. out'[t] = o /\ curOff'[t] = 0
  <2>1. out \in [Thread -> Seq(Seq(Nat))] /\ curOff \in [Thread -> Nat]
    BY <1>0 DEF Types
  <2> QED BY <2>1 DEF StartLine
<1>4. /\ o \in Seq(Seq(Nat)) /\ Len(o) = n + 1 /\ o[n + 1] = << >>
      /\ \A l \in 1..n : o[l] = out[t][l]
  <2>1. << >> \in Seq(Nat)
    OBVIOUS
  <2> QED BY <1>2, <2>1, AppendProperties
<1>5. Types'
  <2>1. out' \in [Thread -> Seq(Seq(Nat))]
    <3>1. out \in [Thread -> Seq(Seq(Nat))] /\ out' = [out EXCEPT ![t] = o]
      BY <1>0 DEF Types, StartLine
    <3> HIDE DEF o
    <3> QED BY <1>4, <3>1
  <2>2. curOff' \in [Thread -> Nat]
    BY <1>0 DEF Types, StartLine
  <2>3. UNCHANGED <<shared, batch, size, chunk, k, i, pos, mark, count>>
    BY DEF StartLine
  <2> QED BY <1>0, <1>1, <2>1, <2>2, <2>3 DEF Types, shared
<1>6. TrieInv(t)'
  <2>1. UNCHANGED <<symbols, trie, trieReady, k>>
    BY DEF StartLine, shared
  <2> QED BY <1>0, <1>1, <2>1, TrieKept
<1> HIDE DEF o, n
<1>7. Line(t)' \in Seq(Nat) /\ Line(t)' = batch[t][n + 1] /\ Len(Line(t)') \in Nat
  <2>1. Line(t)' = batch[t][n + 1]
    BY <1>3, <1>4 DEF Line, StartLine
  <2>2. n + 1 \in 1..Len(batch[t])
    BY <1>2 DEF n
  <2>3. batch[t][n + 1] \in Seq(Nat)
    BY <1>2, <2>2, ElementOfSeq
  <2> QED BY <2>1, <2>3, LenProperties
<1>8. LineInv(t)'
  <2>1. batch'[t] = batch[t]
    BY DEF StartLine
  <2>2. Len(out[t])' <= Len(batch[t])' /\ Len(out[t])' >= 1
    BY <1>2, <1>3, <1>4, <2>1 DEF n
  <2>3. curOff'[t] <= Len(Line(t))'
    BY <1>3, <1>7
  <2> QED BY <1>1, <2>2, <2>3 DEF LineInv, InChunk
<1>9. CostInv(t)'
  BY <1>1, CostIdle
<1>10. TextInv(t)'
  <2>1. Finished(t) = 1..n /\ Finished(t)' = 1..n
    <3>1. Finished(t)' = 1..Len(o) - 1
      BY <1>1, <1>3 DEF Finished
    <3>2. Len(o) - 1 = n
      BY <1>2, <1>4 DEF n
    <3> QED BY <1>1, <3>1, <3>2 DEF Finished, n
  <2>2. ASSUME NEW l \in 1..n PROVE Stands(out[t][l], batch[t][l])'
    <3>1. out'[t][l] = out[t][l] /\ batch' = batch /\ symbols' = symbols
      BY <1>3, <1>4 DEF StartLine, shared
    <3>2. Stands(out[t][l], batch[t][l])
      BY <1>0, <2>1 DEF TextInv
    <3> QED BY <3>1, <3>2 DEF Stands
  <2>3. Stands(out[t][Len(out[t])], SubSeq(Line(t), 1, Covered(t)))'
    <3>1. out'[t][Len(out'[t])] = << >>
      BY <1>3, <1>4
    <3>2. Covered(t)' = 0
      BY <1>1, <1>3 DEF Covered
    <3>3. SubSeq(Line(t), 1, Covered(t))' = << >>
      BY <1>7, <3>2, SubSeqEmpty
    <3>4. Stands(<< >>, << >>)'
      BY StandsEmpty DEF StartLine, shared, Stands
    <3> QED BY <3>1, <3>3, <3>4 DEF Stands
  <2> QED BY <2>1, <2>2, <2>3 DEF TextInv
<1> QED BY <1>5, <1>6, <1>8, <1>9, <1>10 DEF CallInv

LEMMA ReturnStep ==
  ASSUME OneCall, NEW t \in Thread, CallInv(t), Return(t) \/ NoRoom(t)
  PROVE  CallInv(t)'
<1>0. Types /\ TrieInv(t) /\ LineInv(t) /\ TextInv(t)
  BY DEF CallInv
<1>1. /\ at'[t] = "returned" /\ at' \in [Thread -> Locations]
      /\ UNCHANGED <<symbols, trie, trieReady, dpCost, dpChoice>>
      /\ UNCHANGED <<batch, size, curOff, chunk, k, i, pos, out, mark>>
  <2>1. Goto(t, "returned")
    BY DEF Return, NoRoom
  <2>2. "returned" \in Locations
    BY DEF Locations
  <2> QED BY <1>0, <2>1, <2>2, Arrives DEF Return, NoRoom, shared
<1>2. Len(out[t]) \in Nat /\ Len(batch[t]) \in Nat /\ count \in [Thread -> Int]
  BY <1>0, StateFacts DEF Types
<1>3. /\ count' \in [Thread -> Int]
      /\ \/ at[t] = "line" /\ Len(out[t]) = Len(batch[t]) /\ count'[t] = Len(out[t])
         \/ at[t] = "chunk" /\ count'[t] = Len(out[t]) - 1
  <2>1. CASE Return(t)
    BY <1>2, <2>1 DEF Return
  <2>2. CASE NoRoom(t)
    BY <1>2, <2>2 DEF NoRoom
  <2> QED BY <2>1, <2>2
<1>4. Types'
  BY <1>0, <1>1, <1>3 DEF Types
<1>5. TrieInv(t)'
  BY <1>0, <1>1, TrieKept
<1>6. LineInv(t)'
  BY <1>0, <1>1 DEF LineInv, InChunk
<1>7. CostInv(t)'
  BY <1>1, CostIdle
<1>8. TextInv(t)'
  <2>1. Finished(t)' = Finished(t)
    BY <1>1, <1>3 DEF Finished
  <2>2. at'[t] \notin InChunk \cup {"chunk"}
    BY <1>1 DEF InChunk
  <2> QED BY <1>0, <1>1, <2>1, <2>2, TextKept
<1> QED BY <1>4, <1>5, <1>6, <1>7, <1>8 DEF CallInv

LEMMA BeginChunkStep ==
  ASSUME OneCall, NEW t \in Thread, CallInv(t), BeginChunk(t)
  PROVE  CallInv(t)'
<1>0. Types /\ TrieInv(t) /\ LineInv(t) /\ TextInv(t)
  BY DEF CallInv
<1>1. /\ at[t] = "chunk" /\ at'[t] = "trie" /\ at' \in [Thread -> Locations]
      /\ UNCHANGED <<symbols, trie, trieReady, dpCost, dpChoice>>
      /\ UNCHANGED <<batch, size, curOff, k, i, pos, out, count>>
  BY <1>0, Arrives DEF BeginChunk, Locations, shared
<1>2. Len(out[t]) >= 1 /\ Len(out[t]) <= Len(batch[t]) /\ curOff[t] <= Len(Line(t))
  BY <1>0, <1>1 DEF LineInv, InChunk
<1>3. /\ Line(t) \in Seq(Nat) /\ Len(Line(t)) \in Nat /\ Len(out[t][Len(out[t])]) \in Nat
      /\ curOff[t] \in Nat
  BY <1>0, <1>2, LineFacts, StateFacts
<1> DEFINE c == SubSeq(Line(t), curOff[t] + 1, curOff[t] + Rest(t))
           m == Len(out[t][Len(out[t])])
           r == Rest(t)
<1>4. r \in Nat /\ r <= ChunkMax /\ curOff[t] + r <= Len(Line(t))
  <2> DEFINE d == Len(Line(t)) - curOff[t]
  <2>1. d \in Nat /\ d = Len(Line(t)) - curOff[t]
    BY <1>2, <1>3
  <2>2. r = Min({d, ChunkMax})
    BY DEF Rest
  <2> HIDE DEF d, r
  <2>3. r = IF d <= ChunkMax THEN d ELSE ChunkMax
    BY <2>1, <2>2, LesserOfTwo, DPAssumption
  <2> QED BY <1>3, <2>1, <2>3, DPAssumption
<1>5. c \in Seq(Nat) /\ Len(c) = r
  <2> HIDE DEF r
  <2> QED BY <1>3, <1>4, Slice DEF r
<1>6. chunk'[t] = c /\ mark'[t] = m
  <2>1. chunk \in [Thread -> Seq(Nat)] /\ mark \in [Thread -> Nat]
    BY <1>0 DEF Types
  <2>2. chunk' = [chunk EXCEPT ![t] = c] /\ mark' = [mark EXCEPT ![t] = m]
    BY DEF BeginChunk
  <2> HIDE DEF c, m
  <2> QED BY <2>1, <2>2
<1>7. Types'
  <2>1. chunk \in [Thread -> Seq(Nat)] /\ mark \in [Thread -> Nat]
    BY <1>0 DEF Types
  <2>2. chunk' = [chunk EXCEPT ![t] = c] /\ mark' = [mark EXCEPT ![t] = m]
    BY DEF BeginChunk
  <2>3. chunk' \in [Thread -> Seq(Nat)] /\ mark' \in [Thread -> Nat]
    <3> HIDE DEF c
    <3> QED BY <1>3, <1>5, <2>1, <2>2
  <2>4. size' = size
    BY DEF BeginChunk
  <2> HIDE DEF c, m
  <2> QED BY <1>0, <1>1, <2>3 DEF Types
<1>8. TrieInv(t)'
  BY <1>0, <1>1, TrieKept
<1>9. LineInv(t)'
  <2>1. Line(t)' = Line(t)
    BY <1>1 DEF Line
  <2>2. chunk'[t] = SubSeq(Line(t), curOff[t] + 1, curOff[t] + Len(c))
    BY <1>5, <1>6
  <2> HIDE DEF c, r
  <2>3. Len(chunk'[t]) <= ChunkMax /\ curOff[t] + Len(chunk'[t]) <= Len(Line(t))
    BY <1>4, <1>5, <1>6
  <2>4. mark'[t] = Len(out'[t][Len(out'[t])])
    BY <1>1, <1>6
  <2> QED BY <1>1, <1>2, <1>6, <2>1, <2>2, <2>3, <2>4 DEF LineInv, InChunk
<1>10. CostInv(t)'
  BY <1>1, CostIdle
<1>11. TextInv(t)'
  <2>1. Finished(t)' = Finished(t) /\ Covered(t)' = Covered(t)
    BY <1>1 DEF Finished, Covered
  <2>2. at[t] \in InChunk \cup {"chunk"}
    BY <1>1 DEF InChunk
  <2> QED BY <1>0, <1>1, <2>1, <2>2, TextKept
<1> QED BY <1>7, <1>8, <1>9, <1>10, <1>11 DEF CallInv

LEMMA EndChunkStep ==
  ASSUME OneCall, NEW t \in Thread, CallInv(t), EndChunk(t)
  PROVE  CallInv(t)'
<1>0. Types /\ TrieInv(t) /\ LineInv(t) /\ TextInv(t)
  BY DEF CallInv
<1>1. /\ at[t] = "emit" /\ pos[t] >= Len(chunk[t])
      /\ UNCHANGED <<symbols, trie, trieReady, dpCost, dpChoice>>
      /\ UNCHANGED <<batch, size, chunk, k, i, pos, out, mark, count>>
  BY DEF EndChunk, shared
<1> DEFINE n == Len(out[t])
           c == curOff[t] + Len(chunk[t])
           L == Len(Line(t))
<1>2. /\ n \in Nat /\ n >= 1 /\ n <= Len(batch[t]) /\ Len(batch[t]) \in Nat
      /\ Len(chunk[t]) \in Nat /\ curOff[t] \in Nat /\ pos[t] \in Nat
      /\ pos[t] = Len(chunk[t]) /\ c <= L
  <2>1. /\ n \in Nat /\ Len(batch[t]) \in Nat
        /\ Len(chunk[t]) \in Nat /\ curOff[t] \in Nat /\ pos[t] \in Nat
    BY <1>0, StateFacts
  <2>2. n >= 1 /\ n <= Len(batch[t]) /\ c <= L /\ pos[t] <= Len(chunk[t])
    BY <1>0, <1>1 DEF LineInv, InChunk
  <2>3. pos[t] = Len(chunk[t])
    BY <1>1, <2>1, <2>2
  <2> QED BY <2>1, <2>2, <2>3
<1>3. Line(t) \in Seq(Nat) /\ L \in Nat
  BY <1>0, <1>2, LineFacts
<1>4. Stands(out[t][n], SubSeq(Line(t), 1, c))
  <2>1. Covered(t) = c
    BY <1>1, <1>2 DEF Covered
  <2>2. Stands(out[t][n], SubSeq(Line(t), 1, Covered(t)))
    BY <1>0, <1>1 DEF TextInv, InChunk
  <2> QED BY <2>1, <2>2
<1>5. Line(t)' = Line(t)
  BY <1>1 DEF Line
<1>6. CASE c < L
  <2>1. at'[t] = "chunk" /\ at' \in [Thread -> Locations]
    <3>1. Goto(t, "chunk")
      BY <1>6 DEF EndChunk
    <3> QED BY <1>0, <3>1, Arrives DEF Locations
  <2>2. curOff'[t] = c /\ curOff' \in [Thread -> Nat]
    <3>1. curOff \in [Thread -> Nat]
      BY <1>0 DEF Types
    <3>2. curOff' = [curOff EXCEPT ![t] = c]
      BY <1>6 DEF EndChunk
    <3>3. c \in Nat
      BY <1>2
    <3> HIDE DEF c
    <3> QED BY <3>1, <3>2, <3>3
  <2>3. Types'
    BY <1>0, <1>1, <2>1, <2>2 DEF Types
  <2>4. TrieInv(t)'
    BY <1>0, <1>1, <2>1, TrieKept
  <2>5. LineInv(t)'
    <3>1. curOff'[t] <= Len(Line(t))'
      BY <1>2, <1>5, <2>2
    <3> QED BY <1>1, <1>2, <2>1, <3>1 DEF LineInv, InChunk
  <2>6. CostInv(t)'
    BY <2>1, CostIdle
  <2>7. TextInv(t)'
    <3>1. Finished(t)' = Finished(t)
      BY <1>1, <2>1 DEF Finished
    <3>2. Covered(t)' = c /\ Covered(t) = c
      <4>1. Covered(t)' = c + 0
        BY <2>1, <2>2 DEF Covered
      <4> QED BY <1>1, <1>2, <4>1 DEF Covered
    <3>3. at[t] \in InChunk \cup {"chunk"}
      BY <1>1 DEF InChunk
    <3> QED BY <1>0, <1>1, <3>1, <3>2, <3>3, TextKept
  <2> QED BY <2>3, <2>4, <2>5, <2>6, <2>7 DEF CallInv
<1>7. CASE ~(c < L)
  <2>1. at'[t] = "line" /\ at' \in [Thread -> Locations] /\ curOff' = curOff
    <3>1. Goto(t, "line") /\ curOff' = curOff
      BY <1>7 DEF EndChunk
    <3> QED BY <1>0, <3>1, Arrives DEF Locations
  <2>2. Types'
    BY <1>0, <1>1, <2>1 DEF Types
  <2>3. TrieInv(t)'
    BY <1>0, <1>1, <2>1, TrieKept
  <2>4. LineInv(t)'
    BY <1>1, <1>2, <2>1 DEF LineInv, InChunk
  <2>5. CostInv(t)'
    BY <2>1, CostIdle
  <2>6. Stands(out[t][n], batch[t][n])
    <3>1. c = L
      BY <1>2, <1>3, <1>7
    <3>2. SubSeq(Line(t), 1, L) = Line(t)
      BY <1>3, SubSeqFull
    <3>3. Line(t) = batch[t][n]
      BY DEF Line
    <3> HIDE DEF c, L, n
    <3> QED BY <1>4, <3>1, <3>2, <3>3
  <2>7. TextInv(t)'
    <3>1. Finished(t)' = 1..n /\ Finished(t) = 1..n - 1
      BY <1>1, <2>1 DEF Finished
    <3>2. ASSUME NEW l \in 1..n PROVE Stands(out[t][l], batch[t][l])
      <4>1. l \in 1..n - 1 \/ l = n
        BY <1>2
      <4>2. l \in 1..n - 1 => Stands(out[t][l], batch[t][l])
        BY <1>0, <3>1 DEF TextInv
      <4> QED BY <2>6, <4>1, <4>2
    <3>3. \A l \in Finished(t)' : Stands(out[t][l], batch[t][l])'
      BY <1>1, <3>1, <3>2 DEF Stands
    <3> QED BY <2>1, <3>3 DEF TextInv, InChunk
  <2> QED BY <2>2, <2>3, <2>4, <2>5, <2>7 DEF CallInv
<1> QED BY <1>6, <1>7

\* A step between BeginChunk and the first code of the chunk.
LEMMA LineKept ==
  ASSUME NEW t \in Thread, LineInv(t), UNCHANGED <<batch, curOff, chunk, out, mark>>,
         at[t] \in InChunk \ {"emit"}, at'[t] \in InChunk,
         at'[t] = "cell" => i'[t] <= Len(chunk[t]),
         at'[t] = "emit" => pos'[t] <= Len(chunk[t])
  PROVE  LineInv(t)'
<1>1. Line(t)' = Line(t)
  BY DEF Line
<1>2. /\ Len(out[t]) <= Len(batch[t])
      /\ Len(out[t]) >= 1 /\ curOff[t] <= Len(Line(t))
      /\ curOff[t] + Len(chunk[t]) <= Len(Line(t)) /\ Len(chunk[t]) <= ChunkMax
      /\ chunk[t] = SubSeq(Line(t), curOff[t] + 1, curOff[t] + Len(chunk[t]))
      /\ mark[t] = Len(out[t][Len(out[t])])
  BY DEF LineInv
<1> QED BY <1>1, <1>2 DEF LineInv

LEMMA TextBefore ==
  ASSUME Types, NEW t \in Thread, TextInv(t), UNCHANGED <<symbols, batch, curOff, out, count>>,
         at[t] \in InChunk \ {"emit"}, at'[t] \in InChunk, at'[t] = "emit" => pos'[t] = 0
  PROVE  TextInv(t)'
<1>1. Finished(t)' = Finished(t)
  BY DEF Finished, InChunk
<1>2. Covered(t)' = Covered(t)
  <2>1. curOff[t] \in Nat
    BY DEF Types
  <2> QED BY <2>1 DEF Covered
<1> QED BY <1>1, <1>2, TextKept

LEMMA CheckTrieStep ==
  ASSUME OneCall, NEW t \in Thread, CallInv(t), CheckTrie(t)
  PROVE  CallInv(t)'
<1>0. Types /\ TrieInv(t) /\ LineInv(t) /\ TextInv(t)
  BY DEF CallInv
<1>1. /\ at[t] = "trie"
      /\ UNCHANGED <<symbols, trieReady, dpCost, dpChoice>>
      /\ UNCHANGED <<batch, size, curOff, chunk, i, pos, out, mark, count>>
  BY DEF CheckTrie
<1>2. /\ at' \in [Thread -> Locations]
      /\ \/ trieReady /\ at'[t] = "dp" /\ UNCHANGED <<trie, k>>
         \/ ~trieReady /\ at'[t] = "insert" /\ trie' = << >> /\ k' = [k EXCEPT ![t] = 1]
  <2>1. CASE trieReady
    <3>1. Goto(t, "dp") /\ UNCHANGED <<trie, k>>
      BY <2>1 DEF CheckTrie
    <3> QED BY <1>0, <2>1, <3>1, Arrives DEF Locations
  <2>2. CASE ~trieReady
    <3>1. Goto(t, "insert") /\ trie' = << >> /\ k' = [k EXCEPT ![t] = 1]
      BY <2>2 DEF CheckTrie
    <3> QED BY <1>0, <2>2, <3>1, Arrives DEF Locations
  <2> QED BY <2>1, <2>2
<1>3. Types'
  <2>1. k \in [Thread -> Nat]
    BY <1>0 DEF Types
  <2>2. k' \in [Thread -> Nat]
    BY <1>2, <2>1
  <2> QED BY <1>0, <1>1, <1>2, <2>2 DEF Types
<1>4. TrieInv(t)'
  <2>1. CASE trieReady
    <3>1. UNCHANGED <<symbols, trie, trieReady, k>> /\ at'[t] = "dp"
      BY <1>1, <1>2, <2>1
    <3> QED BY <1>0, <2>1, <3>1, TrieKept
  <2>2. CASE ~trieReady
    <3>1. at'[t] = "insert" /\ trie' = << >> /\ k' = [k EXCEPT ![t] = 1] /\ k \in [Thread -> Nat]
      BY <1>0, <1>2, <2>2 DEF Types
    <3>2. k'[t] = 1
      BY <3>1
    <3>3. TrieKnows(0)'
      <4>1. (trie = << >> => TrieKnows(0))'
        BY EmptyTrie, PTL
      <4> QED BY <3>1, <4>1
    <3>4. k'[t] \in 1..Len(symbols) + 1 /\ k'[t] - 1 = 0
      <4>1. Len(symbols) \in Nat
        BY <1>0, StateFacts DEF GoodTable
      <4> QED BY <3>2, <4>1
    <3>5. TrieKnows(k[t] - 1)'
      BY <3>3, <3>4
    <3> QED BY <1>1, <2>2, <3>1, <3>4, <3>5 DEF TrieInv
  <2> QED BY <2>1, <2>2
<1>5. at[t] \in InChunk \ {"emit"} /\ at'[t] \in InChunk /\ at'[t] \notin {"cell", "emit"}
  BY <1>1, <1>2 DEF InChunk
<1>6. LineInv(t)'
  BY <1>0, <1>1, <1>5, LineKept
<1>7. CostInv(t)'
  BY <1>5, CostIdle
<1>8. TextInv(t)'
  BY <1>0, <1>1, <1>5, TextBefore
<1> QED BY <1>3, <1>4, <1>6, <1>7, <1>8 DEF CallInv

LEMMA InsertStep ==
  ASSUME OneCall, NEW t \in Thread, CallInv(t), InsertSymbol(t)
  PROVE  CallInv(t)'
<1>0. Types /\ TrieInv(t) /\ LineInv(t) /\ TextInv(t)
  BY DEF CallInv
<1>1. /\ at[t] = "insert"
      /\ UNCHANGED <<symbols, dpCost, dpChoice>>
      /\ UNCHANGED <<batch, size, curOff, chunk, i, pos, out, mark, count>>
  BY DEF InsertSymbol
<1> DEFINE n == Len(symbols)
           c == k[t]
<1>2. n \in Nat /\ GoodTable(symbols) /\ c \in 1..n + 1 /\ TrieKnows(c - 1) /\ ~trieReady
  BY <1>0, <1>1, StateFacts DEF GoodTable, TrieInv
<1>3. k \in [Thread -> Nat] /\ at \in [Thread -> Locations]
  BY <1>0 DEF Types
<1>4. CASE c <= n
  <2>1. /\ at' = at /\ trieReady' = trieReady /\ k' = [k EXCEPT ![t] = c + 1]
        /\ trie' = Inserted(symbols[c], c - 1)
    BY <1>4 DEF InsertSymbol
  <2>2. k'[t] = c + 1 /\ k' \in [Thread -> Nat]
    BY <1>2, <1>3, <2>1
  <2>3. Types'
    BY <1>0, <1>1, <2>1, <2>2 DEF Types
  <2>4. TrieInv(t)'
    <3> HIDE DEF c, n
    <3>1. PICK d : d = c
      OBVIOUS
    <3>2. d \in 1..Len(symbols) /\ d + 1 - 1 = d
      BY <1>2, <1>4, <3>1 DEF n
    <3>3. TrieKnows(d)'
      <4>1. trie' = Inserted(symbols[d], d - 1) /\ TrieKnows(d - 1)
        BY <1>2, <2>1, <3>1
      <4> QED BY <1>1, <1>2, <3>2, <4>1, TrieGrows
    <3>4. (TrieKnows(k[t] - 1))'
      <4>1. k'[t] - 1 = d
        BY <2>2, <3>1, <3>2
      <4> QED BY <3>3, <4>1 DEF TrieKnows
    <3>5. k'[t] \in 1..Len(symbols)' + 1
      BY <1>1, <2>2, <3>1, <3>2
    <3> QED BY <1>1, <1>2, <2>1, <3>4, <3>5 DEF TrieInv
  <2>5. at[t] \in InChunk \ {"emit"} /\ at'[t] \in InChunk /\ at'[t] \notin {"cell", "emit"}
    BY <1>1, <2>1 DEF InChunk
  <2>6. LineInv(t)'
    BY <1>0, <1>1, <2>5, LineKept
  <2>7. CostInv(t)'
    BY <2>5, CostIdle
  <2>8. TextInv(t)'
    BY <1>0, <1>1, <2>5, TextBefore
  <2> QED BY <2>3, <2>4, <2>6, <2>7, <2>8 DEF CallInv
<1>5. CASE ~(c <= n)
  <2>1. Goto(t, "dp") /\ trieReady' = TRUE /\ UNCHANGED <<trie, k>>
    BY <1>5 DEF InsertSymbol
  <2>2. at'[t] = "dp" /\ at' \in [Thread -> Locations]
    BY <1>0, <2>1, Arrives DEF Locations
  <2>3. Types'
    BY <1>0, <1>1, <2>1, <2>2 DEF Types
  <2>4. TrieInv(t)'
    <3>1. c - 1 = n
      BY <1>2, <1>5
    <3>2. TrieKnows(Len(symbols))
      BY <1>2, <3>1
    <3>3. TrieKnows(Len(symbols))'
      BY <1>1, <2>1, <3>2 DEF TrieKnows
    <3> QED BY <2>1, <2>2, <3>3 DEF TrieInv
  <2>5. at[t] \in InChunk \ {"emit"} /\ at'[t] \in InChunk /\ at'[t] \notin {"cell", "emit"}
    BY <1>1, <2>2 DEF InChunk
  <2>6. LineInv(t)'
    BY <1>0, <1>1, <2>5, LineKept
  <2>7. CostInv(t)'
    BY <2>5, CostIdle
  <2>8. TextInv(t)'
    BY <1>0, <1>1, <2>5, TextBefore
  <2> QED BY <2>3, <2>4, <2>6, <2>7, <2>8 DEF CallInv
<1> QED BY <1>4, <1>5

LEMMA SettledSame ==
  ASSUME symbols' = symbols, NEW costs, NEW choices, NEW text, NEW n,
         Settled(costs, choices, text, n)
  PROVE  Settled(costs, choices, text, n)'
<1>1. \A p : Options(text, p)' = Options(text, p)
  BY DEF Options
<1>2. \A f : Costs(f, text)' <=> Costs(f, text)
  BY <1>1 DEF Costs
<1>3. \A code, cost, p : Attains(code, cost, costs, text, p)' <=> Attains(code, cost, costs, text, p)
  BY <1>1 DEF Attains
<1> QED BY <1>2, <1>3 DEF Settled

LEMMA ZeroCostsStep ==
  ASSUME OneCall, NEW t \in Thread, CallInv(t), ZeroCosts(t)
  PROVE  CallInv(t)'
<1>0. Types /\ TrieInv(t) /\ LineInv(t) /\ TextInv(t)
  BY DEF CallInv
<1> DEFINE N == Len(chunk[t])
<1>1. /\ at[t] = "dp" /\ at'[t] = "cell" /\ at' \in [Thread -> Locations]
      /\ UNCHANGED <<symbols, trie, trieReady, dpChoice>>
      /\ UNCHANGED <<batch, size, curOff, chunk, k, pos, out, mark, count>>
  BY <1>0, Arrives DEF ZeroCosts, Locations
<1>2. N \in Nat /\ N <= ChunkMax /\ chunk[t] \in Seq(Nat)
  BY <1>0, <1>1, StateFacts DEF LineInv, InChunk
<1>3. i' = [i EXCEPT ![t] = N] /\ i \in [Thread -> Nat] /\ dpCost \in [0..ChunkMax + 8 -> Nat]
  BY <1>0 DEF ZeroCosts, Types
<1>4. i'[t] = N /\ i' \in [Thread -> Nat]
  <2> HIDE DEF N
  <2> QED BY <1>2, <1>3
<1>5. dpCost' \in [0..ChunkMax + 8 -> Nat] /\ dpCost'[N] = 0
  <2>1. dpCost' = [p \in 0..ChunkMax + 8 |-> IF p \in N..N + 7 THEN 0 ELSE dpCost[p]]
    BY <1>3 DEF ZeroCosts
  <2> HIDE DEF N
  <2>2. N \in 0..ChunkMax + 8 /\ N \in N..N + 7
    BY <1>2, DPAssumption
  <2> QED BY <1>3, <2>1, <2>2
<1>6. Types'
  BY <1>0, <1>1, <1>4, <1>5 DEF Types
<1>7. TrieInv(t)'
  <2>1. trieReady
    BY <1>0, <1>1 DEF TrieInv
  <2> QED BY <1>0, <1>1, <2>1, TrieKept
<1>8. at[t] \in InChunk \ {"emit"} /\ at'[t] \in InChunk /\ at'[t] # "emit"
  BY <1>1 DEF InChunk
<1>9. LineInv(t)'
  <2>1. i'[t] <= N
    BY <1>2, <1>4
  <2> QED BY <1>0, <1>1, <1>8, <2>1, LineKept
<1>10. CostInv(t)'
  <2>1. Settled(dpCost', dpChoice', chunk[t], N)
    <3>1. \A x \in Seq(Nat) : \A a, b : a[Len(x)] = 0 => Settled(a, b, x, Len(x))
      BY SettledAtEnd
    <3> QED BY <1>2, <1>5, <3>1
  <2>2. Settled(dpCost, dpChoice, chunk[t], i[t])'
    <3>1. PICK costs, choices, x, m : costs = dpCost' /\ choices = dpChoice' /\ x = chunk[t] /\ m = N
      OBVIOUS
    <3>2. Settled(costs, choices, x, m)
      BY <2>1, <3>1
    <3>3. Settled(costs, choices, x, m)'
      BY <1>1, <3>2, SettledSame
    <3>4. costs = dpCost' /\ choices = dpChoice' /\ x = chunk'[t] /\ m = i'[t]
      BY <1>1, <1>4, <3>1
    <3> QED BY <3>3, <3>4
  <2> QED BY <1>1, <2>2 DEF CostInv
<1>11. TextInv(t)'
  BY <1>0, <1>1, <1>8, TextBefore
<1> QED BY <1>6, <1>7, <1>9, <1>10, <1>11 DEF CallInv

LEMMA CellStep ==
  ASSUME OneCall, NEW t \in Thread, CallInv(t), Cell(t)
  PROVE  CallInv(t)'
<1>0. Types /\ TrieInv(t) /\ LineInv(t) /\ CostInv(t) /\ TextInv(t)
  BY DEF CallInv
<1> DEFINE text == chunk[t]
           N == Len(text)
           n == i[t]
           p == n - 1
<1>1. /\ at[t] = "cell" /\ n > 0
      /\ UNCHANGED <<symbols, trie, trieReady, at>>
      /\ UNCHANGED <<batch, size, curOff, chunk, k, pos, out, mark, count>>
      /\ i' = [i EXCEPT ![t] = p]
      /\ dpCost' = [dpCost EXCEPT ![p] = BestAt(text, p)]
      /\ dpChoice' = [dpChoice EXCEPT ![p] = ChosenAt(text, p)]
  BY DEF Cell, BestAt, ChosenAt, LiteralAt
<1>2. GoodTable(symbols) /\ text \in Seq(Nat) /\ n \in Nat /\ N \in Nat
  BY <1>0, StateFacts
<1>3. trieReady /\ TrieKnows(Len(symbols)) /\ n <= N /\ N <= ChunkMax
  BY <1>0, <1>1 DEF TrieInv, LineInv, InChunk
<1>4. n \in 1..N /\ p \in 0..N - 1 /\ p \in 0..ChunkMax /\ p \in 0..ChunkMax + 8
  <2> HIDE DEF n, N
  <2> QED BY <1>1, <1>2, <1>3, DPAssumption
<1>5. dpCost \in [0..ChunkMax + 8 -> Nat] /\ dpChoice \in [0..ChunkMax -> Nat] /\ i \in [Thread -> Nat]
  BY <1>0 DEF Types
<1>6. \A q \in n..N : dpCost[q] \in Nat /\ q \in 0..ChunkMax + 8 /\ q # p
  <2> HIDE DEF n, N
  <2>1. \A q \in n..N : q \in 0..ChunkMax + 8 /\ q # p
    BY <1>2, <1>3, DPAssumption
  <2> QED BY <1>5, <2>1
<1>7. BestAt(text, p) \in Nat /\ ChosenAt(text, p) \in Nat
  <2>1. \A q \in p + 1..N : dpCost[q] \in Nat
    <3>1. p + 1 = n
      BY <1>2
    <3> HIDE DEF n, N, p
    <3> QED BY <1>6, <3>1
  <2>2. BestAt(text, p) \in Nat /\ Attains(ChosenAt(text, p), BestAt(text, p), dpCost, text, p)
    BY <1>2, <1>3, <1>4, <2>1, BestIsLeast
  <2>3. ChosenAt(text, p) = Escape \/ ChosenAt(text, p) \in 0..Len(symbols) - 1
    BY <2>2 DEF Attains
  <2>4. ChosenAt(text, p) \in Nat
    <3> DEFINE m == Len(symbols)
    <3>1. m \in Nat /\ (ChosenAt(text, p) = Escape \/ ChosenAt(text, p) \in 0..m - 1)
      BY <1>2, <2>3 DEF GoodTable
    <3> HIDE DEF m
    <3> QED BY <3>1 DEF Escape
  <2> QED BY <2>2, <2>4
<1>8. i'[t] = p /\ i' \in [Thread -> Nat]
  <2>1. p \in Nat
    BY <1>4
  <2> HIDE DEF p
  <2> QED BY <1>1, <1>5, <2>1
<1>9. /\ dpCost' \in [0..ChunkMax + 8 -> Nat] /\ dpCost'[p] = BestAt(text, p)
      /\ \A q \in n..N : dpCost'[q] = dpCost[q]
  <2> HIDE DEF p, n, N, text
  <2> QED BY <1>1, <1>4, <1>5, <1>6, <1>7
<1>10. /\ dpChoice' \in [0..ChunkMax -> Nat] /\ dpChoice'[p] = ChosenAt(text, p)
       /\ \A q \in n..N : dpChoice'[q] = dpChoice[q]
  <2>1. \A q \in n..N : q \in 0..ChunkMax
    <3> HIDE DEF n, N
    <3> QED BY <1>2, <1>3, DPAssumption
  <2> HIDE DEF p, n, N, text
  <2> QED BY <1>1, <1>4, <1>5, <1>6, <1>7, <2>1
<1>11. Types'
  <2> HIDE DEF p, text
  <2> QED BY <1>0, <1>1, <1>8, <1>9, <1>10 DEF Types
<1>12. TrieInv(t)'
  BY <1>0, <1>1, <1>3, TrieKept
<1>13. at[t] \in InChunk \ {"emit"} /\ at'[t] \in InChunk /\ at'[t] = "cell"
  BY <1>1 DEF InChunk
<1>14. LineInv(t)'
  <2>1. i'[t] <= N
    <3> HIDE DEF n, N
    <3> QED BY <1>2, <1>3, <1>8
  <2> QED BY <1>0, <1>1, <1>13, <2>1, LineKept
<1>15. CostInv(t)'
  <2>1. Settled(dpCost, dpChoice, text, n)
    BY <1>0, <1>1 DEF CostInv
  <2>2. Settled(dpCost', dpChoice', text, p)
    <3>1. PICK costs, choices, x, m : costs = dpCost' /\ choices = dpChoice' /\ x = text /\ m = n
      OBVIOUS
    <3>2. x \in Seq(Nat) /\ m \in 1..Len(x) /\ Settled(dpCost, dpChoice, x, m)
      BY <1>2, <1>4, <2>1, <3>1
    <3>3. \A q \in m..Len(x) : dpCost[q] \in Nat
      BY <1>6, <3>1
    <3>4. costs[m - 1] = BestAt(x, m - 1) /\ choices[m - 1] = ChosenAt(x, m - 1)
      BY <1>9, <1>10, <3>1
    <3>5. \A q \in m..Len(x) : costs[q] = dpCost[q] /\ choices[q] = dpChoice[q]
      BY <1>9, <1>10, <3>1
    <3>6. Settled(costs, choices, x, m - 1)
      BY <1>2, <1>3, <3>2, <3>3, <3>4, <3>5, SettledGrows
    <3> QED BY <3>1, <3>6
  <2>3. Settled(dpCost, dpChoice, chunk[t], i[t])'
    <3>1. PICK costs, choices, x, m : costs = dpCost' /\ choices = dpChoice' /\ x = text /\ m = p
      OBVIOUS
    <3>2. Settled(costs, choices, x, m)
      BY <2>2, <3>1
    <3>3. Settled(costs, choices, x, m)'
      BY <1>1, <3>2, SettledSame
    <3>4. costs = dpCost' /\ choices = dpChoice' /\ x = chunk'[t] /\ m = i'[t]
      BY <1>1, <1>8, <3>1
    <3> QED BY <3>3, <3>4
  <2> QED BY <1>13, <2>3 DEF CostInv
<1>16. TextInv(t)'
  BY <1>0, <1>1, <1>13, TextBefore
<1> QED BY <1>11, <1>12, <1>14, <1>15, <1>16 DEF CallInv

LEMMA EndCellsStep ==
  ASSUME OneCall, NEW t \in Thread, CallInv(t), EndCells(t)
  PROVE  CallInv(t)'
<1>0. Types /\ TrieInv(t) /\ LineInv(t) /\ CostInv(t) /\ TextInv(t)
  BY DEF CallInv
<1>1. /\ at[t] = "cell" /\ i[t] = 0 /\ at'[t] = "emit" /\ at' \in [Thread -> Locations]
      /\ UNCHANGED <<symbols, trie, trieReady, dpCost, dpChoice>>
      /\ UNCHANGED <<batch, size, curOff, chunk, k, i, out, mark, count>>
  BY <1>0, Arrives DEF EndCells, Locations, shared
<1>2. pos'[t] = 0 /\ pos' \in [Thread -> Nat]
  <2>1. pos \in [Thread -> Nat]
    BY <1>0 DEF Types
  <2> QED BY <2>1 DEF EndCells
<1>3. Types'
  BY <1>0, <1>1, <1>2 DEF Types
<1>4. TrieInv(t)'
  <2>1. trieReady
    BY <1>0, <1>1 DEF TrieInv
  <2> QED BY <1>0, <1>1, <2>1, TrieKept
<1>5. at[t] \in InChunk \ {"emit"} /\ at'[t] \in InChunk
  BY <1>1 DEF InChunk
<1>6. LineInv(t)'
  <2>1. Len(chunk[t]) \in Nat
    BY <1>0, StateFacts
  <2>2. pos'[t] <= Len(chunk[t])
    BY <1>2, <2>1
  <2> QED BY <1>0, <1>1, <1>5, <2>2, LineKept
<1>7. CostInv(t)'
  <2>1. Settled(dpCost, dpChoice, chunk[t], 0)
    BY <1>0, <1>1 DEF CostInv
  <2>2. Settled(dpCost, dpChoice, chunk[t], 0)'
    <3>1. PICK costs, choices, x : costs = dpCost /\ choices = dpChoice /\ x = chunk[t]
      OBVIOUS
    <3>2. Settled(costs, choices, x, 0)
      BY <2>1, <3>1
    <3>3. Settled(costs, choices, x, 0)'
      BY <1>1, <3>2, SettledSame
    <3>4. costs = dpCost' /\ choices = dpChoice' /\ x = chunk'[t]
      BY <1>1, <3>1
    <3> QED BY <3>3, <3>4
  <2>3. mark[t] = Len(out[t][Len(out[t])])
    BY <1>0, <1>1 DEF LineInv, InChunk
  <2>4. (Len(out[t][Len(out[t])]) + dpCost[pos[t]] = mark[t] + dpCost[0])'
    BY <1>1, <1>2, <2>3
  <2> QED BY <1>1, <2>2, <2>4 DEF CostInv
<1>8. TextInv(t)'
  BY <1>0, <1>1, <1>2, <1>5, TextBefore
<1> QED BY <1>3, <1>4, <1>6, <1>7, <1>8 DEF CallInv

\* A code is one that the costs were computed with: its string comes next in
\* the chunk, and it takes what its position costs more than the next one.
LEMMA EmitFacts ==
  ASSUME NEW t \in Thread, CallInv(t), Emit(t)
  PROVE  \E tail \in Seq(Nat), n \in Nat \ {0} :
           /\ Codes(t, dpChoice[pos[t]]) = tail
           /\ pos'[t] = pos[t] + n /\ pos' \in [Thread -> Nat]
           /\ pos[t] + n <= Len(chunk[t])
           /\ dpCost[pos[t]] = Len(tail) + dpCost[pos[t] + n]
           /\ \A codes, text : Stands(codes, text) =>
                Stands(codes \o tail, text \o SubSeq(chunk[t], pos[t] + 1, pos[t] + n))
<1>0. Types /\ LineInv(t) /\ CostInv(t)
  BY DEF CallInv
<1> DEFINE text == chunk[t]
           N == Len(text)
           p == pos[t]
           code == dpChoice[p]
<1>1. GoodTable(symbols) /\ text \in Seq(Nat) /\ N \in Nat /\ p \in Nat /\ p < N /\ N <= ChunkMax
  <2>1. GoodTable(symbols) /\ text \in Seq(Nat) /\ N \in Nat /\ p \in Nat
    BY <1>0, StateFacts
  <2>2. p < N /\ at[t] = "emit"
    BY DEF Emit
  <2> QED BY <1>0, <2>1, <2>2 DEF LineInv, InChunk
<1>2. Attains(code, dpCost[p], dpCost, text, p)
  <2>1. Settled(dpCost, dpChoice, text, 0)
    BY <1>0 DEF CostInv, Emit
  <2>2. PICK f : Costs(f, text)
    BY <1>1, CostsExist
  <2>3. p \in 0..N
    BY <1>1
  <2> QED BY <1>1, <2>1, <2>2, <2>3 DEF Settled
<1>3. pos \in [Thread -> Nat] /\ dpCost \in [0..ChunkMax + 8 -> Nat]
  BY <1>0 DEF Types
<1>4. CASE code = Escape
  <2> DEFINE b == text[p + 1]
             tail == <<Esc, b>>
  <2>0. SubSeq(text, p + 1, p + 1) = <<b>> /\ b \in Nat
    <3>1. p + 1 <= Len(text)
      BY <1>1
    <3> HIDE DEF p, text
    <3> QED BY <1>1, <3>1, OneElement DEF N
  <2>1. tail \in Seq(Nat) /\ Len(tail) = 2
    BY <2>0 DEF Esc
  <2>2. Codes(t, code) = tail
    BY <1>4 DEF Codes
  <2>3. pos'[t] = p + 1 /\ pos' \in [Thread -> Nat]
    <3>1. pos' = [pos EXCEPT ![t] = p + 1]
      BY <1>4 DEF Emit
    <3> QED BY <1>1, <1>3, <3>1
  <2>4. dpCost[p] = Len(tail) + dpCost[p + 1]
    <3>1. ~(code \in 0..Len(symbols) - 1 /\ code # Escape)
      BY <1>4
    <3> HIDE DEF code, tail
    <3>2. dpCost[p] = 2 + dpCost[p + 1]
      BY <1>2, <3>1 DEF Attains
    <3> QED BY <2>1, <3>2
  <2>5. \A codes, done : Stands(codes, done) => Stands(codes \o tail, done \o SubSeq(text, p + 1, p + 1))
    BY <2>0, EscapeAppended
  <2>6. p + 1 <= N
    BY <1>1
  <2> DEFINE n == 1
  <2>7. n \in Nat \ {0} /\ n = 1
    OBVIOUS
  <2> HIDE DEF tail, code, n
  <2> QED BY <2>1, <2>2, <2>3, <2>4, <2>5, <2>6, <2>7 DEF code
<1>5. CASE code # Escape
  <2> DEFINE s == symbols[code + 1]
             n == Len(s)
             tail == <<code>>
             m == Len(symbols)
  <2>1. /\ code \in 0..m - 1 /\ code + 1 \in Options(text, p)
        /\ dpCost[p] = 1 + dpCost[p + n]
    BY <1>2, <1>5 DEF Attains
  <2>2. SubSeq(text, p + 1, p + n) = s /\ p + n <= N /\ code + 1 \in 1..m
    BY <2>1 DEF Options
  <2>3. n \in Nat \ {0}
    <3>1. n \in 1..MaxLen
      BY <1>1, <2>2 DEF GoodTable
    <3> HIDE DEF n
    <3> QED BY <3>1, DPAssumption
  <2>4. code \in Nat
    <3>1. m \in Nat
      BY <1>1 DEF GoodTable
    <3> HIDE DEF m, code
    <3> QED BY <2>1, <3>1
  <2>5. tail \in Seq(Nat) /\ Len(tail) = 1
    BY <2>4
  <2>6. Codes(t, code) = tail
    BY <1>5 DEF Codes
  <2>7. pos'[t] = p + n /\ pos' \in [Thread -> Nat]
    <3>1. pos' = [pos EXCEPT ![t] = p + n]
      BY <1>5 DEF Emit
    <3> HIDE DEF n
    <3> QED BY <1>1, <1>3, <2>3, <3>1
  <2>8. \A codes, done : Stands(codes, done) => Stands(codes \o tail, done \o SubSeq(text, p + 1, p + n))
    BY <1>1, <2>1, <2>2, CodeAppended
  <2> HIDE DEF tail, n, code
  <2>9. dpCost[p] = Len(tail) + dpCost[p + n]
    BY <2>1, <2>5
  <2> QED BY <2>2, <2>3, <2>5, <2>6, <2>7, <2>8, <2>9 DEF code
<1> QED BY <1>4, <1>5

LEMMA EmitStep ==
  ASSUME OneCall, NEW t \in Thread, CallInv(t), Emit(t)
  PROVE  CallInv(t)'
<1>0. Types /\ TrieInv(t) /\ LineInv(t) /\ CostInv(t) /\ TextInv(t)
  BY DEF CallInv
<1>1. /\ at[t] = "emit" /\ UNCHANGED <<symbols, trie, trieReady, dpCost, dpChoice>>
      /\ UNCHANGED <<at, batch, size, curOff, chunk, k, i, mark, count>>
  BY DEF Emit, shared
<1>2. PICK tail \in Seq(Nat), n \in Nat \ {0} :
           /\ Codes(t, dpChoice[pos[t]]) = tail
           /\ pos'[t] = pos[t] + n /\ pos' \in [Thread -> Nat]
           /\ pos[t] + n <= Len(chunk[t])
           /\ dpCost[pos[t]] = Len(tail) + dpCost[pos[t] + n]
           /\ \A codes, text : Stands(codes, text) =>
                Stands(codes \o tail, text \o SubSeq(chunk[t], pos[t] + 1, pos[t] + n))
  BY EmitFacts
<1> DEFINE L == Len(out[t])
           old == out[t][L]
           new == old \o tail
           o == [out[t] EXCEPT ![L] = new]
           c == curOff[t]
           N == Len(chunk[t])
           p == pos[t]
<1>3. /\ L \in Nat /\ L >= 1 /\ L <= Len(batch[t]) /\ Len(batch[t]) \in Nat
      /\ c \in Nat /\ N \in Nat /\ p \in Nat /\ mark[t] \in Nat
      /\ c + N <= Len(Line(t)) /\ N <= ChunkMax
      /\ chunk[t] = SubSeq(Line(t), c + 1, c + N)
  BY <1>0, <1>1, StateFacts DEF LineInv, InChunk
<1>4. Line(t) \in Seq(Nat) /\ Len(Line(t)) \in Nat /\ old \in Seq(Nat) /\ Len(old) \in Nat
  BY <1>0, <1>3, LineFacts
<1>5. new \in Seq(Nat) /\ Len(new) = Len(old) + Len(tail) /\ Len(tail) \in Nat
  <2> HIDE DEF old
  <2> QED BY <1>2, <1>4, ConcatProperties
<1>6. /\ o \in Seq(Seq(Nat)) /\ Len(o) = L /\ o[L] = new
      /\ \A l \in 1..L - 1 : o[l] = out[t][l]
  <2>1. out[t] \in Seq(Seq(Nat)) /\ L \in 1..Len(out[t])
    BY <1>0, <1>3, StateFacts
  <2>2. /\ o \in Seq(Seq(Nat)) /\ Len(o) = Len(out[t])
        /\ \A j \in 1..Len(out[t]) : o[j] = IF j = L THEN new ELSE out[t][j]
    <3> HIDE DEF new, L
    <3> QED BY <1>5, <2>1, ExceptSeq
  <2>3. \A l \in 1..L - 1 : l \in 1..Len(out[t]) /\ l # L
    BY <1>3
  <2> HIDE DEF o, new
  <2> QED BY <2>1, <2>2, <2>3
<1>7. out'[t] = o /\ out' \in [Thread -> Seq(Seq(Nat))]
  <2>1. out \in [Thread -> Seq(Seq(Nat))]
    BY <1>0 DEF Types
  <2>2. out' = [out EXCEPT ![t] = o]
    BY <1>2 DEF Emit
  <2> HIDE DEF o
  <2> QED BY <1>6, <2>1, <2>2
<1>8. Types'
  <2> HIDE DEF o
  <2> QED BY <1>0, <1>1, <1>2, <1>7 DEF Types
<1>9. TrieInv(t)'
  <2>1. trieReady
    BY <1>0, <1>1 DEF TrieInv
  <2> QED BY <1>0, <1>1, <2>1, TrieKept
<1> HIDE DEF o, new, old, L, c, N, p
<1>10. Line(t)' = Line(t) /\ Len(out'[t]) = L /\ out'[t][Len(out'[t])] = new
  <2>1. Len(out'[t]) = L
    BY <1>6, <1>7
  <2> QED BY <1>1, <1>6, <1>7, <2>1 DEF Line, L
<1>11. LineInv(t)'
  <2>1. pos'[t] <= Len(chunk[t])
    BY <1>2
  <2> QED BY <1>1, <1>3, <1>10, <2>1 DEF LineInv, InChunk, c, N
<1>12. CostInv(t)'
  <2>1. Settled(dpCost, dpChoice, chunk[t], 0) /\ Len(old) + dpCost[p] = mark[t] + dpCost[0]
    BY <1>0, <1>1 DEF CostInv, old, L, p
  <2>2. Settled(dpCost, dpChoice, chunk[t], 0)'
    <3>1. PICK costs, choices, x : costs = dpCost /\ choices = dpChoice /\ x = chunk[t]
      OBVIOUS
    <3>2. Settled(costs, choices, x, 0)
      BY <2>1, <3>1
    <3>3. Settled(costs, choices, x, 0)'
      BY <1>1, <3>2, SettledSame
    <3>4. costs = dpCost' /\ choices = dpChoice' /\ x = chunk'[t]
      BY <1>1, <3>1
    <3> QED BY <3>3, <3>4
  <2>3. Len(new) + dpCost[p + n] = mark[t] + dpCost[0]
    <3>1. dpCost[p] = Len(tail) + dpCost[p + n]
      BY <1>2 DEF p
    <3>2. dpCost[p + n] \in Nat /\ dpCost[p] \in Nat /\ dpCost[0] \in Nat
      <4>1. dpCost \in [0..ChunkMax + 8 -> Nat]
        BY <1>0 DEF Types
      <4>2. p + n <= N
        BY <1>2 DEF p, N
      <4>3. p + n \in 0..ChunkMax + 8 /\ p \in 0..ChunkMax + 8 /\ 0 \in 0..ChunkMax + 8
        BY <1>3, <4>2, DPAssumption
      <4> QED BY <4>1, <4>3
    <3> DEFINE a == Len(old)
               b == Len(tail)
               e == dpCost[p]
               g == dpCost[p + n]
               h == dpCost[0]
               q == Len(new)
               r == mark[t]
    <3>3. /\ a \in Nat /\ b \in Nat /\ e \in Nat /\ g \in Nat /\ h \in Nat /\ r \in Nat
          /\ q = a + b /\ e = b + g /\ a + e = r + h
      BY <1>3, <1>4, <1>5, <2>1, <3>1, <3>2
    <3> HIDE DEF a, b, e, g, h, q, r
    <3>4. q + g = r + h
      BY <3>3
    <3> QED BY <3>4 DEF a, b, e, g, h, q, r
  <2>4. (Len(out[t][Len(out[t])]) + dpCost[pos[t]] = mark[t] + dpCost[0])'
    BY <1>1, <1>2, <1>10, <2>3 DEF p
  <2> QED BY <1>1, <2>2, <2>4 DEF CostInv
<1>13. TextInv(t)'
  <2>1. Finished(t) = 1..L - 1 /\ Finished(t)' = 1..L - 1
    <3>1. Finished(t)' = 1..Len(out'[t]) - 1
      BY <1>1 DEF Finished
    <3> QED BY <1>1, <1>10, <3>1 DEF Finished, L
  <2>2. ASSUME NEW l \in 1..L - 1 PROVE Stands(out[t][l], batch[t][l])'
    <3>1. Stands(out[t][l], batch[t][l])
      BY <1>0, <2>1 DEF TextInv
    <3>2. out'[t][l] = out[t][l]
      BY <1>6, <1>7
    <3> QED BY <1>1, <3>1, <3>2 DEF Stands
  <2>3. Stands(new, SubSeq(Line(t), 1, c + (p + n)))
    <3>1. Stands(old, SubSeq(Line(t), 1, c + p))
      <4>1. Covered(t) = c + p
        BY <1>1 DEF Covered, c, p
      <4> QED BY <1>0, <1>1, <4>1 DEF TextInv, InChunk, old, L
    <3>2. Stands(new, SubSeq(Line(t), 1, c + p) \o SubSeq(chunk[t], p + 1, p + n))
      BY <1>2, <3>1 DEF new, p
    <3>3. p + n <= N
      BY <1>2 DEF p, N
    <3>4. SubSeq(chunk[t], p + 1, p + n) = SubSeq(Line(t), (c + p) + 1, (c + p) + n)
      <4>1. SubSeq(SubSeq(Line(t), c + 1, c + N), p + 1, p + n) = SubSeq(Line(t), (c + p) + 1, (c + p) + n)
        BY <1>3, <1>4, <3>3, SliceOfSlice
      <4> QED BY <1>3, <4>1
    <3>5. SubSeq(Line(t), 1, c + p) \o SubSeq(Line(t), (c + p) + 1, (c + p) + n) = SubSeq(Line(t), 1, (c + p) + n)
      <4> DEFINE m == c + p
      <4>1. m \in Nat /\ n \in Nat /\ m + n <= Len(Line(t))
        BY <1>3, <1>4, <3>3
      <4> HIDE DEF m
      <4>2. SubSeq(Line(t), 1, m) \o SubSeq(Line(t), m + 1, m + n) = SubSeq(Line(t), 1, m + n)
        BY <1>4, <4>1, SliceAppended
      <4> QED BY <4>2 DEF m
    <3>6. (c + p) + n = c + (p + n)
      BY <1>3
    <3> QED BY <3>2, <3>4, <3>5, <3>6
  <2>4. Stands(out[t][Len(out[t])], SubSeq(Line(t), 1, Covered(t)))'
    <3>1. Covered(t)' = c + (p + n)
      BY <1>1, <1>2 DEF Covered, c, p
    <3> QED BY <1>1, <1>10, <2>3, <3>1 DEF Stands
  <2> QED BY <2>1, <2>2, <2>4 DEF TextInv
<1> QED BY <1>8, <1>9, <1>11, <1>12, <1>13 DEF CallInv

-----------------------------------------------------------------------------
(* The theorems                                                            *)

\* Every step of the one call keeps the invariant.
LEMMA CallStep ==
  ASSUME OneCall, NEW t \in Thread, CallInv(t), [Next]_vars
  PROVE  CallInv(t)'
<1>1. ASSUME NEW s \in Thread, Step(s) PROVE CallInv(t)'
  <2>1. s = t
    BY DEF OneCall
  <2>2. Step(t)
    BY <1>1, <2>1
  <2> QED BY <2>2, StartLineStep, ReturnStep, BeginChunkStep, EndChunkStep, CheckTrieStep,
             InsertStep, ZeroCostsStep, CellStep, EndCellsStep, EmitStep DEF Step
<1>2. CASE UNCHANGED vars
  <2>1. /\ UNCHANGED <<symbols, trie, trieReady, dpCost, dpChoice>>
        /\ UNCHANGED <<at, batch, size, curOff, chunk, k, i, pos, out, mark, count>>
    BY <1>2 DEF vars, shared, call
  <2>2. Types /\ TrieInv(t) /\ LineInv(t) /\ CostInv(t) /\ TextInv(t)
    BY DEF CallInv
  <2>3. Types'
    BY <2>1, <2>2 DEF Types
  <2>4. TrieInv(t)'
    BY <2>1, <2>2 DEF TrieInv, TrieKnows
  <2>5. LineInv(t)'
    BY <2>1, <2>2 DEF LineInv, Line
  <2>6. CostInv(t)'
    <3>1. PICK costs, choices, x, m : costs = dpCost /\ choices = dpChoice /\ x = chunk[t] /\ m = i[t]
      OBVIOUS
    <3>2. costs = dpCost' /\ choices = dpChoice' /\ x = chunk'[t] /\ m = i'[t]
      BY <2>1, <3>1
    <3>3. at[t] = "cell" => Settled(costs, choices, x, m)'
      BY <2>1, <2>2, <3>1, SettledSame DEF CostInv
    <3>4. at[t] = "emit" => Settled(costs, choices, x, 0)'
      BY <2>1, <2>2, <3>1, SettledSame DEF CostInv
    <3>5. at[t] = "emit" => Len(out[t][Len(out[t])]) + dpCost[pos[t]] = mark[t] + dpCost[0]
      BY <2>2 DEF CostInv
    <3> QED BY <2>1, <3>2, <3>3, <3>4, <3>5 DEF CostInv
  <2>7. TextInv(t)'
    <3>1. Finished(t)' = Finished(t) /\ Covered(t)' = Covered(t)
      BY <2>1 DEF Finished, Covered
    <3> QED BY <2>1, <2>2, <3>1, TextKept
  <2> QED BY <2>3, <2>4, <2>5, <2>6, <2>7 DEF CallInv
<1> QED BY <1>1, <1>2 DEF Next

LEMMA AlwaysCallInv == ASSUME OneCall PROVE Spec => [](\A t \in Thread : CallInv(t))
<1>1. Init => \A t \in Thread : CallInv(t)
  BY CallInitial
<1>2. (\A t \in Thread : CallInv(t)) /\ [Next]_vars => (\A t \in Thread : CallInv(t))'
  BY CallStep
<1> QED BY <1>1, <1>2, PTL DEF Spec

\* No parse of a chunk into symbols and escaped bytes takes fewer codes than
\* those compressBulkDP() writes, for every table and every line.
THEOREM FewestCodes == ASSUME OneCall PROVE Spec => []IsOptimal
<1>1. (\A t \in Thread : CallInv(t)) => IsOptimal
  <2> SUFFICES ASSUME NEW t \in Thread, CallInv(t), at[t] = "emit"
               PROVE  Len(out[t][Len(out[t])]) - mark[t] + dpCost[pos[t]] = LeastCost(chunk[t])
    BY DEF IsOptimal
  <2>1. Types /\ LineInv(t) /\ CostInv(t)
    BY DEF CallInv
  <2>2. GoodTable(symbols) /\ chunk[t] \in Seq(Nat) /\ Len(chunk[t]) \in Nat
    BY <2>1, StateFacts
  <2>3. PICK f : Costs(f, chunk[t]) /\ LeastCost(chunk[t]) = f[0]
    BY <2>2, CostsExist
  <2>4. dpCost[0] = f[0]
    <3>1. 0 \in 0..Len(chunk[t]) /\ Settled(dpCost, dpChoice, chunk[t], 0)
      BY <2>1, <2>2 DEF CostInv
    <3> QED BY <2>3, <3>1 DEF Settled
  <2>5. Len(out[t][Len(out[t])]) + dpCost[pos[t]] = mark[t] + dpCost[0]
    BY <2>1 DEF CostInv
  <2>6. /\ Len(out[t][Len(out[t])]) \in Nat /\ mark[t] \in Nat
        /\ dpCost[pos[t]] \in Nat /\ dpCost[0] \in Nat
    <3>1. Len(out[t]) >= 1 /\ Len(out[t]) <= Len(batch[t]) /\ pos[t] <= Len(chunk[t]) /\ Len(chunk[t]) <= ChunkMax
      BY <2>1 DEF LineInv, InChunk
    <3>2. Len(out[t][Len(out[t])]) \in Nat
      BY <2>1, <3>1, LineFacts
    <3>3. pos[t] \in Nat /\ mark[t] \in Nat
      BY <2>1, StateFacts
    <3>4. pos[t] \in 0..ChunkMax + 8 /\ 0 \in 0..ChunkMax + 8
      BY <2>2, <3>1, <3>3, DPAssumption
    <3>5. dpCost \in [0..ChunkMax + 8 -> Nat]
      BY <2>1 DEF Types
    <3> QED BY <3>2, <3>3, <3>4, <3>5
  <2> DEFINE a == Len(out[t][Len(out[t])])
             b == mark[t]
             c == dpCost[pos[t]]
             d == dpCost[0]
  <2>7. a + c = b + d /\ a \in Nat /\ b \in Nat /\ c \in Nat /\ d \in Nat
    BY <2>5, <2>6
  <2>8. a - b + c = d
    <3> HIDE DEF a, b, c, d
    <3> QED BY <2>7
  <2> QED BY <2>3, <2>4, <2>8
<1> QED BY <1>1, AlwaysCallInv, PTL

\* What is written for a line stands for it, however the line is cut into
\* chunks and whichever call made the trie.
THEOREM LinesAreKept == ASSUME OneCall PROVE Spec => []StandsForLine
<1>1. (\A t \in Thread : CallInv(t)) => StandsForLine
  <2> SUFFICES ASSUME NEW t \in Thread, CallInv(t), NEW l \in Finished(t)
               PROVE  WellFormed(out[t][l]) /\ Text(Pieces(symbols, out[t][l])) = batch[t][l]
    BY DEF StandsForLine
  <2>1. Stands(out[t][l], batch[t][l])
    BY DEF CallInv, TextInv
  <2>2. Len(out[t][l]) \in Nat
    <3>1. out[t][l] \in Seq(Nat)
      BY <2>1 DEF Stands
    <3> QED BY <3>1, LenProperties
  <2> QED BY <2>1, <2>2, ClosedWellFormed DEF Stands
<1> QED BY <1>1, AlwaysCallInv, PTL

=============================================================================
