----------------------------- MODULE DataLemmas -----------------------------
(***************************************************************************)
(* Facts about natural numbers, sums, flattened sequences, the pieces of a *)
(* code string, parts of sequences and runs of equal elements that the     *)
(* proofs of several components need.  Induction is stated with a set in   *)
(* place of a predicate, {n \in Nat : P(n)} for P, so that the provers can *)
(* instantiate it.                                                         *)
(***************************************************************************)
EXTENDS FsstCode, FiniteSets, FiniteSetTheorems, SequenceTheorems,
        WellFoundedInduction, TLAPS

-----------------------------------------------------------------------------
(* Induction                                                               *)

(* A nonempty set of naturals has a least member.                          *)
LEMMA LeastNatural ==
  ASSUME NEW T, T \subseteq Nat, T # {}
  PROVE  \E x \in T : \A y \in T : x <= y
<1> DEFINE R == {p \in Nat \X Nat : p[1] < p[2]}
<1>1. IsWellFoundedOn(R, Nat)
  BY NatLessThanWellFounded DEF OpToRel
<1>2. PICK x \in T : \A y \in T : <<y, x>> \notin R
  <2> HIDE DEF R
  <2> QED BY <1>1, WFMin
<1>3. ASSUME NEW y \in T, ~(x <= y) PROVE FALSE
  <2>1. <<y, x>> \in R
    <3>1. y \in Nat /\ x \in Nat /\ y < x
      BY <1>3
    <3> QED BY <3>1
  <2> QED BY <1>2, <2>1
<1> QED BY <1>3

(* A set that holds 0 and the successor of each of its members holds every *)
(* natural number.                                                         *)
LEMMA Induction ==
  ASSUME NEW T, 0 \in T, \A n \in Nat : n \in T => n + 1 \in T
  PROVE  Nat \subseteq T
<1> SUFFICES ASSUME Nat \ T # {} PROVE FALSE
  OBVIOUS
<1>1. PICK x \in Nat \ T : \A y \in Nat \ T : x <= y
  BY LeastNatural
<1>2. x # 0 /\ x - 1 \in Nat
  BY <1>1
<1>3. x - 1 \in T
  BY <1>1, <1>2
<1> QED BY <1>1, <1>2, <1>3

-----------------------------------------------------------------------------
(* Flattened sequences                                                     *)

\* f[i] is the concatenation of the first i sequences of s
Flattens(f, s, n) ==
  f = [i \in 1..n |-> IF i = 1 THEN s[i] ELSE f[i-1] \o s[i]]

(* The i-th value, unfolded.                                               *)
LEMMA FlattenAt ==
  ASSUME NEW f, NEW s, NEW n \in Nat, Flattens(f, s, n), NEW i \in 1..n
  PROVE  f[i] = IF i = 1 THEN s[i] ELSE f[i-1] \o s[i]
<1>1. f = [j \in 1..n |-> IF j = 1 THEN s[j] ELSE f[j-1] \o s[j]]
  BY DEF Flattens
<1> DEFINE h == [j \in 1..n |-> IF j = 1 THEN s[j] ELSE f[j-1] \o s[j]]
<1>2. h[i] = IF i = 1 THEN s[i] ELSE f[i-1] \o s[i]
  OBVIOUS
<1>3. f = h
  BY <1>1
<1> HIDE DEF h
<1> QED BY <1>2, <1>3

(* The recursion in FlattenSeq has a solution.                             *)
LEMMA FlattenExists ==
  ASSUME NEW s
  PROVE  \A n \in Nat : \E f : Flattens(f, s, n)
<1> DEFINE T == {n \in Nat : \E f : Flattens(f, s, n)}
<1>1. 0 \in T
  <2> DEFINE f0 == [i \in 1..0 |-> s[i]]
  <2>1. Flattens(f0, s, 0)
    BY DEF Flattens
  <2> QED BY <2>1
<1>2. ASSUME NEW n \in Nat, n \in T PROVE n + 1 \in T
  <2>1. PICK f : Flattens(f, s, n)
    BY <1>2
  <2> DEFINE g == [i \in 1..n + 1 |-> IF i = 1 THEN s[i] ELSE f[i-1] \o s[i]]
  <2>2. ASSUME NEW i \in 1..n PROVE g[i] = f[i]
    BY <2>1, FlattenAt
  <2>3. ASSUME NEW i \in 1..n + 1, i # 1 PROVE g[i-1] = f[i-1]
    <3>1. i - 1 \in 1..n
      BY <2>3
    <3> HIDE DEF g
    <3> QED BY <2>2, <3>1
  <2>4. g = [i \in 1..n + 1 |-> IF i = 1 THEN s[i] ELSE g[i-1] \o s[i]]
    <3> HIDE DEF g
    <3>1. g = [i \in 1..n + 1 |-> IF i = 1 THEN s[i] ELSE f[i-1] \o s[i]]
      BY DEF g
    <3> QED BY <2>3, <3>1
  <2>5. Flattens(g, s, n + 1)
    BY <2>4 DEF Flattens
  <2> QED BY <2>5
<1>3. Nat \subseteq T
  <2> HIDE DEF T
  <2> QED BY <1>1, <1>2, Induction
<1> QED BY <1>3

(* Two solutions agree where both are defined and the sequences agree.     *)
LEMMA FlattenUnique ==
  ASSUME NEW s, NEW t, NEW m \in Nat, NEW n \in Nat, NEW f, NEW g,
         Flattens(f, s, m), Flattens(g, t, n),
         NEW k \in Nat, k <= m, k <= n, \A i \in 1..k : s[i] = t[i]
  PROVE  \A i \in 1..k : f[i] = g[i]
<1> DEFINE T == {j \in Nat : j \in 1..k => f[j] = g[j]}
<1>1. 0 \in T
  OBVIOUS
<1>2. ASSUME NEW j \in Nat, j \in T PROVE j + 1 \in T
  <2> SUFFICES ASSUME j + 1 \in 1..k PROVE f[j+1] = g[j+1]
    OBVIOUS
  <2>1. f[j+1] = IF j + 1 = 1 THEN s[j+1] ELSE f[j+1-1] \o s[j+1]
    BY FlattenAt
  <2>2. g[j+1] = IF j + 1 = 1 THEN t[j+1] ELSE g[j+1-1] \o t[j+1]
    BY FlattenAt
  <2>3. s[j+1] = t[j+1] /\ (j # 0 => f[j] = g[j]) /\ j + 1 - 1 = j
    BY <1>2
  <2> QED BY <2>1, <2>2, <2>3
<1>3. Nat \subseteq T
  <2> HIDE DEF T
  <2> QED BY <1>1, <1>2, Induction
<1> QED BY <1>3

(* FlattenSeq of a nonempty sequence is the last value of the recursion.   *)
LEMMA FlattenValue ==
  ASSUME NEW s, Len(s) \in Nat \ {0}
  PROVE  \E f : Flattens(f, s, Len(s)) /\ FlattenSeq(s) = f[Len(s)]
<1> DEFINE F == CHOOSE f : Flattens(f, s, Len(s))
<1>1. Flattens(F, s, Len(s))
  BY FlattenExists
<1>2. FlattenSeq(s) = F[Len(s)]
  BY DEF FlattenSeq, Flattens
<1> QED BY <1>1, <1>2

(* Flattening nothing gives nothing.                                       *)
LEMMA FlattenEmpty == FlattenSeq(<<>>) = <<>>
BY EmptySeq DEF FlattenSeq

(* The concatenation of sequences over E is a sequence over E.             *)
LEMMA FlattenType ==
  ASSUME NEW E, NEW s \in Seq(Seq(E))
  PROVE  FlattenSeq(s) \in Seq(E)
<1>1. CASE Len(s) = 0
  BY <1>1, EmptySeq DEF FlattenSeq
<1>2. CASE Len(s) # 0
  <2>1. PICK f : Flattens(f, s, Len(s)) /\ FlattenSeq(s) = f[Len(s)]
    BY <1>2, FlattenValue
  <2> DEFINE T == {j \in Nat : j \in 1..Len(s) => f[j] \in Seq(E)}
  <2>2. 0 \in T
    OBVIOUS
  <2>3. ASSUME NEW j \in Nat, j \in T PROVE j + 1 \in T
    <3> SUFFICES ASSUME j + 1 \in 1..Len(s) PROVE f[j+1] \in Seq(E)
      OBVIOUS
    <3>1. f[j+1] = IF j + 1 = 1 THEN s[j+1] ELSE f[j+1-1] \o s[j+1]
      BY <2>1, FlattenAt
    <3>2. s[j+1] \in Seq(E) /\ (j # 0 => f[j] \in Seq(E)) /\ j + 1 - 1 = j
      BY <2>3
    <3> QED BY <3>1, <3>2, ConcatProperties
  <2>4. Nat \subseteq T
    <3> HIDE DEF T
    <3> QED BY <2>2, <2>3, Induction
  <2> QED BY <1>2, <2>1, <2>4
<1> QED BY <1>1, <1>2

(* A sequence that is longer by one is flattened to what the first one is, *)
(* followed by its last sequence.                                          *)
LEMMA FlattenLonger ==
  ASSUME NEW s, NEW t, NEW n \in Nat \ {0}, NEW m \in Nat, m = n + 1,
         Len(s) = n, Len(t) = m, \A i \in 1..n : s[i] = t[i]
  PROVE  FlattenSeq(t) = FlattenSeq(s) \o t[m]
<1>1. n \in 1..n /\ n <= n /\ n <= m /\ m \in 1..m /\ m # 1 /\ m - 1 = n /\ m \in Nat \ {0}
  OBVIOUS
<1>2. PICK f : Flattens(f, s, n) /\ FlattenSeq(s) = f[n]
  BY FlattenValue
<1>3. PICK g : Flattens(g, t, m) /\ FlattenSeq(t) = g[m]
  BY <1>1, FlattenValue
<1>4. \A i \in 1..n : f[i] = g[i]
  BY <1>1, <1>2, <1>3, FlattenUnique
<1>5. \A i \in 1..m : g[i] = IF i = 1 THEN t[i] ELSE g[i - 1] \o t[i]
  BY <1>3, FlattenAt
<1>6. f[n] = g[n]
  BY <1>1, <1>4
<1> QED BY <1>1, <1>2, <1>3, <1>5, <1>6

(* One more sequence at the end is concatenated at the end.                *)
LEMMA FlattenAppend ==
  ASSUME NEW E, NEW s \in Seq(Seq(E)), NEW e \in Seq(E)
  PROVE  FlattenSeq(Append(s, e)) = FlattenSeq(s) \o e
<1> DEFINE t == Append(s, e)
           n == Len(s)
           m == n + 1
<1>1. t \in Seq(Seq(E)) /\ Len(t) = m /\ t[m] = e /\ \A i \in 1..n : s[i] = t[i]
  BY AppendProperties
<1>2. n \in Nat /\ m \in Nat /\ m \in Nat \ {0} /\ m = n + 1
  OBVIOUS
<1> HIDE DEF t, m
<1>6. CASE n = 0
  <2>1. FlattenSeq(s) = <<>>
    BY <1>6, EmptySeq DEF FlattenSeq
  <2>2. m = 1 /\ 1 \in 1..1 /\ 1 \in Nat \ {0} /\ 1 \in Nat
    BY <1>2, <1>6
  <2>3. PICK g : Flattens(g, t, 1) /\ FlattenSeq(t) = g[1]
    BY <1>1, <2>2, FlattenValue
  <2>4. g[1] = t[1]
    BY <2>2, <2>3, FlattenAt
  <2> QED BY <1>1, <1>6, <2>1, <2>2, <2>3, <2>4, ConcatEmptySeq DEF t
<1>7. CASE n # 0
  <2>1. n \in Nat \ {0} /\ n = Len(s) /\ Len(t) = m /\ m = n + 1 /\ m \in Nat
    BY <1>1, <1>2, <1>7
  <2>2. \A i \in 1..n : s[i] = t[i]
    BY <1>1
  <2> HIDE DEF n
  <2>3. FlattenSeq(t) = FlattenSeq(s) \o t[m]
    BY <2>1, <2>2, FlattenLonger
  <2> QED BY <1>1, <2>3 DEF t
<1> QED BY <1>6, <1>7

(* A prefix that is longer by one has one more sequence flattened into it. *)
LEMMA FlattenPrefix ==
  ASSUME NEW E, NEW s \in Seq(Seq(E)), NEW j \in 0..Len(s) - 1
  PROVE  /\ SubSeq(s, 1, j) \in Seq(Seq(E))
         /\ SubSeq(s, 1, j + 1) \in Seq(Seq(E))
         /\ FlattenSeq(SubSeq(s, 1, j + 1)) = FlattenSeq(SubSeq(s, 1, j)) \o s[j + 1]
<1> DEFINE p == SubSeq(s, 1, j)
           q == SubSeq(s, 1, j + 1)
<1>1. p \in Seq(Seq(E)) /\ Len(p) = j /\ \A i \in 1..j : p[i] = s[i]
  OBVIOUS
<1>2. q \in Seq(Seq(E)) /\ Len(q) = j + 1 /\ \A i \in 1..j + 1 : q[i] = s[i]
  OBVIOUS
<1>3. s[j + 1] \in Seq(E) /\ j \in Nat
  OBVIOUS
<1> HIDE DEF p, q
<1>4. /\ Append(p, s[j + 1]) \in Seq(Seq(E))
      /\ Len(Append(p, s[j + 1])) = j + 1
      /\ \A i \in 1..j : Append(p, s[j + 1])[i] = p[i]
      /\ Append(p, s[j + 1])[j + 1] = s[j + 1]
  BY <1>1, <1>3, AppendProperties
<1>5. q = Append(p, s[j + 1])
  <2>1. ASSUME NEW i \in 1..j + 1
        PROVE  q[i] = Append(p, s[j + 1])[i]
    <3>1. CASE i = j + 1
      BY <1>2, <1>4, <3>1
    <3>2. CASE i # j + 1
      <4>1. i \in 1..j
        BY <1>3, <3>2
      <4> QED BY <1>1, <1>2, <1>4, <4>1
    <3> QED BY <3>1, <3>2
  <2> QED BY <1>2, <1>4, <2>1, SeqEqual
<1>6. FlattenSeq(q) = FlattenSeq(p) \o s[j + 1]
  BY <1>1, <1>3, <1>5, FlattenAppend
<1> QED BY <1>1, <1>2, <1>6 DEF p, q

\* how long the first j sequences of s are together
LengthOf(s, j) == Len(FlattenSeq(SubSeq(s, 1, j)))

(* Lengths add up, beginning with none, to the length of the whole.        *)
LEMMA LengthOfPrefix ==
  ASSUME NEW E, NEW s \in Seq(Seq(E))
  PROVE  /\ LengthOf(s, 0) = 0
         /\ LengthOf(s, Len(s)) = Len(FlattenSeq(s))
         /\ \A j \in 0..Len(s) : LengthOf(s, j) \in Nat
         /\ \A j \in 0..Len(s) - 1 : LengthOf(s, j + 1) = LengthOf(s, j) + Len(s[j + 1])
<1>1. LengthOf(s, 0) = 0
  <2>1. SubSeq(s, 1, 0) = <<>>
    OBVIOUS
  <2> QED BY <2>1, FlattenEmpty, EmptySeq DEF LengthOf
<1>2. LengthOf(s, Len(s)) = Len(FlattenSeq(s))
  BY SubSeqFull DEF LengthOf
<1>3. \A j \in 0..Len(s) : LengthOf(s, j) \in Nat
  <2> TAKE j \in 0..Len(s)
  <2>1. SubSeq(s, 1, j) \in Seq(Seq(E))
    OBVIOUS
  <2>2. FlattenSeq(SubSeq(s, 1, j)) \in Seq(E)
    BY <2>1, FlattenType
  <2> QED BY <2>2 DEF LengthOf
<1>4. ASSUME NEW j \in 0..Len(s) - 1
      PROVE  LengthOf(s, j + 1) = LengthOf(s, j) + Len(s[j + 1])
  <2>1. FlattenSeq(SubSeq(s, 1, j + 1)) = FlattenSeq(SubSeq(s, 1, j)) \o s[j + 1]
    BY FlattenPrefix
  <2>2. FlattenSeq(SubSeq(s, 1, j)) \in Seq(E)
    BY FlattenPrefix, FlattenType
  <2>3. s[j + 1] \in Seq(E)
    OBVIOUS
  <2> QED BY <2>1, <2>2, <2>3, ConcatProperties DEF LengthOf
<1> QED BY <1>1, <1>2, <1>3, <1>4

(* In what a sequence of sequences is flattened to, the k-th sequence      *)
(* begins behind the first k - 1.                                          *)
LEMMA FlattenPlace ==
  ASSUME NEW E, NEW s \in Seq(Seq(E)), NEW k \in 1..Len(s)
  PROVE  /\ LengthOf(s, k) = LengthOf(s, k - 1) + Len(s[k])
         /\ LengthOf(s, k) <= Len(FlattenSeq(s))
         /\ \A i \in 1..Len(s[k]) : FlattenSeq(s)[LengthOf(s, k - 1) + i] = s[k][i]
<1> DEFINE P(j) == FlattenSeq(SubSeq(s, 1, j))
           T == {j \in Nat : j \in k..Len(s) =>
                   /\ LengthOf(s, k) <= LengthOf(s, j)
                   /\ \A i \in 1..Len(s[k]) : P(j)[LengthOf(s, k - 1) + i] = s[k][i]}
<1>0. /\ LengthOf(s, k) = LengthOf(s, k - 1) + Len(s[k])
      /\ LengthOf(s, k - 1) \in Nat /\ Len(s[k]) \in Nat
  <2>1. k - 1 \in 0..Len(s) - 1 /\ k - 1 \in 0..Len(s) /\ (k - 1) + 1 = k
    OBVIOUS
  <2>2. LengthOf(s, (k - 1) + 1) = LengthOf(s, k - 1) + Len(s[(k - 1) + 1])
    BY <2>1, LengthOfPrefix
  <2>3. s[k] \in Seq(E)
    OBVIOUS
  <2> QED BY <2>1, <2>2, <2>3, LengthOfPrefix
<1>1. 0 \in T
  OBVIOUS
<1>2. ASSUME NEW j \in Nat, j \in T PROVE j + 1 \in T
  <2> SUFFICES ASSUME j + 1 \in k..Len(s)
               PROVE  /\ LengthOf(s, k) <= LengthOf(s, j + 1)
                      /\ \A i \in 1..Len(s[k]) : P(j + 1)[LengthOf(s, k - 1) + i] = s[k][i]
    OBVIOUS
  <2>1. j \in 0..Len(s) - 1 /\ j \in 0..Len(s) /\ j + 1 \in 0..Len(s)
    OBVIOUS
  <2>2. P(j + 1) = P(j) \o s[j + 1] /\ SubSeq(s, 1, j) \in Seq(Seq(E))
    BY <2>1, FlattenPrefix
  <2>3. P(j) \in Seq(E) /\ s[j + 1] \in Seq(E)
    <3>1. P(j) \in Seq(E)
      BY <2>2, FlattenType
    <3>2. s[j + 1] \in Seq(E)
      BY <2>1
    <3> QED BY <3>1, <3>2
  <2>4. Len(P(j)) = LengthOf(s, j) /\ LengthOf(s, j) \in Nat
        /\ LengthOf(s, j + 1) = LengthOf(s, j) + Len(s[j + 1])
    BY <2>1, LengthOfPrefix DEF LengthOf
  <2>5. Len(s[j + 1]) \in Nat
    BY <2>3
  <2> HIDE DEF P
  <2>6. \A i \in 1..Len(P(j)) + Len(s[j + 1]) :
          P(j + 1)[i] = IF i <= Len(P(j)) THEN P(j)[i] ELSE s[j + 1][i - Len(P(j))]
    BY <2>2, <2>3, ConcatProperties
  <2>7. CASE j + 1 = k
    <3>1. j = k - 1 /\ s[j + 1] = s[k] /\ LengthOf(s, j) = LengthOf(s, k - 1)
      BY <2>7
    <3>2. LengthOf(s, k) <= LengthOf(s, j + 1)
      BY <1>0, <2>7
    <3>3. ASSUME NEW i \in 1..Len(s[k])
          PROVE  P(j + 1)[LengthOf(s, k - 1) + i] = s[k][i]
      <4>1. PICK n \in Nat : n = LengthOf(s, k - 1)
        BY <1>0
      <4>2. PICK m \in Nat : m = n + i
        BY <1>0
      <4>3. m \in 1..Len(P(j)) + Len(s[j + 1]) /\ ~(m <= Len(P(j))) /\ m - Len(P(j)) = i
        BY <1>0, <2>4, <3>1, <4>1, <4>2
      <4>4. P(j + 1)[m] = s[j + 1][i]
        BY <2>6, <4>3
      <4> QED BY <3>1, <4>1, <4>2, <4>4
    <3> QED BY <3>2, <3>3
  <2>8. CASE j + 1 # k
    <3>1. j \in k..Len(s)
      BY <2>8
    <3>2. LengthOf(s, k) <= LengthOf(s, j)
      BY <1>2, <3>1
    <3>3. \A i \in 1..Len(s[k]) : P(j)[LengthOf(s, k - 1) + i] = s[k][i]
      BY <1>2, <3>1
    <3>4. LengthOf(s, k) <= LengthOf(s, j + 1)
      BY <1>0, <2>4, <2>5, <3>2
    <3>5. ASSUME NEW i \in 1..Len(s[k])
          PROVE  P(j + 1)[LengthOf(s, k - 1) + i] = s[k][i]
      <4>1. PICK n \in Nat : n = LengthOf(s, k - 1)
        BY <1>0
      <4>2. PICK m \in Nat : m = n + i
        BY <1>0
      <4>3. n + Len(s[k]) <= Len(P(j)) /\ Len(P(j)) \in Nat /\ Len(s[k]) \in Nat
        BY <1>0, <2>4, <3>2, <4>1
      <4>4. m \in 1..Len(P(j)) + Len(s[j + 1]) /\ m <= Len(P(j))
        BY <2>5, <4>2, <4>3, SMTT(30)
      <4>5. P(j + 1)[m] = P(j)[m]
        BY <2>6, <4>4
      <4> QED BY <3>3, <4>1, <4>2, <4>5
    <3> QED BY <3>4, <3>5
  <2> QED BY <2>7, <2>8
<1>3. Nat \subseteq T
  <2> HIDE DEF T
  <2> QED BY <1>1, <1>2, Induction
<1>4. Len(s) \in Nat /\ Len(s) \in k..Len(s)
  OBVIOUS
<1>5. P(Len(s)) = FlattenSeq(s) /\ LengthOf(s, Len(s)) = Len(FlattenSeq(s))
  BY SubSeqFull DEF LengthOf
<1>6. Len(s) \in T
  BY <1>3, <1>4
<1> QED BY <1>0, <1>4, <1>5, <1>6

-----------------------------------------------------------------------------
(* Sums over a finite set                                                  *)

\* g[T] is the sum of the f[x], for x in T, of the subsets of S of at most
\* n members
Sums(g, f, S, n) ==
  g = [T \in {U \in SUBSET S : Cardinality(U) <= n} |->
         IF T = {} THEN 0
         ELSE f[CHOOSE x \in T : TRUE] + g[T \ {CHOOSE x \in T : TRUE}]]

(* A nonempty set has one member less without the chosen one.              *)
LEMMA WithoutChoice ==
  ASSUME NEW S, IsFiniteSet(S), NEW T \in SUBSET S, T # {}
  PROVE  LET c == CHOOSE x \in T : TRUE IN
         /\ c \in T /\ T \ {c} \in SUBSET S /\ IsFiniteSet(T)
         /\ Cardinality(T) \in Nat \ {0} /\ Cardinality(T \ {c}) = Cardinality(T) - 1
<1> DEFINE c == CHOOSE x \in T : TRUE
<1>1. c \in T
  OBVIOUS
<1>2. IsFiniteSet(T) /\ Cardinality(T) \in Nat
  BY FS_Subset, FS_CardinalityType
<1>3. Cardinality(T) # 0
  BY <1>2, FS_EmptySet
<1> HIDE DEF c
<1>4. Cardinality(T \ {c}) = Cardinality(T) - 1
  BY <1>1, <1>2, FS_RemoveElement
<1> QED BY <1>1, <1>2, <1>3, <1>4 DEF c

(* The sum over one subset, unfolded.                                      *)
LEMMA SumAt ==
  ASSUME NEW f, NEW S, NEW n, NEW g, Sums(g, f, S, n),
         NEW T \in SUBSET S, Cardinality(T) <= n
  PROVE  g[T] = IF T = {} THEN 0
                ELSE f[CHOOSE x \in T : TRUE] + g[T \ {CHOOSE x \in T : TRUE}]
<1> DEFINE h == [U \in {V \in SUBSET S : Cardinality(V) <= n} |->
                   IF U = {} THEN 0
                   ELSE f[CHOOSE x \in U : TRUE] + g[U \ {CHOOSE x \in U : TRUE}]]
<1>1. g = h
  BY DEF Sums
<1>2. h[T] = IF T = {} THEN 0
             ELSE f[CHOOSE x \in T : TRUE] + g[T \ {CHOOSE x \in T : TRUE}]
  OBVIOUS
<1> HIDE DEF h
<1> QED BY <1>1, <1>2

(* The recursion in SumFunctionOnSet has a solution.                       *)
LEMMA SumExists ==
  ASSUME NEW f, NEW S, IsFiniteSet(S)
  PROVE  \A n \in Nat : \E g : Sums(g, f, S, n)
<1> DEFINE P == {n \in Nat : \E g : Sums(g, f, S, n)}
           Low(n) == {T \in SUBSET S : Cardinality(T) <= n}
           Choice(T) == CHOOSE x \in T : TRUE
<1>1. \A T \in SUBSET S : T # {} => /\ T \ {Choice(T)} \in SUBSET S
                                    /\ Cardinality(T) \in Nat \ {0}
                                    /\ Cardinality(T \ {Choice(T)}) = Cardinality(T) - 1
  BY WithoutChoice
<1>2. Cardinality({}) = 0
  BY FS_EmptySet
<1>3. 0 \in P
  <2> DEFINE g0 == [T \in Low(0) |-> 0]
  <2>1. \A T \in Low(0) : T = {}
    <3> HIDE DEF Choice
    <3> SUFFICES ASSUME NEW T \in SUBSET S, Cardinality(T) <= 0, T # {} PROVE FALSE
      OBVIOUS
    <3>1. Cardinality(T) \in Nat \ {0}
      BY <1>1
    <3> QED BY <3>1
  <2>2. g0 = [T \in Low(0) |-> IF T = {} THEN 0 ELSE f[Choice(T)] + g0[T \ {Choice(T)}]]
    BY <2>1
  <2> HIDE DEF g0
  <2>3. Sums(g0, f, S, 0)
    BY <2>2 DEF Sums
  <2> QED BY <2>3
<1>4. ASSUME NEW n \in Nat, n \in P PROVE n + 1 \in P
  <2>1. PICK g : Sums(g, f, S, n)
    BY <1>4
  <2> DEFINE h == [T \in Low(n + 1) |-> IF T = {} THEN 0 ELSE f[Choice(T)] + g[T \ {Choice(T)}]]
  <2>2. ASSUME NEW T \in Low(n) PROVE h[T] = g[T]
    <3>1. T \in SUBSET S /\ Cardinality(T) <= n /\ T \in Low(n + 1)
      <4>1. T = {} \/ Cardinality(T) \in Nat
        BY <1>1
      <4> QED BY <1>2, <4>1
    <3>2. g[T] = IF T = {} THEN 0 ELSE f[Choice(T)] + g[T \ {Choice(T)}]
      BY <2>1, <3>1, SumAt
    <3> QED BY <3>1, <3>2
  <2>3. ASSUME NEW T \in Low(n + 1), T # {} PROVE T \ {Choice(T)} \in Low(n)
    BY <1>1, <2>3
  <2>4. h = [T \in Low(n + 1) |-> IF T = {} THEN 0 ELSE f[Choice(T)] + h[T \ {Choice(T)}]]
    <3> HIDE DEF h, Low, Choice
    <3>1. h = [T \in Low(n + 1) |-> IF T = {} THEN 0 ELSE f[Choice(T)] + g[T \ {Choice(T)}]]
      BY DEF h
    <3> QED BY <2>2, <2>3, <3>1
  <2> HIDE DEF h
  <2>5. Sums(h, f, S, n + 1)
    BY <2>4 DEF Sums
  <2> QED BY <2>5
<1>5. Nat \subseteq P
  <2> HIDE DEF P
  <2> QED BY <1>3, <1>4, Induction
<1> QED BY <1>5

(* Two solutions agree where both are defined and the functions agree.     *)
LEMMA SumUnique ==
  ASSUME NEW f, NEW S, NEW m \in Nat, NEW g, Sums(g, f, S, m), IsFiniteSet(S),
         NEW e, NEW R, NEW n \in Nat, NEW h, Sums(h, e, R, n), IsFiniteSet(R),
         NEW U \in SUBSET (S \cap R), Cardinality(U) <= m, Cardinality(U) <= n,
         \A x \in U : f[x] = e[x]
  PROVE  g[U] = h[U]
<1> DEFINE P == {k \in Nat : \A T \in SUBSET U : Cardinality(T) = k => g[T] = h[T]}
           Choice(T) == CHOOSE x \in T : TRUE
<1>0. IsFiniteSet(U) /\ Cardinality(U) \in Nat
  BY FS_Subset, FS_CardinalityType
<1>1. \A T \in SUBSET U : /\ Cardinality(T) <= m /\ Cardinality(T) <= n
                          /\ Cardinality(T) \in Nat
                          /\ T \in SUBSET S /\ T \in SUBSET R
  <2> SUFFICES ASSUME NEW T \in SUBSET U
               PROVE  /\ Cardinality(T) <= m /\ Cardinality(T) <= n /\ Cardinality(T) \in Nat
    OBVIOUS
  <2>1. IsFiniteSet(T) /\ Cardinality(T) <= Cardinality(U)
    BY <1>0, FS_Subset
  <2>2. Cardinality(T) \in Nat
    BY <2>1, FS_CardinalityType
  <2> QED BY <1>0, <2>1, <2>2
<1>2. \A T \in SUBSET U : T # {} => /\ Choice(T) \in T /\ T \ {Choice(T)} \in SUBSET U
                                    /\ Cardinality(T) # 0
                                    /\ Cardinality(T \ {Choice(T)}) = Cardinality(T) - 1
  BY <1>0, WithoutChoice
<1>3. \A T \in SUBSET U :
        /\ g[T] = IF T = {} THEN 0 ELSE f[Choice(T)] + g[T \ {Choice(T)}]
        /\ h[T] = IF T = {} THEN 0 ELSE e[Choice(T)] + h[T \ {Choice(T)}]
  <2> TAKE T \in SUBSET U
  <2>1. g[T] = IF T = {} THEN 0 ELSE f[Choice(T)] + g[T \ {Choice(T)}]
    BY <1>1, SumAt
  <2>2. h[T] = IF T = {} THEN 0 ELSE e[Choice(T)] + h[T \ {Choice(T)}]
    BY <1>1, SumAt
  <2> QED BY <2>1, <2>2
<1> HIDE DEF Choice
<1>4. 0 \in P
  BY <1>2, <1>3
<1>5. ASSUME NEW k \in Nat, k \in P PROVE k + 1 \in P
  <2> SUFFICES ASSUME NEW T \in SUBSET U, Cardinality(T) = k + 1 PROVE g[T] = h[T]
    OBVIOUS
  <2>1. T # {}
    BY FS_EmptySet
  <2> DEFINE V == T \ {Choice(T)}
  <2>2. V \in SUBSET U /\ Cardinality(V) = k /\ Choice(T) \in U
    BY <1>2, <2>1
  <2>3. g[V] = h[V] /\ f[Choice(T)] = e[Choice(T)]
    BY <1>5, <2>2
  <2> HIDE DEF V
  <2> QED BY <1>3, <2>1, <2>3 DEF V
<1>6. Nat \subseteq P
  <2> HIDE DEF P
  <2> QED BY <1>4, <1>5, Induction
<1> QED BY <1>0, <1>6

(* SumFunctionOnSet is a value of the recursion.                           *)
LEMMA SumValue ==
  ASSUME NEW f, NEW S, IsFiniteSet(S)
  PROVE  \E g : Sums(g, f, S, Cardinality(S)) /\ SumFunctionOnSet(f, S) = g[S]
<1> DEFINE G == CHOOSE g : g = [T \in SUBSET S |-> IF T = {} THEN 0
                  ELSE f[CHOOSE x \in T : TRUE] + g[T \ {CHOOSE x \in T : TRUE}]]
<1>1. Cardinality(S) \in Nat /\ \A T \in SUBSET S : Cardinality(T) <= Cardinality(S)
  BY FS_Subset, FS_CardinalityType
<1>2. {U \in SUBSET S : Cardinality(U) <= Cardinality(S)} = SUBSET S
  BY <1>1
<1>3. \A g : Sums(g, f, S, Cardinality(S)) <=>
        g = [T \in SUBSET S |-> IF T = {} THEN 0
              ELSE f[CHOOSE x \in T : TRUE] + g[T \ {CHOOSE x \in T : TRUE}]]
  BY <1>2 DEF Sums
<1>4. \E g : Sums(g, f, S, Cardinality(S))
  BY <1>1, SumExists
<1>5. Sums(G, f, S, Cardinality(S))
  BY <1>3, <1>4, ZenonT(30)
<1>6. SumFunctionOnSet(f, S) = G[S]
  BY DEF SumFunctionOnSet, FoldFunctionOnSet, MapThenFoldSet
<1> QED BY <1>5, <1>6

(* The sum over no index, and over one more than without the chosen one.   *)
LEMMA SumUnfold ==
  ASSUME NEW f, NEW S, IsFiniteSet(S)
  PROVE  LET c == CHOOSE x \in S : TRUE IN
         SumFunctionOnSet(f, S) = IF S = {} THEN 0 ELSE f[c] + SumFunctionOnSet(f, S \ {c})
<1> DEFINE c == CHOOSE x \in S : TRUE
           V == S \ {c}
<1>1. PICK g : Sums(g, f, S, Cardinality(S)) /\ SumFunctionOnSet(f, S) = g[S]
  BY SumValue
<1>2. IsFiniteSet(V) /\ Cardinality(S) \in Nat /\ Cardinality(V) \in Nat /\ Cardinality(V) <= Cardinality(S)
  <2>1. V \in SUBSET S /\ IsFiniteSet(S)
    OBVIOUS
  <2> HIDE DEF V
  <2>2. IsFiniteSet(V) /\ Cardinality(V) <= Cardinality(S)
    BY <2>1, FS_Subset
  <2> QED BY <2>2, FS_CardinalityType
<1>3. PICK h : Sums(h, f, V, Cardinality(V)) /\ SumFunctionOnSet(f, V) = h[V]
  BY <1>2, SumValue
<1>4. g[S] = IF S = {} THEN 0 ELSE f[c] + g[V]
  <2>1. S \in SUBSET S /\ Cardinality(S) <= Cardinality(S)
    BY <1>2
  <2>2. \A T \in SUBSET S : Cardinality(T) <= Cardinality(S) =>
          g[T] = IF T = {} THEN 0
                 ELSE f[CHOOSE x \in T : TRUE] + g[T \ {CHOOSE x \in T : TRUE}]
    BY <1>1, SumAt
  <2>3. g[S] = IF S = {} THEN 0
               ELSE f[CHOOSE x \in S : TRUE] + g[S \ {CHOOSE x \in S : TRUE}]
    BY <2>1, <2>2
  <2> QED BY <2>3
<1>5. g[V] = h[V]
  <2> HIDE DEF V
  <2>1. V \in SUBSET (S \cap V)
    BY <1>2 DEF V
  <2>2. Cardinality(V) <= Cardinality(V) /\ \A x \in V : f[x] = f[x]
    BY <1>2
  <2> QED BY <1>1, <1>2, <1>3, <2>1, <2>2, SumUnique, SMTT(30)
<1> QED BY <1>1, <1>3, <1>4, <1>5

(* A sum over nothing.                                                     *)
LEMMA SumEmpty ==
  ASSUME NEW f
  PROVE  SumFunctionOnSet(f, {}) = 0
<1>1. IsFiniteSet({})
  BY FS_EmptySet
<1> QED BY <1>1, SumUnfold

(* A sum of integers (naturals) is an integer (a natural).                 *)
LEMMA SumType ==
  ASSUME NEW f, NEW S, IsFiniteSet(S)
  PROVE  /\ (\A x \in S : f[x] \in Int) => SumFunctionOnSet(f, S) \in Int
         /\ (\A x \in S : f[x] \in Nat) => SumFunctionOnSet(f, S) \in Nat
<1> DEFINE Choice(T) == CHOOSE x \in T : TRUE
           Typed(T) == /\ (\A x \in T : f[x] \in Int) => SumFunctionOnSet(f, T) \in Int
                       /\ (\A x \in T : f[x] \in Nat) => SumFunctionOnSet(f, T) \in Nat
           P == {n \in Nat : \A T \in SUBSET S : Cardinality(T) = n => Typed(T)}
<1>1. \A T \in SUBSET S :
        /\ IsFiniteSet(T)
        /\ T # {} => /\ Choice(T) \in T /\ T \ {Choice(T)} \in SUBSET S
                     /\ Cardinality(T \ {Choice(T)}) = Cardinality(T) - 1
                     /\ SumFunctionOnSet(f, T) = f[Choice(T)] + SumFunctionOnSet(f, T \ {Choice(T)})
  <2> TAKE T \in SUBSET S
  <2>1. IsFiniteSet(T)
    BY FS_Subset
  <2> QED BY <2>1, WithoutChoice, SumUnfold
<1>2. 0 \in P
  <2> SUFFICES ASSUME NEW T \in SUBSET S, Cardinality(T) = 0 PROVE Typed(T)
    OBVIOUS
  <2>1. T = {}
    BY <1>1, FS_EmptySet
  <2> QED BY <2>1, SumEmpty
<1> HIDE DEF Choice
<1>3. ASSUME NEW n \in Nat, n \in P PROVE n + 1 \in P
  <2> SUFFICES ASSUME NEW T \in SUBSET S, Cardinality(T) = n + 1 PROVE Typed(T)
    OBVIOUS
  <2>1. T # {}
    BY FS_EmptySet
  <2>2. Typed(T \ {Choice(T)})
    BY <1>1, <1>3, <2>1
  <2> QED BY <1>1, <2>1, <2>2
<1>4. Nat \subseteq P
  <2> HIDE DEF P
  <2> QED BY <1>2, <1>3, Induction
<1>5. Cardinality(S) \in Nat /\ S \in SUBSET S
  BY FS_CardinalityType
<1>6. Typed(S)
  BY <1>4, <1>5
<1> QED BY <1>6

(* Any member can be taken out of a sum.                                   *)
LEMMA SumRemove ==
  ASSUME NEW f, NEW S, IsFiniteSet(S), \A y \in S : f[y] \in Int, NEW x \in S
  PROVE  SumFunctionOnSet(f, S) = f[x] + SumFunctionOnSet(f, S \ {x})
<1> DEFINE Choice(T) == CHOOSE y \in T : TRUE
           Splits(T) == \A y \in T : SumFunctionOnSet(f, T) = f[y] + SumFunctionOnSet(f, T \ {y})
           P == {n \in Nat : \A T \in SUBSET S : Cardinality(T) = n => Splits(T)}
<1>1. \A T \in SUBSET S :
        /\ IsFiniteSet(T) /\ SumFunctionOnSet(f, T) \in Int
        /\ T # {} => /\ Choice(T) \in T
                     /\ SumFunctionOnSet(f, T) = f[Choice(T)] + SumFunctionOnSet(f, T \ {Choice(T)})
  <2> TAKE T \in SUBSET S
  <2>1. IsFiniteSet(T)
    BY FS_Subset
  <2>2. SumFunctionOnSet(f, T) \in Int
    BY <2>1, SumType
  <2> QED BY <2>1, <2>2, SumUnfold
<1>2. 0 \in P
  <2> SUFFICES ASSUME NEW T \in SUBSET S, Cardinality(T) = 0 PROVE Splits(T)
    OBVIOUS
  <2>1. T = {}
    BY <1>1, FS_EmptySet
  <2> QED BY <2>1
<1> HIDE DEF Choice
<1>3. ASSUME NEW n \in Nat, n \in P PROVE n + 1 \in P
  <2> SUFFICES ASSUME NEW T \in SUBSET S, Cardinality(T) = n + 1, NEW y \in T
               PROVE  SumFunctionOnSet(f, T) = f[y] + SumFunctionOnSet(f, T \ {y})
    OBVIOUS
  <2> DEFINE c == Choice(T)
             TC == T \ {c}
             TY == T \ {y}
             TCY == (T \ {c}) \ {y}
  <2>1. T # {} /\ c \in T /\ SumFunctionOnSet(f, T) = f[c] + SumFunctionOnSet(f, TC)
    BY <1>1
  <2>2. CASE y = c
    BY <2>1, <2>2
  <2>3. CASE y # c
    <3>1. IsFiniteSet(T)
      BY <1>1
    <3>2. TC \in SUBSET S /\ TY \in SUBSET S /\ TCY \in SUBSET S /\ y \in TC /\ c \in TY
          /\ TY \ {c} = TCY /\ TC \ {y} = TCY
      BY <2>1, <2>3
    <3>3. Cardinality(TC) = n /\ Cardinality(TY) = n
      <4>1. \A z \in T : Cardinality(T \ {z}) = Cardinality(T) - 1
        BY <3>1, FS_RemoveElement
      <4>2. Cardinality(T) - 1 = n
        OBVIOUS
      <4> QED BY <2>1, <4>1, <4>2
    <3>4. Splits(TC) /\ Splits(TY)
      <4> HIDE DEF TC, TY
      <4> QED BY <1>3, <3>2, <3>3
    <3>5. SumFunctionOnSet(f, TC) = f[y] + SumFunctionOnSet(f, TCY)
          /\ SumFunctionOnSet(f, TY) = f[c] + SumFunctionOnSet(f, TCY)
      <4> HIDE DEF TC, TY, TCY
      <4> QED BY <3>2, <3>4
    <3>6. f[c] \in Int /\ f[y] \in Int /\ SumFunctionOnSet(f, TCY) \in Int
      <4> HIDE DEF TCY
      <4> QED BY <1>1, <2>1, <3>2
    <3> HIDE DEF TC, TY, TCY, c
    <3>7. SumFunctionOnSet(f, T) = f[y] + SumFunctionOnSet(f, TY)
      <4>1. SumFunctionOnSet(f, T) = f[c] + (f[y] + SumFunctionOnSet(f, TCY))
        BY <2>1, <3>5
      <4> QED BY <3>5, <3>6, <4>1
    <3> QED BY <3>7 DEF TY
  <2> QED BY <2>2, <2>3
<1>4. Nat \subseteq P
  <2> HIDE DEF P
  <2> QED BY <1>2, <1>3, Induction
<1>5. Cardinality(S) \in Nat /\ S \in SUBSET S
  BY FS_CardinalityType
<1>6. Splits(S)
  BY <1>4, <1>5
<1> QED BY <1>6

(* A sum over one more index.                                              *)
LEMMA SumAdd ==
  ASSUME NEW f, NEW S, IsFiniteSet(S), \A y \in S : f[y] \in Int,
         NEW x, x \notin S, f[x] \in Int
  PROVE  SumFunctionOnSet(f, S \cup {x}) = f[x] + SumFunctionOnSet(f, S)
<1> DEFINE R == S \cup {x}
<1>1. IsFiniteSet(R)
  BY FS_AddElement
<1>2. R \ {x} = S /\ x \in R /\ \A y \in R : f[y] \in Int
  OBVIOUS
<1> HIDE DEF R
<1>3. SumFunctionOnSet(f, R) = f[x] + SumFunctionOnSet(f, R \ {x})
  BY <1>1, <1>2, SumRemove
<1> QED BY <1>2, <1>3 DEF R

(* Functions that agree on the indices have the same sum.                  *)
LEMMA SumSame ==
  ASSUME NEW f, NEW e, NEW S, IsFiniteSet(S), \A x \in S : f[x] = e[x]
  PROVE  SumFunctionOnSet(f, S) = SumFunctionOnSet(e, S)
<1>1. PICK g : Sums(g, f, S, Cardinality(S)) /\ SumFunctionOnSet(f, S) = g[S]
  BY SumValue
<1>2. PICK h : Sums(h, e, S, Cardinality(S)) /\ SumFunctionOnSet(e, S) = h[S]
  BY SumValue
<1>3. Cardinality(S) \in Nat /\ S \in SUBSET (S \cap S)
  BY FS_CardinalityType
<1> DEFINE n == Cardinality(S)
<1>4. n \in Nat /\ Sums(g, f, S, n) /\ Sums(h, e, S, n) /\ Cardinality(S) <= n
  BY <1>1, <1>2, <1>3
<1> HIDE DEF n
<1>5. g[S] = h[S]
  BY <1>3, <1>4, SumUnique, SMTT(30)
<1> QED BY <1>1, <1>2, <1>5

\* A set in two parts.
LEMMA TwoParts ==
  ASSUME NEW A, NEW B, IsFiniteSet(A \cup B), A \cap B = {}
  PROVE  /\ IsFiniteSet(A) /\ IsFiniteSet(B)
         /\ Cardinality(A \cup B) = Cardinality(A) + Cardinality(B)
         /\ Cardinality(A) \in Nat /\ Cardinality(B) \in Nat
<1>1. IsFiniteSet(A) /\ IsFiniteSet(B)
  <2>1. A \in SUBSET (A \cup B) /\ B \in SUBSET (A \cup B)
    OBVIOUS
  <2> QED BY <2>1, FS_Subset
<1>2. Cardinality(A) \in Nat /\ Cardinality(B) \in Nat
  BY <1>1, FS_CardinalityType
<1>3. Cardinality(A \cup B) = Cardinality(A) + Cardinality(B) - Cardinality(A \cap B)
  BY <1>1, FS_Union
<1>4. Cardinality(A \cap B) = 0
  BY FS_EmptySet
<1> QED BY <1>1, <1>2, <1>3, <1>4

\* How many numbers there are up to n.
LEMMA SizeOfRange ==
  ASSUME NEW n \in Nat
  PROVE  IsFiniteSet(1..n) /\ Cardinality(1..n) = n
<1>1. 1 \in Int /\ n \in Int
  OBVIOUS
<1>2. IsFiniteSet(1..n) /\ Cardinality(1..n) = IF 1 > n THEN 0 ELSE n - 1 + 1
  BY <1>1, FS_Interval
<1> QED BY <1>2

-----------------------------------------------------------------------------
(* The recursion of Pieces                                                 *)

\* the piece of the code at i, and where the next code is
PieceAt(symbols, codes, i) ==
  IF codes[i] = Esc THEN [str |-> <<codes[i + 1]>>, escaped |-> TRUE]
  ELSE [str |-> symbols[codes[i] + 1], escaped |-> FALSE]

AfterCode(codes, i) == IF codes[i] = Esc THEN i + 2 ELSE i + 1

Parses(f, symbols, codes) ==
  f = [i \in 1..Len(codes) + 2 |->
        IF i > Len(codes) THEN << >>
        ELSE IF codes[i] = Esc
        THEN <<[str |-> <<codes[i + 1]>>, escaped |-> TRUE]>> \o f[i + 2]
        ELSE <<[str |-> symbols[codes[i] + 1], escaped |-> FALSE]>> \o f[i + 1]]

\* No code string ends in the middle of an escape: there is a set of places
\* that has the first code, the code behind each of its codes, and the end.
Closed(codes) ==
  \E S \in SUBSET (1..Len(codes) + 1) :
    1 \in S /\ \A i \in S : i <= Len(codes) => AfterCode(codes, i) \in S

Unfolds(f, symbols, codes, n) ==
  \A i \in 1..n + 2 :
    /\ i > n => f[i] = << >>
    /\ i <= n => /\ AfterCode(codes, i) \in 1..n + 2
                 /\ AfterCode(codes, i) > i
                 /\ f[i] = <<PieceAt(symbols, codes, i)>> \o f[AfterCode(codes, i)]

(* What a solution of the recursion is at each place.                      *)
LEMMA ParseAt ==
  ASSUME NEW f, NEW symbols, NEW codes, Len(codes) \in Nat, Parses(f, symbols, codes)
  PROVE  Unfolds(f, symbols, codes, Len(codes))
<1> DEFINE n == Len(codes)
<1> SUFFICES ASSUME NEW i \in 1..n + 2
             PROVE  /\ i > n => f[i] = << >>
                    /\ i <= n => /\ AfterCode(codes, i) \in 1..n + 2
                                 /\ AfterCode(codes, i) > i
                                 /\ f[i] = <<PieceAt(symbols, codes, i)>> \o f[AfterCode(codes, i)]
  BY DEF Unfolds
<1>0. n \in Nat /\ n = Len(codes)
  OBVIOUS
<1> HIDE DEF n
<1> DEFINE h == [j \in 1..n + 2 |->
        IF j > n THEN << >>
        ELSE IF codes[j] = Esc
        THEN <<[str |-> <<codes[j + 1]>>, escaped |-> TRUE]>> \o f[j + 2]
        ELSE <<[str |-> symbols[codes[j] + 1], escaped |-> FALSE]>> \o f[j + 1]]
<1>1. f = h
  BY <1>0 DEF Parses
<1>2. /\ i > n => h[i] = << >>
      /\ ~(i > n) /\ codes[i] = Esc =>
           h[i] = <<[str |-> <<codes[i + 1]>>, escaped |-> TRUE]>> \o f[i + 2]
      /\ ~(i > n) /\ codes[i] # Esc =>
           h[i] = <<[str |-> symbols[codes[i] + 1], escaped |-> FALSE]>> \o f[i + 1]
  BY <1>0
<1> HIDE DEF h
<1>3. i > n => f[i] = << >>
  BY <1>1, <1>2
<1>4. ASSUME i <= n
      PROVE  /\ AfterCode(codes, i) \in 1..n + 2 /\ AfterCode(codes, i) > i
             /\ f[i] = <<PieceAt(symbols, codes, i)>> \o f[AfterCode(codes, i)]
  <2>0. ~(i > n)
    BY <1>0, <1>4
  <2>1. CASE codes[i] = Esc
    <3>1. AfterCode(codes, i) = i + 2 /\ PieceAt(symbols, codes, i) = [str |-> <<codes[i + 1]>>, escaped |-> TRUE]
      BY <2>1 DEF AfterCode, PieceAt
    <3>2. f[i] = <<PieceAt(symbols, codes, i)>> \o f[AfterCode(codes, i)]
      BY <1>1, <1>2, <2>0, <2>1, <3>1
    <3>3. i + 2 \in 1..n + 2 /\ i + 2 > i
      BY <1>0, <1>4
    <3> QED BY <3>1, <3>2, <3>3
  <2>2. CASE codes[i] # Esc
    <3>1. AfterCode(codes, i) = i + 1 /\ PieceAt(symbols, codes, i) = [str |-> symbols[codes[i] + 1], escaped |-> FALSE]
      BY <2>2 DEF AfterCode, PieceAt
    <3>2. f[i] = <<PieceAt(symbols, codes, i)>> \o f[AfterCode(codes, i)]
      BY <1>1, <1>2, <2>0, <2>2, <3>1
    <3>3. i + 1 \in 1..n + 2 /\ i + 1 > i
      BY <1>0, <1>4
    <3> QED BY <3>1, <3>2, <3>3
  <2> QED BY <2>1, <2>2
<1> QED BY <1>3, <1>4

(* There is a solution, and Pieces is a value of one.                      *)
LEMMA PiecesValue ==
  ASSUME NEW symbols, NEW codes, Len(codes) \in Nat
  PROVE  \E f : Parses(f, symbols, codes) /\ Pieces(symbols, codes) = f[1]
<1> DEFINE n == Len(codes)
           Dom(k) == {i \in 1..n + 2 : i + k > n}
           Body(f, i) == IF i > n THEN << >>
                         ELSE IF codes[i] = Esc
                         THEN <<[str |-> <<codes[i + 1]>>, escaped |-> TRUE]>> \o f[i + 2]
                         ELSE <<[str |-> symbols[codes[i] + 1], escaped |-> FALSE]>> \o f[i + 1]
           P == {k \in Nat : \E f : f = [i \in Dom(k) |-> Body(f, i)]}
<1>1. 0 \in P
  <2> DEFINE f == [i \in Dom(0) |-> << >>]
  <2>1. \A i \in Dom(0) : i > n
    OBVIOUS
  <2>2. f = [i \in Dom(0) |-> Body(f, i)]
    BY <2>1
  <2> QED BY <2>2
<1>2. ASSUME NEW k \in Nat, k \in P PROVE k + 1 \in P
  <2>1. PICK f : f = [i \in Dom(k) |-> Body(f, i)]
    BY <1>2
  <2> DEFINE h == [i \in Dom(k + 1) |-> IF i \in Dom(k) THEN f[i] ELSE Body(f, i)]
  <2>2. \A i \in Dom(k) : i \in Dom(k + 1) /\ f[i] = Body(f, i)
    <3>1. \A i \in Dom(k) : i \in Dom(k + 1)
      OBVIOUS
    <3>2. \A i \in Dom(k) : f[i] = Body(f, i)
      <4> DEFINE g == [i \in Dom(k) |-> Body(f, i)]
      <4>1. \A i \in Dom(k) : g[i] = Body(f, i)
        OBVIOUS
      <4>2. f = g
        BY <2>1
      <4> HIDE DEF g
      <4> QED BY <4>1, <4>2
    <3> QED BY <3>1, <3>2
  <2>3. \A i \in Dom(k + 1) : h[i] = Body(f, i)
    BY <2>2
  <2>4. \A i \in Dom(k + 1) : ~(i > n) => i + 1 \in Dom(k) /\ i + 2 \in Dom(k)
    OBVIOUS
  <2>5. \A i \in Dom(k) : h[i] = f[i]
    BY <2>2
  <2>6. \A i \in Dom(k + 1) : Body(h, i) = Body(f, i)
    <3> HIDE DEF h, Dom
    <3> QED BY <2>4, <2>5
  <2>7. h = [i \in Dom(k + 1) |-> Body(h, i)]
    <3>1. \A i \in Dom(k + 1) : h[i] = Body(h, i)
      BY <2>3, <2>6
    <3>2. h = [i \in Dom(k + 1) |-> h[i]]
      OBVIOUS
    <3> HIDE DEF h, Dom, Body
    <3> QED BY <3>1, <3>2
  <2> HIDE DEF h, Dom, Body
  <2>8. \E g : g = [i \in Dom(k + 1) |-> Body(g, i)]
    BY <2>7
  <2> QED BY <2>8
<1>3. n \in P
  <2> HIDE DEF P
  <2>1. Nat \subseteq P
    BY <1>1, <1>2, Induction
  <2> QED BY <2>1
<1>4. Dom(n) = 1..n + 2
  OBVIOUS
<1>5. \E f : f = [i \in 1..n + 2 |-> Body(f, i)]
  <2>1. \E f : f = [i \in Dom(n) |-> Body(f, i)]
    BY <1>3
  <2> HIDE DEF Dom, Body
  <2> QED BY <1>4, <2>1
<1>6. \E f : Parses(f, symbols, codes)
  BY <1>5 DEF Parses
<1> DEFINE F == CHOOSE f : Parses(f, symbols, codes)
<1>7. Parses(F, symbols, codes)
  BY <1>6
<1>8. Pieces(symbols, codes) = F[1]
  BY DEF Pieces, Parses
<1> QED BY <1>7, <1>8

\* every value that a piece of codes can have
PiecesOf(symbols, codes) == {PieceAt(symbols, codes, i) : i \in 1..Len(codes)}

(* The pieces are a sequence of pieces.                                    *)
LEMMA ParseType ==
  ASSUME NEW f, NEW symbols, NEW codes, Len(codes) \in Nat, Parses(f, symbols, codes),
         NEW T, PiecesOf(symbols, codes) \subseteq T
  PROVE  \A i \in 1..Len(codes) + 2 : f[i] \in Seq(T)
<1> DEFINE n == Len(codes)
           P == {k \in Nat : \A i \in 1..n + 2 : i + k > n => f[i] \in Seq(T)}
<1>0. n \in Nat /\ n = Len(codes)
  OBVIOUS
<1> HIDE DEF n
<1>1. \A i \in 1..n + 2 :
         /\ i > n => f[i] = << >>
         /\ i <= n => /\ AfterCode(codes, i) \in 1..n + 2
                      /\ AfterCode(codes, i) > i
                      /\ f[i] = <<PieceAt(symbols, codes, i)>> \o f[AfterCode(codes, i)]
  <2>1. Unfolds(f, symbols, codes, Len(codes))
    BY <1>0, ParseAt
  <2> QED BY <1>0, <2>1 DEF Unfolds
<1>2. \A i \in 1..n + 2 : i > n => f[i] \in Seq(T)
  BY <1>1, EmptySeq
<1>3. \A i \in 1..n : PieceAt(symbols, codes, i) \in T
  BY DEF PiecesOf, n
<1>4. 0 \in P
  BY <1>0, <1>2
<1>5. ASSUME NEW k \in Nat, k \in P PROVE k + 1 \in P
  <2> SUFFICES ASSUME NEW i \in 1..n + 2, i + (k + 1) > n PROVE f[i] \in Seq(T)
    OBVIOUS
  <2>1. CASE i > n
    BY <1>2, <2>1
  <2>2. CASE i <= n
    <3> DEFINE j == AfterCode(codes, i)
    <3>1. j \in 1..n + 2 /\ j > i /\ f[i] = <<PieceAt(symbols, codes, i)>> \o f[j]
      BY <1>1, <2>2
    <3>2. i \in 1..n
      BY <1>0, <2>2
    <3>3. PieceAt(symbols, codes, i) \in T
      BY <1>3, <3>2
    <3> HIDE DEF j
    <3>4. j + k > n
      BY <1>0, <3>1
    <3>5. f[j] \in Seq(T)
      BY <1>5, <3>1, <3>4
    <3>6. <<PieceAt(symbols, codes, i)>> \in Seq(T)
      BY <3>3
    <3> QED BY <3>1, <3>5, <3>6, ConcatProperties
  <2> QED BY <1>0, <2>1, <2>2
<1>6. Nat \subseteq P
  <2> HIDE DEF P
  <2> QED BY <1>4, <1>5, Induction
<1>7. \A i \in 1..n + 2 : i + n > n
  BY <1>0
<1> QED BY <1>0, <1>6, <1>7 DEF n

(* Concatenation is associative.                                           *)
LEMMA ConcatAssoc ==
  ASSUME NEW T, NEW a \in Seq(T), NEW b \in Seq(T), NEW c \in Seq(T)
  PROVE  a \o (b \o c) = (a \o b) \o c
OBVIOUS

\* Code strings that do not end in the middle of an escape are cut into
\* pieces one after the other.
LEMMA PiecesConcat ==
  ASSUME NEW symbols, NEW T, NEW codes \in Seq(T), NEW tail \in Seq(T), Closed(codes), Closed(tail)
  PROVE  Pieces(symbols, codes \o tail) = Pieces(symbols, codes) \o Pieces(symbols, tail)
<1> DEFINE n == Len(codes)
           m == Len(tail)
           whole == codes \o tail
<1>1. /\ n \in Nat /\ m \in Nat /\ Len(whole) = n + m
      /\ \A i \in 1..n : whole[i] = codes[i]
      /\ \A i \in 1..m : whole[n + i] = tail[i]
      /\ n = Len(codes) /\ m = Len(tail)
  OBVIOUS
<1>2. PICK f : Parses(f, symbols, whole) /\ Pieces(symbols, whole) = f[1]
  BY <1>1, PiecesValue
<1>3. PICK g : Parses(g, symbols, codes) /\ Pieces(symbols, codes) = g[1]
  BY <1>1, PiecesValue
<1>4. PICK h : Parses(h, symbols, tail) /\ Pieces(symbols, tail) = h[1]
  BY <1>1, PiecesValue
<1>5. PICK S \in SUBSET (1..n + 1) : 1 \in S /\ \A i \in S : i <= n => AfterCode(codes, i) \in S
  BY <1>1 DEF Closed
<1> DEFINE U == PiecesOf(symbols, codes) \cup PiecesOf(symbols, tail)
<1>6. /\ \A i \in 1..n + 2 : g[i] \in Seq(U)
      /\ \A i \in 1..m + 2 : h[i] \in Seq(U)
  <2>1. PiecesOf(symbols, codes) \subseteq U /\ PiecesOf(symbols, tail) \subseteq U
    OBVIOUS
  <2> HIDE DEF U
  <2>2. \A i \in 1..Len(codes) + 2 : g[i] \in Seq(U)
    BY <1>1, <1>3, <2>1, ParseType
  <2>3. \A i \in 1..Len(tail) + 2 : h[i] \in Seq(U)
    BY <1>1, <1>4, <2>1, ParseType
  <2> QED BY <2>2, <2>3
<1>7. \A i \in 1..n : PieceAt(symbols, codes, i) \in U
  BY DEF PiecesOf
<1> HIDE DEF U, n, m
<1>8. \A i \in 1..n + 2 :
         /\ i > n => g[i] = << >>
         /\ i <= n => /\ AfterCode(codes, i) \in 1..n + 2
                      /\ AfterCode(codes, i) > i
                      /\ g[i] = <<PieceAt(symbols, codes, i)>> \o g[AfterCode(codes, i)]
  <2>1. Unfolds(g, symbols, codes, Len(codes))
    BY <1>1, <1>3, ParseAt
  <2> QED BY <1>1, <2>1 DEF Unfolds
<1>9. \A i \in 1..m + 2 :
         /\ i > m => h[i] = << >>
         /\ i <= m => /\ AfterCode(tail, i) \in 1..m + 2
                      /\ AfterCode(tail, i) > i
                      /\ h[i] = <<PieceAt(symbols, tail, i)>> \o h[AfterCode(tail, i)]
  <2>1. Unfolds(h, symbols, tail, Len(tail))
    BY <1>1, <1>4, ParseAt
  <2> QED BY <1>1, <2>1 DEF Unfolds
<1>10. \A i \in 1..n + m + 2 :
         /\ i > n + m => f[i] = << >>
         /\ i <= n + m => f[i] = <<PieceAt(symbols, whole, i)>> \o f[AfterCode(whole, i)]
  <2> HIDE DEF whole
  <2> DEFINE w == n + m
  <2>1. w \in Nat /\ w = Len(whole)
    BY <1>1
  <2> HIDE DEF w
  <2>2. \A i \in 1..w + 2 :
         /\ i > w => f[i] = << >>
         /\ i <= w => /\ AfterCode(whole, i) \in 1..w + 2
                      /\ AfterCode(whole, i) > i
                      /\ f[i] = <<PieceAt(symbols, whole, i)>> \o f[AfterCode(whole, i)]
    <3>1. Unfolds(f, symbols, whole, Len(whole))
      BY <1>2, <2>1, ParseAt
    <3> QED BY <2>1, <3>1 DEF Unfolds
  <2> QED BY <2>2 DEF w
<1> HIDE DEF whole
<1>a. PICK R \in SUBSET (1..m + 1) : 1 \in R /\ \A j \in R : j <= m => AfterCode(tail, j) \in R
  BY <1>1 DEF Closed
<1>b. \A j \in R : j \in Nat /\ j >= 1 /\ j <= m + 1
  BY <1>1, <1>a
<1>c. \A i \in S : i \in Nat /\ i >= 1 /\ i <= n + 1
  BY <1>1, <1>5
<1>11. ASSUME NEW j \in R, j <= m
       PROVE  /\ AfterCode(whole, n + j) = n + AfterCode(tail, j)
              /\ PieceAt(symbols, whole, n + j) = PieceAt(symbols, tail, j)
  <2>1. j \in 1..m /\ AfterCode(tail, j) \in 1..m + 1
    <3>1. PICK a \in R : a = AfterCode(tail, j)
      BY <1>a, <1>11
    <3> QED BY <1>1, <1>b, <1>11, <3>1
  <2>2. whole[n + j] = tail[j]
    BY <1>1, <2>1
  <2>3. CASE tail[j] = Esc
    <3>1. AfterCode(tail, j) = j + 2
      BY <2>3 DEF AfterCode
    <3>2. j + 1 \in 1..m /\ n + (j + 1) = n + j + 1 /\ n + (j + 2) = n + j + 2
      BY <1>1, <2>1, <3>1
    <3>3. whole[n + (j + 1)] = tail[j + 1]
      BY <1>1, <3>2
    <3>4. whole[n + j + 1] = tail[j + 1]
      BY <3>2, <3>3
    <3> QED BY <2>2, <2>3, <3>1, <3>2, <3>4 DEF AfterCode, PieceAt
  <2>4. CASE tail[j] # Esc
    <3>1. n + (j + 1) = n + j + 1
      BY <1>1, <2>1
    <3> QED BY <2>2, <2>4, <3>1 DEF AfterCode, PieceAt
  <2> QED BY <2>3, <2>4
<1>12. f[n + 1] = h[1]
  <2> DEFINE P == {k \in Nat : \A j \in R : j + k > m => f[n + j] = h[j]}
  <2>1. \A j \in R : j > m => f[n + j] = h[j]
    <3> SUFFICES ASSUME NEW j \in R, j > m PROVE f[n + j] = h[j]
      OBVIOUS
    <3>1. n + j \in 1..n + m + 2 /\ n + j > n + m /\ j \in 1..m + 2
      BY <1>1, <1>b
    <3> QED BY <1>9, <1>10, <3>1
  <2>2. 0 \in P
    BY <1>1, <1>b, <2>1
  <2>3. ASSUME NEW k \in Nat, k \in P PROVE k + 1 \in P
    <3> SUFFICES ASSUME NEW j \in R, j + (k + 1) > m PROVE f[n + j] = h[j]
      OBVIOUS
    <3>1. CASE j > m
      BY <2>1, <3>1
    <3>2. CASE j <= m
      <4> DEFINE a == AfterCode(tail, j)
      <4>1. /\ j \in 1..m + 2 /\ n + j \in 1..n + m + 2 /\ n + j <= n + m
        BY <1>1, <1>b, <3>2
      <4>2. a \in R /\ a > j /\ h[j] = <<PieceAt(symbols, tail, j)>> \o h[a]
        BY <1>9, <1>a, <3>2, <4>1
      <4>3. f[n + j] = <<PieceAt(symbols, whole, n + j)>> \o f[AfterCode(whole, n + j)]
        BY <1>10, <4>1
      <4>4. f[n + j] = <<PieceAt(symbols, tail, j)>> \o f[n + a]
        BY <1>11, <3>2, <4>3
      <4> HIDE DEF a
      <4>5. a + k > m
        BY <1>1, <1>b, <4>2
      <4>6. f[n + a] = h[a]
        BY <2>3, <4>2, <4>5
      <4> QED BY <4>2, <4>4, <4>6
    <3> QED BY <1>1, <1>b, <3>1, <3>2
  <2>4. Nat \subseteq P
    <3> HIDE DEF P
    <3> QED BY <2>2, <2>3, Induction
  <2> HIDE DEF P
  <2>5. m \in P /\ 1 + m > m
    BY <1>1, <2>4
  <2> USE DEF P
  <2> QED BY <1>a, <2>5
<1>13. ASSUME NEW i \in S, i <= n
       PROVE  /\ AfterCode(whole, i) = AfterCode(codes, i)
              /\ PieceAt(symbols, whole, i) = PieceAt(symbols, codes, i)
  <2>1. i \in 1..n /\ AfterCode(codes, i) \in 1..n + 1
    <3>1. PICK a \in S : a = AfterCode(codes, i)
      BY <1>5, <1>13
    <3> QED BY <1>1, <1>c, <1>13, <3>1
  <2>2. whole[i] = codes[i]
    BY <1>1, <2>1
  <2>3. CASE codes[i] = Esc
    <3>1. AfterCode(codes, i) = i + 2
      BY <2>3 DEF AfterCode
    <3>2. i + 1 \in 1..n
      BY <1>1, <2>1, <3>1
    <3>3. whole[i + 1] = codes[i + 1]
      BY <1>1, <3>2
    <3> QED BY <2>2, <2>3, <3>3 DEF AfterCode, PieceAt
  <2>4. CASE codes[i] # Esc
    BY <2>2, <2>4 DEF AfterCode, PieceAt
  <2> QED BY <2>3, <2>4
<1>14. f[1] = g[1] \o h[1]
  <2> DEFINE Good(i) == f[i] = g[i] \o h[1]
             P == {k \in Nat : \A i \in S : i + k > n => Good(i)}
  <2>0. h[1] \in Seq(U)
    BY <1>1, <1>6
  <2>1. \A i \in S : i > n => Good(i)
    <3> SUFFICES ASSUME NEW i \in S, i > n PROVE f[i] = g[i] \o h[1]
      OBVIOUS
    <3>1. i = n + 1 /\ i \in 1..n + 2
      BY <1>1, <1>c
    <3>2. g[i] = << >>
      BY <1>8, <3>1
    <3>3. << >> \o h[1] = h[1]
      BY <2>0
    <3> QED BY <1>12, <3>1, <3>2, <3>3
  <2> HIDE DEF Good
  <2>2. 0 \in P
    BY <1>1, <1>c, <2>1
  <2>3. ASSUME NEW k \in Nat, k \in P PROVE k + 1 \in P
    <3> SUFFICES ASSUME NEW i \in S, i + (k + 1) > n PROVE Good(i)
      OBVIOUS
    <3>1. CASE i > n
      BY <2>1, <3>1
    <3>2. CASE i <= n
      <4> DEFINE a == AfterCode(codes, i)
                 p == PieceAt(symbols, codes, i)
      <4>1. /\ i \in 1..n + 2 /\ i \in 1..n + m + 2 /\ i <= n + m /\ i \in 1..n
        BY <1>1, <1>c, <3>2
      <4>2. a \in S /\ a > i /\ g[i] = <<p>> \o g[a]
        BY <1>5, <1>8, <3>2, <4>1
      <4>3. f[i] = <<PieceAt(symbols, whole, i)>> \o f[AfterCode(whole, i)]
        BY <1>10, <4>1
      <4>4. f[i] = <<p>> \o f[a]
        BY <1>13, <3>2, <4>3
      <4>5. p \in U
        BY <1>7, <4>1
      <4> HIDE DEF a, p
      <4>6. a + k > n /\ a \in 1..n + 2
        BY <1>1, <1>c, <4>2
      <4>7. f[a] = g[a] \o h[1]
        BY <2>3, <4>2, <4>6 DEF Good
      <4>8. g[a] \in Seq(U) /\ <<p>> \in Seq(U)
        BY <1>6, <4>5, <4>6
      <4>9. <<p>> \o (g[a] \o h[1]) = (<<p>> \o g[a]) \o h[1]
        <5> DEFINE e == <<p>>
                   b == g[a]
                   c == h[1]
        <5>1. e \in Seq(U) /\ b \in Seq(U) /\ c \in Seq(U)
          BY <2>0, <4>8
        <5> HIDE DEF e, b, c
        <5>2. e \o (b \o c) = (e \o b) \o c
          BY <5>1, ConcatAssoc, SMTT(30)
        <5> QED BY <5>2 DEF e, b, c
      <4>10. f[i] = g[i] \o h[1]
        BY <4>2, <4>4, <4>7, <4>9
      <4> QED BY <4>10 DEF Good
    <3> QED BY <1>1, <1>c, <3>1, <3>2
  <2>4. Nat \subseteq P
    <3> HIDE DEF P
    <3> QED BY <2>2, <2>3, Induction
  <2> HIDE DEF P
  <2>5. n \in P /\ 1 + n > n
    BY <1>1, <2>4
  <2> USE DEF P
  <2> QED BY <1>5, <2>5 DEF Good
<1> QED BY <1>2, <1>3, <1>4, <1>14 DEF whole

(* Pieces is a sequence of pieces.                                         *)
LEMMA PiecesType ==
  ASSUME NEW symbols, NEW codes, Len(codes) \in Nat
  PROVE  Pieces(symbols, codes) \in Seq(PiecesOf(symbols, codes))
<1>1. PICK f : Parses(f, symbols, codes) /\ Pieces(symbols, codes) = f[1]
  BY PiecesValue
<1>2. 1 \in 1..Len(codes) + 2
  OBVIOUS
<1>3. \A i \in 1..Len(codes) + 2 : f[i] \in Seq(PiecesOf(symbols, codes))
  BY <1>1, ParseType
<1> QED BY <1>1, <1>2, <1>3

(* A code string that is closed stays so behind another.                   *)
LEMMA ClosedConcat ==
  ASSUME NEW T, NEW codes \in Seq(T), NEW tail \in Seq(T), Closed(codes), Closed(tail)
  PROVE  Closed(codes \o tail)
<1> DEFINE n == Len(codes)
           m == Len(tail)
           whole == codes \o tail
<1>1. /\ n \in Nat /\ m \in Nat /\ Len(whole) = n + m
      /\ \A i \in 1..n : whole[i] = codes[i]
      /\ \A i \in 1..m : whole[n + i] = tail[i]
      /\ n = Len(codes) /\ m = Len(tail)
  OBVIOUS
<1> HIDE DEF n, m, whole
<1>2. PICK S \in SUBSET (1..n + 1) : 1 \in S /\ \A i \in S : i <= n => AfterCode(codes, i) \in S
  BY <1>1 DEF Closed
<1>3. PICK R \in SUBSET (1..m + 1) : 1 \in R /\ \A j \in R : j <= m => AfterCode(tail, j) \in R
  BY <1>1 DEF Closed
<1>4. /\ \A j \in R : j \in Nat /\ j >= 1 /\ j <= m + 1
      /\ \A i \in S : i \in Nat /\ i >= 1 /\ i <= n + 1
  BY <1>1, <1>2, <1>3
<1> DEFINE Q == S \cup {n + j : j \in R}
<1>5. Q \in SUBSET (1..n + m + 1)
  <2>1. \A i \in S : i \in 1..n + m + 1
    BY <1>1, <1>4
  <2>2. \A j \in R : n + j \in 1..n + m + 1
    BY <1>1, <1>4
  <2> QED BY <2>1, <2>2
<1>6. ASSUME NEW j \in R, n + j <= n + m PROVE AfterCode(whole, n + j) \in Q
  <2>1. j \in 1..m
    BY <1>1, <1>4, <1>6
  <2>2. whole[n + j] = tail[j]
    BY <1>1, <2>1
  <2>3. n + (j + 1) = n + j + 1 /\ n + (j + 2) = n + j + 2
    BY <1>1, <2>1
  <2>4. AfterCode(whole, n + j) = n + AfterCode(tail, j)
    BY <2>2, <2>3 DEF AfterCode
  <2>5. AfterCode(tail, j) \in R
    BY <1>1, <1>3, <2>1
  <2> QED BY <2>4, <2>5
<1>7. ASSUME NEW i \in S, i <= n + m PROVE AfterCode(whole, i) \in Q
  <2>1. CASE i <= n
    <3>1. whole[i] = codes[i]
      BY <1>1, <1>4, <2>1
    <3>2. AfterCode(whole, i) = AfterCode(codes, i)
      BY <3>1 DEF AfterCode
    <3> QED BY <1>2, <2>1, <3>2
  <2>2. CASE ~(i <= n)
    <3>1. i = n + 1
      BY <1>1, <1>4, <2>2
    <3> QED BY <1>3, <1>6, <1>7, <3>1
  <2> QED BY <2>1, <2>2
<1>8. 1 \in Q /\ \A i \in Q : i <= n + m => AfterCode(whole, i) \in Q
  BY <1>2, <1>6, <1>7
<1> HIDE DEF Q
<1>9. Closed(whole)
  BY <1>1, <1>5, <1>8 DEF Closed
<1> QED BY <1>9 DEF whole

(* No code makes no piece.                                                 *)
LEMMA ClosedEmpty == Closed(<< >>) /\ \A symbols : Pieces(symbols, << >>) = << >>
<1>1. Len(<< >>) = 0
  OBVIOUS
<1>2. Closed(<< >>)
  <2>1. {1} \in SUBSET (1..0 + 1) /\ 1 \in {1} /\ \A i \in {1} : ~(i <= 0)
    OBVIOUS
  <2> QED BY <1>1, <2>1 DEF Closed
<1>3. ASSUME NEW symbols PROVE Pieces(symbols, << >>) = << >>
  <2>1. PICK f : Parses(f, symbols, << >>) /\ Pieces(symbols, << >>) = f[1]
    BY <1>1, PiecesValue
  <2>2. Unfolds(f, symbols, << >>, 0)
    BY <1>1, <2>1, ParseAt
  <2> QED BY <2>1, <2>2 DEF Unfolds
<1> QED BY <1>2, <1>3

\* The one piece of a code string that consists of one code.
LEMMA OnePiece ==
  ASSUME NEW symbols, NEW codes, Len(codes) \in 1..2, AfterCode(codes, 1) = Len(codes) + 1
  PROVE  Closed(codes) /\ Pieces(symbols, codes) = <<PieceAt(symbols, codes, 1)>>
<1> DEFINE n == Len(codes)
<1>1. n \in Nat /\ n >= 1 /\ n = Len(codes)
  OBVIOUS
<1> HIDE DEF n
<1>2. Closed(codes)
  <2> DEFINE S == {1, n + 1}
  <2>1. S \in SUBSET (1..n + 1) /\ 1 \in S
    BY <1>1
  <2>2. \A i \in S : i <= n => AfterCode(codes, i) \in S
    BY <1>1
  <2> HIDE DEF S
  <2> QED BY <1>1, <2>1, <2>2 DEF Closed
<1>3. PICK f : Parses(f, symbols, codes) /\ Pieces(symbols, codes) = f[1]
  BY <1>1, PiecesValue
<1>4. Unfolds(f, symbols, codes, n)
  BY <1>1, <1>3, ParseAt
<1>5. f[n + 1] = << >>
  <2>1. n + 1 \in 1..n + 2 /\ n + 1 > n
    BY <1>1
  <2> QED BY <1>4, <2>1 DEF Unfolds
<1>6. f[1] = <<PieceAt(symbols, codes, 1)>> \o f[AfterCode(codes, 1)]
  BY <1>1, <1>4 DEF Unfolds
<1>7. AfterCode(codes, 1) = n + 1
  BY <1>1
<1>8. \A x : <<x>> \o << >> = <<x>>
  OBVIOUS
<1> QED BY <1>2, <1>3, <1>5, <1>6, <1>7, <1>8

\* A code, or an escape with its byte, adds one piece.
LEMMA PieceAppended ==
  ASSUME NEW symbols, NEW T, NEW codes \in Seq(T), NEW tail \in Seq(T), Closed(codes),
         Len(tail) \in 1..2, AfterCode(tail, 1) = Len(tail) + 1
  PROVE  /\ Closed(codes \o tail)
         /\ Pieces(symbols, codes \o tail) = Append(Pieces(symbols, codes), PieceAt(symbols, tail, 1))
<1>1. Closed(tail) /\ Pieces(symbols, tail) = <<PieceAt(symbols, tail, 1)>>
  BY OnePiece
<1>2. Closed(codes \o tail)
  BY <1>1, ClosedConcat
<1>3. Pieces(symbols, codes \o tail) = Pieces(symbols, codes) \o <<PieceAt(symbols, tail, 1)>>
  <2>1. Pieces(symbols, codes \o tail) = Pieces(symbols, codes) \o Pieces(symbols, tail)
    BY <1>1, PiecesConcat
  <2> QED BY <1>1, <2>1, Zenon
<1> DEFINE ps == Pieces(symbols, codes)
           p == PieceAt(symbols, tail, 1)
<1>4. ps \in Seq(PiecesOf(symbols, codes))
  <2>1. Len(codes) \in Nat
    OBVIOUS
  <2> QED BY <2>1, PiecesType
<1> HIDE DEF ps, p
<1>5. ps \o <<p>> = Append(ps, p)
  BY <1>4
<1> QED BY <1>2, <1>3, <1>5 DEF ps, p

(* The text of no piece, and of one piece more.                            *)
LEMMA TextEmpty == Text(<< >>) = << >>
<1>1. Text(<< >>) = FlattenSeq([i \in 1..0 |-> << >>[i].str])
  BY DEF Text
<1>2. [i \in 1..0 |-> << >>[i].str] = << >>
  OBVIOUS
<1> QED BY <1>1, <1>2, FlattenEmpty

LEMMA TextAppend ==
  ASSUME NEW T, NEW ps \in Seq(T), NEW p, NEW E,
         \A i \in 1..Len(ps) : ps[i].str \in Seq(E), p.str \in Seq(E)
  PROVE  Text(Append(ps, p)) = Text(ps) \o p.str
<1> DEFINE n == Len(ps)
           q == Append(ps, p)
           s == [i \in 1..n |-> ps[i].str]
           t == [i \in 1..Len(q) |-> q[i].str]
<1>1. n \in Nat /\ Len(q) = n + 1 /\ q[n + 1] = p /\ \A i \in 1..n : q[i] = ps[i]
  <2> DEFINE V == T \cup {p}
  <2>1. ps \in Seq(V) /\ p \in V
    OBVIOUS
  <2> HIDE DEF V
  <2> QED BY <2>1, AppendProperties
<1> HIDE DEF n, q
<1>2. s \in Seq(Seq(E)) /\ Len(s) = n
  <2>1. \A i \in 1..n : ps[i].str \in Seq(E)
    BY DEF n
  <2> QED BY <1>1, <2>1
<1>3. t = Append(s, p.str)
  <2>1. Len(t) = n + 1 /\ t = [i \in 1..n + 1 |-> q[i].str]
    BY <1>1
  <2>2. \A i \in 1..n + 1 : q[i].str = IF i = n + 1 THEN p.str ELSE s[i]
    BY <1>1
  <2>3. t = [i \in 1..n + 1 |-> IF i = n + 1 THEN p.str ELSE s[i]]
    BY <2>1, <2>2
  <2> HIDE DEF s, t
  <2> QED BY <1>1, <1>2, <2>3
<1>4. FlattenSeq(t) = FlattenSeq(s) \o p.str
  <2> HIDE DEF s, t
  <2> QED BY <1>2, <1>3, FlattenAppend
<1> QED BY <1>1, <1>4 DEF Text, n, q

-----------------------------------------------------------------------------
(* Least and greatest numbers, parts of sequences                          *)

\* The lesser of two numbers.
LEMMA LesserOfTwo ==
  ASSUME NEW a \in Int, NEW b \in Int
  PROVE  Min({a, b}) = IF a <= b THEN a ELSE b
<1>1. \E x \in {a, b} : \A y \in {a, b} : x <= y
  OBVIOUS
<1>2. Min({a, b}) \in {a, b} /\ \A y \in {a, b} : Min({a, b}) <= y
  BY <1>1 DEF Min
<1> QED
  BY <1>2

\* The greatest element of a set.
LEMMA MaxIs ==
  ASSUME NEW S \in SUBSET Int, NEW k \in S, \A n \in S : n <= k
  PROVE  Max(S) = k
<1>1. \A n \in S : k >= n
  OBVIOUS
<1>2. Max(S) \in S /\ \A n \in S : Max(S) >= n
  BY <1>1 DEF Max
<1>3. Max(S) >= k /\ Max(S) <= k /\ Max(S) \in Int /\ k \in Int
  BY <1>2
<1> QED BY <1>3

\* A part of a sequence, and the part behind another one.
LEMMA Slice ==
  ASSUME NEW E, NEW s \in Seq(E), NEW m \in Nat, NEW n \in Nat, m + n <= Len(s)
  PROVE  /\ SubSeq(s, m + 1, m + n) \in Seq(E)
         /\ Len(SubSeq(s, m + 1, m + n)) = n
         /\ \A i \in 1..n : SubSeq(s, m + 1, m + n)[i] = s[m + i]
OBVIOUS

LEMMA SliceAppended ==
  ASSUME NEW E, NEW s \in Seq(E), NEW m \in Nat, NEW n \in Nat, m + n <= Len(s)
  PROVE  SubSeq(s, 1, m) \o SubSeq(s, m + 1, m + n) = SubSeq(s, 1, m + n)
<1> DEFINE a == SubSeq(s, 1, m)
           b == SubSeq(s, m + 1, m + n)
           c == SubSeq(s, 1, m + n)
<1>1. a \in Seq(E) /\ Len(a) = m /\ \A i \in 1..m : a[i] = s[i]
  OBVIOUS
<1>2. b \in Seq(E) /\ Len(b) = n /\ \A i \in 1..n : b[i] = s[m + i]
  BY Slice, SMTT(30)
<1>3. c \in Seq(E) /\ Len(c) = m + n /\ \A i \in 1..m + n : c[i] = s[i]
  OBVIOUS
<1> HIDE DEF a, b, c
<1>4. a \o b \in Seq(E) /\ Len(a \o b) = m + n
  BY <1>1, <1>2, ConcatProperties
<1>5. ASSUME NEW i \in 1..m + n PROVE (a \o b)[i] = c[i]
  <2>1. CASE i \in 1..m
    BY <1>1, <1>2, <1>3, <2>1
  <2>2. CASE i \notin 1..m
    <3>1. i - m \in 1..n /\ m + (i - m) = i
      BY <2>2
    <3>2. (a \o b)[i] = b[i - m]
      BY <1>1, <1>2, <2>2, <3>1
    <3>3. b[i - m] = s[i]
      BY <1>2, <3>1
    <3> QED BY <1>3, <3>2, <3>3
  <2> QED BY <2>1, <2>2
<1> QED BY <1>3, <1>4, <1>5 DEF a, b, c

\* A part of a part that is not empty.
LEMMA SliceOfSlice ==
  ASSUME NEW E, NEW s \in Seq(E), NEW c \in Nat, NEW n \in Nat, c + n <= Len(s),
         NEW p \in Nat, NEW k \in Nat \ {0}, p + k <= n
  PROVE  SubSeq(SubSeq(s, c + 1, c + n), p + 1, p + k) = SubSeq(s, (c + p) + 1, (c + p) + k)
<1> DEFINE L == Len(s)
<1>1. L \in Nat /\ c + n <= L
  OBVIOUS
<1> HIDE DEF L
<1>2. /\ c + 1 \in 1..L /\ c + n \in 1..L
      /\ p + 1 \in 1..(c + n) - (c + 1) + 1 /\ p + k \in 1..(c + n) - (c + 1) + 1
  BY <1>1
<1>3. (c + 1) + (p + 1) - 1 = (c + p) + 1 /\ (c + 1) + (p + k) - 1 = (c + p) + k
  OBVIOUS
<1>4. SubSeq(SubSeq(s, c + 1, c + n), p + 1, p + k)
        = SubSeq(s, (c + 1) + (p + 1) - 1, (c + 1) + (p + k) - 1)
  BY <1>2, SubSeqOfSubSeq DEF L
<1> QED BY <1>3, <1>4

\* The least element of a set.
LEMMA MinIs ==
  ASSUME NEW S \in SUBSET Int, NEW k \in S, \A n \in S : k <= n
  PROVE  Min(S) = k
<1>1. Min(S) \in S /\ \A n \in S : Min(S) <= n
  BY DEF Min
<1>2. Min(S) >= k /\ Min(S) <= k /\ Min(S) \in Int /\ k \in Int
  BY <1>1
<1> QED BY <1>2

\* A set of numbers that is bounded has a greatest element.
LEMMA MaxExists ==
  ASSUME NEW n \in Nat, NEW S \in SUBSET (0..n), S # {}
  PROVE  Max(S) \in S /\ \A k \in S : k <= Max(S)
<1> DEFINE T == {n - k : k \in S}
<1>0. \A k \in S : k \in Int /\ 0 <= k /\ k <= n
  OBVIOUS
<1>1. T \subseteq Nat /\ T # {}
  <2>1. \A k \in S : n - k \in Nat
    BY <1>0
  <2>2. PICK k \in S : TRUE
    OBVIOUS
  <2>3. n - k \in T
    OBVIOUS
  <2> QED BY <2>1, <2>3
<1>2. PICK x \in T : \A y \in T : x <= y
  <2> HIDE DEF T
  <2> QED BY <1>1, LeastNatural
<1>3. PICK m \in S : x = n - m
  BY <1>2
<1>4. \A k \in S : m >= k
  <2> TAKE k \in S
  <2>1. n - k \in T
    OBVIOUS
  <2>2. x <= n - k
    BY <1>2, <2>1
  <2>3. k \in Int /\ m \in Int
    BY <1>0
  <2> HIDE DEF T
  <2> QED BY <1>3, <2>2, <2>3
<1>5. Max(S) \in S /\ \A k \in S : Max(S) >= k
  BY <1>3, <1>4 DEF Max
<1> QED BY <1>5

\* One element of a sequence.
LEMMA OneElement ==
  ASSUME NEW E, NEW s \in Seq(E), NEW p \in Nat, p + 1 <= Len(s)
  PROVE  SubSeq(s, p + 1, p + 1) = <<s[p + 1]>> /\ s[p + 1] \in E
<1> DEFINE c == SubSeq(s, p + 1, p + 1)
           x == s[p + 1]
<1>1. x \in E
  OBVIOUS
<1>2. c \in Seq(E) /\ Len(c) = 1 /\ c[1] = x
  <2> DEFINE n == 1
  <2>1. n \in Nat /\ p + n <= Len(s) /\ 1 \in 1..n /\ n = 1
    OBVIOUS
  <2> HIDE DEF n
  <2>2. SubSeq(s, p + 1, p + n) \in Seq(E) /\ Len(SubSeq(s, p + 1, p + n)) = n
    BY <2>1, Slice
  <2>3. SubSeq(s, p + 1, p + n)[1] = s[p + 1]
    BY <2>1, Slice
  <2> QED BY <2>1, <2>2, <2>3
<1> HIDE DEF c, x
<1>3. <<x>> \in Seq(E) /\ Len(<<x>>) = 1 /\ <<x>>[1] = x
  BY <1>1
<1>4. c = <<x>>
  <2>1. \A i \in 1..Len(c) : c[i] = <<x>>[i]
    BY <1>2, <1>3
  <2> QED BY <1>2, <1>3, <2>1, SeqEqual
<1> QED BY <1>1, <1>4 DEF c, x

-----------------------------------------------------------------------------
(* Code strings that end behind a code                                     *)

\* Behind a code there is a code or the end.
LEMMA CodeBehind ==
  ASSUME NEW codes, NEW i \in Nat \ {0}, CodeAt(codes, i)
  PROVE  CodeAt(codes, AfterCode(codes, i))
<1>1. CASE codes[i] # Esc
  <2>1. AfterCode(codes, i) = i + 1
    BY <1>1 DEF AfterCode
  <2>2. i + 1 \in 1..i + 1 /\ (i + 1 - (i + 1)) % 2 = 0
    OBVIOUS
  <2>3. codes[i + 1 - 1] # Esc /\ \A j \in i + 1..i + 1 - 1 : codes[j] = Esc
    BY <1>1
  <2> QED BY <2>1, <2>2, <2>3 DEF CodeAt
<1>2. CASE codes[i] = Esc
  <2>0. AfterCode(codes, i) = i + 2
    BY <1>2 DEF AfterCode
  <2>1. PICK q \in 1..i : /\ q = 1 \/ codes[q - 1] # Esc
                          /\ \A j \in q..i - 1 : codes[j] = Esc
                          /\ (i - q) % 2 = 0
    BY DEF CodeAt
  <2>2. CASE codes[i + 1] # Esc
    <3>1. i + 2 \in 1..i + 2 /\ (i + 2 - (i + 2)) % 2 = 0
      OBVIOUS
    <3>2. codes[i + 2 - 1] # Esc /\ \A j \in i + 2..i + 2 - 1 : codes[j] = Esc
      BY <2>2
    <3> QED BY <2>0, <3>1, <3>2 DEF CodeAt
  <2>3. CASE codes[i + 1] = Esc
    <3>1. \A j \in q..i + 2 - 1 : codes[j] = Esc
      BY <1>2, <2>1, <2>3
    <3>2. q \in 1..i + 2 /\ (i + 2 - q) % 2 = 0
      BY <2>1
    <3> QED BY <2>0, <2>1, <3>1, <3>2 DEF CodeAt
  <2> QED BY <2>2, <2>3
<1> QED BY <1>1, <1>2

\* A closed code string does not end in the middle of an escape.
LEMMA ClosedWellFormed ==
  ASSUME NEW codes, Len(codes) \in Nat, Closed(codes)
  PROVE  WellFormed(codes)
<1> DEFINE n == Len(codes)
<1>0. n \in Nat
  OBVIOUS
<1>1. PICK S \in SUBSET (1..n + 1) :
        1 \in S /\ \A i \in S : i <= n => AfterCode(codes, i) \in S
  BY DEF Closed
<1> DEFINE R == {i \in S : CodeAt(codes, i)}
<1>2. 1 \in R
  <2>1. CodeAt(codes, 1)
    <3>1. 1 \in 1..1 /\ (1 - 1) % 2 = 0 /\ \A i \in 1..1 - 1 : codes[i] = Esc
      OBVIOUS
    <3> QED BY <3>1 DEF CodeAt
  <2> QED BY <1>1, <2>1
<1>3. \A i \in R : i \in 1..n + 1 /\ (i <= n => AfterCode(codes, i) \in R /\ AfterCode(codes, i) > i)
  <2> TAKE i \in R
  <2>1. i \in S /\ CodeAt(codes, i) /\ i \in Nat \ {0} /\ i \in 1..n + 1
    BY <1>0, <1>1
  <2>2. CodeAt(codes, AfterCode(codes, i))
    BY <2>1, CodeBehind
  <2>3. AfterCode(codes, i) > i
    BY <2>1 DEF AfterCode
  <2> QED BY <1>1, <2>1, <2>2, <2>3
<1> HIDE DEF R, n
<1> DEFINE m == Max(R)
<1>4. m \in R /\ \A i \in R : i <= m
  <2>1. \A i \in R : i \in 1..n + 1
    BY <1>3
  <2>2. R \in SUBSET (0..n + 1) /\ n + 1 \in Nat
    BY <1>0, <2>1
  <2>3. R # {}
    BY <1>2
  <2> QED BY <2>2, <2>3, MaxExists
<1> HIDE DEF m
<1>5. m = n + 1
  <2>1. m \in 1..n + 1
    BY <1>3, <1>4
  <2>2. ASSUME m <= n PROVE FALSE
    <3> DEFINE q == AfterCode(codes, m)
    <3>1. q \in R /\ q > m
      BY <1>3, <1>4, <2>2
    <3>2. q <= m /\ q \in 1..n + 1
      BY <1>3, <1>4, <3>1
    <3> HIDE DEF q
    <3> QED BY <1>0, <2>1, <3>1, <3>2
  <2> QED BY <1>0, <2>1, <2>2
<1> QED BY <1>4, <1>5 DEF R, n, WellFormed

-----------------------------------------------------------------------------
(* The lengths of strings in the order of their lengths                    *)

\* A set of numbers with every number below each of its own is a range.
LEMMA DownwardClosed ==
  ASSUME NEW n \in Nat, NEW C \in SUBSET (1..n), \A i \in C : \A j \in 1..i : j \in C
  PROVE  C = 1..Cardinality(C)
<1>1. CASE C = {}
  <2>1. Cardinality(C) = 0
    BY <1>1, FS_EmptySet
  <2> QED BY <1>1, <2>1
<1>2. CASE C # {}
  <2> DEFINE T == {n - i : i \in C}
  <2>1. T \subseteq Nat /\ T # {}
    <3>1. \A i \in C : n - i \in Nat
      OBVIOUS
    <3> QED BY <1>2, <3>1
  <2>2. PICK x \in T : \A y \in T : x <= y
    BY <2>1, LeastNatural
  <2>3. PICK m \in C : x = n - m
    BY <2>2
  <2>4. \A i \in C : i <= m
    <3> TAKE i \in C
    <3>1. x <= n - i
      BY <2>2
    <3> QED BY <2>3, <3>1
  <2>6. m \in Nat
    BY <2>3
  <2>5. C = 1..m
    <3>1. \A i \in C : i \in 1..m
      <4> TAKE i \in C
      <4>1. i \in 1..n /\ i <= m
        BY <2>4
      <4> QED BY <2>6, <4>1
    <3>2. 1..m \subseteq C
      BY <2>3
    <3> QED BY <3>1, <3>2
  <2> QED BY <2>5, <2>6, SizeOfRange
<1> QED BY <1>1, <1>2

\* the things of one rank
RankedAs(r, n, k) == {i \in 1..n : r[i] = k}

\* n things in the order of their ranks 1..K
InOrder(r, n, K) ==
  /\ \A i \in 1..n : r[i] \in 1..K
  /\ \A i, j \in 1..n : i < j => r[i] <= r[j]

\* for each rank a run of as many elements as there are things of that rank
RunsFit(s, r, n, K) ==
  /\ Len(s) = K
  /\ \A k \in 1..K : Len(s[k]) = Cardinality(RankedAs(r, n, k))

\* The i-th element of all the runs, one behind the other, is one of the run
\* of the i-th thing.
RunsMatch(s, r, n) ==
  /\ Len(FlattenSeq(s)) = n
  /\ \A i \in 1..n : \E j \in 1..Len(s[r[i]]) : FlattenSeq(s)[i] = s[r[i]][j]

\* Runs that fit things in order match them.
LEMMA RunsInOrder ==
  ASSUME NEW n \in Nat, NEW K \in Nat, NEW r, NEW s \in Seq(Seq(Nat)),
         InOrder(r, n, K), RunsFit(s, r, n, K)
  PROVE  RunsMatch(s, r, n)
<1> DEFINE C(k) == {i \in 1..n : r[i] <= k}
           R(k) == RankedAs(r, n, k)
           P == {k \in Nat : k <= K => Cardinality(C(k)) = LengthOf(s, k)}
<1>0. /\ \A i \in 1..n : r[i] \in 1..K
      /\ \A i, j \in 1..n : i < j => r[i] <= r[j]
      /\ Len(s) = K
      /\ \A k \in 1..K : Len(s[k]) = Cardinality(RankedAs(r, n, k))
  BY DEF InOrder, RunsFit
<1>1. /\ LengthOf(s, 0) = 0
      /\ LengthOf(s, K) = Len(FlattenSeq(s))
      /\ \A j \in 0..K : LengthOf(s, j) \in Nat
      /\ \A j \in 0..K - 1 : LengthOf(s, j + 1) = LengthOf(s, j) + Len(s[j + 1])
  BY <1>0, LengthOfPrefix
<1>2. 0 \in P
  <2>1. C(0) = {}
    BY <1>0
  <2> HIDE DEF C
  <2>2. Cardinality(C(0)) = 0
    BY <2>1, FS_EmptySet
  <2> QED BY <1>1, <2>2
<1>3. \A k \in Nat : k \in P => k + 1 \in P
  <2> HIDE DEF C
  <2> SUFFICES ASSUME NEW k \in Nat, k \in P, k + 1 <= K PROVE Cardinality(C(k + 1)) = LengthOf(s, k + 1)
    OBVIOUS
  <2> USE DEF C
  <2>1. C(k + 1) = C(k) \cup R(k + 1) /\ C(k) \cap R(k + 1) = {}
    BY <1>0 DEF RankedAs
  <2>2. IsFiniteSet(C(k + 1))
    <3>1. C(k + 1) \in SUBSET (1..n) /\ IsFiniteSet(1..n)
      BY SizeOfRange
    <3> HIDE DEF C
    <3> QED BY <3>1, FS_Subset
  <2>3. Cardinality(R(k + 1)) = Len(s[k + 1])
    <3>1. k + 1 \in 1..K
      OBVIOUS
    <3> QED BY <1>0, <3>1
  <2>4. Cardinality(C(k)) = LengthOf(s, k)
    <3> HIDE DEF C
    <3> QED OBVIOUS
  <2>5. LengthOf(s, k + 1) = LengthOf(s, k) + Len(s[k + 1])
    BY <1>1
  <2>6. Cardinality(C(k + 1)) = Cardinality(C(k)) + Cardinality(R(k + 1))
    <3> HIDE DEF C, R
    <3>1. IsFiniteSet(C(k) \cup R(k + 1))
      BY <2>1, <2>2
    <3> QED BY <2>1, <3>1, TwoParts
  <2> HIDE DEF C, R
  <2> QED BY <2>3, <2>4, <2>5, <2>6
<1>4. \A k \in 0..K : Cardinality(C(k)) = LengthOf(s, k)
  <2> HIDE DEF P
  <2>1. Nat \subseteq P
    BY <1>2, <1>3, Induction
  <2> QED BY <2>1 DEF P
<1>5. \A k \in 0..K : C(k) = 1..LengthOf(s, k)
  <2> TAKE k \in 0..K
  <2>1. C(k) \in SUBSET (1..n)
    OBVIOUS
  <2>2. \A i \in C(k) : \A j \in 1..i : j \in C(k)
    <3> SUFFICES ASSUME NEW i \in 1..n, r[i] <= k, NEW j \in 1..i PROVE r[j] <= k
      OBVIOUS
    <3>1. j \in 1..n /\ r[i] \in 1..K /\ r[j] \in 1..K /\ (j = i \/ r[j] <= r[i])
      BY <1>0
    <3> QED BY <3>1
  <2> HIDE DEF C
  <2>3. C(k) = 1..Cardinality(C(k))
    BY <2>1, <2>2, DownwardClosed
  <2> QED BY <1>4, <2>3
<1>6. Len(FlattenSeq(s)) = n
  <2>1. C(K) = 1..n
    BY <1>0
  <2>2. C(K) = 1..LengthOf(s, K)
    BY <1>5
  <2>3. \A a, b \in Nat : 1..a = 1..b => a = b
    <3> SUFFICES ASSUME NEW a \in Nat, NEW b \in Nat, 1..a = 1..b PROVE a = b
      OBVIOUS
    <3>1. (a # 0 => a \in 1..a) /\ (b # 0 => b \in 1..b)
      OBVIOUS
    <3> QED BY <3>1
  <2>4. LengthOf(s, K) \in Nat
    BY <1>1
  <2> HIDE DEF C
  <2> QED BY <1>1, <2>1, <2>2, <2>3, <2>4
<1>7. ASSUME NEW i \in 1..n
      PROVE  \E j \in 1..Len(s[r[i]]) : FlattenSeq(s)[i] = s[r[i]][j]
  <2> DEFINE k == r[i]
             b == k - 1
             j == i - LengthOf(s, b)
  <2>1. k \in 1..K /\ b \in 0..K - 1 /\ k \in 0..K /\ b \in 0..K /\ k = b + 1
    BY <1>0
  <2>2. i \in C(k) /\ i \notin C(b)
    BY <2>1
  <2>3. LengthOf(s, b) \in Nat /\ LengthOf(s, k) \in Nat /\ LengthOf(s, k) = LengthOf(s, b) + Len(s[k])
    <3> HIDE DEF k, b
    <3> QED BY <1>1, <2>1
  <2>4. i <= LengthOf(s, k) /\ i > LengthOf(s, b)
    <3>1. C(k) = 1..LengthOf(s, k) /\ C(b) = 1..LengthOf(s, b)
      BY <1>5, <2>1
    <3> HIDE DEF C, k, b
    <3> QED BY <2>2, <2>3, <3>1
  <2>5. s[k] \in Seq(Nat) /\ Len(s[k]) \in Nat
    BY <1>0, <2>1
  <2>6. j \in 1..Len(s[k]) /\ LengthOf(s, b) + j = i
    <3> HIDE DEF k, b
    <3> QED BY <2>3, <2>4, <2>5
  <2>7. FlattenSeq(s)[LengthOf(s, b) + j] = s[k][j]
    <3>1. k \in 1..Len(s)
      BY <1>0, <2>1
    <3>2. \A x \in 1..Len(s[k]) : FlattenSeq(s)[LengthOf(s, k - 1) + x] = s[k][x]
      <4> HIDE DEF k, j
      <4> QED BY <3>1, FlattenPlace
    <3> HIDE DEF k, j
    <3> QED BY <2>6, <3>2
  <2> QED BY <2>6, <2>7
<1> QED BY <1>6, <1>7 DEF RunsMatch

\* One string, and then others.
LEMMA OneBefore ==
  ASSUME NEW E, NEW one \in Seq(E), Len(one) = 1, NEW t \in Seq(E)
  PROVE  /\ one \o t \in Seq(E) /\ Len(one \o t) = 1 + Len(t)
         /\ (one \o t)[1] = one[1] /\ \A i \in 1..Len(t) : (one \o t)[i + 1] = t[i]
<1>1. Len(t) \in Nat
  OBVIOUS
<1>2. /\ one \o t \in Seq(E) /\ Len(one \o t) = Len(one) + Len(t)
      /\ \A i \in 1..Len(one) + Len(t) : (one \o t)[i] = IF i <= Len(one) THEN one[i] ELSE t[i - Len(one)]
  BY ConcatProperties
<1>3. (one \o t)[1] = one[1]
  BY <1>1, <1>2
<1>4. ASSUME NEW i \in 1..Len(t) PROVE (one \o t)[i + 1] = t[i]
  <2>1. i + 1 \in 1..Len(one) + Len(t) /\ (i + 1) - Len(one) = i /\ ~(i + 1 <= Len(one))
    BY <1>1
  <2> QED BY <1>2, <2>1
<1> QED BY <1>2, <1>3, <1>4

-----------------------------------------------------------------------------
(* Sums of bounded terms                                                  *)

(* What holds of the empty set, and of a set with one more element when it *)
(* holds of the set, holds of a finite set.                                *)
LEMMA FiniteInduction ==
  ASSUME NEW S, IsFiniteSet(S), NEW P, {} \in P,
         \A T \in SUBSET S : \A x \in S \ T : T \in P => T \cup {x} \in P
  PROVE  S \in P
<1> DEFINE N == {n \in Nat : \A T \in SUBSET S : Cardinality(T) = n => T \in P}
<1>1. \A T \in SUBSET S : IsFiniteSet(T) /\ Cardinality(T) \in Nat
  BY FS_Subset, FS_CardinalityType
<1>2. 0 \in N
  <2>1. \A T \in SUBSET S : Cardinality(T) = 0 => T = {}
    BY <1>1, FS_EmptySet
  <2> QED BY <2>1
<1>3. ASSUME NEW n \in Nat, n \in N PROVE n + 1 \in N
  <2> SUFFICES ASSUME NEW T \in SUBSET S, Cardinality(T) = n + 1 PROVE T \in P
    OBVIOUS
  <2>0. T # {}
    <3>1. Cardinality({}) = 0
      BY FS_EmptySet
    <3>2. n + 1 # 0
      OBVIOUS
    <3> HIDE DEF N
    <3> QED BY <3>1, <3>2
  <2>1. PICK x \in T : TRUE
    BY <2>0
  <2> DEFINE U == T \ {x}
  <2>2. U \in SUBSET S /\ x \in S \ U /\ U \cup {x} = T
    OBVIOUS
  <2>3. Cardinality(U) = n
    <3>1. Cardinality(T \ {x}) = Cardinality(T) - 1
      BY <1>1, FS_RemoveElement
    <3> QED BY <3>1
  <2>4. U \in P
    <3> HIDE DEF U
    <3> QED BY <1>3, <2>2, <2>3
  <2> HIDE DEF U
  <2> QED BY <2>2, <2>4
<1>4. Nat \subseteq N
  <2> HIDE DEF N
  <2> QED BY <1>2, <1>3, Induction
<1> QED BY <1>1, <1>4

(* Sums of terms of which each is at most eight times another.             *)
LEMMA SumAtMost ==
  ASSUME NEW S, IsFiniteSet(S), NEW f, NEW g, NEW k \in {1, 8},
         \A x \in S : f[x] \in Int /\ g[x] \in Int /\ f[x] <= k * g[x]
  PROVE  SumFunctionOnSet(f, S) <= k * SumFunctionOnSet(g, S)
<1> DEFINE P == {T \in SUBSET S : SumFunctionOnSet(f, T) <= k * SumFunctionOnSet(g, T)}
<1>1. {} \in P
  BY SumEmpty
<1>2. ASSUME NEW T \in SUBSET S, NEW x \in S \ T, T \in P PROVE T \cup {x} \in P
  <2>1. IsFiniteSet(T)
    BY FS_Subset
  <2>2. SumFunctionOnSet(f, T) \in Int /\ SumFunctionOnSet(g, T) \in Int
    BY <2>1, SumType
  <2>3. SumFunctionOnSet(f, T \cup {x}) = f[x] + SumFunctionOnSet(f, T)
    BY <2>1, SumAdd
  <2>4. SumFunctionOnSet(g, T \cup {x}) = g[x] + SumFunctionOnSet(g, T)
    BY <2>1, SumAdd
  <2> DEFINE a == SumFunctionOnSet(f, T)
             b == SumFunctionOnSet(g, T)
             c == f[x]
             d == g[x]
  <2>5. a \in Int /\ b \in Int /\ c \in Int /\ d \in Int /\ a <= k * b /\ c <= k * d
    BY <1>2, <2>2
  <2> HIDE DEF a, b, c, d
  <2>6. c + a <= k * (d + b)
    <3>1. CASE k = 1
      BY <2>5, <3>1
    <3>2. CASE k = 8
      BY <2>5, <3>2
    <3> QED BY <3>1, <3>2
  <2>7. SumFunctionOnSet(f, T \cup {x}) <= k * SumFunctionOnSet(g, T \cup {x})
    BY <2>3, <2>4, <2>6 DEF a, b, c, d
  <2> QED BY <2>7
<1> HIDE DEF P
<1>3. S \in P
  BY <1>1, <1>2, FiniteInduction
<1> QED BY <1>3 DEF P

(* A sum of terms that are at least -1.                                    *)
LEMMA SumAtLeast ==
  ASSUME NEW S, IsFiniteSet(S), NEW f, \A x \in S : f[x] \in Int /\ f[x] >= -1
  PROVE  SumFunctionOnSet(f, S) >= -Cardinality(S)
<1> DEFINE P == {T \in SUBSET S : SumFunctionOnSet(f, T) >= -Cardinality(T)}
<1>1. {} \in P
  BY SumEmpty, FS_EmptySet
<1>2. ASSUME NEW T \in SUBSET S, NEW x \in S \ T, T \in P PROVE T \cup {x} \in P
  <2>1. IsFiniteSet(T)
    BY FS_Subset
  <2>2. SumFunctionOnSet(f, T) \in Int /\ Cardinality(T) \in Nat
    BY <2>1, SumType, FS_CardinalityType
  <2>3. SumFunctionOnSet(f, T \cup {x}) = f[x] + SumFunctionOnSet(f, T)
    BY <2>1, SumAdd
  <2>4. Cardinality(T \cup {x}) = Cardinality(T) + 1
    BY <2>1, FS_AddElement
  <2>5. SumFunctionOnSet(f, T) >= -Cardinality(T) /\ f[x] \in Int /\ f[x] >= -1
    BY <1>2
  <2>6. SumFunctionOnSet(f, T \cup {x}) >= -Cardinality(T \cup {x})
    BY <2>2, <2>3, <2>4, <2>5
  <2> QED BY <2>6
<1> HIDE DEF P
<1>3. S \in P
  BY <1>1, <1>2, FiniteInduction
<1> QED BY <1>3 DEF P

(* A term of a sum of naturals is not larger than the sum.                 *)
LEMMA SumHasTerm ==
  ASSUME NEW S, IsFiniteSet(S), NEW f, \A x \in S : f[x] \in Nat, NEW y \in S
  PROVE  f[y] <= SumFunctionOnSet(f, S)
<1>1. SumFunctionOnSet(f, S) = f[y] + SumFunctionOnSet(f, S \ {y})
  BY SumRemove
<1>2. IsFiniteSet(S \ {y})
  BY FS_Subset
<1>3. SumFunctionOnSet(f, S \ {y}) \in Nat
  BY <1>2, SumType
<1> QED BY <1>1, <1>3

\* the positions 1..n at which a is x, or b is
Marked(a, b, n, x) == {i \in 1..n : a[i] = x \/ b[i] = x}

\* the positions 1..n at which a is in Q
Within(a, n, Q) == {i \in 1..n : a[i] \in Q}

(* If each of n positions is counted for two things at most, then all      *)
(* things of a set together were counted once for each position at which   *)
(* the first is one of them, and once for the second.                      *)
LEMMA SumOfMarked ==
  ASSUME NEW n \in Nat, NEW a, NEW b, NEW Q, IsFiniteSet(Q), NEW f,
         \A x \in Q : f[x] = Cardinality(Marked(a, b, n, x))
  PROVE  SumFunctionOnSet(f, Q) <= Cardinality(Within(a, n, Q)) + Cardinality(Within(b, n, Q))
<1> DEFINE A(T) == {i \in 1..n : a[i] \in T}
           B(T) == {i \in 1..n : b[i] \in T}
           P == {T \in SUBSET Q : SumFunctionOnSet(f, T) <= Cardinality(A(T)) + Cardinality(B(T))}
<1>0. \A U \in SUBSET (1..n) : IsFiniteSet(U) /\ Cardinality(U) \in Nat
  BY SizeOfRange, FS_Subset, FS_CardinalityType
<1>1. {} \in P
  <2>1. A({}) = {} /\ B({}) = {}
    OBVIOUS
  <2> HIDE DEF A, B
  <2> QED BY <2>1, SumEmpty, FS_EmptySet
<1>2. ASSUME NEW T \in SUBSET Q, NEW x \in Q \ T, T \in P PROVE T \cup {x} \in P
  <2>1. IsFiniteSet(T)
    BY FS_Subset
  <2>2. \A y \in Q : f[y] \in Nat
    <3>1. \A y \in Q : Marked(a, b, n, y) \in SUBSET (1..n)
      BY DEF Marked
    <3> QED BY <1>0, <3>1
  <2>3. SumFunctionOnSet(f, T \cup {x}) = f[x] + SumFunctionOnSet(f, T) /\ SumFunctionOnSet(f, T) \in Nat
    BY <2>1, <2>2, SumAdd, SumType
  <2> DEFINE Ax == {i \in 1..n : a[i] = x}
             Bx == {i \in 1..n : b[i] = x}
  <2>4. /\ A(T \cup {x}) = A(T) \cup Ax /\ A(T) \cap Ax = {} /\ A(T \cup {x}) \in SUBSET (1..n)
        /\ B(T \cup {x}) = B(T) \cup Bx /\ B(T) \cap Bx = {} /\ B(T \cup {x}) \in SUBSET (1..n)
        /\ Marked(a, b, n, x) = Ax \cup Bx /\ Ax \in SUBSET (1..n) /\ Bx \in SUBSET (1..n)
        /\ A(T) \in SUBSET (1..n) /\ B(T) \in SUBSET (1..n)
    BY DEF Marked
  <2> HIDE DEF A, B, Ax, Bx
  <2>5. Cardinality(A(T \cup {x})) = Cardinality(A(T)) + Cardinality(Ax)
    BY <1>0, <2>4, TwoParts
  <2>6. Cardinality(B(T \cup {x})) = Cardinality(B(T)) + Cardinality(Bx)
    BY <1>0, <2>4, TwoParts
  <2>7. Cardinality(Ax \cup Bx) <= Cardinality(Ax) + Cardinality(Bx)
    <3>1. Cardinality(Ax \cup Bx) = Cardinality(Ax) + Cardinality(Bx) - Cardinality(Ax \cap Bx)
      BY <1>0, <2>4, FS_Union
    <3>2. Ax \cap Bx \in SUBSET (1..n)
      BY <2>4
    <3> QED BY <1>0, <2>4, <3>1, <3>2
  <2>8. f[x] = Cardinality(Ax \cup Bx)
    BY <2>4
  <2>9. SumFunctionOnSet(f, T) <= Cardinality(A(T)) + Cardinality(B(T))
    BY <1>2
  <2>10. /\ Cardinality(A(T)) \in Nat /\ Cardinality(B(T)) \in Nat
         /\ Cardinality(Ax) \in Nat /\ Cardinality(Bx) \in Nat /\ Cardinality(Ax \cup Bx) \in Nat
    <3>1. Ax \cup Bx \in SUBSET (1..n)
      BY <2>4
    <3> QED BY <1>0, <2>4, <3>1
  <2>11. SumFunctionOnSet(f, T \cup {x}) <= Cardinality(A(T \cup {x})) + Cardinality(B(T \cup {x}))
    BY <2>3, <2>5, <2>6, <2>7, <2>8, <2>9, <2>10
  <2> QED BY <2>11
<1> HIDE DEF P
<1>3. Q \in P
  BY <1>1, <1>2, FiniteInduction
<1> QED BY <1>3 DEF P, Within

(* The longer the sequences, the longer their concatenation.               *)
LEMMA FlattenNoLonger ==
  ASSUME NEW D, NEW E, NEW s \in Seq(Seq(D)), NEW t \in Seq(Seq(E)), Len(s) = Len(t),
         \A i \in 1..Len(s) : Len(s[i]) <= Len(t[i])
  PROVE  Len(FlattenSeq(s)) <= Len(FlattenSeq(t))
<1> DEFINE n == Len(s)
           P == {j \in Nat : j <= n => LengthOf(s, j) <= LengthOf(t, j)}
<1>1. /\ LengthOf(s, 0) = 0 /\ LengthOf(s, n) = Len(FlattenSeq(s))
      /\ \A j \in 0..n : LengthOf(s, j) \in Nat
      /\ \A j \in 0..n - 1 : LengthOf(s, j + 1) = LengthOf(s, j) + Len(s[j + 1])
  BY LengthOfPrefix
<1>2. /\ LengthOf(t, 0) = 0 /\ LengthOf(t, n) = Len(FlattenSeq(t))
      /\ \A j \in 0..n : LengthOf(t, j) \in Nat
      /\ \A j \in 0..n - 1 : LengthOf(t, j + 1) = LengthOf(t, j) + Len(t[j + 1])
  <2> DEFINE m == Len(t)
  <2>1. /\ LengthOf(t, 0) = 0 /\ LengthOf(t, m) = Len(FlattenSeq(t))
        /\ \A j \in 0..m : LengthOf(t, j) \in Nat
        /\ \A j \in 0..m - 1 : LengthOf(t, j + 1) = LengthOf(t, j) + Len(t[j + 1])
    BY LengthOfPrefix
  <2>2. m = n
    OBVIOUS
  <2> HIDE DEF m, n
  <2> QED BY <2>1, <2>2
<1>3. n \in Nat /\ \A i \in 1..n : Len(s[i]) \in Nat /\ Len(t[i]) \in Nat /\ Len(s[i]) <= Len(t[i])
  OBVIOUS
<1> HIDE DEF n
<1>4. 0 \in P
  BY <1>1, <1>2
<1>5. ASSUME NEW j \in Nat, j \in P PROVE j + 1 \in P
  <2> SUFFICES ASSUME j + 1 <= n PROVE LengthOf(s, j + 1) <= LengthOf(t, j + 1)
    OBVIOUS
  <2>1. j \in 0..n - 1 /\ j \in 0..n /\ j + 1 \in 1..n
    BY <1>3
  <2>2. LengthOf(s, j) <= LengthOf(t, j)
    BY <1>5, <2>1
  <2>3. LengthOf(s, j + 1) = LengthOf(s, j) + Len(s[j + 1]) /\ LengthOf(s, j) \in Nat
    BY <1>1, <2>1
  <2>4. LengthOf(t, j + 1) = LengthOf(t, j) + Len(t[j + 1]) /\ LengthOf(t, j) \in Nat
    BY <1>2, <2>1
  <2>5. Len(s[j + 1]) \in Nat /\ Len(t[j + 1]) \in Nat /\ Len(s[j + 1]) <= Len(t[j + 1])
    BY <1>3, <2>1
  <2> QED BY <2>2, <2>3, <2>4, <2>5
<1>6. n \in P
  <2> HIDE DEF P
  <2> QED BY <1>3, <1>4, <1>5, Induction
<1> QED BY <1>1, <1>2, <1>3, <1>6

-----------------------------------------------------------------------------
(* A chain of steps through 1..n, of which each leads further              *)

\* from each position on: what v says of it, then what comes after the step
Continues(f, v, q, n) ==
  f = [p \in 1..n + 1 |-> IF p > n THEN << >> ELSE v[p] \o f[q[p]]]

(* There is such a function.                                               *)
LEMMA ContinuesExists ==
  ASSUME NEW n \in Nat, NEW v, NEW q, \A p \in 1..n : q[p] \in p + 1..n + 1
  PROVE  \E f : Continues(f, v, q, n)
<1> DEFINE Dom(k) == {p \in 1..n + 1 : p + k > n}
           Body(f, p) == IF p > n THEN << >> ELSE v[p] \o f[q[p]]
           P == {k \in Nat : \E f : f = [p \in Dom(k) |-> Body(f, p)]}
<1>1. 0 \in P
  <2> DEFINE f == [p \in Dom(0) |-> << >>]
  <2>1. \A p \in Dom(0) : p > n
    OBVIOUS
  <2>2. f = [p \in Dom(0) |-> Body(f, p)]
    BY <2>1
  <2> QED BY <2>2
<1>2. ASSUME NEW k \in Nat, k \in P PROVE k + 1 \in P
  <2>1. PICK f : f = [p \in Dom(k) |-> Body(f, p)]
    BY <1>2
  <2> DEFINE h == [p \in Dom(k + 1) |-> IF p \in Dom(k) THEN f[p] ELSE Body(f, p)]
  <2>2. \A p \in Dom(k) : p \in Dom(k + 1) /\ f[p] = Body(f, p)
    <3>1. \A p \in Dom(k) : p \in Dom(k + 1)
      OBVIOUS
    <3>2. \A p \in Dom(k) : f[p] = Body(f, p)
      <4> DEFINE e == [p \in Dom(k) |-> Body(f, p)]
      <4>1. \A p \in Dom(k) : e[p] = Body(f, p)
        OBVIOUS
      <4>2. f = e
        BY <2>1
      <4> HIDE DEF e
      <4> QED BY <4>1, <4>2
    <3> QED BY <3>1, <3>2
  <2>3. \A p \in Dom(k + 1) : h[p] = Body(f, p)
    BY <2>2
  <2>4. \A p \in Dom(k + 1) : ~(p > n) => q[p] \in Dom(k)
    <3> SUFFICES ASSUME NEW p \in Dom(k + 1), ~(p > n) PROVE q[p] \in Dom(k)
      OBVIOUS
    <3>1. p \in 1..n /\ p + (k + 1) > n
      OBVIOUS
    <3>2. q[p] \in p + 1..n + 1
      BY <3>1
    <3> QED BY <3>1, <3>2
  <2>5. \A p \in Dom(k) : h[p] = f[p]
    BY <2>2
  <2>6. \A p \in Dom(k + 1) : Body(h, p) = Body(f, p)
    <3> HIDE DEF h, Dom
    <3> QED BY <2>4, <2>5
  <2>7. h = [p \in Dom(k + 1) |-> Body(h, p)]
    <3>1. \A p \in Dom(k + 1) : h[p] = Body(h, p)
      BY <2>3, <2>6
    <3>2. h = [p \in Dom(k + 1) |-> h[p]]
      OBVIOUS
    <3> HIDE DEF h, Dom, Body
    <3> QED BY <3>1, <3>2
  <2> HIDE DEF h, Dom, Body
  <2>8. \E e : e = [p \in Dom(k + 1) |-> Body(e, p)]
    BY <2>7
  <2> QED BY <2>8
<1>3. n \in P
  <2> HIDE DEF P
  <2>1. Nat \subseteq P
    BY <1>1, <1>2, Induction
  <2> QED BY <2>1
<1>4. Dom(n) = 1..n + 1
  OBVIOUS
<1>5. \E f : f = [p \in Dom(n) |-> Body(f, p)]
  BY <1>3
<1>6. \E f : f = [p \in 1..n + 1 |-> Body(f, p)]
  <2> HIDE DEF Dom, Body
  <2> QED BY <1>4, <1>5
<1> QED BY <1>6 DEF Continues

(* When no part is longer than twice its step, nothing is longer than      *)
(* twice the way to the end.                                               *)
LEMMA ContinuesLength ==
  ASSUME NEW n \in Nat, NEW E, NEW v, NEW q, NEW f, Continues(f, v, q, n),
         \A p \in 1..n : /\ q[p] \in p + 1..n + 1
                         /\ v[p] \in Seq(E) /\ Len(v[p]) <= 2 * (q[p] - p)
  PROVE  \A p \in 1..n + 1 : f[p] \in Seq(E) /\ Len(f[p]) <= 2 * (n + 1 - p)
<1> DEFINE P == {k \in Nat : \A p \in 1..n + 1 : p + k > n => /\ f[p] \in Seq(E)
                                                              /\ Len(f[p]) <= 2 * (n + 1 - p)}
<1>1. \A p \in 1..n + 1 : f[p] = IF p > n THEN << >> ELSE v[p] \o f[q[p]]
  <2> DEFINE h == [p \in 1..n + 1 |-> IF p > n THEN << >> ELSE v[p] \o f[q[p]]]
  <2>1. \A p \in 1..n + 1 : h[p] = IF p > n THEN << >> ELSE v[p] \o f[q[p]]
    OBVIOUS
  <2>2. f = h
    BY DEF Continues
  <2> HIDE DEF h
  <2> QED BY <2>1, <2>2
<1>2. 0 \in P
  <2> SUFFICES ASSUME NEW p \in 1..n + 1, p + 0 > n
               PROVE  f[p] \in Seq(E) /\ Len(f[p]) <= 2 * (n + 1 - p)
    OBVIOUS
  <2>1. f[p] = << >> /\ p = n + 1
    BY <1>1
  <2> QED BY <2>1
<1>3. ASSUME NEW k \in Nat, k \in P PROVE k + 1 \in P
  <2> SUFFICES ASSUME NEW p \in 1..n + 1, p + (k + 1) > n
               PROVE  f[p] \in Seq(E) /\ Len(f[p]) <= 2 * (n + 1 - p)
    OBVIOUS
  <2>1. CASE p > n
    <3>1. f[p] = << >>
      BY <1>1, <2>1
    <3>2. << >> \in Seq(E) /\ Len(<< >>) = 0 /\ 0 <= 2 * (n + 1 - p)
      OBVIOUS
    <3> QED BY <3>1, <3>2
  <2>2. CASE p <= n
    <3>1. p \in 1..n
      BY <2>2
    <3>2. PICK r \in p + 1..n + 1 : r = q[p]
      BY <3>1
    <3>3. r \in 1..n + 1 /\ r + k > n
      <4> HIDE DEF P
      <4>1. p \in Nat /\ p >= 1 /\ r \in Nat /\ r >= p + 1 /\ r <= n + 1
        BY <3>1
      <4>2. p + (k + 1) > n
        OBVIOUS
      <4> QED BY <4>1, <4>2
    <3>4. f[r] \in Seq(E) /\ Len(f[r]) <= 2 * (n + 1 - r)
      BY <1>3, <3>3
    <3>5. v[p] \in Seq(E) /\ Len(v[p]) <= 2 * (r - p)
      BY <3>1, <3>2
    <3>6. f[p] = v[p] \o f[r]
      <4>1. ~(p > n)
        BY <2>2
      <4>2. f[p] = v[p] \o f[q[p]]
        BY <1>1, <4>1
      <4> QED BY <3>2, <4>2
    <3>7. f[p] \in Seq(E) /\ Len(f[p]) = Len(v[p]) + Len(f[r])
      BY <3>4, <3>5, <3>6, ConcatProperties
    <3>8. PICK a \in Nat : a = Len(v[p])
      BY <3>5
    <3>9. PICK b \in Nat : b = Len(f[r])
      BY <3>4
    <3>10. a <= 2 * (r - p) /\ b <= 2 * (n + 1 - r) => a + b <= 2 * (n + 1 - p)
      OBVIOUS
    <3> QED BY <3>4, <3>5, <3>7, <3>8, <3>9, <3>10
  <2> QED BY <2>1, <2>2
<1>4. n \in P
  <2> HIDE DEF P
  <2>1. Nat \subseteq P
    BY <1>2, <1>3, Induction
  <2> QED BY <2>1
<1>5. \A p \in 1..n + 1 : p + n > n
  OBVIOUS
<1> QED BY <1>4, <1>5

\* from each position on: what g says of it, then what comes after the step
Follows(f, g, q, n) ==
  f = [p \in 1..n + 1 |-> IF p > n THEN << >> ELSE <<g[p]>> \o f[q[p]]]

(* There is such a chain.                                                  *)
LEMMA ChainExists ==
  ASSUME NEW n \in Nat, NEW g, NEW q, \A p \in 1..n : q[p] \in p + 1..n + 1
  PROVE  \E f : Follows(f, g, q, n)
<1> DEFINE v == [p \in 1..n |-> <<g[p]>>]
<1>1. PICK f : Continues(f, v, q, n)
  BY ContinuesExists
<1>2. f = [p \in 1..n + 1 |-> IF p > n THEN << >> ELSE v[p] \o f[q[p]]]
  BY <1>1 DEF Continues
<1>3. \A p \in 1..n + 1 : ~(p > n) => v[p] = <<g[p]>>
  OBVIOUS
<1> HIDE DEF v
<1>4. f = [p \in 1..n + 1 |-> IF p > n THEN << >> ELSE <<g[p]>> \o f[q[p]]]
  BY <1>2, <1>3
<1> QED BY <1>4 DEF Follows

\* a chain that starts at p: its elements are those of positions, each of
\* which is where the step before leads
Chained(c, g, q, n, p) ==
  /\ Len(c) <= n + 1 - p
  /\ p > n => c = << >>
  /\ p <= n => Len(c) > 0 /\ c[1] = g[p]
  /\ \A i \in 1..Len(c) : \E r \in 1..n :
       /\ c[i] = g[r]
       /\ i < Len(c) => q[r] <= n /\ c[i + 1] = g[q[r]]

(* A chain has an element for each step.                                   *)
LEMMA ChainSteps ==
  ASSUME NEW n \in Nat, NEW T, NEW g, \A p \in 1..n : g[p] \in T,
         NEW q, \A p \in 1..n : q[p] \in p + 1..n + 1,
         NEW f, Follows(f, g, q, n)
  PROVE  f[1] \in Seq(T) /\ Chained(f[1], g, q, n, 1)
<1> DEFINE Good(p) == f[p] \in Seq(T) /\ Chained(f[p], g, q, n, p)
           P == {k \in Nat : \A p \in 1..n + 1 : p + k > n => Good(p)}
<1>0. \A p \in 1..n + 1 : f[p] = IF p > n THEN << >> ELSE <<g[p]>> \o f[q[p]]
  <2> DEFINE e == [p \in 1..n + 1 |-> IF p > n THEN << >> ELSE <<g[p]>> \o f[q[p]]]
  <2>1. \A p \in 1..n + 1 : e[p] = IF p > n THEN << >> ELSE <<g[p]>> \o f[q[p]]
    OBVIOUS
  <2>2. f = e
    BY DEF Follows
  <2> HIDE DEF e
  <2> QED BY <2>1, <2>2
<1>1. ASSUME NEW p \in 1..n + 1, p > n PROVE Good(p)
  <2>0. p = n + 1
    BY <1>1
  <2>1. f[p] = << >>
    BY <1>0, <1>1
  <2>2. << >> \in Seq(T) /\ Len(<< >>) = 0
    OBVIOUS
  <2> QED BY <2>0, <2>1, <2>2 DEF Chained
<1>2. 0 \in P
  <2> HIDE DEF Good
  <2> QED BY <1>1
<1>3. ASSUME NEW k \in Nat, k \in P PROVE k + 1 \in P
  <2> SUFFICES ASSUME NEW p \in 1..n + 1, p + (k + 1) > n, ~(p > n) PROVE Good(p)
    <3> HIDE DEF Good
    <3> QED BY <1>1
  <2> DEFINE r == q[p]
             t == f[r]
             one == <<g[p]>>
             c == one \o t
             m == Len(t)
  <2>1. p \in 1..n /\ r \in p + 1..n + 1 /\ r \in 1..n + 1 /\ r + k > n /\ r \in Int /\ r > p
    <3>1. p \in 1..n
      OBVIOUS
    <3>2. q[p] \in p + 1..n + 1
      BY <3>1
    <3> QED BY <3>1, <3>2
  <2>2. Good(r)
    <3> HIDE DEF Good, r
    <3> QED BY <1>3, <2>1
  <2>3. f[p] = c
    BY <1>0, <2>1
  <2>4. one \in Seq(T) /\ Len(one) = 1 /\ one[1] = g[p]
    BY <2>1
  <2>5. /\ t \in Seq(T) /\ m \in Nat /\ m <= n + 1 - r
        /\ r > n => t = << >>
        /\ r <= n => m > 0 /\ t[1] = g[r]
        /\ \A i \in 1..m : \E s \in 1..n : t[i] = g[s] /\ (i < m => q[s] <= n /\ t[i + 1] = g[q[s]])
    BY <2>2 DEF Chained
  <2> HIDE DEF one, t, r, m
  <2>6. c \in Seq(T) /\ Len(c) = 1 + m /\ c[1] = g[p] /\ \A i \in 1..m : c[i + 1] = t[i]
    <3>1. t \in Seq(T) /\ m = Len(t)
      BY <2>5 DEF m
    <3> HIDE DEF c
    <3>2. c = one \o t
      BY DEF c
    <3> QED BY <2>4, <3>1, <3>2, OneBefore
  <2> HIDE DEF c
  <2>7. Len(c) <= n + 1 - p
    BY <2>1, <2>5, <2>6
  <2>8. ASSUME NEW i \in 1..Len(c)
        PROVE  \E s \in 1..n : c[i] = g[s] /\ (i < Len(c) => q[s] <= n /\ c[i + 1] = g[q[s]])
    <3>1. CASE i = 1
      <4>1. c[1] = g[p] /\ (1 < Len(c) => q[p] <= n /\ c[2] = g[q[p]])
        <5> SUFFICES ASSUME 1 < Len(c) PROVE r <= n /\ c[2] = g[r]
          BY <2>6 DEF r
        <5>1. m > 0
          BY <2>5, <2>6
        <5>2. r <= n
          <6>1. ~(r > n)
            <7>1. t = << >> => m = 0
              BY DEF m
            <7> QED BY <2>5, <5>1, <7>1
          <6> QED BY <2>1, <6>1
        <5>3. t[1] = g[r] /\ c[1 + 1] = t[1]
          BY <2>5, <2>6, <5>1, <5>2
        <5> QED BY <5>2, <5>3
      <4> QED BY <2>1, <3>1, <4>1
    <3>2. CASE i # 1
      <4> DEFINE j == i - 1
      <4>1. j \in 1..m /\ j + 1 = i /\ (i < Len(c) <=> j < m) /\ (j < m => j + 1 \in 1..m)
        BY <2>5, <2>6, <3>2
      <4>2. c[i] = t[j] /\ (i < Len(c) => c[i + 1] = t[j + 1])
        <5> HIDE DEF j
        <5>1. c[j + 1] = t[j] /\ (j < m => c[(j + 1) + 1] = t[j + 1])
          BY <2>6, <4>1
        <5> QED BY <4>1, <5>1
      <4> HIDE DEF j
      <4>3. PICK s \in 1..n : t[j] = g[s] /\ (j < m => q[s] <= n /\ t[j + 1] = g[q[s]])
        BY <2>5, <4>1
      <4> QED BY <4>1, <4>2, <4>3
    <3> QED BY <3>1, <3>2
  <2>9. Len(c) > 0 /\ c \in Seq(T)
    BY <2>5, <2>6
  <2>10. Chained(c, g, q, n, p)
    BY <2>6, <2>7, <2>8, <2>9 DEF Chained
  <2> QED BY <2>3, <2>9, <2>10
<1>4. n \in P
  <2> HIDE DEF P
  <2> QED BY <1>2, <1>3, Induction
<1> QED BY <1>4

-----------------------------------------------------------------------------
(* How many elements of a sequence are in a set                            *)

\* where a sequence has an element of P
Where(s, P) == {i \in 1..Len(s) : s[i] \in P}

(* They are finitely many.                                                 *)
LEMMA WhereType ==
  ASSUME NEW T, NEW s \in Seq(T), NEW P
  PROVE  IsFiniteSet(Where(s, P)) /\ Cardinality(Where(s, P)) \in Nat
<1>1. PICK n \in Nat : n = Len(s)
  OBVIOUS
<1>2. Where(s, P) \in SUBSET (1..n)
  BY <1>1 DEF Where
<1> QED BY <1>2, SizeOfRange, FS_Subset, FS_CardinalityType

(* Shifting a set of numbers keeps its size.                               *)
LEMMA ShiftedSize ==
  ASSUME NEW A \in SUBSET Int, IsFiniteSet(A), NEW d \in Int
  PROVE  IsFiniteSet({d + i : i \in A}) /\ Cardinality({d + i : i \in A}) = Cardinality(A)
<1> DEFINE B == {d + i : i \in A}
           f == [i \in A |-> d + i]
<1>1. f \in [A -> B]
  OBVIOUS
<1>2. \A i, k \in A : f[i] = f[k] => i = k
  OBVIOUS
<1>3. \A b \in B : \E i \in A : f[i] = b
  OBVIOUS
<1> HIDE DEF f, B
<1>4. f \in Bijection(A, B)
  BY <1>1, <1>2, <1>3 DEF Bijection, Injection, Surjection, IsInjective
<1> QED BY <1>4, FS_Bijection DEF ExistsBijection, B

(* The places of a concatenation are those of both parts.                    *)
LEMMA WhereConcat ==
  ASSUME NEW T, NEW a \in Seq(T), NEW b \in Seq(T), NEW P
  PROVE  Cardinality(Where(a \o b, P)) = Cardinality(Where(a, P)) + Cardinality(Where(b, P))
<1>1. PICK m \in Nat : m = Len(a)
  OBVIOUS
<1>2. PICK n \in Nat : n = Len(b)
  OBVIOUS
<1>3. PICK c : c = a \o b
  OBVIOUS
<1>4. /\ Len(c) = m + n
      /\ \A i \in 1..m : c[i] = a[i]
      /\ \A i \in 1..n : c[m + i] = b[i]
  BY <1>1, <1>2, <1>3
<1> DEFINE A == {i \in 1..m : a[i] \in P}
           B == {i \in 1..n : b[i] \in P}
           C == {i \in 1..m + n : c[i] \in P}
           D == {m + i : i \in B}
<1>5. Where(a, P) = A /\ Where(b, P) = B /\ Where(c, P) = C
  BY <1>1, <1>2, <1>4 DEF Where
<1>6. C = A \cup D
  <2>1. \A i \in 1..m + n : i \in 1..m \/ (i - m \in 1..n /\ m + (i - m) = i)
    OBVIOUS
  <2>2. \A i \in 1..n : m + i \in 1..m + n
    OBVIOUS
  <2>3. ASSUME NEW i \in C PROVE i \in A \cup D
    <3>1. CASE i \in 1..m
      BY <1>4, <3>1
    <3>2. CASE i \notin 1..m
      <4>1. PICK k \in 1..n : k = i - m /\ m + k = i
        BY <2>1, <3>2
      <4>2. c[m + k] = b[k]
        BY <1>4
      <4>3. k \in B
        BY <4>1, <4>2
      <4> QED BY <4>1, <4>3
    <3> QED BY <3>1, <3>2
  <2>4. ASSUME NEW i \in A PROVE i \in C
    BY <1>4
  <2>5. ASSUME NEW i \in D PROVE i \in C
    BY <1>4, <2>2
  <2> HIDE DEF A, C, D
  <2> QED BY <2>3, <2>4, <2>5
<1>7. A \cap D = {}
  OBVIOUS
<1>8. A \in SUBSET (1..m) /\ B \in SUBSET (1..n) /\ B \in SUBSET Int
  OBVIOUS
<1> HIDE DEF A, B, C
<1>9. IsFiniteSet(A) /\ IsFiniteSet(B)
  BY <1>8, SizeOfRange, FS_Subset
<1>10. IsFiniteSet(D) /\ Cardinality(D) = Cardinality(B)
  <2>1. m \in Int
    OBVIOUS
  <2> QED BY <1>8, <1>9, <2>1, ShiftedSize
<1> HIDE DEF D
<1>11. IsFiniteSet(A \cup D)
  BY <1>9, <1>10, FS_Union
<1>12. Cardinality(A \cup D) = Cardinality(A) + Cardinality(D)
  BY <1>7, <1>11, TwoParts
<1> QED BY <1>3, <1>5, <1>6, <1>10, <1>12

(* One element is there or not.                                                *)
LEMMA WhereOne ==
  ASSUME NEW x, NEW P
  PROVE  Cardinality(Where(<<x>>, P)) = IF x \in P THEN 1 ELSE 0
<1>1. Len(<<x>>) = 1 /\ <<x>>[1] = x
  OBVIOUS
<1>2. Where(<<x>>, P) = IF x \in P THEN {1} ELSE {}
  BY <1>1 DEF Where
<1> QED BY <1>2, FS_EmptySet, FS_Singleton

(* Steps that each lead at least w further are no more than fit.           *)
LEMMA ChainWeight ==
  ASSUME NEW n \in Nat, NEW T, NEW g, \A p \in 1..n : g[p] \in T,
         NEW q, \A p \in 1..n : q[p] \in p + 1..n + 1,
         NEW f, Follows(f, g, q, n), NEW P, NEW w \in Nat,
         \A p \in 1..n : g[p] \in P => p + w <= q[p]
  PROVE  w * Cardinality(Where(f[1], P)) <= n
<1> DEFINE Good(p) == f[p] \in Seq(T) /\ w * Cardinality(Where(f[p], P)) <= n + 1 - p
           R == {k \in Nat : \A p \in 1..n + 1 : p + k > n => Good(p)}
<1>0. \A p \in 1..n + 1 : f[p] = IF p > n THEN << >> ELSE <<g[p]>> \o f[q[p]]
  <2> DEFINE e == [p \in 1..n + 1 |-> IF p > n THEN << >> ELSE <<g[p]>> \o f[q[p]]]
  <2>1. \A p \in 1..n + 1 : e[p] = IF p > n THEN << >> ELSE <<g[p]>> \o f[q[p]]
    OBVIOUS
  <2>2. f = e
    BY DEF Follows
  <2> HIDE DEF e
  <2> QED BY <2>1, <2>2
<1>1. ASSUME NEW p \in 1..n + 1, p > n PROVE Good(p)
  <2>0. n + 1 - p = 0
    BY <1>1
  <2>1. f[p] = << >>
    BY <1>0, <1>1
  <2>2. Where(<< >>, P) = {} /\ << >> \in Seq(T)
    BY DEF Where
  <2>3. Cardinality(Where(f[p], P)) = 0 /\ f[p] \in Seq(T)
    BY <2>1, <2>2, FS_EmptySet
  <2>4. w * 0 = 0
    OBVIOUS
  <2> QED BY <2>0, <2>3, <2>4
<1>2. 0 \in R
  <2> HIDE DEF Good
  <2> QED BY <1>1
<1>3. ASSUME NEW k \in Nat, k \in R PROVE k + 1 \in R
  <2> SUFFICES ASSUME NEW p \in 1..n + 1, p + (k + 1) > n, ~(p > n) PROVE Good(p)
    <3> HIDE DEF Good
    <3> QED BY <1>1
  <2>1. PICK r \in 1..n + 1 : r = q[p] /\ p \in 1..n /\ r + k > n /\ r > p
    <3>1. p \in 1..n
      OBVIOUS
    <3>2. q[p] \in p + 1..n + 1
      BY <3>1
    <3> QED BY <3>1, <3>2
  <2>2. Good(r)
    <3> HIDE DEF Good
    <3> QED BY <1>3, <2>1
  <2>3. PICK t \in Seq(T) : t = f[r]
    BY <2>2
  <2>4. PICK x \in T : x = g[p]
    BY <2>1
  <2>5. f[p] = <<x>> \o t
    BY <1>0, <2>1, <2>3, <2>4
  <2>6. <<x>> \in Seq(T) /\ <<x>> \o t \in Seq(T)
    OBVIOUS
  <2>7. PICK c \in Nat : c = Cardinality(Where(t, P))
    BY WhereType
  <2>8. PICK d \in Nat : d = Cardinality(Where(<<x>> \o t, P))
    BY <2>6, WhereType
  <2>9. d = (IF x \in P THEN 1 ELSE 0) + c
    <3>1. d = Cardinality(Where(<<x>>, P)) + c
      BY <2>6, <2>7, <2>8, WhereConcat
    <3> QED BY <3>1, WhereOne
  <2>10. w * c <= n + 1 - r
    BY <2>2, <2>3, <2>7
  <2>11. PICK v \in Nat : v = w * c
    OBVIOUS
  <2>12. CASE x \in P
    <3>1. p + w <= r
      BY <2>1, <2>4, <2>12
    <3>2. d = c + 1
      BY <2>9, <2>12
    <3>3. w * d = w + v
      BY <2>11, <3>2
    <3>4. w + v <= n + 1 - p
      BY <2>10, <2>11, <3>1
    <3> QED BY <2>5, <2>6, <2>8, <3>3, <3>4
  <2>13. CASE x \notin P
    <3>1. d = c
      BY <2>9, <2>13
    <3>2. w * d = v /\ v <= n + 1 - p
      BY <2>1, <2>10, <2>11, <3>1
    <3> QED BY <2>5, <2>6, <2>8, <3>2
  <2> QED BY <2>12, <2>13
<1>4. n \in R
  <2> HIDE DEF R
  <2> QED BY <1>2, <1>3, Induction
<1>5. Good(1)
  BY <1>4
<1> QED BY <1>5

(* The places of a flattened sequence, line by line.                         *)
LEMMA FlattenWhere ==
  ASSUME NEW D, NEW s \in Seq(Seq(D)), NEW P, NEW w \in Nat, NEW h,
         \A j \in 0..Len(s) : h[j] \in Nat,
         \A j \in 0..Len(s) - 1 : h[j] + w * Cardinality(Where(s[j + 1], P)) <= h[j + 1]
  PROVE  w * Cardinality(Where(FlattenSeq(s), P)) <= h[Len(s)]
<1>1. PICK n \in Nat : n = Len(s)
  OBVIOUS
<1> DEFINE F(j) == FlattenSeq(SubSeq(s, 1, j))
           R == {j \in Nat : j <= n => F(j) \in Seq(D) /\ w * Cardinality(Where(F(j), P)) <= h[j]}
<1>2. \A i \in 1..n : s[i] \in Seq(D)
  BY <1>1
<1>3. 0 \in R
  <2>1. F(0) = << >>
    <3>1. SubSeq(s, 1, 0) = << >>
      OBVIOUS
    <3> QED BY <3>1, FlattenEmpty
  <2>2. Where(<< >>, P) = {} /\ << >> \in Seq(D)
    BY DEF Where
  <2>3. Cardinality(Where(F(0), P)) = 0 /\ F(0) \in Seq(D)
    BY <2>1, <2>2, FS_EmptySet
  <2>4. w * 0 = 0 /\ h[0] \in Nat
    BY <1>1
  <2> HIDE DEF F
  <2> QED BY <2>3, <2>4
<1>4. ASSUME NEW j \in Nat, j \in R PROVE j + 1 \in R
  <2> SUFFICES ASSUME j + 1 <= n
               PROVE  F(j + 1) \in Seq(D) /\ w * Cardinality(Where(F(j + 1), P)) <= h[j + 1]
    <3> HIDE DEF F
    <3> QED OBVIOUS
  <2>1. j \in 0..n - 1 /\ j + 1 \in 1..n /\ j <= n /\ j \in 0..n /\ j + 1 \in 0..n
    OBVIOUS
  <2>2. PICK a \in Seq(D) : a = F(j) /\ w * Cardinality(Where(a, P)) <= h[j]
    <3> HIDE DEF F
    <3> QED BY <1>4, <2>1
  <2>3. PICK b \in Seq(D) : b = s[j + 1]
    BY <1>2, <2>1
  <2>4. F(j + 1) = a \o b
    <3>1. F(j + 1) = F(j) \o s[j + 1]
      BY <1>1, <2>1, FlattenPrefix
    <3> HIDE DEF F
    <3> QED BY <2>2, <2>3, <3>1
  <2> HIDE DEF F
  <2>5. a \o b \in Seq(D)
    OBVIOUS
  <2>6. PICK c \in Nat, d \in Nat : c = Cardinality(Where(a, P)) /\ d = Cardinality(Where(b, P))
    BY WhereType
  <2>7. Cardinality(Where(a \o b, P)) = c + d
    BY <2>6, WhereConcat
  <2>8. PICK x \in Nat, y \in Nat : x = h[j] /\ y = h[j + 1] /\ x + w * d <= y
    BY <1>1, <2>1, <2>3, <2>6
  <2>9. w * (c + d) = w * c + w * d
    OBVIOUS
  <2>10. PICK u \in Nat, v \in Nat : u = w * c /\ v = w * d
    OBVIOUS
  <2>11. u <= x /\ x + v <= y => u + v <= y
    OBVIOUS
  <2> QED BY <2>2, <2>4, <2>5, <2>6, <2>7, <2>8, <2>9, <2>10, <2>11
<1>5. n \in R
  <2> HIDE DEF R
  <2> QED BY <1>3, <1>4, Induction
<1>6. SubSeq(s, 1, n) = s
  BY <1>1
<1>7. F(n) = FlattenSeq(s)
  BY <1>6
<1>8. w * Cardinality(Where(F(n), P)) <= h[n]
  <2> HIDE DEF F
  <2> QED BY <1>5
<1> HIDE DEF F
<1> QED BY <1>1, <1>7, <1>8

(* What each line has no less of, the whole has no less of.                *)
LEMMA FlattenBelow ==
  ASSUME NEW D, NEW E, NEW s \in Seq(Seq(D)), NEW t \in Seq(Seq(E)), Len(s) = Len(t), NEW P, NEW Q,
         \A i \in 1..Len(s) : Cardinality(Where(s[i], P)) <= Cardinality(Where(t[i], Q))
  PROVE  Cardinality(Where(FlattenSeq(s), P)) <= Cardinality(Where(FlattenSeq(t), Q))
<1>1. PICK n \in Nat : n = Len(s) /\ n = Len(t)
  OBVIOUS
<1> DEFINE F(j) == FlattenSeq(SubSeq(t, 1, j))
           h == [j \in 0..n |-> Cardinality(Where(F(j), Q))]
<1>2. \A j \in 0..n : F(j) \in Seq(E)
  <2> TAKE j \in 0..n
  <2>1. SubSeq(t, 1, j) \in Seq(Seq(E))
    BY <1>1
  <2> QED BY <2>1, FlattenType
<1>3. ASSUME NEW j \in 0..n - 1 PROVE F(j + 1) = F(j) \o t[j + 1]
  BY <1>1, FlattenPrefix
<1>4. F(n) = FlattenSeq(t)
  <2>1. SubSeq(t, 1, n) = t
    BY <1>1
  <2> QED BY <2>1
<1> HIDE DEF F
<1>5. \A j \in 0..n : h[j] = Cardinality(Where(F(j), Q)) /\ h[j] \in Nat
  BY <1>2, WhereType
<1> HIDE DEF h
<1>6. ASSUME NEW j \in 0..n - 1
      PROVE  h[j] + 1 * Cardinality(Where(s[j + 1], P)) <= h[j + 1]
  <2>1. j \in 0..n /\ j + 1 \in 0..n /\ j + 1 \in 1..n
    OBVIOUS
  <2>2. PICK a \in Seq(E) : a = F(j)
    BY <1>2, <2>1
  <2>3. PICK b \in Seq(E) : b = t[j + 1]
    BY <1>1, <2>1
  <2>4. PICK c \in Seq(D) : c = s[j + 1]
    BY <1>1, <2>1
  <2>5. PICK x \in Nat, y \in Nat, z \in Nat :
          x = Cardinality(Where(a, Q)) /\ y = Cardinality(Where(b, Q)) /\ z = Cardinality(Where(c, P))
    BY WhereType
  <2>6. Cardinality(Where(a \o b, Q)) = x + y
    BY <2>5, WhereConcat
  <2>7. z <= y
    BY <1>1, <2>1, <2>3, <2>4, <2>5
  <2>8. h[j] = x /\ h[j + 1] = x + y
    BY <1>3, <1>5, <2>1, <2>2, <2>3, <2>5, <2>6
  <2> QED BY <2>4, <2>5, <2>7, <2>8
<1>7. 1 * Cardinality(Where(FlattenSeq(s), P)) <= h[n]
  <2>1. /\ \A j \in 0..Len(s) : h[j] \in Nat
        /\ \A j \in 0..Len(s) - 1 : h[j] + 1 * Cardinality(Where(s[j + 1], P)) <= h[j + 1]
    BY <1>1, <1>5, <1>6
  <2>2. 1 * Cardinality(Where(FlattenSeq(s), P)) <= h[Len(s)]
    BY <2>1, FlattenWhere
  <2> QED BY <1>1, <2>2
<1>8. Cardinality(Where(FlattenSeq(s), P)) \in Nat
  <2>1. FlattenSeq(s) \in Seq(D)
    BY FlattenType
  <2> QED BY <2>1, WhereType
<1>9. n \in 0..n
  OBVIOUS
<1> QED BY <1>4, <1>5, <1>7, <1>8, <1>9

(* So a sequence has what any later part of it has.                        *)
LEMMA WhereBehind ==
  ASSUME NEW T, NEW s \in Seq(T), NEW d \in Nat, NEW m \in Nat, d + m <= Len(s), NEW P
  PROVE  LET A == {i \in 1..m : s[d + i] \in P} IN
         Cardinality(A) \in Nat /\ Cardinality(A) <= Cardinality(Where(s, P))
<1> DEFINE A == {i \in 1..m : s[d + i] \in P}
           B == {d + i : i \in A}
<1>1. PICK n \in Nat : n = Len(s)
  OBVIOUS
<1>2. A \in SUBSET (1..m) /\ A \in SUBSET Int
  OBVIOUS
<1>3. B \subseteq Where(s, P)
  <2> SUFFICES ASSUME NEW i \in A PROVE d + i \in 1..n /\ s[d + i] \in P
    BY <1>1 DEF Where
  <2> QED BY <1>1
<1> HIDE DEF A
<1>4. IsFiniteSet(A) /\ Cardinality(A) \in Nat
  BY <1>2, SizeOfRange, FS_Subset, FS_CardinalityType
<1>5. Cardinality(B) = Cardinality(A)
  <2>1. d \in Int
    OBVIOUS
  <2> QED BY <1>2, <1>4, <2>1, ShiftedSize
<1> HIDE DEF B
<1>6. Cardinality(B) <= Cardinality(Where(s, P))
  <2>1. IsFiniteSet(Where(s, P))
    BY WhereType
  <2> QED BY <1>3, <2>1, FS_Subset
<1> QED BY <1>4, <1>5, <1>6 DEF A

(* Places at which one or no element is made from the element d behind.    *)
LEMMA PlacesBelow ==
  ASSUME NEW T, NEW s \in Seq(T), NEW d \in Nat, NEW m \in Nat, d + m <= Len(s), NEW D,
         NEW f \in Seq(Seq(D)), Len(f) = m, NEW P, NEW Q,
         \A i \in 1..m : \/ f[i] = << >>
                         \/ \E x : f[i] = <<x>> /\ (x \in P => s[d + i] \in Q)
  PROVE  Cardinality(Where(FlattenSeq(f), P)) <= Cardinality(Where(s, Q))
<1> DEFINE t == [i \in 1..m |-> s[d + i]]
           g == [i \in 1..m |-> <<t[i]>>]
           upTo(j) == {i \in 1..j : s[d + i] \in Q}
           h == [j \in 0..m |-> Cardinality(upTo(j))]
<1>1. \A j \in 0..m : upTo(j) \in SUBSET (1..j) /\ IsFiniteSet(upTo(j)) /\ Cardinality(upTo(j)) \in Nat
  <2> TAKE j \in 0..m
  <2>1. upTo(j) \in SUBSET (1..j) /\ j \in Nat
    OBVIOUS
  <2> HIDE DEF upTo
  <2> QED BY <2>1, SizeOfRange, FS_Subset, FS_CardinalityType
<1>2. ASSUME NEW j \in 0..m - 1
      PROVE  Cardinality(upTo(j + 1)) = Cardinality(upTo(j)) + IF s[d + (j + 1)] \in Q THEN 1 ELSE 0
  <2>1. upTo(j + 1) = IF s[d + (j + 1)] \in Q THEN upTo(j) \cup {j + 1} ELSE upTo(j)
    <3>1. \A i \in 1..j + 1 : i \in 1..j \/ i = j + 1
      OBVIOUS
    <3>2. \A i \in 1..j : i \in 1..j + 1
      OBVIOUS
    <3>3. j + 1 \in 1..j + 1
      OBVIOUS
    <3> QED BY <3>1, <3>2, <3>3
  <2>2. j + 1 \notin upTo(j) /\ j \in 0..m
    OBVIOUS
  <2> HIDE DEF upTo
  <2>3. IsFiniteSet(upTo(j)) /\ Cardinality(upTo(j)) \in Nat
    BY <1>1, <2>2
  <2>4. Cardinality(upTo(j) \cup {j + 1}) = Cardinality(upTo(j)) + 1
    BY <2>2, <2>3, FS_AddElement
  <2> QED BY <2>1, <2>3, <2>4
<1>3. \A j \in 0..m : h[j] \in Nat /\ h[j] = Cardinality(upTo(j))
  <2> HIDE DEF upTo
  <2> QED BY <1>1
<1>4. ASSUME NEW j \in 0..m - 1
      PROVE  h[j] + 1 * Cardinality(Where(f[j + 1], P)) <= h[j + 1]
  <2>1. j \in 0..m /\ j + 1 \in 0..m /\ j + 1 \in 1..m
    OBVIOUS
  <2>2. PICK a \in Nat : a = h[j]
    BY <1>3, <2>1
  <2>3. h[j + 1] = a + IF s[d + (j + 1)] \in Q THEN 1 ELSE 0
    <3> HIDE DEF upTo, h
    <3> QED BY <1>2, <1>3, <2>1, <2>2
  <2>4. CASE f[j + 1] = << >>
    <3>1. Where(f[j + 1], P) = {}
      BY <2>4 DEF Where
    <3>2. Cardinality(Where(f[j + 1], P)) = 0
      BY <3>1, FS_EmptySet
    <3> HIDE DEF h
    <3> QED BY <2>2, <2>3, <3>2
  <2>5. CASE \E x : f[j + 1] = <<x>> /\ (x \in P => s[d + (j + 1)] \in Q)
    <3>1. PICK x : f[j + 1] = <<x>> /\ (x \in P => s[d + (j + 1)] \in Q)
      BY <2>5
    <3>2. Cardinality(Where(f[j + 1], P)) = IF x \in P THEN 1 ELSE 0
      BY <3>1, WhereOne
    <3> HIDE DEF h
    <3> QED BY <2>2, <2>3, <3>1, <3>2
  <2> QED BY <2>1, <2>4, <2>5
<1> HIDE DEF h
<1>5. 1 * Cardinality(Where(FlattenSeq(f), P)) <= h[m]
  <2>1. /\ \A j \in 0..Len(f) : h[j] \in Nat
        /\ \A j \in 0..Len(f) - 1 : h[j] + 1 * Cardinality(Where(f[j + 1], P)) <= h[j + 1]
    BY <1>3, <1>4
  <2>2. 1 * Cardinality(Where(FlattenSeq(f), P)) <= h[Len(f)]
    BY <2>1, FlattenWhere
  <2> QED BY <2>2
<1>6. Cardinality(upTo(m)) <= Cardinality(Where(s, Q))
  BY WhereBehind
<1>7. Cardinality(Where(FlattenSeq(f), P)) \in Nat
  <2>1. FlattenSeq(f) \in Seq(D)
    BY FlattenType
  <2> QED BY <2>1, WhereType
<1>8. Cardinality(Where(s, Q)) \in Nat
  BY WhereType
<1>9. h[m] = Cardinality(upTo(m)) /\ h[m] \in Nat
  <2>1. m \in 0..m
    OBVIOUS
  <2> HIDE DEF upTo
  <2> QED BY <1>3, <2>1
<1> HIDE DEF upTo
<1> QED BY <1>5, <1>6, <1>7, <1>8, <1>9

-----------------------------------------------------------------------------
(* Folds from the left                                                     *)

\* What a fold from the left takes last is the greatest index.
LEMMA WithoutGreatest ==
  ASSUME NEW n \in Nat, NEW T \in SUBSET (1..n), T # {}
  PROVE  /\ Max(T) \in T /\ T \ {Max(T)} \in SUBSET (1..n)
         /\ Cardinality(T) \in Nat \ {0} /\ Cardinality(T \ {Max(T)}) = Cardinality(T) - 1
<1>1. T \in SUBSET (0..n)
  OBVIOUS
<1>2. Max(T) \in T
  BY <1>1, MaxExists
<1>3. IsFiniteSet(T) /\ Cardinality(T) \in Nat
  <2>1. 1 \in Int /\ n \in Int
    OBVIOUS
  <2>2. IsFiniteSet(1..n)
    BY <2>1, FS_Interval
  <2>3. IsFiniteSet(T)
    BY <2>2, FS_Subset
  <2> QED BY <2>3, FS_CardinalityType
<1>4. Cardinality(T) # 0
  BY <1>3, FS_EmptySet
<1>5. PICK x \in T : x = Max(T)
  BY <1>2
<1>6. Cardinality(T \ {x}) = Cardinality(T) - 1
  BY <1>3, FS_RemoveElement
<1> QED BY <1>2, <1>3, <1>4, <1>5, <1>6

IntegerOn(f, S) == \A y \in S : f[y] \in Int
SumWithout(f, S, x) == SumFunctionOnSet(f, S) = SumFunctionOnSet(f, S \ {x}) + f[x]

\* A sum is what one element adds to the sum over the others.
LEMMA SumIsWithout ==
  ASSUME NEW f, NEW S, IsFiniteSet(S), IntegerOn(f, S), NEW x \in S
  PROVE  SumWithout(f, S, x)
<1>1. \A y \in S : f[y] \in Int
  BY DEF IntegerOn
<1>2. SumFunctionOnSet(f, S) = f[x] + SumFunctionOnSet(f, S \ {x})
  BY <1>1, SumRemove
<1>3. SumFunctionOnSet(f, S \ {x}) \in Int
  <2>1. IsFiniteSet(S \ {x}) /\ \A y \in S \ {x} : f[y] \in Int
    BY <1>1, FS_Subset
  <2> QED BY <2>1, SumType
<1>4. f[x] \in Int
  BY <1>1
<1> QED BY <1>2, <1>3, <1>4 DEF SumWithout

\* So is what the greatest adds, of numbers.
LEMMA SumAtGreatest ==
  ASSUME NEW f, NEW n \in Nat, \A y \in 1..n : f[y] \in Int, NEW T \in SUBSET (1..n), T # {}
  PROVE  SumFunctionOnSet(f, T) = SumFunctionOnSet(f, T \ {Max(T)}) + f[Max(T)]
<1>1. IsFiniteSet(T)
  <2>1. IsFiniteSet(1..n)
    BY FS_Interval
  <2> QED BY <2>1, FS_Subset
<1>2. PICK x \in T : x = Max(T)
  BY WithoutGreatest
<1>3. IntegerOn(f, T)
  BY DEF IntegerOn
<1>4. SumWithout(f, T, x)
  BY <1>1, <1>3, SumIsWithout
<1> QED BY <1>2, <1>4 DEF SumWithout

\* What holds of the empty set, and of a set when it holds without its
\* greatest element, holds of every set of indexes.
LEMMA IndexInduction ==
  ASSUME NEW n \in Nat, NEW P, {} \in P,
         \A T \in SUBSET (1..n) : T # {} /\ T \ {Max(T)} \in P => T \in P
  PROVE  SUBSET (1..n) \subseteq P
<1> DEFINE N == {k \in Nat : \A T \in SUBSET (1..n) : Cardinality(T) = k => T \in P}
<1>1. \A T \in SUBSET (1..n) : Cardinality(T) \in Nat
  <2>1. Cardinality({}) = 0
    BY FS_EmptySet
  <2>2. \A T \in SUBSET (1..n) : T # {} => Cardinality(T) \in Nat
    BY WithoutGreatest
  <2> QED BY <2>1, <2>2
<1>2. 0 \in N
  <2>1. \A T \in SUBSET (1..n) : T # {} => Cardinality(T) # 0
    BY WithoutGreatest
  <2> QED BY <2>1
<1>3. ASSUME NEW k \in Nat, k \in N PROVE k + 1 \in N
  <2> SUFFICES ASSUME NEW T \in SUBSET (1..n), Cardinality(T) = k + 1 PROVE T \in P
    OBVIOUS
  <2>1. T # {}
    BY FS_EmptySet
  <2> DEFINE U == T \ {Max(T)}
  <2>2. U \in SUBSET (1..n) /\ Cardinality(U) = k
    BY <2>1, WithoutGreatest
  <2>3. U \in P
    <3> HIDE DEF U
    <3> QED BY <1>3, <2>2
  <2> QED BY <2>1, <2>3
<1>4. Nat \subseteq N
  <2> HIDE DEF N
  <2> QED BY <1>2, <1>3, Induction
<1> QED BY <1>1, <1>4

=============================================================================
