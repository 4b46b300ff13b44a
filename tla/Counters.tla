------------------------------ MODULE Counters ------------------------------
(***************************************************************************)
(* struct Counters of libfsst.hpp: how often each code occurs in the       *)
(* sample (count1), and how often each code follows a given one (count2,   *)
(* of which this is one row).  Each counter is split into a low and a high *)
(* column; the high one is incremented early, so that it is zero exactly   *)
(* when the counter is, and the scans that build the next table skip over  *)
(* whole words of zeros.  Two high parts of count2 share a byte.           *)
(***************************************************************************)
EXTENDS Integers, Sequences, FiniteSets

CONSTANTS
  NCodes,      \* FSST_CODE_MAX (512), the codes 0..NCodes-1
  LowSize,     \* the values of the low column (256)
  High1Size,   \* the values of the high column of count1 (256)
  High2Size,   \* those of count2: half a byte (16)
  ReadSize,    \* the bytes of one read of a high column (8)
  MaxSample,   \* how many codes the sample has at most
  Singles,     \* the codes that occur in the sample ...
  Followers    \* ... and those that occur after the code of the row

AllCodes == 0..NCodes - 1

ASSUME CountersAssumption ==
  /\ NCodes \in Nat \ {0} /\ NCodes % 2 = 0
  /\ {LowSize, High1Size, High2Size, ReadSize} \subseteq Nat \ {0, 1}
  /\ MaxSample \in Nat
  /\ Singles \subseteq AllCodes /\ Followers \subseteq AllCodes

VARIABLES
  count1High, count1Low,   \* for each code
  count2High,              \* for each pair of neighbouring codes, a byte
  count2Low,               \* for each code
  marked,              \* the code count1Set was called for, or NCodes
  occurred1, occurred2     \* (history) what was counted since the reset

cvars == <<count1High, count1Low, count2High, count2Low, marked,
           occurred1, occurred2>>

Zero == [c \in AllCodes |-> 0]

CInit ==
  /\ count1High = Zero /\ count1Low = Zero /\ count2Low = Zero
  /\ count2High = [i \in 0..(NCodes \div 2) - 1 |-> 0]
  /\ marked = NCodes
  /\ occurred1 = Zero /\ occurred2 = Zero

Total(occurred) ==
  Cardinality({p \in AllCodes \X (1..MaxSample) : p[2] <= occurred[p[1]]})

\* A sample has a limited size, and compressing it counts as many codes.
Counting(occurred) == marked = NCodes /\ Total(occurred) < MaxSample

-----------------------------------------------------------------------------
(* Writing                                                                 *)

\* (mutant) the carry of an ordinary two-digit counter
CarryLate(low) == IF low = LowSize - 1 THEN 1 ELSE 0

\* increment high early (when low = 0, not when low = 255)
Carry(low) == IF low = 0 THEN 1 ELSE 0

Count1Inc(c) ==
  /\ Counting(occurred1)
  /\ count1High' = [count1High EXCEPT ![c] = (@ + Carry(count1Low[c])) % High1Size]
  /\ count1Low' = [count1Low EXCEPT ![c] = (@ + 1) % LowSize]
  /\ occurred1' = [occurred1 EXCEPT ![c] = @ + 1]
  /\ UNCHANGED <<count2High, count2Low, marked, occurred2>>

\* (mutant) always counts in the lower half of the byte
LowerHalf(c) == 1

\* 1 << 0 or 1 << 4, depending on whether the code is even or odd
Half(c) == IF c % 2 = 0 THEN 1 ELSE High2Size

Count2Inc(c) ==
  /\ Counting(occurred2)
  /\ count2High' = [count2High EXCEPT ![c \div 2] =
                      (@ + Half(c) * Carry(count2Low[c])) % (High2Size * High2Size)]
  /\ count2Low' = [count2Low EXCEPT ![c] = (@ + 1) % LowSize]
  /\ occurred2' = [occurred2 EXCEPT ![c] = @ + 1]
  /\ UNCHANGED <<count1High, count1Low, marked, occurred1>>

\* (mutant) sets the low column only
NoHigh == 0

MaxHigh == High1Size - 1

\* makeTable: count1Set(terminator, 65535)
Count1Set(c) ==
  /\ marked = NCodes
  /\ marked' = c
  /\ count1Low' = [count1Low EXCEPT ![c] = LowSize - 1]
  /\ count1High' = [count1High EXCEPT ![c] = MaxHigh]
  /\ UNCHANGED <<count2High, count2Low, occurred1, occurred2>>

\* memset(&counters, 0, sizeof(Counters)) before the next round
Reset ==
  /\ marked # NCodes
  /\ count1High' = Zero /\ count1Low' = Zero /\ count2Low' = Zero
  /\ count2High' = [i \in DOMAIN count2High |-> 0]
  /\ marked' = NCodes
  /\ occurred1' = Zero /\ occurred2' = Zero

CNext ==
  \/ \E c \in Singles : Count1Inc(c)
  \/ \E c \in Followers : Count2Inc(c)
  \/ \E c \in AllCodes : Count1Set(c)
  \/ Reset

CSpec == CInit /\ [][CNext]_cvars

-----------------------------------------------------------------------------
(* Reading: GetNext returns the counter at the code it advances to         *)

\* high is decremented, unless low is zero
Value(high, low) == (IF low # 0 THEN high - 1 ELSE high) * LowSize + low

\* A read of a high column may run over its end, into the low column.
High1At(i) == IF i < NCodes THEN count1High[i] ELSE count1Low[i - NCodes]

\* the half byte of code i
High2At(i) ==
  IF i < NCodes
  THEN (count2High[i \div 2] \div Half(i)) % High2Size
  ELSE (count2Low[(i - NCodes) \div 2] \div Half(i)) % High2Size

\* The first of the codes c..c+n-1 that is used, or else the last of them.
Skip(c, n, used) ==
  LET seen == used \cap (c..c + n - 1)
  IN IF seen = {} THEN c + n - 1 ELSE CHOOSE i \in seen : \A j \in seen : i <= j

Count1GetNext(c) ==
  LET next == Skip(c, ReadSize, {i \in c..c + ReadSize - 1 : High1At(i) # 0})
  IN [code |-> next,
      count |-> IF next >= NCodes \/ High1At(next) = 0 THEN 0
                ELSE Value(High1At(next), count1Low[next])]

\* An odd code starts in the middle of a byte, and sees one counter less.
Count2GetNext(c) ==
  LET next == Skip(c, 2 * ReadSize - (c % 2), {i \in c..c + 2 * ReadSize - 1 : High2At(i) # 0})
  IN [code |-> next,
      count |-> IF next >= NCodes \/ High2At(next) = 0 THEN 0
                ELSE Value(High2At(next), count2Low[next])]

\* What a loop "for (c = 0; c < NCodes; c++)" over GetNext(c) meets, as a
\* sequence of [code, count].
Scan(getNext) ==
  LET from[c \in 0..NCodes + 2 * ReadSize] ==
        IF c >= NCodes THEN << >>
        ELSE LET r == getNext[c] IN
             (IF r.count = 0 THEN << >> ELSE <<r>>) \o from[r.code + 1]
  IN from[0]

Scan1 == Scan([c \in AllCodes |-> Count1GetNext(c)])
Scan2 == Scan([c \in AllCodes |-> Count2GetNext(c)])

-----------------------------------------------------------------------------
(* Properties                                                              *)

\* what a scan should meet: the codes that occurred, in order
Expect(scan, count) ==
  /\ \A i, j \in 1..Len(scan) : i < j => scan[i].code < scan[j].code
  /\ {<<scan[i].code, scan[i].count>> : i \in 1..Len(scan)} =
     {<<c, count[c]>> : c \in {d \in AllCodes : count[d] > 0}}

\* As far as the counters count: the high column is full before the low one
\* is, so that is one low column short of LowSize * High1Size.
Full1 == (High1Size - 1) * LowSize
Full2 == (High2Size - 1) * LowSize

Fits(occurred, full) == \A c \in AllCodes : occurred[c] <= full

\* The split counters, skipped through by words, read over their ends and
\* packed two to a byte, give back every count, in order, and nothing else,
\* as long as none of them ran full.
ScansAreExact ==
  marked = NCodes => /\ Fits(occurred1, Full1) => Expect(Scan1, occurred1)
                     /\ Fits(occurred2, Full2) => Expect(Scan2, occurred2)

\* "artificially make terminater the most frequent symbol so it gets
\* included" (makeTable), although 65535 reads back as less: count1Set does
\* not know that the high column is incremented early.
TerminatorIsMostFrequent ==
  marked # NCodes =>
    \E i \in 1..Len(Scan1) :
      /\ Scan1[i].code = marked
      /\ \A j \in 1..Len(Scan1) : j # i => Scan1[i].count > Scan1[j].count

\* "count1[pos] and count2[pos1][pos2] of resp 16 and 12-bits", "4K maxval":
\* a counter of 12 bits counts to 4095.
PairCountsHave12Bits ==
  \A c \in AllCodes :
    occurred2[c] < LowSize * High2Size =>
      occurred2[c] = IF High2At(c) = 0 THEN 0 ELSE Value(High2At(c), count2Low[c])

=============================================================================
