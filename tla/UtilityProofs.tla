---------------------------- MODULE UtilityProofs ----------------------------
(***************************************************************************)
(* Parts of the programs around the library.  For any set of threads,      *)
(* BinarySemaphore loses no wake-up, and each of its steps is a step of    *)
(* AbstractSemaphore or none.  For every dictionary, all inputs and        *)
(* buffers, Decompressor stays within both buffers: the unrolled blocks,   *)
(* the tail and the loop.  For every map and all lines, the encoders of    *)
(* Codec12 stay within their buffer, the decoder gives back what they      *)
(* encoded, and the DP uses the fewest codes.  For any corpus and all      *)
(* requests, RowStore gives back the rows that are asked for.              *)
(***************************************************************************)
EXTENDS BinarySemaphore, Codec12, RowStore, DataLemmas, SequenceTheorems, TLAPS

-----------------------------------------------------------------------------
(* The semaphore                                                           *)

(* Every step keeps the types, and the mutex with the thread that is in a  *)
(* critical section.                                                       *)
LEMMA TypeStep ==
  ASSUME TypeOK, [Next]_vars
  PROVE  TypeOK'
<1> USE NoThreadAssumption DEF TypeOK, Pcs, Goto
<1>1. ASSUME NEW t \in Thread, CallWait(t) \/ CallPost(t) \/ Lock(t) \/ PostLock(t)
      PROVE  TypeOK'
  BY <1>1 DEF CallWait, CallPost, Lock, PostLock
<1>2. ASSUME NEW t \in Thread, Sleep(t) \/ Take(t) \/ Unlock(t)
      PROVE  TypeOK'
  <2>1. CASE Sleep(t)
    BY <2>1 DEF Sleep
  <2>2. CASE Take(t)
    BY <2>2 DEF Take
  <2>3. CASE Unlock(t)
    BY <2>3 DEF Unlock
  <2> QED BY <1>2, <2>1, <2>2, <2>3
<1>3. ASSUME NEW t \in Thread, PostSet(t) \/ NotifyNobody(t) \/ SpuriousWakeup(t)
      PROVE  TypeOK'
  BY <1>3 DEF PostSet, NotifyNobody, SpuriousWakeup
<1>4. ASSUME NEW t \in Thread, NotifyOne(t)
      PROVE  TypeOK'
  BY <1>4 DEF NotifyOne
<1>5. CASE UNCHANGED vars
  BY <1>5 DEF vars
<1> QED
  BY <1>1, <1>2, <1>3, <1>4, <1>5 DEF Next, Proceed

(* A set flag with a sleeper keeps its witness: the notifier wakes one     *)
(* sleeper, and an awake waiter that reaches its test takes the flag.      *)
LEMMA WakeupStep ==
  ASSUME TypeOK, TypeOK', NoLostWakeup, [Next]_vars
  PROVE  NoLostWakeup'
<1> USE DEF TypeOK, NoLostWakeup, Goto, Pcs
<1>1. ASSUME NEW t \in Thread, CallWait(t) \/ CallPost(t) \/ Lock(t) \/ PostLock(t)
      PROVE  NoLostWakeup'
  BY <1>1 DEF CallWait, CallPost, Lock, PostLock
<1>2. ASSUME NEW t \in Thread, Sleep(t) \/ Take(t) \/ Unlock(t)
      PROVE  NoLostWakeup'
  BY <1>2 DEF Sleep, Take, Unlock
<1>3. ASSUME NEW t \in Thread, PostSet(t) \/ NotifyNobody(t) \/ SpuriousWakeup(t)
      PROVE  NoLostWakeup'
  BY <1>3 DEF PostSet, NotifyNobody, SpuriousWakeup
<1>4. ASSUME NEW t \in Thread, NotifyOne(t)
      PROVE  NoLostWakeup'
  BY <1>4 DEF NotifyOne
<1>5. CASE UNCHANGED vars
  BY <1>5 DEF vars
<1> QED
  BY <1>1, <1>2, <1>3, <1>4, <1>5 DEF Next, Proceed

(* TypeOK and NoLostWakeup hold in every reachable state.                  *)
THEOREM NoWakeupIsLost == Spec => [](TypeOK /\ NoLostWakeup)
<1>1. Init => TypeOK /\ NoLostWakeup
  BY NoThreadAssumption DEF Init, TypeOK, NoLostWakeup, Pcs
<1>2. TypeOK /\ NoLostWakeup /\ [Next]_vars => (TypeOK /\ NoLostWakeup)'
  BY TypeStep, WakeupStep
<1> QED
  BY <1>1, <1>2, PTL DEF Spec

(* How Waiting changes when thread t moves and no other thread enters or   *)
(* leaves wait().                                                          *)
LEMMA WaitingStep ==
  ASSUME NEW t \in Thread,
         \A u \in Thread : u # t => (pc'[u] \in WaitPcs <=> pc[u] \in WaitPcs)
  PROVE  /\ pc[t] \notin WaitPcs /\ pc'[t] \in WaitPcs =>
              t \notin Waiting /\ Waiting' = Waiting \cup {t}
         /\ pc[t] \in WaitPcs /\ pc'[t] \notin WaitPcs =>
              t \in Waiting /\ Waiting' = Waiting \ {t}
         /\ (pc[t] \in WaitPcs <=> pc'[t] \in WaitPcs) => Waiting' = Waiting
BY DEF Waiting

(* The safety part of IsSemaphore: wait() takes the permit once per return *)
(* and post() makes it available, whatever the mutex and the condition     *)
(* variable do in between.                                                 *)
THEOREM ImplementsPermit == Spec => Abstract!AInit /\ [][Abstract!ANext]_(Abstract!avars)
<1>1. Init => Abstract!AInit
  BY DEF Init, Abstract!AInit, Waiting, WaitPcs
<1>2. ASSUME TypeOK, [Next]_vars
      PROVE  [Abstract!ANext]_(Abstract!avars)
  <2>1. ASSUME NEW t \in Thread, CallWait(t)
        PROVE  Abstract!CallWait(t)
    <3>1. /\ pc[t] \notin WaitPcs /\ pc'[t] \in WaitPcs
          /\ \A u \in Thread : u # t => (pc'[u] \in WaitPcs <=> pc[u] \in WaitPcs)
      BY <1>2, <2>1 DEF CallWait, TypeOK, Goto, WaitPcs
    <3>2. t \notin Waiting /\ Waiting' = Waiting \cup {t} /\ UNCHANGED value
      BY <2>1, <3>1, WaitingStep DEF CallWait
    <3> QED BY <3>2 DEF Abstract!CallWait
  <2>2. ASSUME NEW t \in Thread, Take(t)
        PROVE  Abstract!ReturnFromWait(t)
    <3>1. /\ pc[t] \in WaitPcs /\ pc'[t] \notin WaitPcs
          /\ \A u \in Thread : u # t => (pc'[u] \in WaitPcs <=> pc[u] \in WaitPcs)
      BY <1>2, <2>2 DEF Take, TypeOK, Goto, WaitPcs
    <3>2. t \in Waiting /\ Waiting' = Waiting \ {t} /\ value /\ value' = FALSE
      BY <2>2, <3>1, WaitingStep DEF Take
    <3> QED BY <3>2 DEF Abstract!ReturnFromWait
  <2>3. ASSUME NEW t \in Thread, PostSet(t)
        PROVE  Abstract!MakeAvailable
    <3>1. /\ pc[t] \in WaitPcs <=> pc'[t] \in WaitPcs
          /\ \A u \in Thread : u # t => (pc'[u] \in WaitPcs <=> pc[u] \in WaitPcs)
      BY <1>2, <2>3 DEF PostSet, TypeOK, Goto, WaitPcs
    <3>2. Waiting' = Waiting /\ value' = TRUE
      BY <2>3, <3>1, WaitingStep DEF PostSet
    <3> QED BY <3>2 DEF Abstract!MakeAvailable
  <2>4. ASSUME NEW t \in Thread, Lock(t) \/ Sleep(t) \/ Unlock(t) \/ CallPost(t) \/ PostLock(t)
        PROVE  UNCHANGED <<value, Waiting>>
    <3>1. /\ pc[t] \in WaitPcs <=> pc'[t] \in WaitPcs
          /\ \A u \in Thread : u # t => (pc'[u] \in WaitPcs <=> pc[u] \in WaitPcs)
      BY <1>2, <2>4 DEF Lock, Sleep, Unlock, CallPost, PostLock, TypeOK, Goto, WaitPcs
    <3>2. Waiting' = Waiting /\ UNCHANGED value
      BY <2>4, <3>1, WaitingStep DEF Lock, Sleep, Unlock, CallPost, PostLock
    <3> QED BY <3>2
  <2>5. ASSUME NEW t \in Thread, NotifyNobody(t) \/ SpuriousWakeup(t) \/ NotifyOne(t)
        PROVE  UNCHANGED <<value, Waiting>>
    <3>1. /\ pc[t] \in WaitPcs <=> pc'[t] \in WaitPcs
          /\ \A u \in Thread : u # t => (pc'[u] \in WaitPcs <=> pc[u] \in WaitPcs)
      BY <1>2, <2>5 DEF NotifyNobody, SpuriousWakeup, NotifyOne, TypeOK, Goto, WaitPcs
    <3>2. Waiting' = Waiting /\ UNCHANGED value
      BY <2>5, <3>1, WaitingStep DEF NotifyNobody, SpuriousWakeup, NotifyOne
    <3> QED BY <3>2
  <2>6. CASE UNCHANGED vars
    BY <2>6 DEF vars, Waiting, Abstract!avars
  <2> QED
    BY <1>2, <2>1, <2>2, <2>3, <2>4, <2>5, <2>6
       DEF Next, Proceed, Abstract!ANext, Abstract!avars
<1>3. Spec => []TypeOK
  BY NoWakeupIsLost, PTL
<1> QED
  BY <1>1, <1>2, <1>3, PTL DEF Spec

-----------------------------------------------------------------------------
(* The decoder                                                             *)

Byte == 0..255

\* where the i-th part of an unrolled block reads: an escape has two bytes
EscapedCodes(parts, i) == \E j \in 1..i - 1 : parts[j] = "escape"
Place(parts, pos, i) == pos + i - 1 + (IF EscapedCodes(parts, i) THEN 1 ELSE 0)

\* The parts of a block are what the input has from pos on, and at most one
\* is an escape.
Planned(in, parts, pos) ==
  /\ parts \in Seq({"code", "escape"})
  /\ \A i \in 1..Len(parts) :
       LET p == Place(parts, pos, i) IN
       IF parts[i] = "escape" THEN p + 2 <= Len(in) /\ in[p + 1] = Esc
       ELSE p + 1 <= Len(in) /\ in[p + 1] # Esc
  /\ \A i, j \in 1..Len(parts) : parts[i] = "escape" /\ parts[j] = "escape" => i = j

\* The decoder is always between two codes, and a block has room for a word
\* for each of its parts.
DecoderInv ==
  /\ strIn \in Inputs /\ size \in Sizes
  /\ at \in {"fast", "tail", "slow", "returned"} /\ (at \in {"slow", "returned"} => todo = << >>)
  /\ posIn \in 0..Len(strIn) /\ posOut \in Nat /\ high \in Nat /\ read \in Nat
  /\ CodeAt(strIn, posIn + 1)
  /\ Planned(strIn, todo, posIn)
  /\ posOut + Len(todo) * Word <= size \/ todo = << >>
  /\ InBounds

LEMMA GreaterOfTwo ==
  ASSUME NEW a \in Int, NEW b \in Int
  PROVE  Max({a, b}) = IF a >= b THEN a ELSE b
<1>1. \E x \in {a, b} : \A y \in {a, b} : x >= y
  OBVIOUS
<1>2. Max({a, b}) \in {a, b} /\ \A y \in {a, b} : Max({a, b}) >= y
  BY <1>1 DEF Max
<1> QED
  BY <1>2

\* What the assumption says of an input and of its codes.
LEMMA InputFacts ==
  ASSUME NEW in \in Inputs
  PROVE  /\ in \in Seq(Byte) /\ Len(in) \in Nat
         /\ CodeAt(in, Len(in) + 1)
         /\ \A i \in 1..Len(in) : in[i] # Esc => Len(Symbols[in[i] + 1]) \in 1..Word
BY DecoderAssumption DEF WellFormed, Byte

\* Behind a code, or an escape and its byte, there is a code or the end.
LEMMA PastCode ==
  ASSUME NEW in \in Seq(Byte), NEW p \in 1..Len(in), in[p] # Esc
  PROVE  CodeAt(in, p + 1)
<1>1. p + 1 \in 1..p + 1 /\ (p + 1 - (p + 1)) % 2 = 0
  OBVIOUS
<1>2. in[p + 1 - 1] # Esc /\ \A i \in p + 1..p + 1 - 1 : in[i] = Esc
  OBVIOUS
<1> QED
  BY <1>1, <1>2 DEF CodeAt

LEMMA AfterEscape ==
  ASSUME NEW in \in Seq(Byte), NEW p \in 1..Len(in), CodeAt(in, p), in[p] = Esc,
         p + 1 <= Len(in)
  PROVE  CodeAt(in, p + 2)
<1>1. PICK q \in 1..p : /\ q = 1 \/ in[q - 1] # Esc
                        /\ \A i \in q..p - 1 : in[i] = Esc
                        /\ (p - q) % 2 = 0
  BY DEF CodeAt
<1>2. CASE in[p + 1] # Esc
  <2>1. p + 2 \in 1..p + 2 /\ (p + 2 - (p + 2)) % 2 = 0
    OBVIOUS
  <2>2. in[p + 2 - 1] # Esc /\ \A i \in p + 2..p + 2 - 1 : in[i] = Esc
    BY <1>2
  <2> QED
    BY <2>1, <2>2 DEF CodeAt
<1>3. CASE in[p + 1] = Esc
  <2>1. \A i \in q..p + 2 - 1 : in[i] = Esc
    BY <1>1, <1>3
  <2>2. q \in 1..p + 2 /\ (p + 2 - q) % 2 = 0
    BY <1>1
  <2> QED
    BY <1>1, <2>1, <2>2 DEF CodeAt
<1> QED
  BY <1>2, <1>3

\* The last byte of an input is no escape.
LEMMA EscapeHasByte ==
  ASSUME NEW in \in Inputs, NEW p \in 1..Len(in), CodeAt(in, p), in[p] = Esc
  PROVE  p + 1 <= Len(in)
<1>1. in \in Seq(Byte) /\ Len(in) \in Nat /\ CodeAt(in, Len(in) + 1)
  BY InputFacts
<1> SUFFICES ASSUME p = Len(in) PROVE FALSE
  BY <1>1
<1>2. PICK q \in 1..p : /\ q = 1 \/ in[q - 1] # Esc
                        /\ \A i \in q..p - 1 : in[i] = Esc
                        /\ (p - q) % 2 = 0
  BY DEF CodeAt
<1>3. PICK r \in 1..p + 1 : /\ r = 1 \/ in[r - 1] # Esc
                            /\ \A i \in r..p + 1 - 1 : in[i] = Esc
                            /\ (p + 1 - r) % 2 = 0
  BY <1>1 DEF CodeAt
<1>4. r <= p
  BY <1>3
<1>5. ~(q < r)
  BY <1>2, <1>3, <1>4
<1>6. ~(r < q)
  BY <1>2, <1>3, <1>4
<1>7. q = r
  BY <1>5, <1>6
<1> QED
  BY <1>2, <1>3, <1>7

LEMMA DecoderInitial == DInit => DecoderInv
<1> SUFFICES ASSUME DInit PROVE DecoderInv
  OBVIOUS
<1>1. strIn \in Seq(Byte) /\ Len(strIn) \in Nat /\ size \in Nat
  BY InputFacts, DecoderAssumption DEF DInit
<1>2. CodeAt(strIn, 1)
  BY DEF CodeAt
<1>3. Planned(strIn, todo, posIn)
  BY DEF Planned, DInit
<1> QED
  BY <1>1, <1>2, <1>3 DEF DInit, DecoderInv, InBounds

\* What one part of a block leaves is planned from behind it.
LEMMA RestPlanned ==
  ASSUME NEW in, NEW parts, NEW pos \in Nat, Len(in) \in Nat,
         Planned(in, parts, pos), parts # << >>
  PROVE  /\ Tail(parts) \in Seq({"code", "escape"}) /\ Len(Tail(parts)) = Len(parts) - 1
         /\ Head(parts) = "code" =>
              pos + 1 <= Len(in) /\ in[pos + 1] # Esc /\ Planned(in, Tail(parts), pos + 1)
         /\ Head(parts) = "escape" =>
              pos + 2 <= Len(in) /\ in[pos + 1] = Esc /\ Planned(in, Tail(parts), pos + 2)
<1>1. /\ parts \in Seq({"code", "escape"}) /\ Len(parts) \in Nat \ {0}
      /\ Head(parts) = parts[1]
      /\ Tail(parts) \in Seq({"code", "escape"}) /\ Len(Tail(parts)) = Len(parts) - 1
      /\ \A i \in 1..Len(parts) - 1 : Tail(parts)[i] = parts[i + 1]
  BY HeadTailProperties, EmptySeq DEF Planned
<1>2. Place(parts, pos, 1) = pos
  BY DEF Place, EscapedCodes
<1>3. IF parts[1] = "escape" THEN pos + 2 <= Len(in) /\ in[pos + 1] = Esc
      ELSE pos + 1 <= Len(in) /\ in[pos + 1] # Esc
  BY <1>1, <1>2 DEF Planned
<1>4. \A i, j \in 1..Len(Tail(parts)) :
        Tail(parts)[i] = "escape" /\ Tail(parts)[j] = "escape" => i = j
  <2> SUFFICES ASSUME NEW i \in 1..Len(parts) - 1, NEW j \in 1..Len(parts) - 1,
                      parts[i + 1] = "escape", parts[j + 1] = "escape"
               PROVE  i = j
    BY <1>1
  <2>1. i + 1 = j + 1
    BY <1>1 DEF Planned
  <2> QED
    BY <2>1
<1>5. ASSUME NEW next \in Nat,
             \A i \in 1..Len(parts) - 1 : Place(Tail(parts), next, i) = Place(parts, pos, i + 1)
      PROVE  Planned(in, Tail(parts), next)
  <2>1. \A i \in 1..Len(parts) - 1 :
          LET p == Place(parts, pos, i + 1) IN
          IF parts[i + 1] = "escape" THEN p + 2 <= Len(in) /\ in[p + 1] = Esc
          ELSE p + 1 <= Len(in) /\ in[p + 1] # Esc
    BY <1>1 DEF Planned
  <2> QED
    BY <1>1, <1>4, <1>5, <2>1 DEF Planned
<1>6. ASSUME parts[1] = "code", NEW i \in 1..Len(parts) - 1
      PROVE  Place(Tail(parts), pos + 1, i) = Place(parts, pos, i + 1)
  <2>1. EscapedCodes(Tail(parts), i) <=> EscapedCodes(parts, i + 1)
    <3>1. ASSUME NEW j \in 1..i - 1, Tail(parts)[j] = "escape" PROVE EscapedCodes(parts, i + 1)
      <4>1. j + 1 \in 1..(i + 1) - 1 /\ parts[j + 1] = "escape"
        BY <1>1, <3>1
      <4> QED
        BY <4>1 DEF EscapedCodes
    <3>2. ASSUME NEW j \in 1..(i + 1) - 1, parts[j] = "escape" PROVE EscapedCodes(Tail(parts), i)
      <4>1. j # 1
        BY <1>6, <3>2
      <4>2. j - 1 \in 1..i - 1 /\ Tail(parts)[j - 1] = parts[j - 1 + 1] /\ j - 1 + 1 = j
        BY <1>1, <4>1
      <4> QED
        BY <3>2, <4>2 DEF EscapedCodes
    <3> QED
      BY <3>1, <3>2 DEF EscapedCodes
  <2> QED
    BY <2>1 DEF Place
<1>7. ASSUME parts[1] = "escape", NEW i \in 1..Len(parts) - 1
      PROVE  Place(Tail(parts), pos + 2, i) = Place(parts, pos, i + 1)
  <2>1. EscapedCodes(parts, i + 1)
    BY <1>7 DEF EscapedCodes
  <2>2. ~EscapedCodes(Tail(parts), i)
    <3> SUFFICES ASSUME NEW j \in 1..i - 1, Tail(parts)[j] = "escape" PROVE FALSE
      BY DEF EscapedCodes
    <3>1. parts[j + 1] = "escape" /\ j + 1 \in 1..Len(parts) /\ 1 \in 1..Len(parts)
      BY <1>1
    <3>2. j + 1 = 1
      BY <1>7, <3>1 DEF Planned
    <3> QED
      BY <3>2
  <2> QED
    BY <2>1, <2>2 DEF Place
<1> QED
  BY <1>1, <1>3, <1>5, <1>6, <1>7

\* What a block is made of, its escape being the last part.
LEMMA CodesPlanned ==
  ASSUME NEW in, NEW pos \in Nat, NEW n \in Nat, Len(in) \in Nat, pos + n <= Len(in),
         \A i \in 0..n - 1 : in[pos + i + 1] # Esc
  PROVE  /\ Codes(n) \in Seq({"code", "escape"}) /\ Len(Codes(n)) = n
         /\ Planned(in, Codes(n), pos)
         /\ pos + n + 2 <= Len(in) /\ in[pos + n + 1] = Esc =>
              /\ Planned(in, Append(Codes(n), "escape"), pos)
              /\ Len(Append(Codes(n), "escape")) = n + 1
<1>1. /\ Codes(n) \in Seq({"code", "escape"}) /\ Len(Codes(n)) = n
      /\ \A i \in 1..n : Codes(n)[i] = "code"
  BY DEF Codes
<1>2. \A i \in 1..n : Place(Codes(n), pos, i) = pos + i - 1
  BY <1>1 DEF Place, EscapedCodes
<1>3. Planned(in, Codes(n), pos)
  <2>1. \A i \in 1..n : pos + i - 1 + 1 <= Len(in) /\ in[pos + i - 1 + 1] # Esc
    <3> SUFFICES ASSUME NEW i \in 1..n PROVE pos + i - 1 + 1 <= Len(in) /\ in[pos + i - 1 + 1] # Esc
      OBVIOUS
    <3>1. i - 1 \in 0..n - 1 /\ pos + (i - 1) + 1 = pos + i - 1 + 1 /\ pos + i <= Len(in)
      OBVIOUS
    <3>2. in[pos + (i - 1) + 1] # Esc
      BY <3>1
    <3>3. pos + i - 1 + 1 <= Len(in)
      BY <3>1
    <3> QED
      BY <3>1, <3>2, <3>3, Zenon
  <2>2. ASSUME NEW i \in 1..Len(Codes(n))
        PROVE  LET p == Place(Codes(n), pos, i) IN
               IF Codes(n)[i] = "escape" THEN p + 2 <= Len(in) /\ in[p + 1] = Esc
               ELSE p + 1 <= Len(in) /\ in[p + 1] # Esc
    <3>1. i \in 1..n /\ Codes(n)[i] # "escape"
      BY <1>1
    <3> QED
      BY <1>2, <2>1, <3>1
  <2>3. \A i, j \in 1..Len(Codes(n)) : Codes(n)[i] = "escape" /\ Codes(n)[j] = "escape" => i = j
    BY <1>1
  <2> QED
    BY <1>1, <2>2, <2>3 DEF Planned
<1>4. ASSUME pos + n + 2 <= Len(in), in[pos + n + 1] = Esc
      PROVE  /\ Planned(in, Append(Codes(n), "escape"), pos)
             /\ Len(Append(Codes(n), "escape")) = n + 1
  <2> DEFINE parts == Append(Codes(n), "escape")
  <2>1. /\ parts \in Seq({"code", "escape"}) /\ Len(parts) = n + 1
        /\ \A i \in 1..n : parts[i] = "code"
        /\ parts[n + 1] = "escape"
    BY <1>1, AppendProperties
  <2> HIDE DEF parts
  <2>2. \A i \in 1..n + 1 : Place(parts, pos, i) = pos + i - 1
    BY <2>1 DEF Place, EscapedCodes
  <2>3. \A i \in 1..n : pos + i - 1 + 1 <= Len(in) /\ in[pos + i - 1 + 1] # Esc
    BY <1>1, <1>2, <1>3 DEF Planned
  <2>4. Place(parts, pos, n + 1) + 2 <= Len(in) /\ in[Place(parts, pos, n + 1) + 1] = Esc
    BY <1>4, <2>2
  <2>5. ASSUME NEW i \in 1..Len(parts)
        PROVE  LET p == Place(parts, pos, i) IN
               IF parts[i] = "escape" THEN p + 2 <= Len(in) /\ in[p + 1] = Esc
               ELSE p + 1 <= Len(in) /\ in[p + 1] # Esc
    <3>1. CASE i = n + 1
      BY <2>1, <2>4, <3>1
    <3>2. CASE i \in 1..n
      BY <2>1, <2>2, <2>3, <3>2
    <3> QED
      BY <2>1, <3>1, <3>2
  <2>6. Planned(in, parts, pos)
    BY <2>1, <2>5 DEF Planned
  <2> QED
    BY <2>1, <2>6 DEF parts
<1> QED
  BY <1>1, <1>3, <1>4

\* The four bytes of an unrolled block.
LEMMA BlockPlanned ==
  ASSUME DecoderInv, posIn + 4 <= Len(strIn)
  PROVE  Planned(strIn, Block, posIn) /\ Len(Block) <= 4
<1>1. /\ strIn \in Seq(Byte) /\ Len(strIn) \in Nat /\ posIn \in Nat
      /\ strIn \in Inputs /\ CodeAt(strIn, posIn + 1)
  BY InputFacts DEF DecoderInv
<1>2. CASE Escapes = {}
  <2>1. \A i \in 0..4 - 1 : strIn[posIn + i + 1] # Esc
    BY <1>2 DEF Escapes, ByteAt
  <2>2. Planned(strIn, Codes(4), posIn) /\ Len(Codes(4)) = 4
    BY <1>1, <2>1, CodesPlanned
  <2>3. Block = Codes(4)
    BY <1>2 DEF Block
  <2>4. Len(Block) = 4
    BY <2>2, <2>3, Zenon
  <2>5. Len(Block) <= 4
    BY <2>4
  <2>6. Planned(strIn, Block, posIn)
    BY <2>2, <2>3, Zenon
  <2> QED
    BY <2>5, <2>6
<1>3. CASE Escapes # {}
  <2> DEFINE first == Min(Escapes)
  <2>1. \E x \in Escapes : \A y \in Escapes : x <= y
    <3>1. Escapes \subseteq 0..3
      BY DEF Escapes
    <3>2. CASE 0 \in Escapes
      BY <3>1, <3>2
    <3>3. CASE 0 \notin Escapes /\ 1 \in Escapes
      BY <3>1, <3>3
    <3>4. CASE 0 \notin Escapes /\ 1 \notin Escapes /\ 2 \in Escapes
      BY <3>1, <3>4
    <3>5. CASE 0 \notin Escapes /\ 1 \notin Escapes /\ 2 \notin Escapes
      <4>1. \A y \in Escapes : y = 3
        BY <3>1, <3>5
      <4>2. 3 \in Escapes
        BY <1>3, <4>1
      <4> QED
        BY <4>1, <4>2
    <3> QED
      BY <3>1, <3>2, <3>3, <3>4, <3>5
  <2>2. first \in Escapes /\ \A y \in Escapes : first <= y
    BY <2>1 DEF Min
  <2> HIDE DEF first
  <2>3. /\ first \in 0..3 /\ strIn[posIn + first + 1] = Esc
        /\ \A i \in 0..first - 1 : strIn[posIn + i + 1] # Esc
    <3>1. \A i \in 0..3 : i \in Escapes <=> strIn[posIn + i + 1] = Esc
      BY DEF Escapes, ByteAt
    <3>2. first \in 0..3
      BY <2>2 DEF Escapes
    <3> QED
      BY <2>2, <3>1, <3>2
  <2>4. CodeAt(strIn, posIn + first + 1)
    <3>1. CASE first = 0
      BY <1>1, <3>1
    <3>2. CASE first > 0
      <4>1. first - 1 \in 0..first - 1 /\ posIn + (first - 1) + 1 = posIn + first
        BY <1>1, <2>3, <3>2
      <4>2. strIn[posIn + first] # Esc
        BY <2>3, <4>1
      <4>3. posIn + first \in 1..Len(strIn)
        BY <1>1, <2>3, <3>2
      <4> QED
        BY <1>1, <4>2, <4>3, PastCode
    <3> QED
      BY <2>3, <3>1, <3>2
  <2>5. posIn + first + 2 <= Len(strIn)
    <3>1. posIn + first + 1 \in 1..Len(strIn)
      BY <1>1, <2>3
    <3>2. (posIn + first + 1) + 1 <= Len(strIn)
      BY <1>1, <2>3, <2>4, <3>1, EscapeHasByte
    <3> QED
      BY <1>1, <2>3, <3>2
  <2>6. posIn + first <= Len(strIn) /\ first \in Nat
    BY <1>1, <2>3
  <2>7. Planned(strIn, Append(Codes(first), "escape"), posIn) /\ Len(Append(Codes(first), "escape")) = first + 1
    BY <1>1, <2>3, <2>5, <2>6, CodesPlanned
  <2> QED
    <3>1. Block = Append(Codes(first), "escape")
      BY <1>3 DEF Block, first
    <3>2. first + 1 <= 4
      BY <2>3
    <3> QED
      BY <2>7, <3>1, <3>2
<1> QED
  BY <1>2, <1>3

LEMMA AppendIs ==
  ASSUME NEW parts \in Seq({"code", "escape"}), NEW all \in Seq({"code", "escape"}),
         NEW part \in {"code", "escape"},
         Len(all) = Len(parts) + 1, all[Len(all)] = part,
         \A i \in 1..Len(parts) : all[i] = parts[i]
  PROVE  Append(parts, part) = all
BY AppendProperties, SeqEqual

LEMMA PairFacts ==
  /\ << >> # <<"code", "escape">> /\ <<"escape">> # <<"code", "escape">>
  /\ <<"code", "code">> # <<"code", "escape">>
  /\ Append(<< >>, "code") = <<"code">>
  /\ Append(<<"escape">>, "code") = <<"escape", "code">>
  /\ Append(<<"code">>, "escape") = <<"code", "escape">>
  /\ Append(<<"code", "code">>, "code") = <<"code", "code", "code">>
<1>1. << >> # <<"code", "escape">>
  OBVIOUS
<1>2. <<"escape">> # <<"code", "escape">>
  <2>1. <<"escape">>[1] # <<"code", "escape">>[1]
    OBVIOUS
  <2> QED
    BY <2>1
<1>3. <<"code", "code">> # <<"code", "escape">>
  <2>1. <<"code", "code">>[2] # <<"code", "escape">>[2]
    OBVIOUS
  <2> QED
    BY <2>1
<1>4. Append(<< >>, "code") = <<"code">>
  OBVIOUS
<1>5. Append(<<"escape">>, "code") = <<"escape", "code">>
  <2> DEFINE parts == <<"escape">>
             all == <<"escape", "code">>
  <2>1. /\ parts \in Seq({"code", "escape"}) /\ all \in Seq({"code", "escape"})
        /\ Len(all) = Len(parts) + 1 /\ all[Len(all)] = "code"
        /\ \A i \in 1..Len(parts) : all[i] = parts[i]
    OBVIOUS
  <2> HIDE DEF parts, all
  <2>2. Append(parts, "code") = all
    BY <2>1, AppendIs
  <2> QED
    BY <2>2 DEF parts, all
<1>6. Append(<<"code">>, "escape") = <<"code", "escape">>
  <2> DEFINE parts == <<"code">>
             all == <<"code", "escape">>
  <2>1. /\ parts \in Seq({"code", "escape"}) /\ all \in Seq({"code", "escape"})
        /\ Len(all) = Len(parts) + 1 /\ all[Len(all)] = "escape"
        /\ \A i \in 1..Len(parts) : all[i] = parts[i]
    OBVIOUS
  <2> HIDE DEF parts, all
  <2>2. Append(parts, "escape") = all
    BY <2>1, AppendIs
  <2> QED
    BY <2>2 DEF parts, all
<1>7. Append(<<"code", "code">>, "code") = <<"code", "code", "code">>
  <2> DEFINE parts == <<"code", "code">>
             all == <<"code", "code", "code">>
  <2>1. /\ parts \in Seq({"code", "escape"}) /\ all \in Seq({"code", "escape"})
        /\ Len(all) = Len(parts) + 1 /\ all[Len(all)] = "code"
        /\ \A i \in 1..Len(parts) : all[i] = parts[i]
    OBVIOUS
  <2> HIDE DEF parts, all
  <2>2. Append(parts, "code") = all
    BY <2>1, AppendIs
  <2> QED
    BY <2>2 DEF parts, all
<1> QED
  BY <1>1, <1>2, <1>3, <1>4, <1>5, <1>6, <1>7

\* The last bytes, with an escape for the first of two, or the second of
\* three, or none.
LEMMA TailPlanned ==
  ASSUME DecoderInv, ~(posIn + 4 <= Len(strIn))
  PROVE  Planned(strIn, TailBlock, posIn) /\ Len(TailBlock) <= 3
<1> DEFINE left == Len(strIn) - posIn
<1>1. /\ strIn \in Seq(Byte) /\ Len(strIn) \in Nat /\ posIn \in Nat
      /\ strIn \in Inputs /\ CodeAt(strIn, posIn + 1)
      /\ left \in 0..3
  BY InputFacts DEF DecoderInv
\* A code that is the last byte is not an escape.
<1>2. ASSUME NEW p \in 1..Len(strIn), CodeAt(strIn, p), p = Len(strIn) PROVE strIn[p] # Esc
  BY <1>1, <1>2, EscapeHasByte
<1>3. CASE left = 0
  <2>1. TailBlock = << >>
    BY <1>1, <1>3 DEF TailBlock
  <2> QED
    BY <1>1, <2>1 DEF Planned
<1>4. CASE left = 1
  <2>1. TailBlock = Append(<< >>, "code")
    <3>1. left < 2 /\ 0 < left
      BY <1>4
    <3> QED
      BY <3>1, PairFacts, Zenon DEF TailBlock
  <2>2. Codes(1) = <<"code">>
    BY DEF Codes
  <2>3. strIn[posIn + 1] # Esc
    BY <1>1, <1>2, <1>4
  <2>4. \A i \in 0..1 - 1 : strIn[posIn + i + 1] # Esc
    BY <1>1, <2>3
  <2>5. Planned(strIn, Codes(1), posIn)
    BY <1>1, <1>4, <2>4, CodesPlanned, SMTT(30)
  <2> QED
    BY <2>1, <2>2, <2>5, PairFacts
<1>5. CASE left \in {2, 3} /\ strIn[posIn + 1] = Esc
  <2>1. ByteAt(posIn) = Esc
    BY <1>5 DEF ByteAt
  <2>2. CASE left = 2
    <3>1. TailBlock = <<"escape">>
      BY <1>1, <2>1, <2>2, PairFacts DEF TailBlock
    <3>2. Planned(strIn, <<"escape">>, posIn)
      BY <1>1, <1>5, <2>2 DEF Planned, Place, EscapedCodes
    <3> QED
      BY <3>1, <3>2
  <2>3. CASE left = 3
    <3>1. TailBlock = <<"escape", "code">>
      BY <1>1, <2>1, <2>3, PairFacts DEF TailBlock
    <3>2. strIn[posIn + 3] # Esc
      <4>1. CodeAt(strIn, (posIn + 1) + 2)
        BY <1>1, <1>5, <2>3, AfterEscape
      <4>2. CodeAt(strIn, posIn + 3) /\ posIn + 3 \in 1..Len(strIn) /\ posIn + 3 = Len(strIn)
        BY <1>1, <2>3, <4>1
      <4> QED
        BY <1>2, <4>2
    <3> DEFINE parts == <<"escape", "code">>
    <3>3. /\ parts \in Seq({"code", "escape"}) /\ Len(parts) = 2
          /\ parts[1] = "escape" /\ parts[2] = "code"
      OBVIOUS
    <3> HIDE DEF parts
    <3>4. Place(parts, posIn, 1) = posIn /\ Place(parts, posIn, 2) = posIn + 2
      <4>1. ~EscapedCodes(parts, 1)
        BY DEF EscapedCodes
      <4>2. EscapedCodes(parts, 2)
        BY <3>3 DEF EscapedCodes
      <4> QED
        BY <1>1, <4>1, <4>2 DEF Place
    <3>5. /\ posIn + 2 <= Len(strIn) /\ strIn[posIn + 1] = Esc
          /\ posIn + 2 + 1 <= Len(strIn) /\ strIn[posIn + 2 + 1] # Esc
      BY <1>1, <1>5, <2>3, <3>2
    <3>6. ASSUME NEW i \in 1..Len(parts)
          PROVE  LET p == Place(parts, posIn, i) IN
                 IF parts[i] = "escape" THEN p + 2 <= Len(strIn) /\ strIn[p + 1] = Esc
                 ELSE p + 1 <= Len(strIn) /\ strIn[p + 1] # Esc
      <4>1. CASE i = 1
        BY <3>3, <3>4, <3>5, <4>1
      <4>2. CASE i = 2
        BY <3>3, <3>4, <3>5, <4>2
      <4> QED
        BY <3>3, <4>1, <4>2
    <3>7. Planned(strIn, parts, posIn)
      BY <3>3, <3>6 DEF Planned
    <3> QED
      BY <3>1, <3>7 DEF parts
  <2> QED
    BY <1>5, <2>2, <2>3
<1>6. CASE left \in {2, 3} /\ strIn[posIn + 1] # Esc /\ strIn[posIn + 2] = Esc
  <2>1. ByteAt(posIn) # Esc /\ ByteAt(posIn + 1) = Esc
    BY <1>1, <1>6 DEF ByteAt
  <2>2. posIn + 2 \in 1..Len(strIn) /\ CodeAt(strIn, posIn + 2)
    <3>1. posIn + 1 \in 1..Len(strIn) /\ posIn + 2 \in 1..Len(strIn)
      BY <1>1, <1>6
    <3>2. CodeAt(strIn, (posIn + 1) + 1)
      BY <1>1, <1>6, <3>1, PastCode
    <3> QED
      BY <1>1, <3>1, <3>2
  <2>3. left = 3
    BY <1>1, <1>2, <1>6, <2>2
  <2>4. TailBlock = <<"code", "escape">>
    BY <1>1, <2>1, <2>3, PairFacts DEF TailBlock
  <2>5. Append(Codes(1), "escape") = <<"code", "escape">>
    <3>1. Codes(1) = <<"code">>
      BY DEF Codes
    <3> QED
      BY <3>1, PairFacts
  <2>6. \A i \in 0..1 - 1 : strIn[posIn + i + 1] # Esc
    BY <1>1, <1>6
  <2>7. posIn + 1 + 2 <= Len(strIn) /\ strIn[posIn + 1 + 1] = Esc
    BY <1>1, <1>6, <2>3
  <2>8. posIn + 1 <= Len(strIn)
    BY <1>1, <2>3
  <2>9. Planned(strIn, Append(Codes(1), "escape"), posIn)
    BY <1>1, <2>6, <2>7, <2>8, CodesPlanned
  <2>10. Len(<<"code", "escape">>) <= 3
    OBVIOUS
  <2> QED
    BY <2>4, <2>5, <2>9, <2>10
<1>7. CASE left \in {2, 3} /\ strIn[posIn + 1] # Esc /\ strIn[posIn + 2] # Esc
  <2>1. ByteAt(posIn) # Esc /\ ByteAt(posIn + 1) # Esc
    BY <1>1, <1>7 DEF ByteAt
  <2>2. CASE left = 2
    <3>1. TailBlock = <<"code", "code">>
      BY <1>1, <2>1, <2>2, PairFacts DEF TailBlock
    <3>2. Codes(2) = <<"code", "code">>
      BY DEF Codes
    <3>3. \A i \in 0..2 - 1 : strIn[posIn + i + 1] # Esc
      BY <1>1, <1>7
    <3>4. posIn + 2 <= Len(strIn)
      BY <1>1, <2>2
    <3>5. Planned(strIn, Codes(2), posIn) /\ Len(Codes(2)) = 2
      BY <1>1, <3>3, <3>4, CodesPlanned
    <3> QED
      BY <3>1, <3>2, <3>5
  <2>3. CASE left = 3
    <3>1. TailBlock = <<"code", "code", "code">>
      BY <1>1, <2>1, <2>3, PairFacts DEF TailBlock
    <3>2. Codes(3) = <<"code", "code", "code">>
      BY DEF Codes
    <3>3. strIn[posIn + 3] # Esc
      <4>1. CodeAt(strIn, (posIn + 2) + 1)
        BY <1>1, <1>7, <2>3, PastCode
      <4>2. CodeAt(strIn, posIn + 3) /\ posIn + 3 \in 1..Len(strIn) /\ posIn + 3 = Len(strIn)
        BY <1>1, <2>3, <4>1
      <4> QED
        BY <1>2, <4>2
    <3>4. \A i \in 0..3 - 1 : strIn[posIn + i + 1] # Esc
      BY <1>1, <1>7, <3>3
    <3>5. posIn + 3 <= Len(strIn)
      BY <1>1, <2>3
    <3>6. Planned(strIn, Codes(3), posIn) /\ Len(Codes(3)) = 3
      BY <1>1, <3>4, <3>5, CodesPlanned
    <3> QED
      BY <3>1, <3>2, <3>6
  <2> QED
    BY <1>7, <2>2, <2>3
<1> QED
  BY <1>1, <1>3, <1>4, <1>5, <1>6, <1>7

\* The room of the parts that are left, after one that took l bytes.
LEMMA RoomSpent ==
  ASSUME NEW n \in Nat \ {0}, NEW w \in Nat \ {0}, NEW p \in Nat, NEW s \in Nat,
         p + n * w <= s, NEW l \in 1..w
  PROVE  p + w <= s /\ p + l + (n - 1) * w <= s
<1>1. (n - 1) * w = n * w - w /\ (n - 1) * w \in Nat
  OBVIOUS
<1>2. n * w \in Nat
  OBVIOUS
<1> QED
  BY <1>1, <1>2

LEMMA GreaterBounded ==
  ASSUME NEW a \in Nat, NEW b \in Nat, NEW s \in Nat, a <= s, b <= s
  PROVE  Max({a, b}) \in Nat /\ Max({a, b}) <= s
BY GreaterOfTwo

LEMMA StateFacts ==
  ASSUME DecoderInv
  PROVE  /\ strIn \in Inputs /\ strIn \in Seq(Byte) /\ Len(strIn) \in Nat
         /\ size \in Nat /\ Word \in Nat \ {0} /\ high <= size /\ read <= Len(strIn)
         /\ posIn \in 0..Len(strIn) /\ posOut \in Nat /\ high \in Nat /\ read \in Nat
         /\ posIn < Len(strIn) /\ ByteAt(posIn) # Esc => Len(Symbol) \in 1..Word
<1>1. strIn \in Inputs /\ size \in Sizes
  BY DEF DecoderInv
<1>2. strIn \in Seq(Byte) /\ Len(strIn) \in Nat
      /\ \A i \in 1..Len(strIn) : strIn[i] # Esc => Len(Symbols[strIn[i] + 1]) \in 1..Word
  BY <1>1, InputFacts
<1>3. size \in Nat /\ Word \in Nat \ {0}
  BY <1>1, DecoderAssumption
<1>4. /\ posIn \in 0..Len(strIn) /\ posOut \in Nat /\ high \in Nat /\ read \in Nat
      /\ high <= size /\ read <= Len(strIn)
  BY DEF DecoderInv, InBounds
<1>5. posIn < Len(strIn) /\ ByteAt(posIn) # Esc => Len(Symbol) \in 1..Word
  <2>1. posIn < Len(strIn) => posIn + 1 \in 1..Len(strIn)
    BY <1>2, <1>4
  <2> QED
    BY <1>2, <2>1 DEF ByteAt, Symbol
<1> QED
  BY <1>1, <1>2, <1>3, <1>4, <1>5

LEMMA StoreCodeStep ==
  ASSUME DecoderInv, StoreCode
  PROVE  DecoderInv'
<1>1. todo # << >> /\ Head(todo) = "code" /\ Planned(strIn, todo, posIn) /\ todo \in Seq({"code", "escape"})
  BY DEF StoreCode, DecoderInv, Planned
<1>2. /\ posIn + 1 <= Len(strIn) /\ strIn[posIn + 1] # Esc
      /\ Planned(strIn, Tail(todo), posIn + 1)
      /\ Len(Tail(todo)) = Len(todo) - 1 /\ Len(todo) \in Nat \ {0}
  BY <1>1, StateFacts, RestPlanned, EmptySeq
<1>3. Len(Symbol) \in 1..Word
  BY <1>2, StateFacts DEF ByteAt
<1>4. posOut + Word <= size /\ posOut + Len(Symbol) + (Len(todo) - 1) * Word <= size
  <2>1. posOut + Len(todo) * Word <= size
    BY <1>1 DEF DecoderInv
  <2> QED
    BY <1>2, <1>3, <2>1, StateFacts, RoomSpent
<1>5. /\ posIn' = posIn + 1 /\ posOut' = posOut + Len(Symbol) /\ todo' = Tail(todo)
      /\ high' = Max({high, posOut + Word}) /\ read' = Max({read, posIn + 1})
      /\ strIn' = strIn /\ size' = size /\ at' = at
  BY DEF StoreCode, inputs
<1>6. high' \in Nat /\ high' <= size
  <2>1. posOut + Word \in Nat
    BY StateFacts
  <2> QED
    BY <1>4, <1>5, <2>1, StateFacts, GreaterBounded
<1>7. read' \in Nat /\ read' <= Len(strIn)
  <2>1. posIn + 1 \in Nat
    BY StateFacts
  <2> QED
    BY <1>2, <1>5, <2>1, StateFacts, GreaterBounded
<1>8. CodeAt(strIn, posIn' + 1)
  <2>1. posIn + 1 \in 1..Len(strIn)
    BY <1>2, StateFacts
  <2> QED
    BY <1>2, <1>5, <2>1, StateFacts, PastCode
<1>9. posIn' \in 0..Len(strIn) /\ posOut' \in Nat
  BY <1>2, <1>3, <1>5, StateFacts
<1>10. posOut' + Len(todo') * Word <= size
  BY <1>2, <1>4, <1>5
<1>11. Planned(strIn', todo', posIn')
  BY <1>2, <1>5
<1> QED
  BY <1>5, <1>6, <1>7, <1>8, <1>9, <1>10, <1>11 DEF DecoderInv, InBounds

LEMMA StoreEscapedStep ==
  ASSUME DecoderInv, StoreEscaped
  PROVE  DecoderInv'
<1>1. todo # << >> /\ Head(todo) = "escape" /\ Planned(strIn, todo, posIn) /\ todo \in Seq({"code", "escape"})
  BY DEF StoreEscaped, DecoderInv, Planned
<1>2. /\ posIn + 2 <= Len(strIn) /\ strIn[posIn + 1] = Esc
      /\ Planned(strIn, Tail(todo), posIn + 2)
      /\ Len(Tail(todo)) = Len(todo) - 1 /\ Len(todo) \in Nat \ {0}
  BY <1>1, StateFacts, RestPlanned, EmptySeq
<1>3. posOut + Word <= size /\ posOut + 1 + (Len(todo) - 1) * Word <= size
  <2>1. posOut + Len(todo) * Word <= size /\ 1 \in 1..Word
    BY <1>1, StateFacts DEF DecoderInv
  <2> QED
    BY <1>2, <2>1, StateFacts, RoomSpent
<1>4. /\ posIn' = posIn + 2 /\ posOut' = posOut + 1 /\ todo' = Tail(todo)
      /\ high' = Max({high, posOut + 1}) /\ read' = Max({read, posIn + 2})
      /\ strIn' = strIn /\ size' = size /\ at' = at
  BY DEF StoreEscaped, inputs
<1>5. high' \in Nat /\ high' <= size
  <2>1. posOut + 1 \in Nat /\ posOut + 1 <= size
    BY <1>3, StateFacts
  <2> QED
    BY <1>4, <2>1, StateFacts, GreaterBounded
<1>6. read' \in Nat /\ read' <= Len(strIn)
  <2>1. posIn + 2 \in Nat
    BY StateFacts
  <2> QED
    BY <1>2, <1>4, <2>1, StateFacts, GreaterBounded
<1>7. CodeAt(strIn, posIn' + 1)
  <2>1. posIn + 1 \in 1..Len(strIn) /\ posIn + 1 + 1 <= Len(strIn) /\ CodeAt(strIn, posIn + 1)
    BY <1>2, StateFacts DEF DecoderInv
  <2>2. CodeAt(strIn, posIn + 1 + 2)
    BY <1>2, <2>1, StateFacts, AfterEscape
  <2>3. posIn + 1 + 2 = posIn' + 1
    BY <1>4, StateFacts
  <2> QED
    BY <2>2, <2>3
<1>8. posIn' \in 0..Len(strIn) /\ posOut' \in Nat
  BY <1>2, <1>4, StateFacts, SMTT(30)
<1>9. posOut' + Len(todo') * Word <= size
  BY <1>2, <1>3, <1>4
<1>10. Planned(strIn', todo', posIn')
  BY <1>2, <1>4
<1> QED
  BY <1>4, <1>5, <1>6, <1>7, <1>8, <1>9, <1>10 DEF DecoderInv, InBounds

LEMMA FastBlockStep ==
  ASSUME DecoderInv, FastBlock
  PROVE  DecoderInv'
<1>1. /\ todo' = Block /\ read' = Max({read, posIn + 4}) /\ posIn' = posIn /\ posOut' = posOut
      /\ high' = high /\ strIn' = strIn /\ size' = size /\ at' = at
      /\ posIn + 4 <= Len(strIn) /\ posOut + 4 * Word <= size /\ at = "fast"
  BY DEF FastBlock, RoomForWords, inputs
<1>2. Planned(strIn, Block, posIn) /\ Len(Block) <= 4 /\ Len(Block) \in Nat
  BY <1>1, BlockPlanned DEF Planned
<1>3. posOut + Len(Block) * Word <= size
  <2>1. Len(Block) * Word <= 4 * Word /\ Len(Block) * Word \in Nat
    BY <1>2, StateFacts
  <2> QED
    BY <1>1, <2>1, StateFacts
<1>4. read' \in Nat /\ read' <= Len(strIn)
  <2>1. posIn + 4 \in Nat
    BY StateFacts
  <2> QED
    BY <1>1, <2>1, StateFacts, GreaterBounded
<1> QED
  BY <1>1, <1>2, <1>3, <1>4 DEF DecoderInv, InBounds

LEMMA EndFastStep ==
  ASSUME DecoderInv, EndFast
  PROVE  DecoderInv'
<1>1. /\ read' = read /\ posIn' = posIn /\ posOut' = posOut
      /\ high' = high /\ strIn' = strIn /\ size' = size
  BY DEF EndFast, inputs
<1>2. CASE RoomForWords
  <2>1. todo' = TailBlock /\ at' = "tail" /\ ~(posIn + 4 <= Len(strIn))
    BY <1>2 DEF EndFast
  <2>2. Planned(strIn, TailBlock, posIn) /\ Len(TailBlock) <= 3 /\ Len(TailBlock) \in Nat
    BY <2>1, TailPlanned DEF Planned
  <2>3. posOut + Len(TailBlock) * Word <= size
    <3>1. Len(TailBlock) * Word <= 3 * Word /\ Len(TailBlock) * Word \in Nat
      BY <2>2, StateFacts
    <3> QED
      BY <1>2, <3>1, StateFacts, SMTT(30) DEF RoomForWords
  <2> QED
    BY <1>1, <2>1, <2>2, <2>3 DEF DecoderInv, InBounds
<1>3. CASE ~RoomForWords
  <2>1. todo' = todo /\ todo = << >> /\ at' = "slow"
    BY <1>3 DEF EndFast
  <2> QED
    BY <1>1, <2>1 DEF DecoderInv, InBounds
<1> QED
  BY <1>2, <1>3

LEMMA SlowStep ==
  ASSUME DecoderInv, Slow
  PROVE  DecoderInv'
<1>1. posIn < Len(strIn) /\ strIn' = strIn /\ size' = size /\ at' = at /\ todo' = todo
  BY DEF Slow, inputs
<1>2. posIn + 1 \in 1..Len(strIn) /\ CodeAt(strIn, posIn + 1)
  BY <1>1, StateFacts DEF DecoderInv
<1>3. ASSUME NEW text, NEW n \in 1..2, Len(text) \in Nat, Copy(text, n),
             posIn + n <= Len(strIn), CodeAt(strIn, posIn + n + 1), todo = << >>
      PROVE  DecoderInv'
  <2>1. /\ posIn' = posIn + n /\ posOut' = posOut + Len(text)
        /\ high' = Max({high, Min({posOut + Len(text), size})})
        /\ read' = Max({read, posIn + n})
    BY <1>3 DEF Copy, Advance
  <2>2. high' \in Nat /\ high' <= size
    <3>1. Min({posOut + Len(text), size}) \in Nat /\ Min({posOut + Len(text), size}) <= size
      BY <1>3, StateFacts, LesserOfTwo, SMTT(30)
    <3> QED
      BY <2>1, <3>1, StateFacts, GreaterBounded
  <2>3. read' \in Nat /\ read' <= Len(strIn)
    <3>1. posIn + n \in Nat
      BY <1>3, StateFacts
    <3> QED
      BY <1>3, <2>1, <3>1, StateFacts, GreaterBounded
  <2>4. posIn' \in 0..Len(strIn) /\ posOut' \in Nat
    BY <1>3, <2>1, StateFacts, SMTT(30)
  <2>5. Planned(strIn', todo', posIn')
    BY <1>1, <1>3 DEF Planned
  <2>6. CodeAt(strIn', posIn' + 1)
    BY <1>1, <1>3, <2>1
  <2> QED
    BY <1>1, <1>3, <2>2, <2>3, <2>4, <2>5, <2>6 DEF DecoderInv, InBounds
<1>4. todo = << >>
  BY DEF Slow, DecoderInv
<1>5. CASE ByteAt(posIn) = Esc
  <2>1. strIn[posIn + 1] = Esc /\ Copy(<<ByteAt(posIn + 1)>>, 2)
    BY <1>5 DEF Slow, ByteAt
  <2>2. posIn + 2 <= Len(strIn)
    <3>1. (posIn + 1) + 1 <= Len(strIn)
      BY <1>2, <2>1, StateFacts, EscapeHasByte
    <3> QED
      BY <3>1, StateFacts
  <2>3. CodeAt(strIn, posIn + 2 + 1)
    <3>1. posIn + 1 + 1 <= Len(strIn) /\ posIn + 1 + 2 = posIn + 2 + 1
      BY <2>2, StateFacts
    <3>2. CodeAt(strIn, posIn + 1 + 2)
      BY <1>2, <2>1, <3>1, StateFacts, AfterEscape
    <3> QED
      BY <3>1, <3>2
  <2>4. Len(<<ByteAt(posIn + 1)>>) \in Nat /\ 2 \in 1..2
    OBVIOUS
  <2> QED
    BY <1>3, <1>4, <2>1, <2>2, <2>3, <2>4
<1>6. CASE ByteAt(posIn) # Esc
  <2>1. strIn[posIn + 1] # Esc /\ Copy(Symbol, 1)
    BY <1>6 DEF Slow, ByteAt
  <2>2. Len(Symbol) \in Nat /\ 1 \in 1..2
    BY <1>1, <1>6, StateFacts
  <2>3. posIn + 1 <= Len(strIn) /\ CodeAt(strIn, posIn + 1 + 1)
    BY <1>2, <2>1, StateFacts, PastCode
  <2> QED
    BY <1>3, <1>4, <2>1, <2>2, <2>3
<1> QED
  BY <1>5, <1>6

LEMMA DecoderStep == DecoderInv /\ [DNext]_dvars => DecoderInv'
<1> SUFFICES ASSUME DecoderInv, [DNext]_dvars PROVE DecoderInv'
  OBVIOUS
<1>1. CASE EndTail
  BY <1>1 DEF EndTail, DecoderInv, InBounds, inputs
<1>2. CASE Return
  BY <1>2 DEF Return, DecoderInv, InBounds, inputs
<1>3. CASE UNCHANGED dvars
  BY <1>3 DEF dvars, DecoderInv, InBounds, inputs
<1> QED
  BY <1>1, <1>2, <1>3, FastBlockStep, EndFastStep, StoreCodeStep, StoreEscapedStep, SlowStep
  DEF DNext

\* For every dictionary, every well-formed input and every size: no store of a
\* whole word goes beyond the output buffer, and no code or escaped byte is
\* read beyond the input.
THEOREM DecoderStaysInside == DSpec => []InBounds
<1>1. DecoderInv => InBounds
  BY DEF DecoderInv
<1> QED
  BY <1>1, DecoderInitial, DecoderStep, PTL DEF DSpec

-----------------------------------------------------------------------------
(* The 12-bit map                                                          *)

\* what is added to a map
Strings12 == UNION {[1..n -> Byte12] : n \in 2..Word}

\* They have two bytes at least.
LEMMA Strings12Facts ==
  \A s \in Strings12 : /\ s \in Seq(Byte12) /\ Len(s) \in 2..Word
                       /\ s[1] \in Byte12 /\ s[2] \in Byte12 /\ \A i \in 1..Len(s) : s[i] \in Byte12
<1> SUFFICES ASSUME NEW s \in Strings12
             PROVE  /\ s \in Seq(Byte12) /\ Len(s) \in 2..Word
                    /\ s[1] \in Byte12 /\ s[2] \in Byte12 /\ \A i \in 1..Len(s) : s[i] \in Byte12
  OBVIOUS
<1>1. PICK n \in 2..Word : s \in [1..n -> Byte12]
  BY DEF Strings12
<1>2. n \in Nat /\ n >= 2
  BY DecoderAssumption
<1>3. s \in Seq(Byte12) /\ Len(s) = n
  BY <1>1, <1>2
<1>4. 1 \in 1..n /\ 2 \in 1..n
  BY <1>2
<1> QED BY <1>1, <1>3, <1>4

\* A code stands for a string of the list.
Names(symbols, str, code) ==
  \E i \in 1..Len(symbols) : symbols[i] = str /\ code = 255 + i

\* A code still stands for its string in a longer list; the next one is that
\* of the string that is appended.
LEMMA NamesAppended ==
  ASSUME NEW E, NEW t \in Seq(E), NEW x \in E
  PROVE  /\ Append(t, x) \in Seq(E)
         /\ \A str, code : Names(t, str, code) => Names(Append(t, x), str, code)
         /\ Names(Append(t, x), x, 256 + Len(t))
<1> DEFINE u == Append(t, x)
<1>1. u \in Seq(E) /\ Len(u) = Len(t) + 1 /\ u[Len(t) + 1] = x /\ \A i \in 1..Len(t) : u[i] = t[i]
  BY AppendProperties
<1>2. PICK n \in Nat : n = Len(t)
  OBVIOUS
<1> HIDE DEF u
<1>3. n + 1 \in 1..n + 1 /\ 256 + n = 255 + (n + 1) /\ \A i \in 1..n : i \in 1..n + 1
  OBVIOUS
<1>4. Names(u, x, 256 + n)
  BY <1>1, <1>2, <1>3 DEF Names
<1>5. ASSUME NEW str, NEW code, Names(t, str, code) PROVE Names(u, str, code)
  <2>1. PICK i \in 1..n : t[i] = str /\ code = 255 + i
    BY <1>2, <1>5 DEF Names
  <2> QED BY <1>1, <1>2, <1>3, <2>1 DEF Names
<1> QED BY <1>1, <1>2, <1>4, <1>5 DEF u

\* The indexes lead to strings of the list, by their codes.
PairsInv(sm) ==
  \A b, c \in Byte12 : \/ sm.shortCodes[<<b, c>>] = b
                       \/ Names(sm.symbols, <<b, c>>, sm.shortCodes[<<b, c>>])

HashInv(sm) ==
  \A k \in DOMAIN sm.hashTab : \/ sm.hashTab[k] = M12!Free
                              \/ Names(sm.symbols, sm.hashTab[k].str, sm.hashTab[k].code)

\* The histogram counts the bytes and the strings of the list.
HistoInv(sm) ==
  /\ sm.lenHisto \in [1..Word -> Nat]
  /\ SumFunctionOnSet(sm.lenHisto, 1..Word) = 256 + Len(sm.symbols)

MapInv(sm) ==
  /\ sm.symbols \in Seq(Strings12)
  /\ DOMAIN sm.shortCodes = Byte12 \X Byte12
  /\ DOMAIN sm.hashTab = {Bucket12[w] : w \in [1..4 -> Byte12]}
  /\ DOMAIN sm = {"symbols", "shortCodes", "hashTab", "lenHisto"}
  /\ PairsInv(sm)
  /\ HashInv(sm)
  /\ HistoInv(sm)

\* The numbers of a histogram have a sum.
LEMMA WordIndexes ==
  /\ IsFiniteSet(1..Word) /\ 1 \in 1..Word
  /\ \A f, S : S \subseteq 1..Word /\ (\A l \in S : f[l] = 0) => SumFunctionOnSet(f, S) = 0
<1>1. Word \in Nat /\ 1 \in 1..Word /\ 1 \in Int /\ Word \in Int
  BY DecoderAssumption
<1>2. IsFiniteSet(1..Word)
  BY <1>1, FS_Interval
<1>3. ASSUME NEW f, NEW S, S \subseteq 1..Word, \A l \in S : f[l] = 0
      PROVE  SumFunctionOnSet(f, S) = 0
  <2>1. IsFiniteSet(S)
    BY <1>2, <1>3, FS_Subset
  <2> DEFINE P == {T \in SUBSET S : SumFunctionOnSet(f, T) = 0}
  <2>2. {} \in P
    BY SumEmpty
  <2>3. ASSUME NEW T \in SUBSET S, NEW x \in S \ T, T \in P PROVE T \cup {x} \in P
    <3>a. IsFiniteSet(T)
      BY <2>1, FS_Subset
    <3>1. IsFiniteSet(T) /\ \A y \in T : f[y] \in Int
      <4>1. \A y \in T : y \in S
        OBVIOUS
      <4>2. \A y \in T : f[y] = 0
        BY <1>3, <4>1
      <4> QED BY <3>a, <4>2
    <3>2. x \notin T /\ f[x] \in Int /\ f[x] = 0
      BY <1>3
    <3>3. SumFunctionOnSet(f, T \cup {x}) = f[x] + SumFunctionOnSet(f, T)
      BY <3>1, <3>2, SumAdd
    <3>4. SumFunctionOnSet(f, T) = 0
      BY <2>3
    <3> QED BY <3>2, <3>3, <3>4
  <2>4. S \in P
    <3> HIDE DEF P
    <3> QED BY <2>1, <2>2, <2>3, FiniteInduction
  <2> QED BY <2>4
<1> QED BY <1>1, <1>2, <1>3

\* One more of a length.
LEMMA HistoAppended ==
  ASSUME NEW D, IsFiniteSet(D), NEW h \in [D -> Nat], NEW l \in D
  PROVE  /\ [h EXCEPT ![l] = @ + 1] \in [D -> Nat]
         /\ SumFunctionOnSet([h EXCEPT ![l] = @ + 1], D) = SumFunctionOnSet(h, D) + 1
<1> DEFINE e == [h EXCEPT ![l] = @ + 1]
           R == D \ {l}
<1>1. e \in [D -> Nat] /\ e[l] = h[l] + 1 /\ \A k \in R : e[k] = h[k]
  OBVIOUS
<1>2. /\ \A k \in D : h[k] \in Int /\ e[k] \in Int
      /\ \A k \in R : h[k] \in Int
  OBVIOUS
<1> HIDE DEF e
<1>3. IsFiniteSet(D)
  OBVIOUS
<1>4. /\ SumFunctionOnSet(e, D) = e[l] + SumFunctionOnSet(e, R)
      /\ SumFunctionOnSet(h, D) = h[l] + SumFunctionOnSet(h, R)
  <2>1. \A k \in D : e[k] \in Int
    BY <1>2
  <2>2. \A k \in D : h[k] \in Int
    BY <1>2
  <2>3. SumFunctionOnSet(e, D) = e[l] + SumFunctionOnSet(e, D \ {l})
    <3> HIDE DEF R
    <3> QED BY <1>3, <2>1, SumRemove
  <2>4. SumFunctionOnSet(h, D) = h[l] + SumFunctionOnSet(h, D \ {l})
    <3> HIDE DEF R
    <3> QED BY <1>3, <2>2, SumRemove
  <2> QED BY <2>3, <2>4
<1>5. IsFiniteSet(R)
  BY <1>3, FS_Subset
<1> HIDE DEF R
<1>6. SumFunctionOnSet(e, R) = SumFunctionOnSet(h, R)
  BY <1>1, <1>5, SumSame
<1>7. SumFunctionOnSet(h, R) \in Int /\ h[l] \in Int
  BY <1>2, <1>5, SumType
<1> QED BY <1>1, <1>4, <1>6, <1>7 DEF e

\* In a cleared map they lead to the bytes.
LEMMA ClearedMap == MapInv(M12!Cleared)
<1> DEFINE sm == M12!Cleared
<1>1. /\ sm.symbols = << >> /\ sm.shortCodes = [p \in Byte12 \X Byte12 |-> p[1]]
      /\ sm.hashTab = [k \in {Bucket12[w] : w \in [1..4 -> Byte12]} |-> M12!Free]
      /\ DOMAIN sm = {"symbols", "shortCodes", "hashTab", "lenHisto"}
  BY DEF M12!Cleared, M12!Free
<1>h. sm.lenHisto = [l \in 1..Word |-> IF l = 1 THEN 256 ELSE 0]
  BY DEF M12!Cleared, M12!FirstCode
<1> HIDE DEF sm
<1>2. PairsInv(sm) /\ HashInv(sm)
  BY <1>1 DEF PairsInv, HashInv
<1>3. << >> \in Seq(Strings12)
  OBVIOUS
<1>4. HistoInv(sm)
  <2> DEFINE h == sm.lenHisto
             R == (1..Word) \ {1}
  <2>1. h \in [1..Word -> Nat]
    BY <1>h
  <2>2. IsFiniteSet(1..Word) /\ 1 \in 1..Word
    BY WordIndexes
  <2>3. h[1] = 256 /\ \A l \in R : h[l] = 0
    <3>1. \A l \in 1..Word : h[l] = IF l = 1 THEN 256 ELSE 0
      BY <1>h
    <3>2. \A l \in R : l \in 1..Word /\ l # 1
      OBVIOUS
    <3> HIDE DEF h, R
    <3>3. h[1] = 256
      BY <2>2, <3>1
    <3>4. ASSUME NEW l \in R PROVE h[l] = 0
      <4>1. h[l] = IF l = 1 THEN 256 ELSE 0
        BY <3>1, <3>2
      <4> QED BY <3>2, <4>1
    <3> QED BY <3>3, <3>4
  <2> HIDE DEF h
  <2> DEFINE D == 1..Word
  <2>5. SumFunctionOnSet(h, D) = h[1] + SumFunctionOnSet(h, D \ {1})
    <3>1. h \in [D -> Nat] /\ IsFiniteSet(D) /\ 1 \in D
      BY <2>1, <2>2
    <3> HIDE DEF D
    <3>2. \A l \in D : h[l] \in Int
      BY <3>1
    <3> QED BY <3>1, <3>2, SumRemove
  <2>6. SumFunctionOnSet(h, R) = 0
    <3>1. R \subseteq 1..Word
      OBVIOUS
    <3> HIDE DEF R
    <3>2. \A l \in R : h[l] = 0
      BY <2>3
    <3>3. \A f, S : S \subseteq 1..Word /\ (\A l \in S : f[l] = 0) => SumFunctionOnSet(f, S) = 0
      BY WordIndexes
    <3> QED BY <3>1, <3>2, <3>3
  <2>7. Len(sm.symbols) = 0
    BY <1>1
  <2> QED BY <2>1, <2>3, <2>5, <2>6, <2>7 DEF HistoInv, h
<1> QED BY <1>1, <1>2, <1>3, <1>4 DEF MapInv, sm

\* Listing a string keeps it.
LEMMA ListedMap ==
  ASSUME NEW sm, MapInv(sm), NEW s \in Strings12
  PROVE  /\ MapInv(M12!Listed(sm, s))
         /\ Len(M12!Listed(sm, s).symbols) = Len(sm.symbols) + 1
<1> DEFINE l == M12!Listed(sm, s)
<1>0. s \in Seq(Byte12) /\ Len(s) \in 2..Word /\ s[1] \in Byte12 /\ s[2] \in Byte12
  BY Strings12Facts
<1>1. /\ sm.symbols \in Seq(Strings12)
      /\ DOMAIN sm.shortCodes = Byte12 \X Byte12
      /\ DOMAIN sm.hashTab = {Bucket12[x] : x \in [1..4 -> Byte12]}
      /\ DOMAIN sm = {"symbols", "shortCodes", "hashTab", "lenHisto"}
  BY DEF MapInv
<1>2. PairsInv(sm) /\ HashInv(sm)
  BY DEF MapInv
<1>3. /\ l.symbols = Append(sm.symbols, s) /\ l.shortCodes = sm.shortCodes /\ l.hashTab = sm.hashTab
      /\ DOMAIN l = DOMAIN sm
  BY <1>1 DEF M12!Listed
<1>h. HistoInv(l)
  <2>1. l.lenHisto = [sm.lenHisto EXCEPT ![Len(s)] = @ + 1]
    BY <1>1 DEF M12!Listed
  <2>2. Len(s) \in 1..Word
    BY <1>0, DecoderAssumption
  <2>3. sm.lenHisto \in [1..Word -> Nat] /\ SumFunctionOnSet(sm.lenHisto, 1..Word) = 256 + Len(sm.symbols)
    BY DEF MapInv, HistoInv
  <2>4. Len(l.symbols) = Len(sm.symbols) + 1 /\ Len(sm.symbols) \in Nat
    BY <1>1, <1>3, AppendProperties
  <2> HIDE DEF l
  <2>5. /\ l.lenHisto \in [1..Word -> Nat]
        /\ SumFunctionOnSet(l.lenHisto, 1..Word) = SumFunctionOnSet(sm.lenHisto, 1..Word) + 1
    <3>1. PICK D : D = 1..Word /\ IsFiniteSet(D)
      BY WordIndexes
    <3>2. PICK h \in [D -> Nat] : h = sm.lenHisto
      BY <2>3, <3>1
    <3>3. PICK n \in D : n = Len(s)
      BY <2>2, <3>1
    <3>4. /\ [h EXCEPT ![n] = @ + 1] \in [D -> Nat]
          /\ SumFunctionOnSet([h EXCEPT ![n] = @ + 1], D) = SumFunctionOnSet(h, D) + 1
      BY <3>1, HistoAppended
    <3> QED BY <2>1, <3>1, <3>2, <3>3, <3>4
  <2> QED BY <2>3, <2>4, <2>5 DEF HistoInv
<1>4. /\ l.symbols \in Seq(Strings12)
      /\ \A str, c : Names(sm.symbols, str, c) => Names(l.symbols, str, c)
  BY <1>1, <1>3, NamesAppended
<1>n. PICK n \in Nat : n = Len(sm.symbols) /\ Len(l.symbols) = n + 1
  BY <1>1, <1>3, AppendProperties
<1>5. /\ \A b, c \in Byte12 : \/ l.shortCodes[<<b, c>>] = b
                              \/ Names(l.symbols, <<b, c>>, l.shortCodes[<<b, c>>])
      /\ \A k \in DOMAIN l.hashTab : \/ l.hashTab[k] = M12!Free
                                     \/ Names(l.symbols, l.hashTab[k].str, l.hashTab[k].code)
  BY <1>2, <1>3, <1>4 DEF PairsInv, HashInv
<1> HIDE DEF l
<1>6. PairsInv(l) /\ HashInv(l)
  BY <1>5 DEF PairsInv, HashInv
<1>7. MapInv(l)
  BY <1>1, <1>3, <1>4, <1>h, <1>6 DEF MapInv
<1> QED BY <1>n, <1>7 DEF l

\* Adding keeps it, and lists one string more at most.
LEMMA AddedMap ==
  ASSUME NEW sm, MapInv(sm), NEW s \in Strings12
  PROVE  /\ MapInv(M12!Added(sm, s))
         /\ Len(M12!Added(sm, s).symbols) <= Len(sm.symbols) + 1
<1> DEFINE w == M12!Added(sm, s)
           l == M12!Listed(sm, s)
           code == M12!FirstCode + Len(sm.symbols)
<1>0. s \in Seq(Byte12) /\ Len(s) \in 2..Word /\ s[1] \in Byte12 /\ s[2] \in Byte12
  BY Strings12Facts
<1>1. /\ sm.symbols \in Seq(Strings12)
      /\ DOMAIN sm.shortCodes = Byte12 \X Byte12
      /\ DOMAIN sm.hashTab = {Bucket12[x] : x \in [1..4 -> Byte12]}
      /\ DOMAIN sm = {"symbols", "shortCodes", "hashTab", "lenHisto"}
  BY DEF MapInv
<1>2. PairsInv(sm) /\ HashInv(sm)
  BY DEF MapInv
<1>3. /\ l.symbols = Append(sm.symbols, s) /\ l.shortCodes = sm.shortCodes /\ l.hashTab = sm.hashTab
      /\ DOMAIN l = DOMAIN sm
  BY <1>1 DEF M12!Listed
<1>h. HistoInv(l)
  BY ListedMap DEF MapInv
<1>4. /\ l.symbols \in Seq(Strings12)
      /\ \A str, c : Names(sm.symbols, str, c) => Names(l.symbols, str, c)
      /\ Names(l.symbols, s, code)
  BY <1>1, <1>3, NamesAppended DEF M12!FirstCode
<1>n. PICK n \in Nat : n = Len(sm.symbols) /\ Len(l.symbols) = n + 1
  BY <1>1, <1>3, AppendProperties
<1>5. /\ \A b, c \in Byte12 : \/ l.shortCodes[<<b, c>>] = b
                              \/ Names(l.symbols, <<b, c>>, l.shortCodes[<<b, c>>])
      /\ \A k \in DOMAIN l.hashTab : \/ l.hashTab[k] = M12!Free
                                     \/ Names(l.symbols, l.hashTab[k].str, l.hashTab[k].code)
  BY <1>2, <1>3, <1>4 DEF PairsInv, HashInv
<1> HIDE DEF l, code
<1>6. CASE M12!Taken(sm, s)
  BY <1>6, <1>n DEF M12!Added
<1>7. CASE ~M12!Taken(sm, s) /\ Len(s) = 2
  <2>1. w = [l EXCEPT !.shortCodes[s] = code]
    BY <1>7 DEF M12!Added, l, code
  <2>2. s = <<s[1], s[2]>> /\ s \in Byte12 \X Byte12
    BY <1>0, <1>7
  <2>3. /\ w.symbols = l.symbols /\ w.hashTab = l.hashTab /\ DOMAIN w = DOMAIN l
        /\ w.lenHisto = l.lenHisto
        /\ w.shortCodes = [l.shortCodes EXCEPT ![s] = code]
    BY <1>1, <1>3, <2>1
  <2> HIDE DEF w
  <2>4. PairsInv(w)
    <3> SUFFICES ASSUME NEW b \in Byte12, NEW c \in Byte12
                 PROVE  \/ w.shortCodes[<<b, c>>] = b
                        \/ Names(w.symbols, <<b, c>>, w.shortCodes[<<b, c>>])
      BY DEF PairsInv
    <3>1. CASE <<b, c>> = s
      <4>1. w.shortCodes[<<b, c>>] = code
        BY <1>1, <1>3, <2>2, <2>3, <3>1
      <4> QED BY <1>4, <2>3, <3>1, <4>1
    <3>2. CASE <<b, c>> # s
      <4>1. w.shortCodes[<<b, c>>] = l.shortCodes[<<b, c>>]
        BY <1>1, <1>3, <2>3, <3>2
      <4>2. \/ l.shortCodes[<<b, c>>] = b
            \/ Names(l.symbols, <<b, c>>, l.shortCodes[<<b, c>>])
        BY <1>5
      <4> QED BY <2>3, <4>1, <4>2
    <3> QED BY <3>1, <3>2
  <2>5. HashInv(w)
    BY <1>5, <2>3 DEF HashInv
  <2>6. DOMAIN w.shortCodes = DOMAIN l.shortCodes
    BY <2>3
  <2>h. HistoInv(w)
    BY <1>h, <2>3 DEF HistoInv
  <2>7. MapInv(w)
    BY <1>1, <1>3, <1>4, <2>h, <2>3, <2>4, <2>5, <2>6 DEF MapInv
  <2>8. Len(w.symbols) <= Len(sm.symbols) + 1
    BY <1>n, <2>3
  <2> QED BY <2>7, <2>8 DEF w
<1>8. CASE ~M12!Taken(sm, s) /\ Len(s) # 2
  <2> DEFINE k == M12!BucketOf(s)
             new == [str |-> s, code |-> code]
  <2>1. w = [l EXCEPT !.hashTab[k] = new]
    BY <1>8 DEF M12!Added, l, code
  <2>n. new.str = s /\ new.code = code
    OBVIOUS
  <2> HIDE DEF k, new
  <2>2. /\ w.symbols = l.symbols /\ w.shortCodes = l.shortCodes /\ DOMAIN w = DOMAIN l
        /\ w.lenHisto = l.lenHisto
        /\ w.hashTab = [l.hashTab EXCEPT ![k] = new]
    BY <1>1, <1>3, <2>1
  <2> HIDE DEF w
  <2>3. HashInv(w)
    <3> SUFFICES ASSUME NEW j \in DOMAIN w.hashTab
                 PROVE  \/ w.hashTab[j] = M12!Free
                        \/ Names(w.symbols, w.hashTab[j].str, w.hashTab[j].code)
      BY DEF HashInv
    <3>0. j \in DOMAIN l.hashTab
      BY <2>2
    <3>1. CASE j = k
      <4>1. w.hashTab[j] = new
        BY <2>2, <3>0, <3>1
      <4> QED BY <1>4, <2>2, <2>n, <4>1
    <3>2. CASE j # k
      <4>1. w.hashTab[j] = l.hashTab[j]
        BY <2>2, <3>0, <3>2
      <4> QED BY <1>5, <2>2, <3>0, <4>1
    <3> QED BY <3>1, <3>2
  <2>4. DOMAIN w.hashTab = DOMAIN l.hashTab
    BY <2>2
  <2>5. PairsInv(w)
    BY <1>5, <2>2 DEF PairsInv
  <2>h. HistoInv(w)
    BY <1>h, <2>2 DEF HistoInv
  <2>6. MapInv(w)
    BY <1>1, <1>3, <1>4, <2>h, <2>2, <2>3, <2>4, <2>5 DEF MapInv
  <2>7. Len(w.symbols) <= Len(sm.symbols) + 1
    BY <1>n, <2>2
  <2> QED BY <2>6, <2>7 DEF w
<1> QED BY <1>6, <1>7, <1>8

\* So does entering it, by either way of training.
LEMMA EnteredMap ==
  ASSUME NEW sm, MapInv(sm), NEW s \in Strings12, NEW past
  PROVE  /\ MapInv(M12!Entered(sm, s, past))
         /\ Len(M12!Entered(sm, s, past).symbols) <= Len(sm.symbols) + 1
<1> DEFINE w == M12!Entered(sm, s, past)
           l == M12!Listed(sm, s)
           a == M12!Added(sm, s)
<1>1. MapInv(a) /\ Len(a.symbols) <= Len(sm.symbols) + 1
  BY AddedMap
<1>2. MapInv(l) /\ Len(l.symbols) = Len(sm.symbols) + 1
  BY ListedMap
<1>3. Len(sm.symbols) \in Nat
  BY DEF MapInv
<1>4. w = a \/ w = sm \/ w = l
  BY DEF M12!Entered
<1> HIDE DEF w, l, a
<1>5. MapInv(w) /\ Len(w.symbols) <= Len(sm.symbols) + 1
  BY <1>1, <1>2, <1>3, <1>4
<1> QED BY <1>5 DEF w

\* g[S] is the map with the strings d[i], i \in S, entered in their order.
MapFolds(g, d, past, k) ==
  g = [S \in {T \in SUBSET (1..Len(d)) : Cardinality(T) <= k} |->
         IF S = {} THEN M12!Cleared ELSE M12!Entered(g[S \ {Max(S)}], d[Max(S)], past)]

\* One value, unfolded.
LEMMA MapFoldAt ==
  ASSUME NEW d \in Seq(Strings12), NEW past, NEW k, NEW g, MapFolds(g, d, past, k),
         NEW S \in SUBSET (1..Len(d)), Cardinality(S) <= k
  PROVE  g[S] = IF S = {} THEN M12!Cleared ELSE M12!Entered(g[S \ {Max(S)}], d[Max(S)], past)
<1> DEFINE h == [T \in {U \in SUBSET (1..Len(d)) : Cardinality(U) <= k} |->
                   IF T = {} THEN M12!Cleared ELSE M12!Entered(g[T \ {Max(T)}], d[Max(T)], past)]
<1>1. g = h
  BY DEF MapFolds
<1>2. h[S] = IF S = {} THEN M12!Cleared ELSE M12!Entered(g[S \ {Max(S)}], d[Max(S)], past)
  OBVIOUS
<1> HIDE DEF h
<1> QED BY <1>1, <1>2

\* The recursion has a solution.
LEMMA MapFoldExists ==
  ASSUME NEW d \in Seq(Strings12), NEW past
  PROVE  \A k \in Nat : \E g : MapFolds(g, d, past, k)
<1> DEFINE P == {k \in Nat : \E g : MapFolds(g, d, past, k)}
           Low(k) == {T \in SUBSET (1..Len(d)) : Cardinality(T) <= k}
           Op(v, i) == M12!Entered(v, d[i], past)
<1>0. Len(d) \in Nat
  OBVIOUS
<1>1. \A T \in SUBSET (1..Len(d)) : T # {} => /\ T \ {Max(T)} \in SUBSET (1..Len(d))
                                    /\ Cardinality(T) \in Nat \ {0}
                                    /\ Cardinality(T \ {Max(T)}) = Cardinality(T) - 1
  BY <1>0, WithoutGreatest
<1>2. Cardinality({}) = 0
  BY FS_EmptySet
<1>3. 0 \in P
  <2> DEFINE g0 == [T \in Low(0) |-> M12!Cleared]
  <2>1. \A T \in Low(0) : T = {}
    <3> SUFFICES ASSUME NEW T \in SUBSET (1..Len(d)), Cardinality(T) <= 0, T # {} PROVE FALSE
      OBVIOUS
    <3>1. Cardinality(T) \in Nat \ {0}
      BY <1>1
    <3> QED BY <3>1
  <2>2. g0 = [T \in Low(0) |-> IF T = {} THEN M12!Cleared ELSE Op(g0[T \ {Max(T)}], Max(T))]
    <3> HIDE DEF Op
    <3> QED BY <2>1
  <2> HIDE DEF g0
  <2>3. MapFolds(g0, d, past, 0)
    BY <2>2 DEF MapFolds
  <2> QED BY <2>3
<1>4. ASSUME NEW k \in Nat, k \in P PROVE k + 1 \in P
  <2>1. PICK g : MapFolds(g, d, past, k)
    BY <1>4
  <2> DEFINE h == [T \in Low(k + 1) |-> IF T = {} THEN M12!Cleared ELSE Op(g[T \ {Max(T)}], Max(T))]
  <2>2. ASSUME NEW T \in Low(k) PROVE h[T] = g[T]
    <3>1. T \in SUBSET (1..Len(d)) /\ Cardinality(T) <= k /\ T \in Low(k + 1)
      <4> HIDE DEF Op, h
      <4>1. T \in SUBSET (1..Len(d)) /\ Cardinality(T) <= k
        OBVIOUS
      <4>2. T = {} \/ Cardinality(T) \in Nat
        BY <1>1, <4>1
      <4>3. Cardinality({}) \in Nat
        BY <1>2
      <4>4. PICK c \in Nat : c = Cardinality(T)
        BY <4>2, <4>3
      <4>5. Cardinality(T) <= k + 1
        <5>1. c <= k
          BY <4>1, <4>4
        <5>2. c <= k + 1
          BY <5>1
        <5> QED BY <4>4, <5>2
      <4> QED BY <4>1, <4>5
    <3>2. g[T] = IF T = {} THEN M12!Cleared ELSE Op(g[T \ {Max(T)}], Max(T))
      <4>1. MapFolds(g, d, past, k) /\ T \in SUBSET (1..Len(d)) /\ Cardinality(T) <= k
        BY <2>1, <3>1
      <4> HIDE DEF P, Low, h
      <4>2. g[T] = IF T = {} THEN M12!Cleared ELSE M12!Entered(g[T \ {Max(T)}], d[Max(T)], past)
        BY ONLY d \in Seq(Strings12), <4>1, MapFoldAt, ZenonT(30)
      <4> QED BY <4>2
    <3> HIDE DEF Op
    <3> QED BY <3>1, <3>2
  <2>3. ASSUME NEW T \in Low(k + 1), T # {} PROVE T \ {Max(T)} \in Low(k)
    BY <1>1, <2>3
  <2>4. h = [T \in Low(k + 1) |-> IF T = {} THEN M12!Cleared ELSE Op(h[T \ {Max(T)}], Max(T))]
    <3> HIDE DEF h, Low, Op
    <3>1. h = [T \in Low(k + 1) |-> IF T = {} THEN M12!Cleared ELSE Op(g[T \ {Max(T)}], Max(T))]
      BY DEF h
    <3> QED BY <2>2, <2>3, <3>1
  <2> HIDE DEF h
  <2>5. MapFolds(h, d, past, k + 1)
    BY <2>4 DEF MapFolds
  <2> QED BY <2>5
<1>5. Nat \subseteq P
  <2> HIDE DEF P
  <2> QED BY <1>3, <1>4, Induction
<1> QED BY <1>5

\* The map of a dictionary, through the indexes or past them.
LEMMA FoldedMap ==
  ASSUME NEW d \in Seq(Strings12), NEW past
  PROVE  /\ MapInv(Filled(d, past))
         /\ Len(Filled(d, past).symbols) <= Len(d)
<1> DEFINE n == Len(d)
           D == 1..n
           G == CHOOSE g : g = [S \in SUBSET D |-> IF S = {} THEN M12!Cleared
                                                   ELSE M12!Entered(g[S \ {Max(S)}], d[Max(S)], past)]
<1>0. n \in Nat /\ DOMAIN d = D
  OBVIOUS
<1>1. Filled(d, past) = G[D]
  BY <1>0 DEF Filled, FoldLeft, MapThenFoldSet
<1>2. {T \in SUBSET D : Cardinality(T) <= n} = SUBSET D
  <2>1. IsFiniteSet(D) /\ Cardinality(D) = n
    BY <1>0, FS_Interval
  <2>2. \A T \in SUBSET D : Cardinality(T) <= n
    BY <2>1, FS_Subset
  <2> QED BY <2>2
<1>3. \A g : MapFolds(g, d, past, n) <=>
        g = [S \in SUBSET D |-> IF S = {} THEN M12!Cleared ELSE M12!Entered(g[S \ {Max(S)}], d[Max(S)], past)]
  BY <1>2 DEF MapFolds
<1>4. \E g : MapFolds(g, d, past, n)
  BY <1>0, MapFoldExists
<1>5. MapFolds(G, d, past, n)
  BY <1>3, <1>4, ZenonT(30)
<1> HIDE DEF G
<1> DEFINE P == {S \in SUBSET D : MapInv(G[S]) /\ Len(G[S].symbols) <= Cardinality(S)}
<1>6. {} \in P
  <2>1. Cardinality({}) <= n
    BY <1>0, FS_EmptySet
  <2>2. G[{}] = M12!Cleared
    <3> HIDE DEF P
    <3>1. PICK S \in SUBSET (1..Len(d)) : S = {} /\ Cardinality(S) <= n
      BY <2>1
    <3>2. G[S] = IF S = {} THEN M12!Cleared ELSE M12!Entered(G[S \ {Max(S)}], d[Max(S)], past)
      <4>1. Cardinality(S) <= n
        BY <3>1
      <4> QED BY ONLY d \in Seq(Strings12), S \in SUBSET (1..Len(d)), <4>1, <1>5, MapFoldAt, ZenonT(30)
    <3> QED BY <3>1, <3>2
  <2>3. Len(M12!Cleared.symbols) = 0 /\ Cardinality({}) = 0
    BY FS_EmptySet DEF M12!Cleared
  <2> QED BY <2>2, <2>3, ClearedMap
<1>7. ASSUME NEW T \in SUBSET D, T # {}, T \ {Max(T)} \in P PROVE T \in P
  <2>1. Cardinality(T) <= n
    BY <1>2
  <2>2. G[T] = M12!Entered(G[T \ {Max(T)}], d[Max(T)], past)
    <3> HIDE DEF P
    <3>1. G[T] = IF T = {} THEN M12!Cleared ELSE M12!Entered(G[T \ {Max(T)}], d[Max(T)], past)
      BY ONLY d \in Seq(Strings12), T \in SUBSET (1..Len(d)), <1>5, <2>1, MapFoldAt, ZenonT(30)
    <3> QED BY <1>7, <3>1
  <2>3. Max(T) \in D
    BY <1>0, <1>7, WithoutGreatest
  <2>4. d[Max(T)] \in Strings12
    BY <2>3
  <2> DEFINE sm == G[T \ {Max(T)}]
  <2>5. MapInv(sm) /\ Len(sm.symbols) <= Cardinality(T \ {Max(T)})
    BY <1>7
  <2>6. MapInv(M12!Entered(sm, d[Max(T)], past)) /\ Len(M12!Entered(sm, d[Max(T)], past).symbols) <= Len(sm.symbols) + 1
    <3> HIDE DEF sm
    <3> QED BY <2>4, <2>5, EnteredMap
  <2>7. Cardinality(T) \in Nat /\ Cardinality(T \ {Max(T)}) = Cardinality(T) - 1
    BY <1>0, <1>7, WithoutGreatest
  <2>8. Len(sm.symbols) \in Nat /\ Len(M12!Entered(sm, d[Max(T)], past).symbols) \in Nat
    BY <2>5, <2>6 DEF MapInv
  <2>9. Len(M12!Entered(sm, d[Max(T)], past).symbols) <= Cardinality(T)
    <3> HIDE DEF sm
    <3> QED BY <2>5, <2>6, <2>7, <2>8
  <2> QED BY <2>2, <2>6, <2>9
<1>8. SUBSET D \subseteq P
  <2> HIDE DEF P
  <2> QED BY <1>0, <1>6, <1>7, IndexInduction
<1>9. Cardinality(D) = n
  BY <1>0, FS_Interval
<1> QED BY <1>1, <1>8, <1>9

-----------------------------------------------------------------------------
(* Codes that stand for what a text starts with                            *)

\* the string of a code is what the text starts with
Stands(sm, code, text) ==
  /\ code \in 0..255 + Len(sm.symbols)
  /\ M12!Meaning(sm, code) \in Seq(Byte12)
  /\ Len(M12!Meaning(sm, code)) \in 1..Word
  /\ M12!StartsWith(text, M12!Meaning(sm, code))

\* The string of a code beyond the bytes.
LEMMA NamedMeaning ==
  ASSUME NEW sm, MapInv(sm), NEW s, NEW code, Names(sm.symbols, s, code)
  PROVE  code \in 0..255 + Len(sm.symbols) /\ s \in Strings12 /\ M12!Meaning(sm, code) = s
<1>1. PICK i \in 1..Len(sm.symbols) : sm.symbols[i] = s /\ code = 255 + i
  BY DEF Names
<1>2. sm.symbols \in Seq(Strings12)
  BY DEF MapInv
<1>3. i \in Nat /\ i >= 1 /\ sm.symbols[i] \in Strings12
  BY <1>1, <1>2
<1>k. PICK k \in Nat : k = Len(sm.symbols)
  BY <1>2
<1>4. code \in 0..255 + k /\ code \in Nat /\ ~(code < 256) /\ code - 256 + 1 = i
  BY <1>1, <1>3, <1>k
<1>5. M12!Meaning(sm, code) = sm.symbols[code - 256 + 1]
  BY <1>4 DEF M12!Meaning, M12!FirstCode
<1> QED BY <1>1, <1>3, <1>4, <1>5, <1>k

\* Such a code stands for the start of a text when its string does.
LEMMA NamedStands ==
  ASSUME NEW sm, MapInv(sm), NEW s, NEW code, Names(sm.symbols, s, code),
         NEW text, M12!StartsWith(text, s)
  PROVE  Stands(sm, code, text)
<1>1. code \in 0..255 + Len(sm.symbols) /\ s \in Strings12 /\ M12!Meaning(sm, code) = s
  BY NamedMeaning
<1>2. s \in Seq(Byte12) /\ Len(s) \in 2..Word
  BY <1>1, Strings12Facts
<1>3. Len(s) \in 1..Word
  BY <1>2, DecoderAssumption
<1> QED BY <1>1, <1>2, <1>3 DEF Stands

\* The first byte has a code of its own.
LEMMA ByteStands ==
  ASSUME NEW sm, MapInv(sm), NEW text \in Seq(Byte12), Len(text) >= 1
  PROVE  text[1] \in Byte12 /\ Stands(sm, text[1], text)
<1>1. text[1] \in Byte12
  OBVIOUS
<1>2. PICK b \in Byte12 : b = text[1]
  BY <1>1
<1>k. PICK k \in Nat : k = Len(sm.symbols)
  BY DEF MapInv
<1>3. b \in Nat /\ b < 256 /\ b \in 0..255 + k
  <2>1. Byte12 \subseteq 0..255
    BY CodecAssumption12
  <2> QED BY <2>1
<1>4. M12!Meaning(sm, b) = <<b>>
  BY <1>3 DEF M12!Meaning, M12!FirstCode
<1>5. <<b>> \in Seq(Byte12) /\ Len(<<b>>) = 1
  OBVIOUS
<1>6. SubSeq(text, 0 + 1, 0 + 1) = <<text[0 + 1]>>
  BY OneElement
<1>7. M12!StartsWith(text, <<b>>)
  BY <1>2, <1>5, <1>6 DEF M12!StartsWith
<1>8. 1 \in 1..Word
  BY DecoderAssumption
<1> QED BY <1>1, <1>2, <1>3, <1>4, <1>5, <1>7, <1>8, <1>k DEF Stands

\* What findExpansion() returns.
LEMMA FindStands ==
  ASSUME NEW sm, MapInv(sm), NEW text \in Seq(Byte12), Len(text) >= 1
  PROVE  Stands(sm, M12!Find(sm, text), text)
<1> DEFINE k == M12!BucketOf(text)
           e == sm.hashTab[k]
           v == [i \in 1..4 |-> IF i <= Len(text) THEN text[i] ELSE 0]
<1>1. Stands(sm, text[1], text)
  BY ByteStands
<1>2. PICK n \in Nat : n = Len(text)
  OBVIOUS
<1>3. v \in [1..4 -> Byte12]
  <2>1. \A i \in 1..4 : i <= n => text[i] \in Byte12
    BY <1>2
  <2>2. 0 \in Byte12
    BY CodecAssumption12
  <2> QED BY <1>2, <2>1, <2>2
<1>4. k = Bucket12[v]
  BY DEF M12!BucketOf
<1> HIDE DEF v, k
<1>5. k \in DOMAIN sm.hashTab
  BY <1>3, <1>4 DEF MapInv
<1>6. e = M12!Free \/ Names(sm.symbols, e.str, e.code)
  BY <1>5 DEF MapInv, HashInv
<1>7. M12!Find(sm, text) = IF Len(text) = 1 THEN text[1]
                          ELSE IF e # M12!Free /\ M12!StartsWith(text, e.str) THEN e.code
                          ELSE sm.shortCodes[<<text[1], text[2]>>]
  BY DEF M12!Find, k
<1> HIDE DEF e
<1>8. CASE Len(text) = 1
  BY <1>1, <1>7, <1>8
<1>9. CASE Len(text) # 1 /\ e # M12!Free /\ M12!StartsWith(text, e.str)
  <2>1. Stands(sm, e.code, text)
    BY <1>6, <1>9, NamedStands
  <2> QED BY <1>7, <1>9, <2>1
<1>10. CASE Len(text) # 1 /\ ~(e # M12!Free /\ M12!StartsWith(text, e.str))
  <2> DEFINE code == sm.shortCodes[<<text[1], text[2]>>]
             pair == <<text[1], text[2]>>
  <2>1. text[1] \in Byte12 /\ text[2] \in Byte12
    <3>1. 1 \in 1..n /\ 2 \in 1..n /\ \A i \in 1..n : text[i] \in Byte12
      BY <1>2, <1>10
    <3> QED BY <3>1
  <2>2. code = text[1] \/ Names(sm.symbols, pair, code)
    BY <2>1 DEF MapInv, PairsInv
  <2>3. M12!StartsWith(text, pair)
    <3>1. n >= 2
      BY <1>2, <1>10
    <3>2. SubSeq(text, 0 + 1, 0 + 2) \in Seq(Byte12) /\ Len(SubSeq(text, 0 + 1, 0 + 2)) = 2
          /\ \A i \in 1..2 : SubSeq(text, 0 + 1, 0 + 2)[i] = text[0 + i]
      BY <1>2, <3>1, Slice
    <3>3. SubSeq(text, 1, 2) = pair
      <4> DEFINE c == SubSeq(text, 1, 2)
      <4>1. c \in Seq(Byte12) /\ Len(c) = 2 /\ c[1] = text[1] /\ c[2] = text[2]
        BY <3>2
      <4> HIDE DEF c
      <4>2. c = <<c[1], c[2]>>
        BY <4>1
      <4> QED BY <4>1, <4>2 DEF c
    <3>4. Len(pair) = 2
      OBVIOUS
    <3> QED BY <1>2, <3>1, <3>3, <3>4 DEF M12!StartsWith
  <2>4. M12!Find(sm, text) = code
    BY <1>7, <1>10
  <2> HIDE DEF code, pair
  <2>5. CASE code = text[1]
    BY <1>1, <2>4, <2>5
  <2>6. CASE Names(sm.symbols, pair, code)
    BY <2>3, <2>4, <2>6, NamedStands
  <2> QED BY <2>2, <2>5, <2>6
<1> QED BY <1>8, <1>9, <1>10

\* What buildDP() chooses, whatever the costs behind it are.
LEMMA PositionStands ==
  ASSUME NEW sm, MapInv(sm), NEW text \in Seq(Byte12), Len(text) >= 1, NEW after
  PROVE  Stands(sm, M12!Position(sm, text, after).choice, text)
<1> DEFINE costs == [n \in 1..Len(text) |-> IF n = Len(text) THEN 0 ELSE after[n].cost]
           match == M12!CostOf(sm, text, costs)
           byte == 1 + costs[1]
           best == {i \in DOMAIN match :
                      match[i] <= byte /\ \A j \in DOMAIN match : match[i] <= match[j]}
           last == M12!LastShortest(best, sm.symbols)
<1>1. DOMAIN match = M12!Matches(sm, text)
  BY DEF M12!CostOf
<1> HIDE DEF costs, match, byte
<1>2. best \subseteq M12!Matches(sm, text)
  BY <1>1
<1>3. M12!Position(sm, text, after) = IF best = {} THEN [cost |-> byte, choice |-> text[1]]
                                     ELSE [cost |-> match[last], choice |-> M12!FirstCode - 1 + last]
  BY DEF M12!Position, costs, match, byte
<1> HIDE DEF best, last
<1>4. Stands(sm, text[1], text)
  BY ByteStands
<1>5. CASE best = {}
  BY <1>3, <1>4, <1>5
<1>6. CASE best # {}
  <2>1. sm.symbols \in Seq(Strings12)
    BY DEF MapInv
  <2>2. \A i \in best : /\ i \in 1..Len(sm.symbols) /\ sm.symbols[i] \in Strings12
                        /\ M12!StartsWith(text, sm.symbols[i])
    BY <1>2, <2>1 DEF M12!Matches
  <2>3. last \in best
    <3> DEFINE lengths == {Len(sm.symbols[i]) : i \in best}
    <3>1. \A i \in best : Len(sm.symbols[i]) \in 0..Word
      <4> TAKE i \in best
      <4>1. Len(sm.symbols[i]) \in 2..Word
        BY <2>2, Strings12Facts
      <4> QED BY <4>1, DecoderAssumption
    <3>2. lengths \in SUBSET (0..Word) /\ lengths # {}
      BY <1>6, <3>1
    <3>3. Word \in Nat
      BY DecoderAssumption
    <3>4. Max(lengths) \in lengths /\ \A l \in lengths : l <= Max(lengths)
      <4> HIDE DEF lengths
      <4> QED BY <3>2, <3>3, MaxExists
    <3>5. \E i \in best : \A j \in best : Len(sm.symbols[j]) <= Len(sm.symbols[i])
      BY <3>4
    <3> HIDE DEF lengths
    <3> QED BY <3>5 DEF last, M12!LastShortest
  <2>4. last \in 1..Len(sm.symbols) /\ M12!StartsWith(text, sm.symbols[last])
    BY <2>2, <2>3
  <2>5. Names(sm.symbols, sm.symbols[last], 255 + last)
    BY <2>4 DEF Names
  <2>6. M12!Position(sm, text, after).choice = 255 + last
    BY <1>3, <1>6 DEF M12!FirstCode
  <2> QED BY <2>4, <2>5, <2>6, NamedStands
<1> QED BY <1>5, <1>6

\* One code more than what it leaves, and no more than with any other.
Cheapest(sm, text, x, costs) ==
  /\ x.cost \in Nat
  /\ x.cost = 1 + costs[Len(M12!Meaning(sm, x.choice))]
  /\ x.cost <= 1 + costs[1]
  /\ \A i \in M12!Matches(sm, text) : x.cost <= 1 + costs[Len(sm.symbols[i])]

\* The choice is one of the cheapest.
LEMMA PositionCheapest ==
  ASSUME NEW sm, MapInv(sm), NEW text \in Seq(Byte12), Len(text) >= 1, NEW after,
         NEW costs, costs = [n \in 1..Len(text) |-> IF n = Len(text) THEN 0 ELSE after[n].cost],
         \A n \in 1..Len(text) : costs[n] \in Nat
  PROVE  Cheapest(sm, text, M12!Position(sm, text, after), costs)
<1> DEFINE match == M12!CostOf(sm, text, costs)
           byte == 1 + costs[1]
           M == M12!Matches(sm, text)
           best == {i \in DOMAIN match :
                      match[i] <= byte /\ \A j \in DOMAIN match : match[i] <= match[j]}
           last == M12!LastShortest(best, sm.symbols)
           x == M12!Position(sm, text, after)
<1>1. DOMAIN match = M /\ \A i \in M : match[i] = 1 + costs[Len(sm.symbols[i])]
  BY DEF M12!CostOf
<1>2. x = IF best = {} THEN [cost |-> byte, choice |-> text[1]]
          ELSE [cost |-> match[last], choice |-> M12!FirstCode - 1 + last]
  BY DEF M12!Position
<1>3. PICK n \in Nat : n = Len(text) /\ n >= 1
  OBVIOUS
<1>4. ASSUME NEW i \in M
      PROVE  /\ i \in 1..Len(sm.symbols) /\ sm.symbols[i] \in Strings12
             /\ Len(sm.symbols[i]) \in 2..Word /\ Len(sm.symbols[i]) \in 1..n
             /\ M12!Meaning(sm, 255 + i) = sm.symbols[i]
  <2>1. i \in 1..Len(sm.symbols) /\ M12!StartsWith(text, sm.symbols[i])
    BY DEF M12!Matches
  <2>2. sm.symbols \in Seq(Strings12)
    BY DEF MapInv
  <2>3. sm.symbols[i] \in Strings12
    BY <2>1, <2>2
  <2>4. Len(sm.symbols[i]) \in 2..Word
    BY <2>3, Strings12Facts
  <2>5. Len(sm.symbols[i]) <= n
    BY <1>3, <2>1 DEF M12!StartsWith
  <2>6. Len(sm.symbols[i]) \in 1..n
    BY <1>3, <2>4, <2>5, DecoderAssumption
  <2>7. Names(sm.symbols, sm.symbols[i], 255 + i)
    BY <2>1 DEF Names
  <2>8. M12!Meaning(sm, 255 + i) = sm.symbols[i]
    <3> HIDE DEF match, byte, best, last, x
    <3>1. PICK s, code : s = sm.symbols[i] /\ code = 255 + i
      OBVIOUS
    <3>2. Names(sm.symbols, s, code)
      BY <2>7, <3>1
    <3>3. M12!Meaning(sm, code) = s
      BY <3>2, NamedMeaning
    <3> QED BY <3>1, <3>3
  <2> QED BY <2>1, <2>3, <2>4, <2>6, <2>8
<1>5. byte \in Nat /\ costs[1] \in Nat /\ \A i \in M : match[i] \in Nat
  <2>1. \A k \in 1..n : costs[k] \in Nat
    BY <1>3
  <2>2. ASSUME NEW i \in M PROVE match[i] \in Nat
    <3>1. match[i] = 1 + costs[Len(sm.symbols[i])]
      BY <1>1
    <3>2. costs[Len(sm.symbols[i])] \in Nat
      BY <1>4, <2>1
    <3> HIDE DEF match, M
    <3> QED BY <3>1, <3>2
  <2>3. costs[1] \in Nat
    BY <1>3, <2>1
  <2> HIDE DEF match, M
  <2> QED BY <2>2, <2>3
<1> HIDE DEF match, byte, x, M
<1>6. CASE best = {}
  <2>1. x.cost = byte /\ x.choice = text[1]
    BY <1>2, <1>6
  <2>2. M12!Meaning(sm, text[1]) = <<text[1]>>
    <3>1. text[1] \in Byte12
      BY ByteStands
    <3>2. text[1] \in 0..255
      BY <3>1, CodecAssumption12
    <3>3. text[1] < 256
      <4>1. \A b \in 0..255 : b < 256
        OBVIOUS
      <4> QED BY <3>2, <4>1
    <3> QED BY <3>3 DEF M12!Meaning, M12!FirstCode
  <2>3. Len(<<text[1]>>) = 1
    OBVIOUS
  <2>4. ASSUME NEW i \in M PROVE byte <= match[i]
    <3> DEFINE T == {match[j] : j \in M}
    <3>1. PICK j \in M : \A y \in T : match[j] <= y
      <4>1. T \subseteq Nat /\ T # {}
        BY <1>5
      <4> HIDE DEF T
      <4>2. \E y \in T : \A z \in T : y <= z
        BY <4>1, LeastNatural
      <4> QED BY <4>2 DEF T
    <3>2. \A k \in DOMAIN match : match[j] <= match[k]
      BY <1>1, <3>1
    <3>3. ~(match[j] <= byte)
      BY <1>1, <1>6, <3>2
    <3>4. match[j] <= match[i]
      BY <1>1, <3>2
    <3>5. match[j] \in Nat /\ match[i] \in Nat /\ byte \in Nat
      BY <1>5
    <3> QED BY <3>3, <3>4, <3>5
  <2>5. \A i \in M : x.cost <= 1 + costs[Len(sm.symbols[i])]
    BY <1>1, <2>1, <2>4
  <2>6. x.cost = 1 + costs[Len(M12!Meaning(sm, x.choice))]
    BY <2>1, <2>2, <2>3 DEF byte
  <2>7. x.cost <= 1 + costs[1] /\ x.cost \in Nat
    BY <1>5, <2>1 DEF byte
  <2> QED BY <2>5, <2>6, <2>7 DEF Cheapest, x, M
<1>7. CASE best # {}
  <2>1. last \in best
    <3>1. best \subseteq M
      BY <1>1
    <3> HIDE DEF best
    <3> DEFINE lengths == {Len(sm.symbols[i]) : i \in best}
    <3>2. lengths \in SUBSET (0..n) /\ lengths # {}
      <4>1. ASSUME NEW i \in best PROVE Len(sm.symbols[i]) \in 0..n
        <5>1. Len(sm.symbols[i]) \in 1..n
          BY <1>4, <3>1
        <5>2. \A k \in 1..n : k \in 0..n
          OBVIOUS
        <5> QED BY <5>1, <5>2
      <4> QED BY <1>7, <4>1
    <3>3. Max(lengths) \in lengths /\ \A l \in lengths : l <= Max(lengths)
      <4> HIDE DEF lengths
      <4> QED BY <1>3, <3>2, MaxExists
    <3>4. \E i \in best : \A j \in best : Len(sm.symbols[j]) <= Len(sm.symbols[i])
      BY <3>3
    <3> HIDE DEF lengths
    <3> QED BY <3>4 DEF last, M12!LastShortest
  <2> HIDE DEF last
  <2>2. last \in M /\ match[last] <= byte /\ \A j \in M : match[last] <= match[j]
    BY <1>1, <2>1
  <2>3. x.cost = match[last] /\ x.choice = 255 + last
    <3>1. x = [cost |-> match[last], choice |-> M12!FirstCode - 1 + last]
      BY <1>2, <1>7
    <3>2. 256 - 1 + last = 255 + last
      <4>1. last \in 1..Len(sm.symbols)
        BY <1>4, <2>2
      <4>2. PICK k \in Nat : k = Len(sm.symbols)
        BY DEF MapInv
      <4> QED BY <4>1, <4>2
    <3> QED BY <3>1, <3>2 DEF M12!FirstCode
  <2> HIDE DEF best
  <2>4. x.cost = 1 + costs[Len(M12!Meaning(sm, x.choice))]
    BY <1>1, <1>4, <2>2, <2>3
  <2>5. \A i \in M : x.cost <= 1 + costs[Len(sm.symbols[i])]
    BY <1>1, <2>2, <2>3
  <2>6. x.cost \in Nat /\ x.cost <= 1 + costs[1]
    BY <1>5, <2>2, <2>3 DEF byte
  <2> QED BY <2>4, <2>5, <2>6 DEF Cheapest, x, M
<1> QED BY <1>6, <1>7

-----------------------------------------------------------------------------
(* buildDP()                                                               *)

\* what the codes cost from a position on, and what they cost behind it
Cost(v, i) == IF i = Len(v) + 1 THEN 0 ELSE v[i].cost
CostsAt(v, i) == [k \in 1..Len(v) + 1 - i |-> Cost(v, i + k)]

\* w is v with one more position before the others.
OneMore(v, w, n) ==
  /\ CostsAt(w, 1) = [k \in 1..n + 1 |-> IF k = n + 1 THEN 0 ELSE v[k].cost]
  /\ \A i \in 1..n : CostsAt(w, i + 1) = CostsAt(v, i)

\* The costs behind the others stay the same.
LEMMA CostsBefore ==
  ASSUME NEW n \in Nat, NEW v, NEW w, Len(v) = n, Len(w) = n + 1, \A i \in 1..n : w[i + 1] = v[i]
  PROVE  OneMore(v, w, n)
<1>1. ASSUME NEW i \in 1..n + 1 PROVE Cost(w, i + 1) = Cost(v, i)
  <2>1. CASE i = n + 1
    BY <2>1 DEF Cost
  <2>2. CASE i # n + 1
    <3>1. i \in 1..n /\ i + 1 # (n + 1) + 1
      BY <2>2
    <3> QED BY <2>2, <3>1 DEF Cost
  <2> QED BY <2>1, <2>2
<1>2. CostsAt(w, 1) = [k \in 1..n + 1 |-> IF k = n + 1 THEN 0 ELSE v[k].cost]
  <2>1. (n + 1) + 1 - 1 = n + 1
    OBVIOUS
  <2>2. ASSUME NEW k \in 1..n + 1 PROVE Cost(w, 1 + k) = IF k = n + 1 THEN 0 ELSE v[k].cost
    <3>1. 1 + k = k + 1
      OBVIOUS
    <3> QED BY <1>1, <3>1 DEF Cost
  <2>3. CostsAt(w, 1) = [k \in 1..n + 1 |-> Cost(w, 1 + k)]
    BY <2>1 DEF CostsAt
  <2> QED BY <2>2, <2>3
<1>3. ASSUME NEW i \in 1..n PROVE CostsAt(w, i + 1) = CostsAt(v, i)
  <2>1. (n + 1) + 1 - (i + 1) = n + 1 - i
    OBVIOUS
  <2>2. ASSUME NEW k \in 1..n + 1 - i PROVE Cost(w, (i + 1) + k) = Cost(v, i + k)
    <3>1. i + k \in 1..n + 1 /\ (i + 1) + k = (i + k) + 1
      OBVIOUS
    <3> QED BY <1>1, <3>1
  <2>3. CostsAt(w, i + 1) = [k \in 1..n + 1 - i |-> Cost(w, (i + 1) + k)]
    BY <2>1 DEF CostsAt
  <2>4. CostsAt(v, i) = [k \in 1..n + 1 - i |-> Cost(v, i + k)]
    BY DEF CostsAt
  <2> QED BY <2>2, <2>3, <2>4
<1> QED BY <1>2, <1>3 DEF OneMore

\* the step of the fold in buildDP()
DPStep(sm, t, after, n) ==
  <<M12!Position(sm, SubSeq(t, Len(t) - n + 1, Len(t)), after)>> \o after

\* g[S] is what buildDP() has for the last positions, by their distances from the end.
DPFolds(g, sm, t, k) ==
  g = [S \in {T \in SUBSET (1..Len(t)) : Cardinality(T) <= k} |->
         IF S = {} THEN << >> ELSE DPStep(sm, t, g[S \ {Max(S)}], Max(S))]

\* one value, unfolded
DPUnfolds(g, sm, t, S) ==
  g[S] = IF S = {} THEN << >> ELSE DPStep(sm, t, g[S \ {Max(S)}], Max(S))

LEMMA DPFoldAt ==
  ASSUME NEW sm, NEW t, NEW k, NEW g, DPFolds(g, sm, t, k),
         NEW S \in SUBSET (1..Len(t)), Cardinality(S) <= k
  PROVE  DPUnfolds(g, sm, t, S)
<1> DEFINE h == [T \in {U \in SUBSET (1..Len(t)) : Cardinality(U) <= k} |->
                   IF T = {} THEN << >> ELSE DPStep(sm, t, g[T \ {Max(T)}], Max(T))]
<1>1. g = h
  BY DEF DPFolds
<1>2. h[S] = IF S = {} THEN << >> ELSE DPStep(sm, t, g[S \ {Max(S)}], Max(S))
  OBVIOUS
<1> HIDE DEF h
<1> QED BY <1>1, <1>2 DEF DPUnfolds

\* The recursion has a solution.
LEMMA DPFoldExists ==
  ASSUME NEW sm, NEW t, Len(t) \in Nat
  PROVE  \A k \in Nat : \E g : DPFolds(g, sm, t, k)
<1> DEFINE P == {k \in Nat : \E g : DPFolds(g, sm, t, k)}
           Low(k) == {T \in SUBSET (1..Len(t)) : Cardinality(T) <= k}
           Op(v, i) == DPStep(sm, t, v, i)
<1>0. Len(t) \in Nat
  OBVIOUS
<1>1. \A T \in SUBSET (1..Len(t)) : T # {} => /\ T \ {Max(T)} \in SUBSET (1..Len(t))
                                    /\ Cardinality(T) \in Nat \ {0}
                                    /\ Cardinality(T \ {Max(T)}) = Cardinality(T) - 1
  BY <1>0, WithoutGreatest
<1>2. Cardinality({}) = 0
  BY FS_EmptySet
<1>3. 0 \in P
  <2> DEFINE g0 == [T \in Low(0) |-> << >>]
  <2>1. \A T \in Low(0) : T = {}
    <3> SUFFICES ASSUME NEW T \in SUBSET (1..Len(t)), Cardinality(T) <= 0, T # {} PROVE FALSE
      OBVIOUS
    <3>1. Cardinality(T) \in Nat \ {0}
      BY <1>1
    <3> QED BY <3>1
  <2>2. g0 = [T \in Low(0) |-> IF T = {} THEN << >> ELSE Op(g0[T \ {Max(T)}], Max(T))]
    <3> HIDE DEF Op
    <3> QED BY <2>1
  <2> HIDE DEF g0
  <2>3. DPFolds(g0, sm, t, 0)
    BY <2>2 DEF DPFolds
  <2> QED BY <2>3
<1>4. ASSUME NEW k \in Nat, k \in P PROVE k + 1 \in P
  <2>1. PICK g : DPFolds(g, sm, t, k)
    BY <1>4
  <2> DEFINE h == [T \in Low(k + 1) |-> IF T = {} THEN << >> ELSE Op(g[T \ {Max(T)}], Max(T))]
  <2>2. ASSUME NEW T \in Low(k) PROVE h[T] = g[T]
    <3>1. T \in SUBSET (1..Len(t)) /\ Cardinality(T) <= k /\ T \in Low(k + 1)
      <4> HIDE DEF Op, h
      <4>1. T \in SUBSET (1..Len(t)) /\ Cardinality(T) <= k
        OBVIOUS
      <4>2. T = {} \/ Cardinality(T) \in Nat
        BY <1>1, <4>1
      <4>3. Cardinality({}) \in Nat
        BY <1>2
      <4>4. PICK c \in Nat : c = Cardinality(T)
        BY <4>2, <4>3
      <4>5. Cardinality(T) <= k + 1
        <5>1. c <= k
          BY <4>1, <4>4
        <5>2. c <= k + 1
          BY <5>1
        <5> QED BY <4>4, <5>2
      <4> QED BY <4>1, <4>5
    <3>2. g[T] = IF T = {} THEN << >> ELSE Op(g[T \ {Max(T)}], Max(T))
      <4>1. DPUnfolds(g, sm, t, T)
        BY <2>1, <3>1, DPFoldAt
      <4> QED BY <4>1 DEF DPUnfolds
    <3> HIDE DEF Op
    <3> QED BY <3>1, <3>2
  <2>3. ASSUME NEW T \in Low(k + 1), T # {} PROVE T \ {Max(T)} \in Low(k)
    BY <1>1, <2>3
  <2>4. h = [T \in Low(k + 1) |-> IF T = {} THEN << >> ELSE Op(h[T \ {Max(T)}], Max(T))]
    <3> HIDE DEF h, Low, Op
    <3>1. h = [T \in Low(k + 1) |-> IF T = {} THEN << >> ELSE Op(g[T \ {Max(T)}], Max(T))]
      BY DEF h
    <3> QED BY <2>2, <2>3, <3>1
  <2> HIDE DEF h
  <2>5. DPFolds(h, sm, t, k + 1)
    BY <2>4 DEF DPFolds
  <2> QED BY <2>5
<1>5. Nat \subseteq P
  <2> HIDE DEF P
  <2> QED BY <1>3, <1>4, Induction
<1> QED BY <1>5

\* At every position of a line there is a code for what is there, and none is
\* cheaper.
LEMMA BuildDPStands ==
  ASSUME NEW sm, MapInv(sm), NEW t \in Seq(Byte12)
  PROVE  LET dp == M12!BuildDP(sm, t)
         IN /\ Len(dp) = Len(t)
            /\ \A p \in 1..Len(t) : /\ Stands(sm, dp[p].choice, SubSeq(t, p, Len(t)))
                                    /\ Cheapest(sm, SubSeq(t, p, Len(t)), dp[p], CostsAt(dp, p))
<1> DEFINE D == 1..Len(t)
           ids == [n \in D |-> n]
           Op(after, n) == <<M12!Position(sm, SubSeq(t, Len(t) - n + 1, Len(t)), after)>> \o after
           G == CHOOSE g : g = [S \in SUBSET D |-> IF S = {} THEN << >>
                                                   ELSE Op(g[S \ {Max(S)}], ids[Max(S)])]
<1>0. Len(t) \in Nat /\ DOMAIN ids = D
  OBVIOUS
<1>1. M12!BuildDP(sm, t) = G[D]
  BY <1>0 DEF M12!BuildDP, M12!FoldLeft, M12!MapThenFoldSet, M12!Max, Max
<1>2. {T \in SUBSET D : Cardinality(T) <= Len(t)} = SUBSET D
  <2>1. IsFiniteSet(D) /\ Cardinality(D) = Len(t)
    BY <1>0, FS_Interval
  <2>2. \A T \in SUBSET D : Cardinality(T) <= Len(t)
    BY <2>1, FS_Subset
  <2> QED BY <2>2
<1>3. \A g : DPFolds(g, sm, t, Len(t)) <=>
        g = [S \in SUBSET D |-> IF S = {} THEN << >> ELSE Op(g[S \ {Max(S)}], ids[Max(S)])]
  <2>1. \A S \in SUBSET D : S # {} => ids[Max(S)] = Max(S)
    BY <1>0, WithoutGreatest
  <2> QED BY <1>2, <2>1 DEF DPFolds, DPStep
<1>4. \E g : DPFolds(g, sm, t, Len(t))
  BY <1>0, DPFoldExists
<1>5. DPFolds(G, sm, t, Len(t))
  BY <1>3, <1>4, ZenonT(30)
<1> HIDE DEF G
<1>a. \A S \in SUBSET D : G[S] = IF S = {} THEN << >> ELSE DPStep(sm, t, G[S \ {Max(S)}], Max(S))
  <2>1. PICK k : k = Len(t)
    OBVIOUS
  <2>2. DPFolds(G, sm, t, k)
    BY <1>5, <2>1
  <2>3. \A S \in SUBSET D : Cardinality(S) <= k
    BY <1>2, <2>1
  <2> TAKE S \in SUBSET D
  <2>4. Cardinality(S) <= k /\ S \in SUBSET (1..Len(t))
    BY <2>3
  <2> HIDE DEF D
  <2>5. DPUnfolds(G, sm, t, S)
    BY <2>2, <2>4, DPFoldAt
  <2> QED BY <2>5 DEF DPUnfolds
<1> DEFINE Good(v, n) == /\ \E E : v \in Seq(E)
                         /\ Len(v) = n
                         /\ \A i \in 1..n :
                              /\ Stands(sm, v[i].choice, SubSeq(t, Len(t) - n + i, Len(t)))
                              /\ Cheapest(sm, SubSeq(t, Len(t) - n + i, Len(t)), v[i], CostsAt(v, i))
           P == {n \in Nat : n <= Len(t) => Good(G[1..n], n)}
<1>6. 0 \in P
  <2>1. Cardinality({}) <= Len(t) /\ 1..0 = {}
    BY <1>0, FS_EmptySet
  <2>2. G[{}] = << >>
    <3>1. {} \in SUBSET (1..Len(t))
      OBVIOUS
    <3>2. G[{}] = IF {} = {} THEN << >> ELSE DPStep(sm, t, G[{} \ {Max({})}], Max({}))
      BY <1>a, <3>1
    <3> QED BY <3>2
  <2>3. << >> \in Seq({}) /\ Len(<< >>) = 0 /\ \A i \in 1..0 : FALSE
    OBVIOUS
  <2> QED BY <2>1, <2>2, <2>3
<1>7. ASSUME NEW n \in Nat, n \in P PROVE n + 1 \in P
  <2> SUFFICES ASSUME n + 1 <= Len(t) PROVE Good(G[1..n + 1], n + 1)
    OBVIOUS
  <2>1. Good(G[1..n], n)
    BY <1>0, <1>7
  <2> DEFINE T == 1..n + 1
             v == G[1..n]
             text == SubSeq(t, Len(t) - (n + 1) + 1, Len(t))
             x == M12!Position(sm, text, v)
             w == <<x>> \o v
  <2>2. T \in SUBSET D /\ T # {} /\ Max(T) = n + 1 /\ T \ {n + 1} = 1..n
    <3>1. n + 1 \in T /\ T \in SUBSET Int /\ \A i \in T : i <= n + 1
      OBVIOUS
    <3> HIDE DEF T
    <3>2. Max(T) = n + 1
      BY <3>1, MaxIs
    <3> QED BY <1>0, <3>1, <3>2 DEF T
  <2>3. G[T] = w
    <3> HIDE DEF T
    <3>1. Cardinality(T) <= Len(t)
      BY <1>2, <2>2
    <3>2. G[T] = IF T = {} THEN << >> ELSE DPStep(sm, t, G[T \ {Max(T)}], Max(T))
      BY <1>a, <2>2
    <3> QED BY <2>2, <3>2 DEF DPStep
  <2>4. text \in Seq(Byte12) /\ Len(text) = n + 1
    <3> DEFINE b == Len(t) - (n + 1)
    <3>1. b \in Nat /\ b + (n + 1) = Len(t) /\ n + 1 \in Nat
      BY <1>0
    <3> HIDE DEF b
    <3>2. SubSeq(t, b + 1, b + (n + 1)) \in Seq(Byte12) /\ Len(SubSeq(t, b + 1, b + (n + 1))) = n + 1
      BY <1>0, <3>1, Slice
    <3> QED BY <3>1, <3>2 DEF b
  <2>5. Stands(sm, x.choice, text)
    <3> HIDE DEF text
    <3>1. Len(text) >= 1
      BY <2>4
    <3> QED BY <2>4, <3>1, PositionStands
  <2>6. PICK E0 : v \in Seq(E0)
    BY <2>1
  <2> DEFINE E == E0 \cup {x}
  <2>v. /\ Len(v) = n
        /\ \A i \in 1..n :
             /\ Stands(sm, v[i].choice, SubSeq(t, Len(t) - n + i, Len(t)))
             /\ Cheapest(sm, SubSeq(t, Len(t) - n + i, Len(t)), v[i], CostsAt(v, i))
    BY <2>1
  <2>c. ASSUME NEW costs, costs = [k \in 1..n + 1 |-> IF k = n + 1 THEN 0 ELSE v[k].cost]
        PROVE  Cheapest(sm, text, x, costs)
    <3> HIDE DEF text, v
    <3>1. Len(text) >= 1
      BY <2>4
    <3>2. costs = [k \in 1..Len(text) |-> IF k = Len(text) THEN 0 ELSE v[k].cost]
      BY <2>c, <2>4
    <3>3. ASSUME NEW k \in 1..Len(text) PROVE costs[k] \in Nat
      <4>1. costs[k] = IF k = n + 1 THEN 0 ELSE v[k].cost
        BY <2>c, <2>4
      <4>2. k # n + 1 => k \in 1..n
        BY <2>4
      <4>3. k \in 1..n => v[k].cost \in Nat
        BY <2>v DEF Cheapest
      <4> QED BY <4>1, <4>2, <4>3
    <3> QED BY <2>4, <3>1, <3>2, <3>3, PositionCheapest
  <2> HIDE DEF v, x, text, Good, T
  <2>7. v \in Seq(E) /\ <<x>> \in Seq(E) /\ Len(<<x>>) = 1 /\ <<x>>[1] = x
    BY <2>6
  <2> HIDE DEF E
  <2>8. /\ w \in Seq(E) /\ Len(w) = 1 + n /\ w[1] = x /\ \A i \in 1..n : w[i + 1] = v[i]
    BY <2>7, <2>v, OneBefore
  <2> HIDE DEF w
  <2>w. /\ CostsAt(w, 1) = [k \in 1..n + 1 |-> IF k = n + 1 THEN 0 ELSE v[k].cost]
        /\ \A i \in 1..n : CostsAt(w, i + 1) = CostsAt(v, i)
    <3>1. Len(w) = n + 1 /\ Len(v) = n
      BY <2>8, <2>v
    <3>2. \A i \in 1..n : w[i + 1] = v[i]
      BY <2>8
    <3>3. OneMore(v, w, n)
      BY <3>1, <3>2, CostsBefore
    <3> QED BY <3>3 DEF OneMore
  <2>9. ASSUME NEW i \in 1..n + 1
        PROVE  /\ Stands(sm, w[i].choice, SubSeq(t, Len(t) - (n + 1) + i, Len(t)))
               /\ Cheapest(sm, SubSeq(t, Len(t) - (n + 1) + i, Len(t)), w[i], CostsAt(w, i))
    <3>1. CASE i = 1
      BY <2>5, <2>8, <2>c, <2>w, <3>1 DEF text
    <3>2. CASE i # 1
      <4>1. i - 1 \in 1..n /\ (i - 1) + 1 = i /\ Len(t) - n + (i - 1) = Len(t) - (n + 1) + i
        BY <1>0, <3>2
      <4>2. w[i] = v[i - 1]
        BY <2>8, <4>1
      <4>3. /\ Stands(sm, v[i - 1].choice, SubSeq(t, Len(t) - n + (i - 1), Len(t)))
            /\ Cheapest(sm, SubSeq(t, Len(t) - n + (i - 1), Len(t)), v[i - 1], CostsAt(v, i - 1))
        BY <2>v, <4>1
      <4>4. CostsAt(w, i) = CostsAt(v, i - 1)
        BY <2>w, <4>1
      <4> QED BY <4>1, <4>2, <4>3, <4>4
    <3> QED BY <3>1, <3>2
  <2>10. 1 + n = n + 1
    OBVIOUS
  <2> QED BY <2>3, <2>8, <2>9, <2>10 DEF Good, T
<1>8. Nat \subseteq P
  <2> HIDE DEF P
  <2> QED BY <1>6, <1>7, Induction
<1>9. Good(G[D], Len(t))
  BY <1>0, <1>8
<1>10. \A p \in 1..Len(t) : Len(t) - Len(t) + p = p
  BY <1>0
<1>11. Len(G[D]) = Len(t)
  BY <1>9
<1>12. \A p \in 1..Len(t) : /\ Stands(sm, G[D][p].choice, SubSeq(t, p, Len(t)))
                            /\ Cheapest(sm, SubSeq(t, p, Len(t)), G[D][p], CostsAt(G[D], p))
  BY <1>9, <1>10
<1> HIDE DEF Good, P
<1> QED BY <1>1, <1>11, <1>12

-----------------------------------------------------------------------------
(* What the encoders append                                                *)

\* Three bytes for two codes, two for one.
LEMMA PackedBytes ==
  ASSUME NEW a \in Nat, NEW b \in Nat
  PROVE  /\ Packed(a, b) \in Seq(Nat) /\ Len(Packed(a, b)) = 3
         /\ PackedOne(a) \in Seq(Nat) /\ Len(PackedOne(a)) = 2
<1>1. a % 256 \in Nat /\ a \div 256 \in Nat /\ b % 16 \in Nat /\ b \div 16 \in Nat
  OBVIOUS
<1>2. a \div 256 + 16 * (b % 16) \in Nat
  BY <1>1
<1> QED BY <1>1, <1>2 DEF Packed, PackedOne

\* A code stands for a piece of the text, from one place to another.
Fits(sm, text, p, code, q) ==
  /\ code \in 0..255 + Len(sm.symbols)
  /\ p \in Nat /\ q \in p + 1..Len(text)
  /\ M12!Meaning(sm, code) \in Seq(Byte12)
  /\ Len(M12!Meaning(sm, code)) = q - p /\ q - p <= Word
  /\ \A i \in 1..q - p : M12!Meaning(sm, code)[i] = text[p + i]

\* A code that stands for the start of a piece of it does.
LEMMA StandsFits ==
  ASSUME NEW sm, MapInv(sm), NEW text \in Seq(Byte12), NEW p \in Nat, NEW e \in p + 1..Len(text),
         NEW code, Stands(sm, code, SubSeq(text, p + 1, e))
  PROVE  Fits(sm, text, p, code, p + Len(M12!Meaning(sm, code)))
<1> DEFINE w == M12!Meaning(sm, code)
           rest == SubSeq(text, p + 1, e)
<1>1. PICK n \in Nat : n = e - p /\ p + n = e
  OBVIOUS
<1>2. rest \in Seq(Byte12) /\ Len(rest) = n /\ \A i \in 1..n : rest[i] = text[p + i]
  <2>1. p + n <= Len(text)
    BY <1>1
  <2>2. PICK part : part = SubSeq(text, p + 1, p + n)
    OBVIOUS
  <2>3. part \in Seq(Byte12) /\ Len(part) = n /\ \A i \in 1..n : part[i] = text[p + i]
    BY <2>1, <2>2, Slice
  <2>4. part = rest
    BY <1>1, <2>2
  <2> HIDE DEF rest
  <2> QED BY <2>3, <2>4
<1>3. /\ code \in 0..255 + Len(sm.symbols) /\ w \in Seq(Byte12) /\ Len(w) \in 1..Word
      /\ Len(w) <= Len(rest) /\ SubSeq(rest, 1, Len(w)) = w
  BY DEF Stands, M12!StartsWith
<1> HIDE DEF w, rest
<1>4. PICK k \in Nat : k = Len(w) /\ k >= 1 /\ k <= n /\ k <= Word
  <2>1. PICK k \in 1..Word : k = Len(w)
    BY <1>3
  <2>2. k \in Nat /\ k >= 1 /\ k <= Word
    BY DecoderAssumption
  <2>3. k <= n
    <3>1. Len(rest) = n
      BY <1>2
    <3>2. Len(w) <= Len(rest)
      BY <1>3
    <3> QED BY <2>1, <3>1, <3>2
  <2> QED BY <2>1, <2>2, <2>3
<1>5. \A i \in 1..k : SubSeq(rest, 0 + 1, 0 + k)[i] = rest[0 + i]
  BY <1>2, <1>4, Slice
<1>6. \A i \in 1..k : w[i] = text[p + i]
  <2> TAKE i \in 1..k
  <2>1. i \in 1..n /\ 0 + i = i /\ 0 + 1 = 1 /\ 0 + k = k
    BY <1>4
  <2>2. rest[i] = text[p + i]
    BY <1>2, <2>1
  <2>3. SubSeq(rest, 1, k)[i] = rest[i]
    BY <1>5, <2>1
  <2>4. SubSeq(rest, 1, k) = w
    BY <1>3, <1>4
  <2> QED BY <2>2, <2>3, <2>4
<1>7. p + k \in p + 1..Len(text) /\ (p + k) - p = k
  BY <1>1, <1>4
<1> QED BY <1>3, <1>4, <1>6, <1>7 DEF Fits, w

-----------------------------------------------------------------------------
(* What the DP makes of a line                                             *)

\* from each position on: the code there, where the next one is, the cost, and the stream
Parts(g, code, next, n) ==
  /\ g[n + 1] = << >>
  /\ \A p \in 1..n + 1 : g[p] \in Seq(Nat)
  /\ \A p \in 1..n :
       /\ next[p] > n => g[p] = PackedOne(code[p])
       /\ next[p] <= n => g[p] = Packed(code[p], code[next[p]]) \o g[next[next[p]]]

Cheap(sm, text, cost, next, n) ==
  /\ cost[n + 1] = 0
  /\ \A p \in 1..n :
       /\ cost[p] \in Nat
       /\ cost[p] = 1 + cost[next[p]]
       /\ cost[p] <= 1 + cost[p + 1]
       /\ \A i \in M12!Matches(sm, SubSeq(text, p, n)) : cost[p] <= 1 + cost[p + Len(sm.symbols[i])]

Plan(sm, text, g, code, next, cost) ==
  /\ \A p \in 1..Len(text) : /\ next[p] \in p + 1..Len(text) + 1
                             /\ next[p] = p + Len(M12!Meaning(sm, code[p]))
                             /\ Stands(sm, code[p], SubSeq(text, p, Len(text)))
                             /\ Fits(sm, text, p - 1, code[p], next[p] - 1)
  /\ Parts(g, code, next, Len(text))
  /\ Cheap(sm, text, cost, next, Len(text))

\* The stream of a line as a whole comes of such a plan, and is no longer than
\* twice the line.
LEMMA DPStreamPlan ==
  ASSUME MapInv(map), NEW text \in Seq(Byte12)
  PROVE  /\ DPStream(text) \in Seq(Nat) /\ Len(DPStream(text)) <= 2 * Len(text)
         /\ \E g, code, next, cost : Plan(map, text, g, code, next, cost) /\ g[1] = DPStream(text)
<1> DEFINE n == Len(text)
           dp == M12!BuildDP(map, text)
           next(p) == p + Len(M12!Meaning(map, dp[p].choice))
           G == CHOOSE g : g = [p \in 1..n + 1 |->
                  IF p > n THEN << >>
                  ELSE IF next(p) > n THEN PackedOne(dp[p].choice)
                  ELSE Packed(dp[p].choice, dp[next(p)].choice) \o g[next(next(p))]]
           q == [p \in 1..n |-> IF next(p) > n THEN n + 1 ELSE next(next(p))]
           v == [p \in 1..n |-> IF next(p) > n THEN PackedOne(dp[p].choice)
                                ELSE Packed(dp[p].choice, dp[next(p)].choice)]
           codes == [p \in 1..n |-> dp[p].choice]
           nexts == [p \in 1..n |-> next(p)]
           costs == [p \in 1..n + 1 |-> Cost(dp, p)]
<1>0. n \in Nat
  OBVIOUS
<1>1. DPStream(text) = G[1]
  BY DEF DPStream
<1>d. /\ Len(dp) = n
      /\ \A p \in 1..n : /\ Stands(map, dp[p].choice, SubSeq(text, p, n))
                         /\ Cheapest(map, SubSeq(text, p, n), dp[p], CostsAt(dp, p))
  BY BuildDPStands
<1> HIDE DEF dp, n, G
<1>f. ASSUME NEW p \in 1..n PROVE Fits(map, text, p - 1, dp[p].choice, next(p) - 1)
  <2>1. PICK sm : sm = map /\ MapInv(sm)
    OBVIOUS
  <2>2. PICK c : c = dp[p].choice
    OBVIOUS
  <2>3. PICK z \in Nat : p = z + 1 /\ z = p - 1 /\ n \in z + 1..n
    BY <1>0
  <2>4. Stands(sm, c, SubSeq(text, z + 1, n))
    BY <1>d, <2>1, <2>2, <2>3
  <2>5. Fits(sm, text, z, c, z + Len(M12!Meaning(sm, c)))
    BY <2>1, <2>3, <2>4, StandsFits DEF n
  <2>6. Len(M12!Meaning(sm, c)) \in Nat
    BY <2>5 DEF Fits
  <2>7. PICK k \in Nat : k = Len(M12!Meaning(sm, c))
    BY <2>6
  <2>8. next(p) - 1 = z + k
    BY <2>1, <2>2, <2>3, <2>7
  <2> QED BY <2>1, <2>2, <2>3, <2>5, <2>7, <2>8
<1>2. ASSUME NEW p \in 1..n PROVE dp[p].choice \in Nat /\ next(p) \in p + 1..n + 1
  <2>1. Fits(map, text, p - 1, dp[p].choice, next(p) - 1)
    BY <1>f
  <2>k. PICK k \in Nat : k = Len(map.symbols)
    BY DEF MapInv
  <2>2. /\ dp[p].choice \in 0..255 + k /\ next(p) - 1 \in (p - 1) + 1..n
        /\ Len(M12!Meaning(map, dp[p].choice)) \in Nat
    BY <2>1, <2>k DEF Fits, n
  <2>3. next(p) \in Nat
    BY <2>2
  <2> HIDE DEF next
  <2>4. next(p) \in p + 1..n + 1
    BY <1>0, <2>2, <2>3
  <2> QED BY <2>2, <2>4
<1> HIDE DEF next
<1>3. ASSUME NEW p \in 1..n
      PROVE  /\ q[p] \in p + 1..n + 1
             /\ v[p] \in Seq(Nat) /\ Len(v[p]) <= 2 * (q[p] - p)
  <2>1. dp[p].choice \in Nat /\ next(p) \in p + 1..n + 1
    BY <1>2
  <2>2. PICK r \in p + 1..n + 1 : r = next(p)
    BY <2>1
  <2>3. CASE r > n
    <3>1. q[p] = n + 1 /\ v[p] = PackedOne(dp[p].choice)
      BY <2>2, <2>3
    <3>2. v[p] \in Seq(Nat) /\ Len(v[p]) = 2
      BY <2>1, <3>1, PackedBytes
    <3>3. n + 1 \in p + 1..n + 1 /\ 2 <= 2 * (n + 1 - p)
      BY <1>0
    <3> HIDE DEF q, v
    <3> QED BY <3>1, <3>2, <3>3
  <2>4. CASE ~(r > n)
    <3>1. r \in 1..n
      BY <1>0, <2>4
    <3>2. dp[r].choice \in Nat /\ next(r) \in r + 1..n + 1
      BY <1>2, <3>1
    <3>3. q[p] = next(r) /\ v[p] = Packed(dp[p].choice, dp[r].choice)
      BY <2>2, <2>4
    <3>4. v[p] \in Seq(Nat) /\ Len(v[p]) = 3
      BY <2>1, <3>2, <3>3, PackedBytes
    <3>5. PICK z \in r + 1..n + 1 : z = next(r)
      BY <3>2
    <3>6. z \in p + 1..n + 1 /\ 3 <= 2 * (z - p)
      BY <1>0
    <3> HIDE DEF q, v
    <3> QED BY <3>3, <3>4, <3>5, <3>6
  <2> QED BY <2>3, <2>4
<1>4. ASSUME NEW g
      PROVE  Continues(g, v, q, n) <=>
             g = [p \in 1..n + 1 |->
                    IF p > n THEN << >>
                    ELSE IF next(p) > n THEN PackedOne(dp[p].choice)
                    ELSE Packed(dp[p].choice, dp[next(p)].choice) \o g[next(next(p))]]
  <2> DEFINE A(p) == IF p > n THEN << >> ELSE v[p] \o g[q[p]]
             B(p) == IF p > n THEN << >>
                     ELSE IF next(p) > n THEN PackedOne(dp[p].choice)
                     ELSE Packed(dp[p].choice, dp[next(p)].choice) \o g[next(next(p))]
             a == [p \in 1..n + 1 |-> A(p)]
             b == [p \in 1..n + 1 |-> B(p)]
  <2>1. ASSUME g[n + 1] = << >>, NEW p \in 1..n + 1 PROVE A(p) = B(p)
    <3>1. CASE p > n
      BY <3>1
    <3>2. CASE p <= n /\ next(p) > n
      <4>1. p \in 1..n /\ ~(p > n)
        BY <1>0, <3>2
      <4>2. v[p] = PackedOne(dp[p].choice) /\ q[p] = n + 1
        BY <3>2, <4>1
      <4>3. v[p] \in Seq(Nat)
        BY <1>3, <4>1
      <4> HIDE DEF v, q
      <4>4. v[p] \o << >> = v[p]
        BY <4>3, ConcatEmptySeq
      <4>5. A(p) = v[p] \o << >>
        BY <2>1, <4>1, <4>2
      <4>6. B(p) = PackedOne(dp[p].choice)
        BY <3>2, <4>1
      <4> QED BY <4>2, <4>4, <4>5, <4>6
    <3>3. CASE p <= n /\ ~(next(p) > n)
      <4>1. p \in 1..n /\ ~(p > n)
        BY <1>0, <3>3
      <4>2. v[p] = Packed(dp[p].choice, dp[next(p)].choice) /\ q[p] = next(next(p))
        BY <3>3, <4>1
      <4> HIDE DEF v, q
      <4> QED BY <3>3, <4>1, <4>2
    <3> QED BY <1>0, <3>1, <3>2, <3>3
  <2>2. n + 1 \in 1..n + 1 /\ n + 1 > n
    BY <1>0
  <2>3. a[n + 1] = << >> /\ b[n + 1] = << >>
    BY <2>2
  <2>4. g[n + 1] = << >> => a = b
    <3> HIDE DEF A, B
    <3> QED BY <2>1
  <2>5. (g = a \/ g = b) => g[n + 1] = << >>
    <3> HIDE DEF a, b
    <3> QED BY <2>3
  <2>6. Continues(g, v, q, n) <=> g = a
    BY DEF Continues
  <2>7. g = a <=> g = b
    <3> HIDE DEF a, b
    <3> QED BY <2>4, <2>5
  <2> QED BY <2>6, <2>7
<1>5. \E g : Continues(g, v, q, n)
  <2> HIDE DEF v, q
  <2> QED BY <1>0, <1>3, ContinuesExists
<1>6. Continues(G, v, q, n)
  <2> HIDE DEF v, q
  <2> QED BY <1>4, <1>5, ZenonT(30) DEF G
<1>g. G = [p \in 1..n + 1 |->
             IF p > n THEN << >>
             ELSE IF next(p) > n THEN PackedOne(dp[p].choice)
             ELSE Packed(dp[p].choice, dp[next(p)].choice) \o G[next(next(p))]]
  <2> HIDE DEF v, q
  <2> QED BY <1>4, <1>6
<1>7. \A p \in 1..n + 1 : G[p] \in Seq(Nat) /\ Len(G[p]) <= 2 * (n + 1 - p)
  <2> HIDE DEF v, q
  <2> QED BY <1>0, <1>3, <1>6, ContinuesLength
<1>8. 1 \in 1..n + 1 /\ n + 1 - 1 = n
  BY <1>0
<1>9. G[1] \in Seq(Nat) /\ Len(G[1]) <= 2 * n
  BY <1>7, <1>8
<1> HIDE DEF v, q
<1>10. \A p \in 1..n : codes[p] = dp[p].choice /\ nexts[p] = next(p)
  OBVIOUS
<1>11. \A p \in 1..n + 1 : costs[p] = Cost(dp, p)
  OBVIOUS
<1> HIDE DEF codes, nexts, costs
<1>12. Parts(G, codes, nexts, n)
  <2> DEFINE h == [p \in 1..n + 1 |->
                     IF p > n THEN << >>
                     ELSE IF next(p) > n THEN PackedOne(dp[p].choice)
                     ELSE Packed(dp[p].choice, dp[next(p)].choice) \o G[next(next(p))]]
  <2>1. n + 1 \in 1..n + 1 /\ n + 1 > n
    BY <1>0
  <2>2. h[n + 1] = << >>
    BY <2>1
  <2>3. ASSUME NEW p \in 1..n
        PROVE  /\ nexts[p] > n => h[p] = PackedOne(codes[p])
               /\ nexts[p] <= n => h[p] = Packed(codes[p], codes[nexts[p]]) \o G[nexts[nexts[p]]]
    <3>1. p \in 1..n + 1 /\ ~(p > n)
      BY <1>0
    <3>2. next(p) \in p + 1..n + 1
      BY <1>2
    <3>3. PICK r \in 1..n + 1 : r = next(p)
      BY <1>0, <3>2
    <3>4. nexts[p] = r /\ codes[p] = dp[p].choice
      BY <1>10, <3>3
    <3>5. r <= n => r \in 1..n /\ ~(r > n)
      BY <1>0
    <3>6. r <= n => codes[r] = dp[r].choice /\ nexts[r] = next(r)
      BY <1>10, <3>5
    <3>7. h[p] = IF r > n THEN PackedOne(dp[p].choice) ELSE Packed(dp[p].choice, dp[r].choice) \o G[next(r)]
      BY <3>1, <3>3
    <3> HIDE DEF h
    <3> QED BY <3>4, <3>5, <3>6, <3>7
  <2>4. G = h
    BY <1>g
  <2> HIDE DEF h
  <2>5. G[n + 1] = << >>
    BY <2>2, <2>4
  <2>6. \A p \in 1..n + 1 : G[p] \in Seq(Nat)
    BY <1>7
  <2> QED BY <2>3, <2>4, <2>5, <2>6 DEF Parts
<1>13. Cheap(map, text, costs, nexts, n)
  <2>1. costs[n + 1] = 0
    <3>1. n + 1 \in 1..n + 1
      BY <1>0
    <3>2. Cost(dp, n + 1) = 0
      BY <1>d DEF Cost
    <3> QED BY <1>11, <3>1, <3>2
  <2>2. ASSUME NEW p \in 1..n
        PROVE  /\ costs[p] \in Nat
               /\ costs[p] = 1 + costs[nexts[p]]
               /\ costs[p] <= 1 + costs[p + 1]
               /\ \A i \in M12!Matches(map, SubSeq(text, p, n)) : costs[p] <= 1 + costs[p + Len(map.symbols[i])]
    <3> DEFINE behind == CostsAt(dp, p)
               rest == SubSeq(text, p, n)
    <3>1. Cheapest(map, rest, dp[p], behind)
      BY <1>d
    <3>2. ASSUME NEW k \in 1..n + 1 - p PROVE behind[k] = costs[p + k]
      <4>1. behind[k] = Cost(dp, p + k)
        BY <1>d DEF CostsAt
      <4>2. p + k \in 1..n + 1
        BY <1>0
      <4> QED BY <1>11, <4>1, <4>2
    <3>3. costs[p] = dp[p].cost
      <4>1. p \in 1..n + 1 /\ p # n + 1
        BY <1>0
      <4> QED BY <1>11, <1>d, <4>1 DEF Cost
    <3> HIDE DEF behind, rest
    <3>4. dp[p].cost = 1 + behind[Len(M12!Meaning(map, dp[p].choice))] /\ dp[p].cost <= 1 + behind[1] /\ dp[p].cost \in Nat
      BY <3>1 DEF Cheapest
    <3>5. \A i \in M12!Matches(map, rest) : dp[p].cost <= 1 + behind[Len(map.symbols[i])]
      BY <3>1 DEF Cheapest
    <3>6. 1 \in 1..n + 1 - p
      BY <1>0
    <3>7. PICK k \in 1..n + 1 - p : k = Len(M12!Meaning(map, dp[p].choice)) /\ nexts[p] = p + k
      <4>1. next(p) \in p + 1..n + 1 /\ nexts[p] = next(p)
        BY <1>2, <1>10
      <4>2. next(p) = p + Len(M12!Meaning(map, dp[p].choice))
        BY DEF next
      <4>3. Len(M12!Meaning(map, dp[p].choice)) \in Nat
        BY <1>f DEF Fits
      <4> QED BY <1>0, <4>1, <4>2, <4>3
    <3>8. ASSUME NEW i \in M12!Matches(map, rest) PROVE Len(map.symbols[i]) \in 1..n + 1 - p
      <4>1. i \in 1..Len(map.symbols) /\ M12!StartsWith(rest, map.symbols[i])
        BY DEF M12!Matches
      <4>2. map.symbols \in Seq(Strings12)
        BY DEF MapInv
      <4>3. Len(map.symbols[i]) \in 2..Word
        BY <4>1, <4>2, Strings12Facts
      <4>4. Len(rest) = n + 1 - p
        BY <1>0 DEF rest, n
      <4>5. Len(map.symbols[i]) <= n + 1 - p
        BY <4>1, <4>4 DEF M12!StartsWith
      <4> QED BY <1>0, <4>3, <4>5, DecoderAssumption
    <3>9. \A i \in M12!Matches(map, rest) : costs[p] <= 1 + costs[p + Len(map.symbols[i])]
      BY <3>2, <3>3, <3>5, <3>8
    <3>10. costs[p] = 1 + costs[nexts[p]] /\ costs[p] <= 1 + costs[p + 1] /\ costs[p] \in Nat
      BY <3>2, <3>3, <3>4, <3>6, <3>7
    <3> QED BY <3>9, <3>10 DEF rest
  <2> QED BY <2>1, <2>2 DEF Cheap
<1>14. ASSUME NEW p \in 1..n
       PROVE  /\ nexts[p] \in p + 1..n + 1
              /\ nexts[p] = p + Len(M12!Meaning(map, codes[p]))
              /\ Stands(map, codes[p], SubSeq(text, p, n))
              /\ Fits(map, text, p - 1, codes[p], nexts[p] - 1)
  BY <1>2, <1>10, <1>d, <1>f DEF next
<1>15. Plan(map, text, G, codes, nexts, costs)
  BY <1>12, <1>13, <1>14 DEF Plan, n
<1> QED BY <1>1, <1>9, <1>15 DEF n

\* The code of what a text goes on with.
LEMMA CodeAhead ==
  ASSUME NEW sm, MapInv(sm), NEW text \in Seq(Byte12), NEW c \in Nat, c < Len(text)
  PROVE  LET code == M12!Find(sm, SubSeq(text, c + 1, Min({Len(text), c + Word})))
         IN /\ code \in Nat
            /\ c + Len(M12!Meaning(sm, code)) \in c + 1..Len(text)
            /\ Len(M12!Meaning(sm, code)) \in 1..Word
<1> DEFINE n == Len(text)
           end == Min({n, c + Word})
           rest == SubSeq(text, c + 1, end)
           code == M12!Find(sm, rest)
           meaning == M12!Meaning(sm, code)
<1>1. n \in Nat /\ Word \in Nat /\ Word > 0
  BY DecoderAssumption
<1>2. end \in c + 1..n
  <2>1. c < n
    OBVIOUS
  <2> HIDE DEF n
  <2>2. end = IF n <= c + Word THEN n ELSE c + Word
    BY <1>1, LesserOfTwo
  <2> QED BY <1>1, <2>1, <2>2
<1>3. rest \in Seq(Byte12) /\ Len(rest) = end - c
  <2> DEFINE k == end - c
  <2>1. k \in Nat /\ c + k = end /\ c + k <= n
    BY <1>1, <1>2
  <2> HIDE DEF k, end
  <2>2. SubSeq(text, c + 1, c + k) \in Seq(Byte12) /\ Len(SubSeq(text, c + 1, c + k)) = k
    BY <2>1, Slice
  <2> QED BY <2>1, <2>2 DEF k
<1> HIDE DEF rest, end
<1>4. Len(rest) >= 1 /\ Len(rest) <= n - c
  BY <1>1, <1>2, <1>3
<1>5. Stands(sm, code, rest)
  BY <1>3, <1>4, FindStands
<1>k. PICK l \in Nat : l = Len(sm.symbols)
  BY DEF MapInv
<1>6. code \in Nat /\ Len(meaning) \in 1..Word /\ Len(meaning) <= Len(rest)
  BY <1>5, <1>k DEF Stands, M12!StartsWith
<1> HIDE DEF meaning, code, n
<1>7. PICK k \in Nat : k = Len(meaning) /\ 1 <= k /\ k <= Word /\ k <= n - c
  BY <1>1, <1>3, <1>4, <1>6
<1>8. c + k \in c + 1..n
  BY <1>1, <1>7
<1> QED BY <1>6, <1>7, <1>8 DEF meaning, code, rest, end, n

-----------------------------------------------------------------------------
(* The room of the encoders                                                *)

States12 == {"line12", "fast12", "tail12", "encoded", "pairs", "aligned", "returned12"}

\* Every line but the one that is encoded is completed, and that one is no
\* longer than twice what is read of it.
RoomInv ==
  /\ MapInv(map) /\ lines \in Seq(Seq(Byte12)) /\ room \in Nat
  /\ line \in 0..Len(lines) /\ out \in Seq(Seq(Nat)) /\ written \in 0..room
  /\ at \in States12
  /\ at = "line12" => Len(out) = line
  /\ at \in {"fast12", "tail12"} =>
       /\ line < Len(lines) /\ cur \in 0..Len(lines[line + 1])
       /\ Len(out) = line + 1 /\ Len(out[line + 1]) <= 2 * cur
  /\ at = "encoded" /\ lines # << >> /\ room >= 7 + 2 * Len(lines[1]) => line > 0

\* It holds before the first line, whatever strings the map was given.
LEMMA RoomInitial == Init12 => RoomInv
<1> SUFFICES ASSUME Init12 PROVE RoomInv
  OBVIOUS
<1>1. PICK d \in Dictionaries, past \in BOOLEAN : map = Filled(d, past)
  BY DEF Init12
<1>2. d \in Seq(Strings12)
  <2>1. Dictionaries \subseteq Seq(UNION {[1..n -> Byte12] : n \in 2..Word})
    BY CodecAssumption12
  <2> QED BY <2>1 DEF Strings12
<1>3. MapInv(map)
  BY <1>1, <1>2, FoldedMap
<1>4. lines \in Seq(Seq(Byte12)) /\ room \in Nat
  <2>1. Batches \subseteq Seq(Seq(Byte12)) /\ Rooms \subseteq Nat
    BY CodecAssumption12
  <2> QED BY <2>1 DEF Init12
<1>5. Len(lines) \in Nat
  BY <1>4
<1> QED BY <1>3, <1>4, <1>5 DEF RoomInv, Init12, States12

\* What is kept so far.
LEMMA KeptBytes ==
  ASSUME RoomInv
  PROVE  /\ Written12 \in Nat
         /\ Len(out) = 0 => Written12 = 0
         /\ Len(out) = 1 => Written12 = Len(out[1])
<1>1. PICK o \in Seq(Seq(Nat)) : o = out
  BY DEF RoomInv
<1>2. PICK n \in Nat : n = Len(o)
  OBVIOUS
<1> DEFINE f == [l \in 1..n |-> Len(o[l])]
<1>3. Written12 = SumFunctionOnSet(f, 1..n)
  BY <1>1, <1>2 DEF Written12, SumFunction
<1>4. \A l \in 1..n : f[l] = Len(o[l]) /\ f[l] \in Nat
  BY <1>2
<1> HIDE DEF f
<1>5. IsFiniteSet(1..n)
  <2>1. 1 \in Int /\ n \in Int
    OBVIOUS
  <2> QED BY <2>1, FS_Interval
<1>6. Written12 \in Nat
  BY <1>3, <1>4, <1>5, SumType
<1>7. n = 0 => Written12 = 0
  <2>1. n = 0 => 1..n = {}
    OBVIOUS
  <2> QED BY <1>3, <2>1, SumEmpty
<1>8. n = 1 => Written12 = f[1]
  <2> SUFFICES ASSUME n = 1 PROVE Written12 = f[1]
    OBVIOUS
  <2>1. 1..n = {} \cup {1} /\ 1 \notin {} /\ f[1] \in Int
    BY <1>4
  <2>2. IsFiniteSet({})
    BY FS_EmptySet
  <2>3. SumFunctionOnSet(f, {} \cup {1}) = f[1] + SumFunctionOnSet(f, {})
    BY <2>1, <2>2, SumAdd
  <2>4. SumFunctionOnSet(f, {}) = 0
    BY SumEmpty
  <2> QED BY <1>3, <2>1, <2>3, <2>4
<1>9. n = 1 => f[1] = Len(o[1])
  BY <1>4
<1> QED BY <1>1, <1>2, <1>6, <1>7, <1>8, <1>9

\* Bytes of codes are appended to the line that is encoded.
LEMMA PutStep ==
  ASSUME RoomInv, at \in {"fast12", "tail12"}, RoomForCodes,
         NEW bytes \in Seq(Nat), NEW next \in cur + 1..Len(lines[line + 1]),
         Len(bytes) <= 2 * (next - cur),
         Put(bytes, next), UNCHANGED <<map, lines, room, line, at>>
  PROVE  RoomInv'
<1>1. PICK o \in Seq(Seq(Nat)) : o = out
  BY DEF RoomInv
<1>2. PICK n \in Nat : n = line + 1 /\ n = Len(o) /\ n >= 1
  <2>1. line \in 0..Len(lines) /\ Len(o) = line + 1
    BY <1>1 DEF RoomInv
  <2>2. lines \in Seq(Seq(Byte12))
    BY DEF RoomInv
  <2>3. line \in Nat
    BY <2>1, <2>2
  <2> QED BY <2>1, <2>3
<1>3. PICK e \in Seq(Nat) : e = o[n]
  BY <1>2
<1> DEFINE w == [o EXCEPT ![n] = e \o bytes]
<1>4. e \o bytes \in Seq(Nat) /\ Len(e \o bytes) = Len(e) + Len(bytes)
  BY ConcatProperties
<1>5. out' = w
  BY <1>1, <1>2, <1>3 DEF Put
<1>6. w \in Seq(Seq(Nat)) /\ Len(w) = n /\ w[n] = e \o bytes
  BY <1>2, <1>4
<1> HIDE DEF w
<1>7. PICK c \in Nat : c = cur /\ Len(e) <= 2 * c
  <2>1. cur \in 0..Len(lines[line + 1]) /\ Len(out[line + 1]) <= 2 * cur
    BY DEF RoomInv
  <2>2. cur \in Nat
    BY <2>1
  <2> QED BY <1>1, <1>2, <1>3, <2>1, <2>2
<1>8. PICK a \in Nat : a = Len(e)
  OBVIOUS
<1>9. PICK b \in Nat : b = Len(bytes)
  OBVIOUS
<1>10. cur' = next /\ next \in Nat /\ next <= Len(lines[line + 1])
  BY <1>7 DEF Put
<1>11. Len(out'[line + 1]) <= 2 * next
  <2>1. a + b <= 2 * next
    BY <1>7, <1>8, <1>9, <1>10
  <2> QED BY <1>2, <1>4, <1>5, <1>6, <1>8, <1>9, <2>1
<1>12. written' \in 0..room
  <2>1. PICK k \in Nat : k = Written12
    BY KeptBytes
  <2>2. k + 8 <= room /\ written \in 0..room /\ room \in Nat
    BY <2>1 DEF RoomForCodes, RoomInv
  <2>3. written' = Max({written, k + 4})
    BY <2>1 DEF Put
  <2>4. Max({written, k + 4}) \in {written, k + 4}
    <3>1. \E x \in {written, k + 4} : \A y \in {written, k + 4} : x >= y
      BY <2>2
    <3> QED BY <3>1 DEF Max
  <2> QED BY <2>2, <2>3, <2>4
<1>13. UNCHANGED <<map, lines, room, line, at>> /\ line < Len(lines) /\ line \in 0..Len(lines)
  BY DEF RoomInv
<1>14. MapInv(map) /\ lines \in Seq(Seq(Byte12)) /\ room \in Nat
  BY DEF RoomInv
<1>15. MapInv(map)'
  BY <1>13, <1>14 DEF MapInv, PairsInv, HashInv, HistoInv
<1>16. Len(out') = line + 1 /\ out' \in Seq(Seq(Nat))
  BY <1>2, <1>5, <1>6
<1>17. at' \in {"fast12", "tail12"} /\ cur' \in 0..Len(lines[line + 1])
  BY <1>10, <1>13
<1> QED BY <1>10, <1>11, <1>12, <1>13, <1>14, <1>15, <1>16, <1>17 DEF RoomInv, States12

\* The two codes at the cursor.
LEMMA NextCodes ==
  ASSUME RoomInv, at \in {"fast12", "tail12"}, cur < Len(Text12)
  PROVE  /\ First \in Nat /\ CurAfterFirst \in cur + 1..Len(Text12) /\ CurAfterFirst <= cur + Word
         /\ CurAfterFirst < Len(Text12) =>
              Second \in Nat /\ CurAfterSecond \in CurAfterFirst + 1..Len(Text12)
<1>1. lines \in Seq(Seq(Byte12)) /\ line < Len(lines) /\ line \in 0..Len(lines) /\ MapInv(map)
  BY DEF RoomInv
<1>2. Text12 \in Seq(Byte12)
  <2>1. line + 1 \in 1..Len(lines)
    BY <1>1
  <2> QED BY <1>1, <2>1 DEF Text12
<1>3. cur \in Nat
  <2>1. cur \in 0..Len(lines[line + 1])
    BY DEF RoomInv
  <2> QED BY <2>1
<1>4. PICK text \in Seq(Byte12) : text = Text12
  BY <1>2
<1>5. PICK c \in Nat : c = cur /\ c < Len(text)
  BY <1>3, <1>4
<1>6. PICK sm : sm = map /\ MapInv(sm)
  BY <1>1
<1> DEFINE code(p) == M12!Find(sm, SubSeq(text, p + 1, Min({Len(text), p + Word})))
<1>7. ASSUME NEW p \in Nat, p < Len(text)
      PROVE  /\ code(p) \in Nat
             /\ p + Len(M12!Meaning(sm, code(p))) \in p + 1..Len(text)
             /\ Len(M12!Meaning(sm, code(p))) \in 1..Word
  BY <1>6, <1>7, CodeAhead
<1>8. First = code(c) /\ CurAfterFirst = c + Len(M12!Meaning(sm, code(c)))
  BY <1>4, <1>5, <1>6 DEF First, CurAfterFirst, Rest
<1> HIDE DEF code
<1>9. PICK k : k = Len(M12!Meaning(sm, code(c)))
  OBVIOUS
<1>10. code(c) \in Nat /\ c + k \in c + 1..Len(text) /\ k \in 1..Word
  BY <1>5, <1>7, <1>9
<1>11. CurAfterFirst = c + k /\ CurAfterFirst \in Nat
  BY <1>8, <1>9, <1>10
<1>12. PICK p \in Nat : p = CurAfterFirst
  BY <1>11
<1>13. CurAfterFirst <= cur + Word
  BY <1>5, <1>10, <1>11, DecoderAssumption
<1>14. Second = code(p) /\ CurAfterSecond = p + Len(M12!Meaning(sm, code(p)))
  BY <1>4, <1>6, <1>12 DEF Second, CurAfterSecond, code
<1>15. p < Len(text) => code(p) \in Nat /\ p + Len(M12!Meaning(sm, code(p))) \in p + 1..Len(text)
  BY <1>7
<1> QED BY <1>4, <1>5, <1>8, <1>10, <1>11, <1>12, <1>13, <1>14, <1>15

\* Every step of an encoder keeps it, and those of the decoder leave it alone.
LEMMA RoomStep ==
  ASSUME RoomInv, [Next12]_vars12
  PROVE  RoomInv'
<1>0. /\ MapInv(map) /\ lines \in Seq(Seq(Byte12)) /\ room \in Nat
      /\ line \in 0..Len(lines) /\ out \in Seq(Seq(Nat)) /\ written \in 0..room
      /\ Len(lines) \in Nat
  BY DEF RoomInv
<1>sm. UNCHANGED map => MapInv(map)'
  BY <1>0 DEF MapInv, PairsInv, HashInv, HistoInv
<1>c. UNCHANGED callVars => UNCHANGED <<map, lines, room, useDP>>
  BY DEF callVars
<1>e. UNCHANGED encVars => UNCHANGED <<map, lines, room, useDP, line, cur, out, written>>
  BY DEF encVars, callVars
<1>d. ASSUME UNCHANGED <<callVars, line, out, written>>, at' \in {"pairs", "aligned", "returned12"}
      PROVE  RoomInv'
  BY <1>0, <1>sm, <1>c, <1>d DEF RoomInv, States12
<1>1. CASE StartLine12
  <2>1. /\ at = "line12" /\ line < Len(lines) /\ at' = "fast12" /\ cur' = 0 /\ out' = Append(out, << >>)
        /\ UNCHANGED <<map, lines, room, line, written>>
    BY <1>1, <1>c DEF StartLine12
  <2>2. Len(out) = line
    BY <2>1 DEF RoomInv
  <2>3. << >> \in Seq(Nat)
    OBVIOUS
  <2>4. out' \in Seq(Seq(Nat)) /\ Len(out') = line + 1 /\ out'[line + 1] = << >>
    BY <1>0, <2>1, <2>2, <2>3, AppendProperties
  <2>5. line + 1 \in 1..Len(lines)
    BY <1>0, <2>1
  <2>6. Len(lines[line + 1]) \in Nat /\ Len(out'[line + 1]) = 0
    BY <1>0, <2>4, <2>5
  <2> QED BY <1>0, <1>sm, <2>1, <2>4, <2>6 DEF RoomInv, States12
<1>2. CASE FastPair
  <2>1. /\ at = "fast12" /\ FastLoop /\ Put(Packed(First, Second), CurAfterSecond)
        /\ UNCHANGED <<map, lines, room, line, at>>
    BY <1>2, <1>c DEF FastPair, dvars
  <2>2. cur \in 0..Len(Text12)
    BY <2>1 DEF RoomInv, Text12
  <2>3. PICK n \in Nat : n = Len(Text12)
    <3>1. line + 1 \in 1..Len(lines)
      BY <1>0, <2>1 DEF RoomInv
    <3>2. Text12 \in Seq(Byte12)
      BY <1>0, <3>1 DEF Text12
    <3> QED BY <3>2
  <2>4. cur + 2 * Word <= n /\ RoomForCodes /\ cur \in Nat /\ cur < n
    BY <2>1, <2>2, <2>3, DecoderAssumption DEF FastLoop
  <2>5. /\ First \in Nat /\ CurAfterFirst \in cur + 1..n /\ CurAfterFirst <= cur + Word
        /\ CurAfterFirst < n => Second \in Nat /\ CurAfterSecond \in CurAfterFirst + 1..n
    BY <2>1, <2>3, <2>4, NextCodes
  <2>6. CurAfterFirst < n
    BY <2>4, <2>5, DecoderAssumption
  <2>7. PICK next \in cur + 1..n : next = CurAfterSecond /\ next - cur >= 2
    BY <2>4, <2>5, <2>6
  <2>8. PICK bytes \in Seq(Nat) : bytes = Packed(First, Second) /\ Len(bytes) = 3
    BY <2>5, <2>6, PackedBytes
  <2>9. Len(bytes) <= 2 * (next - cur)
    BY <2>4, <2>7, <2>8
  <2>10. n = Len(lines[line + 1])
    BY <2>3 DEF Text12
  <2> QED BY <2>1, <2>4, <2>7, <2>8, <2>9, <2>10, PutStep
<1>3. CASE EndFast12
  <2>1. at = "fast12" /\ at' = "tail12" /\ UNCHANGED <<map, lines, room, line, cur, out, written>>
    BY <1>3, <1>e DEF EndFast12
  <2> QED BY <1>0, <1>sm, <2>1 DEF RoomInv, States12
<1>4. CASE OutOfMemory
  <2>1. /\ at = "tail12" /\ at' = "encoded" /\ cur < Len(Text12) /\ ~RoomForCodes
        /\ UNCHANGED <<map, lines, room, line, cur, out, written>>
    BY <1>4, <1>e DEF OutOfMemory
  <2>2. ASSUME lines # << >>, room >= 7 + 2 * Len(lines[1]), ~(line > 0) PROVE FALSE
    <3>1. line = 0
      BY <1>0, <2>2
    <3>2. Len(out) = 1 /\ Len(out[1]) <= 2 * cur /\ cur \in 0..Len(lines[1])
      BY <2>1, <3>1 DEF RoomInv
    <3>3. Written12 = Len(out[1]) /\ Written12 \in Nat
      BY <3>2, KeptBytes
    <3>4. cur < Len(lines[1])
      BY <2>1, <3>1 DEF Text12
    <3>5. Len(lines[1]) \in Nat
      <4>1. 1 \in 1..Len(lines)
        BY <1>0, <2>2
      <4> QED BY <1>0, <4>1
    <3>6. ~(Written12 + 8 <= room)
      BY <2>1 DEF RoomForCodes
    <3>7. PICK n \in Nat : n = Len(lines[1])
      BY <3>5
    <3>8. PICK w \in Nat : w = Written12 /\ w <= 2 * cur
      BY <3>2, <3>3
    <3> QED BY <1>0, <2>2, <3>2, <3>4, <3>6, <3>7, <3>8
  <2> QED BY <1>0, <1>sm, <2>1, <2>2 DEF RoomInv, States12
<1>5. CASE TailCodes
  <2>1. /\ at = "tail12" /\ cur < Len(Text12) /\ RoomForCodes
        /\ UNCHANGED <<map, lines, room, line, at>>
    BY <1>5, <1>c DEF TailCodes, dvars
  <2>2. cur \in 0..Len(Text12)
    BY <2>1 DEF RoomInv, Text12
  <2>3. PICK n \in Nat : n = Len(Text12)
    <3>1. line + 1 \in 1..Len(lines)
      BY <1>0, <2>1 DEF RoomInv
    <3>2. Text12 \in Seq(Byte12)
      BY <1>0, <3>1 DEF Text12
    <3> QED BY <3>2
  <2>4. cur \in Nat /\ cur < n
    BY <2>1, <2>2, <2>3
  <2>5. /\ First \in Nat /\ CurAfterFirst \in cur + 1..n
        /\ CurAfterFirst < n => Second \in Nat /\ CurAfterSecond \in CurAfterFirst + 1..n
    BY <2>1, <2>3, <2>4, NextCodes
  <2>6. n = Len(lines[line + 1])
    BY <2>3 DEF Text12
  <2>7. CASE CurAfterFirst >= n
    <3>1. Put(PackedOne(First), CurAfterFirst)
      BY <1>5, <2>3, <2>7 DEF TailCodes
    <3>2. PICK next \in cur + 1..n : next = CurAfterFirst
      BY <2>5
    <3>3. PICK bytes \in Seq(Nat) : bytes = PackedOne(First) /\ Len(bytes) = 2
      BY <2>5, PackedBytes
    <3>4. Len(bytes) <= 2 * (next - cur)
      BY <2>4, <3>2, <3>3
    <3> QED BY <2>1, <2>6, <3>1, <3>2, <3>3, <3>4, PutStep
  <2>8. CASE CurAfterFirst < n
    <3>1. Put(Packed(First, Second), CurAfterSecond)
      <4>1. ~(CurAfterFirst >= n)
        BY <2>5, <2>8
      <4> QED BY <1>5, <2>3, <4>1 DEF TailCodes
    <3>2. PICK next \in cur + 1..n : next = CurAfterSecond /\ next - cur >= 2
      BY <2>4, <2>5, <2>8
    <3>3. PICK bytes \in Seq(Nat) : bytes = Packed(First, Second) /\ Len(bytes) = 3
      BY <2>5, <2>8, PackedBytes
    <3>4. Len(bytes) <= 2 * (next - cur)
      BY <2>4, <3>2, <3>3
    <3> QED BY <2>1, <2>6, <3>1, <3>2, <3>3, <3>4, PutStep
  <2> QED BY <2>4, <2>5, <2>7, <2>8
<1>6. CASE EndLine12
  <2>1. /\ at = "tail12" /\ at' = "line12" /\ line' = line + 1
        /\ UNCHANGED <<map, lines, room, cur, out, written>>
    BY <1>6, <1>c DEF EndLine12
  <2>2. line < Len(lines) /\ Len(out) = line + 1
    BY <2>1 DEF RoomInv
  <2>3. line' \in 0..Len(lines)
    BY <1>0, <2>1, <2>2
  <2> QED BY <1>0, <1>sm, <2>1, <2>2, <2>3 DEF RoomInv, States12
<1>7. CASE Return12
  <2>1. /\ at = "line12" /\ line = Len(lines) /\ at' = "encoded"
        /\ UNCHANGED <<map, lines, room, line, cur, out, written>>
    BY <1>7, <1>e DEF Return12
  <2>2. lines # << >> => line > 0
    BY <1>0, <2>1
  <2> QED BY <1>0, <1>sm, <2>1, <2>2 DEF RoomInv, States12
<1>8. CASE DPLine
  <2>1. at = "line12" /\ line < Len(lines) /\ UNCHANGED <<map, lines, room, cur>> /\ Len(out) = line
    BY <1>8, <1>c DEF DPLine, RoomInv
  <2>2. line + 1 \in 1..Len(lines)
    BY <1>0, <2>1
  <2>3. PICK text \in Seq(Byte12) : text = Text12
    BY <1>0, <2>2 DEF Text12
  <2>4. PICK k \in Nat : k = Written12 /\ (Len(out) = 0 => k = 0)
    BY KeptBytes
  <2>5. CASE 2 * Len(Text12) + 3 > room - Written12
    <3>1. at' = "encoded" /\ UNCHANGED <<line, out, written>>
      BY <1>8, <2>5 DEF DPLine
    <3>2. ASSUME lines # << >>, room >= 7 + 2 * Len(lines[1]), ~(line > 0) PROVE FALSE
      <4>1. line = 0 /\ k = 0
        BY <1>0, <2>1, <2>4, <3>2
      <4>2. text = lines[1]
        BY <2>3, <4>1 DEF Text12
      <4>3. PICK n \in Nat : n = Len(text)
        OBVIOUS
      <4>4. 2 * n + 3 > room - 0
        BY <2>3, <2>4, <2>5, <4>1, <4>3
      <4>5. room >= 7 + 2 * n
        BY <3>2, <4>2, <4>3
      <4> QED BY <1>0, <4>4, <4>5
    <3> QED BY <1>0, <1>sm, <2>1, <3>1, <3>2 DEF RoomInv, States12
  <2>6. CASE ~(2 * Len(Text12) + 3 > room - Written12)
    <3>1. /\ out' = Append(out, DPStream(text)) /\ written' = k + Len(DPStream(text))
          /\ line' = line + 1 /\ at' = at
      BY <1>8, <2>3, <2>4, <2>6 DEF DPLine
    <3>2. PICK stream \in Seq(Nat) : stream = DPStream(text) /\ Len(stream) <= 2 * Len(text)
      BY <1>0, DPStreamPlan
    <3>3. out' \in Seq(Seq(Nat)) /\ Len(out') = line + 1
      BY <1>0, <2>1, <3>1, <3>2, AppendProperties
    <3>4. PICK n \in Nat : n = Len(text)
      OBVIOUS
    <3>5. PICK b \in Nat : b = Len(stream)
      OBVIOUS
    <3>6. ~(2 * n + 3 > room - k)
      BY <2>3, <2>4, <2>6, <3>4
    <3>7. written' = k + b /\ b <= 2 * n
      BY <3>1, <3>2, <3>4, <3>5
    <3>8. written' \in 0..room
      BY <1>0, <3>6, <3>7
    <3>9. line' \in 0..Len(lines)
      BY <2>2, <3>1, <1>0
    <3> QED BY <1>0, <1>sm, <2>1, <3>1, <3>3, <3>8, <3>9 DEF RoomInv, States12
  <2> QED BY <2>5, <2>6
<1>9. CASE Decompress
  <2>1. UNCHANGED <<callVars, line, out, written>> /\ at' = "pairs"
    BY <1>9 DEF Decompress
  <2> QED BY <1>d, <2>1
<1>10. CASE StorePair \/ CopyPair
  <2>1. UNCHANGED encVars /\ at' \in {"pairs", "aligned"}
    BY <1>10 DEF StorePair, CopyPair
  <2> QED BY <1>c, <1>d, <1>e, <2>1 DEF callVars
<1>11. CASE EndPairs \/ Tail12
  <2>1. UNCHANGED encVars /\ at' \in {"aligned", "returned12"}
    BY <1>11, Zenon DEF EndPairs, Tail12
  <2> QED BY <1>c, <1>d, <1>e, <2>1 DEF callVars
<1>12. CASE UNCHANGED vars12
  <2>1. UNCHANGED <<map, lines, room, line, cur, out, written, at>>
    BY <1>12, <1>e DEF vars12, dvars
  <2> QED BY <1>0, <1>sm, <2>1 DEF RoomInv, States12
<1> QED BY <1>1, <1>2, <1>3, <1>4, <1>5, <1>6, <1>7, <1>8, <1>9, <1>10, <1>11, <1>12 DEF Next12

\* For every dictionary of strings of two bytes or more, however they collide
\* in the indexes and also if they are listed past them, all lines and every buffer: neither 12-bit encoder writes behind the end of
\* its buffer, though of each word of four bytes it keeps two or three, and the
\* documented size for one line is enough for the first line (compressBulk,
\* compressBulkDP).
THEOREM EncoderStaysInBuffer12 == Spec12 => []Room12
<1>1. Init12 => RoomInv
  BY RoomInitial
<1>2. RoomInv /\ [Next12]_vars12 => RoomInv'
  BY RoomStep
<1>3. RoomInv => Room12
  <2> SUFFICES ASSUME RoomInv PROVE Room12
    OBVIOUS
  <2>1. written \in 0..room /\ room \in Nat
    BY DEF RoomInv
  <2> QED BY <2>1 DEF RoomInv, Room12
<1> QED BY <1>1, <1>2, <1>3, PTL DEF Spec12

\* The stream costs three bytes for two codes, and no position costs more codes
\* than there are bytes behind it.
LEMMA PlanLength ==
  ASSUME NEW sm, NEW text \in Seq(Byte12), NEW g, NEW code, NEW next, NEW cost,
         MapInv(sm), Plan(sm, text, g, code, next, cost)
  PROVE  \A p \in 1..Len(text) + 1 : /\ cost[p] \in 0..Len(text) + 1 - p
                                     /\ Len(g[p]) = (3 * cost[p] + 1) \div 2
<1> DEFINE Good(p, n) == /\ cost[p] \in 0..n + 1 - p
                         /\ Len(g[p]) = (3 * cost[p] + 1) \div 2
<1>0. PICK n \in Nat : n = Len(text)
  OBVIOUS
<1> DEFINE P == {k \in Nat : \A p \in 1..n + 1 : p + k > n => Good(p, n)}
<1>1. /\ \A p \in 1..n : next[p] \in p + 1..n + 1 /\ code[p] \in Nat
      /\ g[n + 1] = << >> /\ cost[n + 1] = 0
      /\ \A p \in 1..n + 1 : g[p] \in Seq(Nat)
  <2>1. ASSUME NEW p \in 1..n PROVE code[p] \in Nat
    <3>1. code[p] \in 0..255 + Len(sm.symbols)
      BY <1>0 DEF Plan, Stands
    <3>2. PICK k \in Nat : k = Len(sm.symbols)
      BY DEF MapInv
    <3> QED BY <3>1, <3>2
  <2> QED BY <1>0, <2>1 DEF Plan, Parts, Cheap
<1>2. ASSUME NEW p \in 1..n
      PROVE  /\ next[p] > n => g[p] = PackedOne(code[p])
             /\ next[p] <= n => g[p] = Packed(code[p], code[next[p]]) \o g[next[next[p]]]
             /\ cost[p] \in Nat /\ cost[p] = 1 + cost[next[p]] /\ cost[p] <= 1 + cost[p + 1]
  BY <1>0 DEF Plan, Parts, Cheap
<1>3. ASSUME NEW p \in 1..n + 1, p > n PROVE Good(p, n)
  <2>1. p = n + 1 /\ n + 1 - p = 0
    BY <1>3
  <2>2. cost[p] = 0 /\ g[p] = << >> /\ Len(<< >>) = 0 /\ (3 * 0 + 1) \div 2 = 0
    BY <1>1, <2>1
  <2>3. 0 \in 0..n + 1 - p
    BY <2>1
  <2>4. Len(g[p]) = (3 * cost[p] + 1) \div 2
    BY <2>2
  <2> QED BY <2>2, <2>3, <2>4
<1>4. 0 \in P
  <2> HIDE DEF Good
  <2>1. \A p \in 1..n + 1 : p + 0 > n => p > n
    OBVIOUS
  <2> QED BY <1>3, <2>1
<1>5. ASSUME NEW k \in Nat, k \in P PROVE k + 1 \in P
  <2> SUFFICES ASSUME NEW p \in 1..n + 1, p + (k + 1) > n PROVE Good(p, n)
    OBVIOUS
  <2>0. ASSUME NEW z \in p + 1..n + 1 PROVE cost[z] \in 0..n + 1 - z /\ Len(g[z]) = (3 * cost[z] + 1) \div 2
    <3>1. z \in 1..n + 1 /\ z + k > n
      OBVIOUS
    <3> QED BY <1>5, <3>1
  <2>1. CASE p > n
    BY <1>3, <2>1
  <2>2. CASE ~(p > n)
    <3>1. p \in 1..n
      BY <2>2
    <3>2. PICK r \in p + 1..n + 1 : r = next[p]
      BY <1>1, <3>1
    <3>3. PICK c \in Nat : c = cost[p]
      BY <1>2, <3>1
    <3>4. PICK d \in Nat : d = cost[r] /\ c = 1 + d
      <4>1. cost[r] \in 0..n + 1 - r
        BY <2>0
      <4>2. cost[r] \in Nat
        BY <4>1
      <4> QED BY <1>2, <3>1, <3>2, <3>3, <4>2
    <3>5. c \in 0..n + 1 - p
      <4>1. p + 1 \in p + 1..n + 1
        BY <3>1
      <4>2. PICK e : e = cost[p + 1] /\ e \in 0..n + 1 - (p + 1)
        BY <2>0, <4>1
      <4>3. c <= 1 + e
        BY <1>2, <3>1, <3>3, <4>2
      <4> QED BY <3>1, <4>2, <4>3
    <3>6. CASE r > n
      <4>1. r = n + 1
        BY <3>6
      <4>2. d = 0
        BY <1>1, <3>4, <4>1
      <4>3. Len(g[p]) = 2
        <5>1. g[p] = PackedOne(code[p]) /\ code[p] \in Nat
          BY <1>1, <1>2, <3>1, <3>2, <3>6
        <5> QED BY <5>1, PackedBytes
      <4>4. (3 * 1 + 1) \div 2 = 2
        OBVIOUS
      <4>5. c = 1
        BY <3>4, <4>2
      <4> QED BY <3>3, <3>5, <4>3, <4>4, <4>5
    <3>7. CASE ~(r > n)
      <4>1. r \in 1..n
        BY <3>1, <3>7
      <4>2. PICK z \in r + 1..n + 1 : z = next[r]
        BY <1>1, <4>1
      <4>3. z \in p + 1..n + 1 /\ z \in 1..n + 1
        BY <3>1
      <4>4. PICK e \in Nat : e = cost[z] /\ d = 1 + e
        <5>1. cost[z] \in 0..n + 1 - z
          BY <2>0, <4>3
        <5>2. cost[z] \in Nat
          BY <5>1
        <5> QED BY <1>2, <3>4, <4>1, <4>2, <5>2
      <4>5. Len(g[z]) = (3 * e + 1) \div 2
        BY <2>0, <4>3, <4>4
      <4>6. g[p] = Packed(code[p], code[r]) \o g[z]
        <5>1. next[p] <= n
          BY <3>2, <4>1
        <5> QED BY <1>2, <3>1, <3>2, <4>2, <5>1
      <4>7. Len(g[p]) = 3 + Len(g[z])
        <5>1. PICK u \in Seq(Nat) : u = Packed(code[p], code[r]) /\ Len(u) = 3
          BY <1>1, <3>1, <4>1, PackedBytes
        <5>2. PICK w \in Seq(Nat) : w = g[z]
          BY <1>1, <4>3
        <5>3. Len(u \o w) = Len(u) + Len(w)
          OBVIOUS
        <5> QED BY <4>6, <5>1, <5>2, <5>3
      <4>8. 3 + ((3 * e + 1) \div 2) = (3 * (e + 2) + 1) \div 2
        OBVIOUS
      <4>9. c = e + 2
        BY <3>4, <4>4
      <4> QED BY <3>3, <3>5, <4>5, <4>7, <4>8, <4>9
    <3> QED BY <3>6, <3>7
  <2> QED BY <2>1, <2>2
<1>6. Nat \subseteq P
  <2> HIDE DEF P
  <2> QED BY <1>4, <1>5, Induction
<1>7. \A p \in 1..n + 1 : p + n > n
  OBVIOUS
<1> QED BY <1>0, <1>6, <1>7

-----------------------------------------------------------------------------
(* No parse has fewer codes                                                *)

\* where a code at a place of the text may lead, and what n codes reach
EndsAfter(sm, text, p) ==
  {p + Len(s) : s \in {t \in Range(sm.symbols) :
                  M12!StartsWith(SubSeq(text, p + 1, Len(text)), t)}} \cup {p + 1}

Beyond(sm, text, X) == (UNION {EndsAfter(sm, text, p) : p \in X}) \cap (0..Len(text))

LEMMA BeyondIs ==
  ASSUME NEW sm, NEW text, NEW X, NEW e
  PROVE  e \in Beyond(sm, text, X) <=> e \in 0..Len(text) /\ \E p \in X : e \in EndsAfter(sm, text, p)
<1> DEFINE F == {EndsAfter(sm, text, p) : p \in X}
<1>1. e \in Beyond(sm, text, X) <=> e \in UNION F /\ e \in 0..Len(text)
  BY DEF Beyond
<1>2. \A p \in X : EndsAfter(sm, text, p) \in F
  OBVIOUS
<1>3. \A Y \in F : \E p \in X : Y = EndsAfter(sm, text, p)
  OBVIOUS
<1> HIDE DEF F
<1>4. e \in UNION F <=> \E Y \in F : e \in Y
  OBVIOUS
<1> QED BY <1>1, <1>2, <1>3, <1>4

Reaches(reach, sm, text, n) ==
  reach = [k \in 0..n |->
             IF k = 0 THEN {0} ELSE Beyond(sm, text, reach[k - 1])]

\* step by step
ReachUnfolds(reach, sm, text, n) ==
  /\ reach[0] = {0}
  /\ \A k \in 0..n : k + 1 <= n =>
       reach[k + 1] = Beyond(sm, text, reach[k])

LEMMA ReachAt ==
  ASSUME NEW sm, NEW text, NEW n \in Nat, NEW reach, Reaches(reach, sm, text, n)
  PROVE  ReachUnfolds(reach, sm, text, n)
<1> DEFINE h == [k \in 0..n |->
                   IF k = 0 THEN {0} ELSE Beyond(sm, text, reach[k - 1])]
<1>1. reach = h
  BY DEF Reaches
<1>2. h[0] = {0}
  OBVIOUS
<1>3. ASSUME NEW k \in 0..n, k + 1 <= n
      PROVE  h[k + 1] = Beyond(sm, text, reach[k])
  <2>1. k + 1 \in 0..n /\ k + 1 # 0 /\ (k + 1) - 1 = k
    BY <1>3
  <2> QED BY <2>1
<1> HIDE DEF h
<1> QED BY <1>1, <1>2, <1>3 DEF ReachUnfolds

\* The recursion has a solution.
LEMMA ReachExists ==
  ASSUME NEW sm, NEW text
  PROVE  \A n \in Nat : \E reach : Reaches(reach, sm, text, n)
<1> DEFINE P == {n \in Nat : \E reach : Reaches(reach, sm, text, n)}
           Op(X) == Beyond(sm, text, X)
<1>1. 0 \in P
  <2> DEFINE r == [k \in 0..0 |-> {0}]
  <2>1. \A k \in 0..0 : k = 0
    OBVIOUS
  <2>2. r = [k \in 0..0 |-> IF k = 0 THEN {0} ELSE Op(r[k - 1])]
    <3> HIDE DEF Op
    <3> QED BY <2>1
  <2> HIDE DEF r
  <2>3. Reaches(r, sm, text, 0)
    BY <2>2 DEF Reaches
  <2> QED BY <2>3
<1>2. ASSUME NEW n \in Nat, n \in P PROVE n + 1 \in P
  <2>1. PICK r : Reaches(r, sm, text, n)
    BY <1>2
  <2> DEFINE h == [k \in 0..n + 1 |-> IF k = 0 THEN {0} ELSE Op(r[k - 1])]
  <2>2. ASSUME NEW k \in 0..n PROVE h[k] = r[k]
    <3>1. k \in 0..n + 1
      OBVIOUS
    <3>2. h[k] = IF k = 0 THEN {0} ELSE Op(r[k - 1])
      <4> HIDE DEF Op
      <4> QED BY <3>1
    <3> HIDE DEF h
    <3>3. r[0] = {0} /\ \A j \in 0..n : j + 1 <= n => r[j + 1] = Op(r[j])
      <4>1. ReachUnfolds(r, sm, text, n)
        BY <2>1, ReachAt
      <4> QED BY <4>1 DEF ReachUnfolds
    <3>4. k # 0 => k - 1 \in 0..n /\ (k - 1) + 1 = k /\ (k - 1) + 1 <= n
      OBVIOUS
    <3> HIDE DEF Op
    <3> QED BY <3>2, <3>3, <3>4
  <2>3. h = [k \in 0..n + 1 |-> IF k = 0 THEN {0} ELSE Op(h[k - 1])]
    <3>1. h = [k \in 0..n + 1 |-> IF k = 0 THEN {0} ELSE Op(r[k - 1])]
      OBVIOUS
    <3>2. \A k \in 0..n + 1 : k # 0 => k - 1 \in 0..n
      OBVIOUS
    <3> HIDE DEF h, Op
    <3> QED BY <2>2, <3>1, <3>2
  <2> HIDE DEF h
  <2>4. Reaches(h, sm, text, n + 1)
    BY <2>3 DEF Reaches
  <2> QED BY <2>4
<1>3. Nat \subseteq P
  <2> HIDE DEF P
  <2> QED BY <1>1, <1>2, Induction
<1> QED BY <1>3

\* The cost of the first position is that of the shortest parse.
LEMMA PlanFewest ==
  ASSUME NEW sm, NEW text \in Seq(Byte12), NEW g, NEW code, NEW next, NEW cost,
         MapInv(sm), Plan(sm, text, g, code, next, cost),
         NEW reach, Reaches(reach, sm, text, Len(text))
  PROVE  cost[1] = Min({n \in 0..Len(text) : Len(text) \in reach[n]})
<1>0. PICK n \in Nat : n = Len(text)
  OBVIOUS
<1>r. /\ reach[0] = {0}
      /\ \A k \in 0..n : k + 1 <= n =>
           reach[k + 1] = Beyond(sm, text, reach[k])
  <2>1. ReachUnfolds(reach, sm, text, n)
    BY <1>0, ReachAt
  <2> QED BY <1>0, <2>1 DEF ReachUnfolds
<1>c. \A p \in 1..n + 1 : cost[p] \in 0..n + 1 - p
  BY <1>0, PlanLength
<1>s. sm.symbols \in Seq(Strings12)
  BY DEF MapInv
<1>z. cost[n + 1] = 0
  BY <1>0 DEF Plan, Cheap
\* a code at a place costs no more than one and what it leaves
<1>1. ASSUME NEW p \in 0..n, NEW e \in EndsAfter(sm, text, p), e \in 0..n
      PROVE  p + 1 \in 1..n /\ cost[p + 1] <= 1 + cost[e + 1]
  <2> DEFINE rest == SubSeq(text, p + 1, n)
  <2>1. CASE e = p + 1
    <3>1. p + 1 \in 1..n /\ e + 1 = (p + 1) + 1
      BY <1>1, <2>1
    <3> QED BY <1>0, <2>1, <3>1 DEF Plan, Cheap
  <2>2. CASE e # p + 1
    <3>1. PICK s \in Range(sm.symbols) : M12!StartsWith(rest, s) /\ e = p + Len(s)
      BY <1>0, <1>1, <2>2 DEF EndsAfter
    <3>2. PICK i \in 1..Len(sm.symbols) : sm.symbols[i] = s
      BY <1>s, <3>1 DEF Range
    <3>3. i \in M12!Matches(sm, rest)
      BY <3>1, <3>2 DEF M12!Matches
    <3>4. Len(s) \in 2..Word
      BY <1>s, <3>2, Strings12Facts
    <3>5. PICK l \in Nat : l = Len(s) /\ l >= 2
      BY <3>4, DecoderAssumption
    <3>6. p + 1 \in 1..n /\ e + 1 = (p + 1) + l
      BY <1>1, <3>1, <3>5
    <3>7. \A j \in M12!Matches(sm, rest) : cost[p + 1] <= 1 + cost[(p + 1) + Len(sm.symbols[j])]
      BY <1>0, <3>6 DEF Plan, Cheap
    <3> HIDE DEF rest
    <3> QED BY <3>2, <3>3, <3>5, <3>6, <3>7
  <2> QED BY <2>1, <2>2
\* the chosen one leads to such an end
<1>2. ASSUME NEW p \in 0..n, p # n
      PROVE  /\ next[p + 1] - 1 \in EndsAfter(sm, text, p) /\ next[p + 1] - 1 \in p + 1..n
             /\ cost[p + 1] = 1 + cost[next[p + 1]]
  <2>1. p + 1 \in 1..n
    BY <1>2
  <2>2. PICK c : c = code[p + 1]
    OBVIOUS
  <2>3. /\ next[p + 1] \in (p + 1) + 1..n + 1
        /\ next[p + 1] = (p + 1) + Len(M12!Meaning(sm, c))
        /\ Stands(sm, c, SubSeq(text, p + 1, n))
    BY <1>0, <2>1, <2>2 DEF Plan
  <2>4. cost[p + 1] = 1 + cost[next[p + 1]]
    BY <1>0, <2>1 DEF Plan, Cheap
  <2>5. PICK r \in (p + 1) + 1..n + 1 : r = next[p + 1]
    BY <2>3
  <2>6. PICK k \in Nat : k = Len(sm.symbols)
    BY <1>s
  <2>7. c \in 0..255 + k /\ M12!StartsWith(SubSeq(text, p + 1, n), M12!Meaning(sm, c))
        /\ Len(M12!Meaning(sm, c)) \in Nat
    BY <2>3, <2>6, DecoderAssumption DEF Stands
  <2>8. PICK l \in Nat : l = Len(M12!Meaning(sm, c)) /\ r - 1 = p + l
    <3>1. PICK l \in Nat : l = Len(M12!Meaning(sm, c))
      BY <2>7
    <3>2. r = (p + 1) + l
      BY <2>3, <2>5, <3>1
    <3>3. r - 1 = p + l
      BY <3>2
    <3> QED BY <3>1, <3>3
  <2>9. r - 1 \in EndsAfter(sm, text, p)
    <3>1. CASE c < 256
      <4>1. M12!Meaning(sm, c) = <<c>>
        BY <3>1 DEF M12!Meaning, M12!FirstCode
      <4>2. l = 1
        BY <2>8, <4>1
      <4>3. p + l = p + 1
        BY <4>2
      <4> QED BY <2>8, <4>3 DEF EndsAfter
    <3>2. CASE ~(c < 256)
      <4>1. c - 256 + 1 \in 1..k
        BY <2>6, <2>7, <3>2
      <4>2. M12!Meaning(sm, c) = sm.symbols[c - 256 + 1]
        BY <3>2 DEF M12!Meaning, M12!FirstCode
      <4>3. M12!Meaning(sm, c) \in Range(sm.symbols)
        BY <1>s, <2>6, <4>1, <4>2 DEF Range
      <4> QED BY <1>0, <2>7, <2>8, <4>3 DEF EndsAfter
    <3> QED BY <3>1, <3>2
  <2>10. r - 1 \in p + 1..n
    OBVIOUS
  <2> QED BY <2>4, <2>5, <2>9, <2>10
\* what k codes reach costs k less at most
<1> DEFINE A == {k \in Nat : k <= n => \A p \in reach[k] : p \in 0..n /\ cost[1] <= k + cost[p + 1]}
<1>n. \A p \in 0..n : cost[p + 1] \in Nat
  <2> TAKE p \in 0..n
  <2>1. p + 1 \in 1..n + 1
    OBVIOUS
  <2>2. cost[p + 1] \in 0..n + 1 - (p + 1)
    BY <1>c, <2>1
  <2> QED BY <2>2
<1>1c. PICK c1 \in Nat : c1 = cost[1] /\ c1 <= n
  <2>1. 1 \in 1..n + 1 /\ n + 1 - 1 = n
    OBVIOUS
  <2> QED BY <1>c, <2>1
<1>3. 0 \in A
  <2> SUFFICES ASSUME NEW p \in reach[0] PROVE p \in 0..n /\ c1 <= 0 + cost[p + 1]
    BY <1>1c
  <2>1. p = 0
    BY <1>r
  <2>2. 0 \in 0..n /\ 0 + 1 = 1 /\ c1 <= 0 + c1
    OBVIOUS
  <2> QED BY <1>1c, <2>1, <2>2
<1>4. ASSUME NEW k \in Nat, k \in A PROVE k + 1 \in A
  <2> SUFFICES ASSUME k + 1 <= n, NEW e \in reach[k + 1]
               PROVE  e \in 0..n /\ cost[1] <= k + 1 + cost[e + 1]
    OBVIOUS
  <2>1. k \in 0..n /\ k <= n
    OBVIOUS
  <2>2. reach[k + 1] = Beyond(sm, text, reach[k])
    BY <1>r, <2>1
  <2>3. PICK p \in reach[k] : e \in EndsAfter(sm, text, p) /\ e \in 0..n
    <3>1. e \in Beyond(sm, text, reach[k])
      BY <2>2
    <3> QED BY <1>0, <3>1, BeyondIs
  <2>4. p \in 0..n /\ cost[1] <= k + cost[p + 1]
    BY <1>4, <2>1
  <2>5. cost[p + 1] <= 1 + cost[e + 1]
    BY <1>1, <2>3, <2>4
  <2>6. PICK a \in Nat : a = cost[p + 1]
    BY <1>n, <2>4
  <2>7. PICK b \in Nat : b = cost[e + 1]
    BY <1>n, <2>3
  <2>8. c1 <= k + a /\ a <= 1 + b
    BY <1>1c, <2>4, <2>5, <2>6, <2>7
  <2>9. c1 <= k + 1 + b
    BY <2>8
  <2> QED BY <1>1c, <2>3, <2>7, <2>9
<1>5. Nat \subseteq A
  <2> HIDE DEF A
  <2> QED BY <1>3, <1>4, Induction
\* along the choices it costs exactly that
<1> DEFINE B == {k \in Nat : k <= c1 => \E p \in reach[k] : p \in 0..n /\ c1 = k + cost[p + 1]}
<1>6. 0 \in B
  <2>1. 0 \in reach[0] /\ 0 \in 0..n /\ 0 + 1 = 1 /\ c1 = 0 + c1
    BY <1>r
  <2>2. c1 = 0 + cost[0 + 1]
    BY <1>1c, <2>1
  <2> QED BY <2>1, <2>2
<1>7. ASSUME NEW k \in Nat, k \in B PROVE k + 1 \in B
  <2> SUFFICES ASSUME k + 1 <= c1
               PROVE  \E e \in reach[k + 1] : e \in 0..n /\ c1 = (k + 1) + cost[e + 1]
    OBVIOUS
  <2>1. k <= c1 /\ k \in 0..n /\ k + 1 <= n
    BY <1>1c
  <2>2. PICK p \in reach[k] : p \in 0..n /\ c1 = k + cost[p + 1]
    BY <1>7, <2>1
  <2>3. p # n
    <3>1. p = n => cost[p + 1] = 0
      BY <1>z
    <3>2. p = n => c1 = k + 0
      BY <2>2, <3>1
    <3> QED BY <3>2
  <2>4. PICK e \in p + 1..n : /\ e = next[p + 1] - 1 /\ e \in EndsAfter(sm, text, p)
                              /\ cost[p + 1] = 1 + cost[next[p + 1]]
    BY <1>2, <2>2, <2>3
  <2>5. next[p + 1] = e + 1
    <3>1. next[p + 1] \in (p + 1) + 1..n + 1
      <4>1. p + 1 \in 1..n
        BY <2>2, <2>3
      <4> QED BY <1>0, <4>1 DEF Plan
    <3>2. PICK r \in Int : r = next[p + 1]
      BY <2>2, <3>1
    <3> QED BY <2>4, <3>2
  <2>6. e \in 0..n
    BY <2>2
  <2>7. PICK b \in Nat : b = cost[e + 1]
    BY <1>n, <2>6
  <2>8. c1 = k + (1 + b)
    BY <2>2, <2>4, <2>5, <2>7
  <2>9. c1 = (k + 1) + b
    BY <2>8
  <2>10. e \in reach[k + 1]
    <3>1. reach[k + 1] = Beyond(sm, text, reach[k])
      BY <1>r, <2>1
    <3>2. e \in Beyond(sm, text, reach[k])
      BY <1>0, <2>2, <2>4, <2>6, BeyondIs
    <3> QED BY <3>1, <3>2
  <2> QED BY <2>6, <2>7, <2>9, <2>10
<1>8. Nat \subseteq B
  <2> HIDE DEF B
  <2> QED BY <1>6, <1>7, Induction
<1> DEFINE K == {k \in 0..n : n \in reach[k]}
<1>9. c1 \in K
  <2>1. PICK p \in reach[c1] : p \in 0..n /\ c1 = c1 + cost[p + 1]
    BY <1>8
  <2>2. PICK b \in Nat : b = cost[p + 1]
    BY <1>n, <2>1
  <2>3. b = 0
    BY <2>1, <2>2
  <2>4. p = n
    <3> SUFFICES ASSUME p # n PROVE FALSE
      OBVIOUS
    <3>1. /\ next[p + 1] - 1 \in p + 1..n
          /\ cost[p + 1] = 1 + cost[next[p + 1]]
      BY <1>2, <2>1
    <3>2. p + 1 \in 1..n
      BY <2>1
    <3>3. PICK e \in p + 1..n : e = next[p + 1] - 1
      BY <3>1
    <3>4. next[p + 1] \in (p + 1) + 1..n + 1
      BY <1>0, <3>2 DEF Plan
    <3>5. next[p + 1] = e + 1 /\ e \in 0..n
      <4>1. PICK r \in Int : r = next[p + 1]
        BY <2>1, <3>4
      <4> QED BY <2>1, <3>3, <4>1
    <3>6. PICK d \in Nat : d = cost[e + 1]
      BY <1>n, <3>5
    <3>7. b = 1 + d
      BY <2>2, <3>1, <3>5, <3>6
    <3> QED BY <2>3, <3>7
  <2>5. c1 \in 0..n
    BY <1>1c
  <2> QED BY <2>1, <2>4, <2>5
<1>10. ASSUME NEW k \in K PROVE c1 <= k
  <2>1. k \in Nat /\ k <= n /\ n \in reach[k]
    OBVIOUS
  <2>2. c1 <= k + cost[n + 1]
    BY <1>1c, <1>5, <2>1
  <2> QED BY <1>z, <2>1, <2>2
<1>11. Min(K) = c1
  <2>1. K \in SUBSET Int
    OBVIOUS
  <2> HIDE DEF K
  <2> QED BY <1>9, <1>10, <2>1, MinIs
<1> QED BY <1>0, <1>1c, <1>11

\* So the stream of a line as a whole has as few codes as any parse needs.
LEMMA DPStreamFewest ==
  ASSUME MapInv(map), NEW text \in Seq(Byte12)
  PROVE  Len(DPStream(text)) = (3 * FewestCodes(text) + 1) \div 2
<1>1. PICK sm : sm = map
  OBVIOUS
<1>2. PICK g, code, next, cost : Plan(sm, text, g, code, next, cost) /\ g[1] = DPStream(text)
  BY <1>1, DPStreamPlan
<1>3. 1 \in 1..Len(text) + 1
  OBVIOUS
<1>4. Len(g[1]) = (3 * cost[1] + 1) \div 2
  BY <1>1, <1>2, <1>3, PlanLength
<1> DEFINE R == CHOOSE reach : reach = [k \in 0..Len(text) |->
                  IF k = 0 THEN {0} ELSE Beyond(sm, text, reach[k - 1])]
<1>5. FewestCodes(text) = Min({n \in 0..Len(text) : Len(text) \in R[n]})
  BY <1>1 DEF FewestCodes, EndsAfter, Beyond
<1>6. \E reach : Reaches(reach, sm, text, Len(text))
  <2>1. Len(text) \in Nat
    OBVIOUS
  <2> QED BY <2>1, ReachExists
<1>7. Reaches(R, sm, text, Len(text))
  BY <1>6 DEF Reaches
<1> HIDE DEF R
<1>8. PICK reach : reach = R
  OBVIOUS
<1>9. cost[1] = Min({n \in 0..Len(text) : Len(text) \in reach[n]})
  BY <1>1, <1>2, <1>7, <1>8, PlanFewest
<1> QED BY <1>2, <1>4, <1>5, <1>8, <1>9

-----------------------------------------------------------------------------
(* What the bytes of a line stand for                                      *)

\* the codes of 12 bits
Codes12 == 0..4095

\* Out of three bytes come the codes that were packed.
LEMMA UnpackedCodes ==
  ASSUME NEW a \in Codes12, NEW b \in Codes12
  PROVE  Unpacked(Packed(a, b)) = <<a, b>>
<1> DEFINE word == (a % 256) + 256 * (a \div 256 + 16 * (b % 16)) + 65536 * (b \div 16)
<1>0. a \in 0..4095 /\ b \in 0..4095
  BY DEF Codes12
<1>1. word = a + 4096 * b
  BY <1>0
<1>2. (a + 4096 * b) % 4096 = a /\ (a + 4096 * b) \div 4096 = b
  BY <1>0
<1>3. Unpacked(Packed(a, b)) = <<word % 4096, word \div 4096>>
  BY DEF Unpacked, Packed
<1> HIDE DEF word
<1> QED BY <1>1, <1>2, <1>3

\* the code out of two bytes
LastUnpacked(x, y) == (x + 256 * y) % 4096

\* Out of two bytes comes the code.
LEMMA UnpackedOne ==
  ASSUME NEW a \in Codes12, NEW x, NEW y, x = PackedOne(a)[1], y = PackedOne(a)[2]
  PROVE  LastUnpacked(x, y) = a
<1>0. a \in 0..4095
  BY DEF Codes12
<1>1. x = a % 256 /\ y = a \div 256
  BY DEF PackedOne
<1>2. (a % 256) + 256 * (a \div 256) = a /\ a % 4096 = a
  BY <1>0
<1>3. x + 256 * y = a
  BY <1>1, <1>2
<1> QED BY <1>2, <1>3 DEF LastUnpacked

\* Bytes and more bytes.
LEMMA Joined ==
  ASSUME NEW E, NEW u \in Seq(E), NEW w \in Seq(E), NEW v \in Nat, NEW n \in Nat, v = Len(u), n = Len(w)
  PROVE  /\ u \o w \in Seq(E) /\ Len(u \o w) = v + n
         /\ \A k \in 1..v : (u \o w)[k] = u[k]
         /\ \A k \in 1..n : (u \o w)[v + k] = w[k]
<1>1. u \o w \in Seq(E) /\ Len(u \o w) = v + n /\ \A k \in 1..v : (u \o w)[k] = u[k]
  BY ConcatProperties
<1>2. ASSUME NEW k \in 1..n PROVE (u \o w)[v + k] = w[k]
  <2>1. v + k \in 1..v + n /\ v + k > v /\ (v + k) - v = k
    OBVIOUS
  <2> QED BY <2>1
<1> QED BY <1>1, <1>2

\* the last code of a line, two codes of it
LastFits(sm, text, bytes, i, p, to) ==
  \E a : /\ Fits(sm, text, p, a, to) /\ to = Len(text)
         /\ i + 2 = Len(bytes) /\ \A k \in 1..2 : bytes[i + k] = PackedOne(a)[k]

PairFits(sm, text, bytes, i, p, q) ==
  \E a, b, r : /\ Fits(sm, text, p, a, r) /\ Fits(sm, text, r, b, q)
               /\ i + 3 <= Len(bytes) /\ \A k \in 1..3 : bytes[i + k] = Packed(a, b)[k]

\* The bytes stand for the text up to a place: S has the places of the bytes
\* where codes start, with those of the text.
CodedBy(sm, text, bytes, S, to) ==
  /\ S \subseteq Nat \X Nat /\ <<0, 0>> \in S
  /\ \A i, p \in Nat : <<i, p>> \in S =>
       \/ i = Len(bytes) /\ p = to
       \/ LastFits(sm, text, bytes, i, p, to)
       \/ \E q \in Nat : <<i + 3, q>> \in S /\ PairFits(sm, text, bytes, i, p, q)

\* No bytes stand for nothing.
LEMMA CodedStart ==
  ASSUME NEW sm, NEW text
  PROVE  CodedBy(sm, text, << >>, {<<0, 0>>}, 0)
<1>1. Len(<< >>) = 0
  OBVIOUS
<1>2. \A i, p \in Nat : <<i, p>> \in {<<0, 0>>} => i = 0 /\ p = 0
  OBVIOUS
<1> QED BY <1>1, <1>2 DEF CodedBy

\* Two codes are kept when bytes are appended.
LEMMA PairKept ==
  ASSUME NEW sm, NEW text, NEW bytes \in Seq(Nat), NEW more \in Seq(Nat),
         NEW i \in Nat, NEW p, NEW q, PairFits(sm, text, bytes, i, p, q)
  PROVE  PairFits(sm, text, bytes \o more, i, p, q)
<1>1. PICK a, b, r : /\ Fits(sm, text, p, a, r) /\ Fits(sm, text, r, b, q)
                     /\ i + 3 <= Len(bytes) /\ \A k \in 1..3 : bytes[i + k] = Packed(a, b)[k]
  BY DEF PairFits
<1>2. PICK n \in Nat : n = Len(bytes)
  OBVIOUS
<1>3. PICK l \in Nat : l = Len(more)
  OBVIOUS
<1>a. PICK all : all = bytes \o more
  OBVIOUS
<1>4. Len(all) = n + l /\ \A j \in 1..n : all[j] = bytes[j]
  BY <1>2, <1>3, <1>a, Joined
<1>5. i + 3 <= n + l /\ \A k \in 1..3 : i + k \in 1..n
  BY <1>1, <1>2
<1>6. i + 3 <= Len(all) /\ \A k \in 1..3 : all[i + k] = Packed(a, b)[k]
  BY <1>1, <1>4, <1>5
<1>7. PairFits(sm, text, all, i, p, q)
  BY <1>1, <1>6 DEF PairFits
<1> QED BY <1>a, <1>7

\* Two more codes.
LEMMA CodedPair ==
  ASSUME NEW sm, NEW text \in Seq(Byte12), NEW bytes \in Seq(Nat), NEW S, NEW to \in Nat,
         CodedBy(sm, text, bytes, S, to), to < Len(text),
         NEW a \in Nat, NEW b \in Nat, NEW r, NEW q \in Nat,
         Fits(sm, text, to, a, r), Fits(sm, text, r, b, q)
  PROVE  \E T : CodedBy(sm, text, bytes \o Packed(a, b), T, q)
<1>1. PICK two \in Seq(Nat) : two = Packed(a, b) /\ Len(two) = 3
  BY PackedBytes
<1>2. PICK n \in Nat : n = Len(bytes)
  OBVIOUS
<1> DEFINE all == bytes \o two
           T == S \cup {<<n + 3, q>>}
<1>3. /\ all \in Seq(Nat) /\ Len(all) = n + 3
      /\ \A j \in 1..n : all[j] = bytes[j]
      /\ \A k \in 1..3 : all[n + k] = two[k]
  <2>1. PICK l \in Nat : l = Len(two)
    OBVIOUS
  <2>2. /\ all \in Seq(Nat) /\ Len(all) = n + l
        /\ \A j \in 1..n : all[j] = bytes[j]
        /\ \A k \in 1..l : all[n + k] = two[k]
    <3>1. all \in Seq(Nat)
      OBVIOUS
    <3>2. Len(all) = n + l
      BY <1>2, <2>1, Joined
    <3>3. \A j \in 1..n : all[j] = bytes[j]
      BY <1>2, <2>1, Joined
    <3>4. \A k \in 1..l : all[n + k] = two[k]
      BY <1>2, <2>1, Joined
    <3> HIDE DEF all
    <3> QED BY <3>1, <3>2, <3>3, <3>4
  <2> HIDE DEF all
  <2>3. l = 3
    BY <1>1, <2>1
  <2> QED BY <2>2, <2>3
<1>4. PairFits(sm, text, all, n, to, q)
  <2> HIDE DEF all
  <2>1. n + 3 <= Len(all) /\ \A k \in 1..3 : all[n + k] = Packed(a, b)[k]
    BY <1>1, <1>3
  <2> QED BY <2>1 DEF PairFits
<1>5. T \subseteq Nat \X Nat /\ <<0, 0>> \in T
  BY DEF CodedBy
<1>6. ASSUME NEW i \in Nat, NEW p \in Nat, <<i, p>> \in T
      PROVE  \/ i = Len(all) /\ p = q
             \/ \E z \in Nat : <<i + 3, z>> \in T /\ PairFits(sm, text, all, i, p, z)
  <2>1. CASE <<i, p>> = <<n + 3, q>>
    BY <1>3, <2>1
  <2>2. CASE <<i, p>> \in S
    <3>1. \/ i = n /\ p = to
          \/ LastFits(sm, text, bytes, i, p, to)
          \/ \E z \in Nat : <<i + 3, z>> \in S /\ PairFits(sm, text, bytes, i, p, z)
      BY <1>2, <2>2 DEF CodedBy
    <3>2. CASE i = n /\ p = to
      <4>1. <<i + 3, q>> \in T /\ PairFits(sm, text, all, i, p, q)
        <5> HIDE DEF all
        <5> QED BY <1>4, <3>2
      <4> QED BY <4>1
    <3>3. CASE LastFits(sm, text, bytes, i, p, to)
      <4>1. to = Len(text)
        BY <3>3 DEF LastFits
      <4> QED BY <4>1
    <3>4. CASE \E z \in Nat : <<i + 3, z>> \in S /\ PairFits(sm, text, bytes, i, p, z)
      <4>1. PICK z \in Nat : <<i + 3, z>> \in S /\ PairFits(sm, text, bytes, i, p, z)
        BY <3>4
      <4>2. PairFits(sm, text, all, i, p, z)
        BY <1>1, <4>1, PairKept
      <4>3. <<i + 3, z>> \in T
        BY <4>1
      <4> HIDE DEF all, T
      <4> QED BY <4>2, <4>3
    <3> QED BY <3>1, <3>2, <3>3, <3>4
  <2> QED BY <1>6, <2>1, <2>2
<1> HIDE DEF all, T
<1>7. CodedBy(sm, text, all, T, q)
  BY <1>5, <1>6 DEF CodedBy
<1> QED BY <1>1, <1>7 DEF all

\* One more, which is the last one.
LEMMA CodedLast ==
  ASSUME NEW sm, NEW text \in Seq(Byte12), NEW bytes \in Seq(Nat), NEW S, NEW to \in Nat,
         CodedBy(sm, text, bytes, S, to), to < Len(text),
         NEW a \in Nat, NEW q, Fits(sm, text, to, a, q), q = Len(text)
  PROVE  \E T : CodedBy(sm, text, bytes \o PackedOne(a), T, q)
<1>1. PICK one \in Seq(Nat) : one = PackedOne(a) /\ Len(one) = 2
  BY PackedBytes
<1>2. PICK n \in Nat : n = Len(bytes)
  OBVIOUS
<1> DEFINE all == bytes \o one
<1>3. /\ all \in Seq(Nat) /\ Len(all) = n + 2
      /\ \A k \in 1..2 : all[n + k] = one[k]
  <2>1. PICK l \in Nat : l = Len(one)
    OBVIOUS
  <2>2. /\ all \in Seq(Nat) /\ Len(all) = n + l
        /\ \A k \in 1..l : all[n + k] = one[k]
    <3>1. all \in Seq(Nat)
      OBVIOUS
    <3>2. Len(all) = n + l
      BY <1>2, <2>1, Joined
    <3>3. \A k \in 1..l : all[n + k] = one[k]
      BY <1>2, <2>1, Joined
    <3> HIDE DEF all
    <3> QED BY <3>1, <3>2, <3>3
  <2> HIDE DEF all
  <2>3. l = 2
    BY <1>1, <2>1
  <2> QED BY <2>2, <2>3
<1>4. LastFits(sm, text, all, n, to, q)
  <2> HIDE DEF all
  <2>1. n + 2 = Len(all) /\ \A k \in 1..2 : all[n + k] = PackedOne(a)[k]
    BY <1>1, <1>3
  <2> QED BY <2>1 DEF LastFits
<1>5. S \subseteq Nat \X Nat /\ <<0, 0>> \in S
  BY DEF CodedBy
<1>6. ASSUME NEW i \in Nat, NEW p \in Nat, <<i, p>> \in S
      PROVE  \/ LastFits(sm, text, all, i, p, q)
             \/ \E z \in Nat : <<i + 3, z>> \in S /\ PairFits(sm, text, all, i, p, z)
  <2>1. \/ i = n /\ p = to
        \/ LastFits(sm, text, bytes, i, p, to)
        \/ \E z \in Nat : <<i + 3, z>> \in S /\ PairFits(sm, text, bytes, i, p, z)
    BY <1>2, <1>6 DEF CodedBy
  <2>2. CASE i = n /\ p = to
    <3> HIDE DEF all
    <3> QED BY <1>4, <2>2
  <2>3. CASE LastFits(sm, text, bytes, i, p, to)
    <3>1. to = Len(text)
      BY <2>3 DEF LastFits
    <3> QED BY <3>1
  <2>4. CASE \E z \in Nat : <<i + 3, z>> \in S /\ PairFits(sm, text, bytes, i, p, z)
    <3>1. PICK z \in Nat : <<i + 3, z>> \in S /\ PairFits(sm, text, bytes, i, p, z)
      BY <2>4
    <3>2. PairFits(sm, text, all, i, p, z)
      BY <1>1, <3>1, PairKept
    <3> HIDE DEF all
    <3> QED BY <3>1, <3>2
  <2> QED BY <2>1, <2>2, <2>3, <2>4
<1> HIDE DEF all
<1>7. CodedBy(sm, text, all, S, q)
  BY <1>5, <1>6 DEF CodedBy
<1> QED BY <1>1, <1>7 DEF all

\* t is what s ends with, from place i on.
EndsWith(s, i, t) ==
  i + Len(t) = Len(s) /\ \A j \in 1..Len(t) : s[i + j] = t[j]

\* An end starts with something, and ends with the rest.
LEMMA EndOfEnd ==
  ASSUME NEW s \in Seq(Nat), NEW i \in Nat, NEW u \in Seq(Nat), NEW w \in Seq(Nat), EndsWith(s, i, u \o w)
  PROVE  /\ EndsWith(s, i + Len(u), w)
         /\ i + Len(u) <= Len(s)
         /\ \A k \in 1..Len(u) : s[i + k] = u[k]
<1>1. PICK v \in Nat : v = Len(u)
  OBVIOUS
<1>2. PICK n \in Nat : n = Len(w)
  OBVIOUS
<1>n. PICK l \in Nat : l = Len(s)
  OBVIOUS
<1> DEFINE t == u \o w
<1>3. /\ Len(t) = v + n /\ \A k \in 1..v : t[k] = u[k]
      /\ \A k \in 1..n : t[v + k] = w[k]
  BY <1>1, <1>2, Joined
<1>4. i + (v + n) = l /\ \A j \in 1..v + n : s[i + j] = t[j]
  BY <1>3, <1>n DEF EndsWith
<1> HIDE DEF t
<1>5. ASSUME NEW k \in 1..v PROVE s[i + k] = u[k]
  <2>1. k \in 1..v + n
    OBVIOUS
  <2>2. s[i + k] = t[k] /\ t[k] = u[k]
    BY <1>3, <1>4, <2>1
  <2> QED BY <2>2
<1>6. ASSUME NEW k \in 1..n PROVE s[(i + v) + k] = w[k]
  <2>1. v + k \in 1..v + n /\ i + (v + k) = (i + v) + k
    OBVIOUS
  <2> QED BY <1>3, <1>4, <2>1
<1>7. (i + v) + n = l /\ i + v <= l
  BY <1>4
<1> QED BY <1>1, <1>2, <1>5, <1>6, <1>7, <1>n DEF EndsWith

\* The stream of a plan.
LEMMA PlanCoded ==
  ASSUME NEW sm, NEW text \in Seq(Byte12), NEW g, NEW code, NEW next, NEW cost,
         MapInv(sm), Plan(sm, text, g, code, next, cost)
  PROVE  \E S : CodedBy(sm, text, g[1], S, Len(text))
<1>0. PICK n \in Nat : n = Len(text)
  OBVIOUS
<1>1. \A p \in 1..n + 1 : g[p] \in Seq(Nat)
  BY <1>0 DEF Plan, Parts
<1>2. PICK bytes \in Seq(Nat) : bytes = g[1]
  <2>1. 1 \in 1..n + 1
    OBVIOUS
  <2> QED BY <1>1, <2>1
<1> DEFINE S == {x \in Nat \X (0..n) : EndsWith(bytes, x[1], g[x[2] + 1])}
<1>3. \A i \in Nat, p \in 0..n : <<i, p>> \in S <=> EndsWith(bytes, i, g[p + 1])
  OBVIOUS
<1>4. S \subseteq Nat \X Nat /\ \A i, p : <<i, p>> \in S => i \in Nat /\ p \in 0..n
  OBVIOUS
<1> HIDE DEF S
<1>5. <<0, 0>> \in S
  <2>1. EndsWith(bytes, 0, bytes)
    BY DEF EndsWith
  <2>2. 0 \in 0..n /\ 0 + 1 = 1
    OBVIOUS
  <2> QED BY <1>2, <1>3, <2>1, <2>2
<1>6. ASSUME NEW p \in 1..n
      PROVE  /\ code[p] \in Nat /\ next[p] \in p + 1..n + 1
             /\ Fits(sm, text, p - 1, code[p], next[p] - 1)
             /\ next[p] > n => g[p] = PackedOne(code[p])
             /\ next[p] <= n => g[p] = Packed(code[p], code[next[p]]) \o g[next[next[p]]]
  <2>1. /\ next[p] \in p + 1..n + 1
        /\ Fits(sm, text, p - 1, code[p], next[p] - 1)
        /\ next[p] > n => g[p] = PackedOne(code[p])
        /\ next[p] <= n => g[p] = Packed(code[p], code[next[p]]) \o g[next[next[p]]]
    BY <1>0 DEF Plan, Parts
  <2>2. PICK k \in Nat : k = Len(sm.symbols)
    BY DEF MapInv
  <2>3. code[p] \in Nat
    BY <2>1, <2>2 DEF Fits
  <2> QED BY <2>1, <2>3
<1>7. ASSUME NEW i \in Nat, NEW x \in Nat, <<i, x>> \in S
      PROVE  \/ i = Len(bytes) /\ x = n
             \/ LastFits(sm, text, bytes, i, x, n)
             \/ \E q \in Nat : <<i + 3, q>> \in S /\ PairFits(sm, text, bytes, i, x, q)
  <2>1. x \in 0..n /\ EndsWith(bytes, i, g[x + 1])
    BY <1>3, <1>4, <1>7
  <2>2. CASE x = n
    <3>1. g[n + 1] = << >> /\ Len(<< >>) = 0
      BY <1>0 DEF Plan, Parts
    <3>2. i + 0 = Len(bytes)
      BY <2>1, <2>2, <3>1 DEF EndsWith
    <3> QED BY <2>2, <3>2
  <2>3. CASE x # n
    <3>1. PICK p \in 1..n : p = x + 1 /\ p - 1 = x
      BY <2>1, <2>3
    <3>2. PICK r \in p + 1..n + 1 : r = next[p]
      BY <1>6
    <3>3. PICK a \in Nat : a = code[p] /\ Fits(sm, text, x, a, r - 1)
      BY <1>6, <3>1, <3>2
    <3>4. CASE r > n
      <4>1. r - 1 = n
        BY <3>4
      <4>2. PICK one \in Seq(Nat) : one = PackedOne(a) /\ Len(one) = 2
        BY PackedBytes
      <4>3. g[p] = one
        BY <1>6, <3>2, <3>3, <3>4, <4>2
      <4>4. i + 2 = Len(bytes) /\ \A k \in 1..2 : bytes[i + k] = one[k]
        BY <2>1, <3>1, <4>2, <4>3 DEF EndsWith
      <4>5. Fits(sm, text, x, a, n)
        BY <3>3, <4>1
      <4> QED BY <1>0, <4>2, <4>4, <4>5 DEF LastFits
    <3>5. CASE ~(r > n)
      <4>1. r \in 1..n /\ r <= n
        BY <3>5
      <4>2. PICK z \in r + 1..n + 1 : z = next[r]
        BY <1>6, <4>1
      <4>3. PICK b \in Nat : b = code[r] /\ Fits(sm, text, r - 1, b, z - 1)
        BY <1>6, <4>1, <4>2
      <4>4. PICK two \in Seq(Nat) : two = Packed(a, b) /\ Len(two) = 3
        BY PackedBytes
      <4>5. PICK w \in Seq(Nat) : w = g[z]
        BY <1>1
      <4>6. g[p] = two \o w
        BY <1>6, <3>2, <3>3, <4>1, <4>2, <4>3, <4>4, <4>5
      <4>7. EndsWith(bytes, i, two \o w)
        BY <2>1, <3>1, <4>6
      <4>8. /\ EndsWith(bytes, i + 3, w) /\ i + 3 <= Len(bytes)
            /\ \A k \in 1..3 : bytes[i + k] = two[k]
        <5>1. /\ EndsWith(bytes, i + Len(two), w)
              /\ i + Len(two) <= Len(bytes)
              /\ \A k \in 1..Len(two) : bytes[i + k] = two[k]
          <6>1. EndsWith(bytes, i + Len(two), w)
            BY <4>7, EndOfEnd
          <6>2. i + Len(two) <= Len(bytes)
            BY <4>7, EndOfEnd
          <6>3. \A k \in 1..Len(two) : bytes[i + k] = two[k]
            BY <4>7, EndOfEnd
          <6> QED BY <6>1, <6>2, <6>3
        <5> QED BY <4>4, <5>1
      <4>9. PairFits(sm, text, bytes, i, x, z - 1)
        BY <3>3, <4>3, <4>4, <4>8 DEF PairFits
      <4>10. z - 1 \in 0..n /\ (z - 1) + 1 = z /\ i + 3 \in Nat /\ z - 1 \in Nat
        OBVIOUS
      <4>11. <<i + 3, z - 1>> \in S
        BY <1>3, <4>5, <4>8, <4>10
      <4> QED BY <4>9, <4>10, <4>11
    <3> QED BY <3>4, <3>5
  <2> QED BY <2>2, <2>3
<1>8. CodedBy(sm, text, bytes, S, n)
  BY <1>4, <1>5, <1>7 DEF CodedBy
<1> QED BY <1>0, <1>2, <1>8

\* What comes next in bytes that stand for a whole text.
LEMMA CodedNext ==
  ASSUME NEW sm, NEW text \in Seq(Byte12), NEW bytes \in Seq(Nat), NEW S,
         CodedBy(sm, text, bytes, S, Len(text)), NEW i \in Nat, NEW p \in Nat, <<i, p>> \in S
  PROVE  /\ i + 4 < Len(bytes) => \E q \in Nat : <<i + 3, q>> \in S /\ PairFits(sm, text, bytes, i, p, q)
         /\ i + 4 >= Len(bytes) =>
              \/ Len(bytes) - i = 0 /\ p = Len(text)
              \/ Len(bytes) - i = 2 /\ LastFits(sm, text, bytes, i, p, Len(text))
              \/ Len(bytes) - i = 3 /\ PairFits(sm, text, bytes, i, p, Len(text))
<1>0. PICK n \in Nat : n = Len(bytes)
  OBVIOUS
<1>t. PICK to \in Nat : to = Len(text)
  OBVIOUS
<1>1. ASSUME NEW j \in Nat, NEW x \in Nat, <<j, x>> \in S
      PROVE  \/ j = n /\ x = to
             \/ LastFits(sm, text, bytes, j, x, to) /\ j + 2 = n
             \/ \E q \in Nat : <<j + 3, q>> \in S /\ PairFits(sm, text, bytes, j, x, q) /\ j + 3 <= n
  <2>1. \/ j = n /\ x = to
        \/ LastFits(sm, text, bytes, j, x, to)
        \/ \E q \in Nat : <<j + 3, q>> \in S /\ PairFits(sm, text, bytes, j, x, q)
    BY <1>0, <1>t, <1>1 DEF CodedBy
  <2>2. LastFits(sm, text, bytes, j, x, to) => j + 2 = n
    BY <1>0 DEF LastFits
  <2>3. \A q : PairFits(sm, text, bytes, j, x, q) => j + 3 <= n
    BY <1>0 DEF PairFits
  <2> QED BY <2>1, <2>2, <2>3
<1>2. CASE i = n /\ p = to
  BY <1>0, <1>2, <1>t
<1>3. CASE LastFits(sm, text, bytes, i, p, to) /\ i + 2 = n
  <2>1. ~(i + 4 < n) /\ n - i = 2
    BY <1>3
  <2> QED BY <1>0, <1>3, <1>t, <2>1
<1>4. CASE \E q \in Nat : <<i + 3, q>> \in S /\ PairFits(sm, text, bytes, i, p, q) /\ i + 3 <= n
  <2>1. PICK q \in Nat : <<i + 3, q>> \in S /\ PairFits(sm, text, bytes, i, p, q) /\ i + 3 <= n
    BY <1>4
  <2>2. CASE i + 4 < n
    <3>1. ~(i + 4 >= n)
      BY <2>2
    <3> QED BY <1>0, <2>1, <2>2, <3>1
  <2>3. CASE ~(i + 4 < n)
    <3>1. i + 3 \in Nat /\ n <= i + 4
      BY <2>3
    <3>2. \/ i + 3 = n /\ q = to
          \/ (i + 3) + 2 = n
          \/ (i + 3) + 3 <= n
      BY <1>1, <2>1, <3>1
    <3>3. i + 3 = n /\ q = to /\ n - i = 3
      BY <3>1, <3>2
    <3> QED BY <1>0, <1>t, <2>1, <2>3, <3>3
  <2> QED BY <2>2, <2>3
<1>5. \/ i = n /\ p = to
      \/ LastFits(sm, text, bytes, i, p, to) /\ i + 2 = n
      \/ \E q \in Nat : <<i + 3, q>> \in S /\ PairFits(sm, text, bytes, i, p, q) /\ i + 3 <= n
  BY <1>1
<1> QED BY <1>2, <1>3, <1>4, <1>5

-----------------------------------------------------------------------------
(* The dictionary of the decoder                                           *)

\* The lengths of the histogram, added from the left, are its sum.
LEMMA CountIsSum ==
  ASSUME NEW h \in [1..Word -> Nat]
  PROVE  M12!CountOf(h) = SumFunctionOnSet(h, 1..Word)
<1> DEFINE D == 1..Word
           Op(n, l) == n + l
           G == CHOOSE g : g = [S \in SUBSET D |-> IF S = {} THEN 0
                                                   ELSE Op(g[S \ {Max(S)}], h[Max(S)])]
           sum == [S \in SUBSET D |-> SumFunctionOnSet(h, S)]
<1>0. Word \in Nat /\ DOMAIN h = D /\ IsFiniteSet(D)
  BY DecoderAssumption, WordIndexes
<1>1. M12!CountOf(h) = G[D]
  BY <1>0 DEF M12!CountOf, M12!FoldLeft, M12!MapThenFoldSet, M12!Max, Max
<1>2. ASSUME NEW S \in SUBSET D
      PROVE  SumFunctionOnSet(h, S) = IF S = {} THEN 0
                                      ELSE SumFunctionOnSet(h, S \ {Max(S)}) + h[Max(S)]
  <2>1. CASE S = {}
    BY <2>1, SumEmpty
  <2>2. CASE S # {}
    <3>1. \A y \in 1..Word : h[y] \in Int
      OBVIOUS
    <3>2. SumFunctionOnSet(h, S) = SumFunctionOnSet(h, S \ {Max(S)}) + h[Max(S)]
      BY <1>0, <2>2, <3>1, SumAtGreatest
    <3> QED BY <2>2, <3>2
  <2> QED BY <2>1, <2>2
<1>3. sum = [S \in SUBSET D |-> IF S = {} THEN 0 ELSE Op(sum[S \ {Max(S)}], h[Max(S)])]
  <2>1. \A S \in SUBSET D : sum[S] = SumFunctionOnSet(h, S) /\ sum[S \ {Max(S)}] = SumFunctionOnSet(h, S \ {Max(S)})
    OBVIOUS
  <2>2. sum = [S \in SUBSET D |-> SumFunctionOnSet(h, S)]
    OBVIOUS
  <2> HIDE DEF sum, D
  <2> QED BY <1>2, <2>1, <2>2
<1>4. G = [S \in SUBSET D |-> IF S = {} THEN 0 ELSE Op(G[S \ {Max(S)}], h[Max(S)])]
  <2> HIDE DEF sum, Op, D
  <2> QED BY <1>3, ZenonT(30)
<1> HIDE DEF G
<1>5. \A S \in SUBSET D : G[S] = IF S = {} THEN 0 ELSE Op(G[S \ {Max(S)}], h[Max(S)])
  <2> DEFINE f == [S \in SUBSET D |-> IF S = {} THEN 0 ELSE Op(G[S \ {Max(S)}], h[Max(S)])]
  <2>1. \A S \in SUBSET D : f[S] = IF S = {} THEN 0 ELSE Op(G[S \ {Max(S)}], h[Max(S)])
    <3> HIDE DEF Op, D
    <3> QED OBVIOUS
  <2>2. G = f
    BY <1>4
  <2> HIDE DEF f
  <2> QED BY <2>1, <2>2
<1> DEFINE P == {S \in SUBSET D : G[S] = SumFunctionOnSet(h, S)}
<1>6. {} \in P
  <2>1. {} \in SUBSET D
    OBVIOUS
  <2> QED BY <1>2, <1>5, <2>1
<1>7. ASSUME NEW T \in SUBSET (1..Word), T # {}, T \ {Max(T)} \in P PROVE T \in P
  <2>1. G[T \ {Max(T)}] = SumFunctionOnSet(h, T \ {Max(T)})
    BY <1>7
  <2>2. G[T] = Op(G[T \ {Max(T)}], h[Max(T)])
    BY <1>5, <1>7
  <2>3. SumFunctionOnSet(h, T) = SumFunctionOnSet(h, T \ {Max(T)}) + h[Max(T)]
    BY <1>2, <1>7
  <2>4. G[T] = SumFunctionOnSet(h, T)
    BY <2>1, <2>2, <2>3
  <2> QED BY <2>4
<1>8. SUBSET (1..Word) \subseteq P
  <2> HIDE DEF P
  <2> QED BY <1>0, <1>6, <1>7, IndexInduction
<1>9. D \in P
  BY <1>8
<1> QED BY <1>1, <1>9

\* The decoder has the string of each code of the encoder.
LEMMA DecoderKnows ==
  ASSUME NEW sm, MapInv(sm), NEW code \in 0..255 + Len(sm.symbols)
  PROVE  M12!Imported(M12!Exported(sm), code) = M12!Meaning(sm, code)
<1> DEFINE buf == M12!Exported(sm)
           strings == [c \in 1..256 + Len(sm.symbols) |-> M12!Meaning(sm, c - 1)]
<1>1. buf.lenHisto = sm.lenHisto /\ buf.strings = strings
  BY DEF M12!Exported, M12!FirstCode
<1>2. sm.lenHisto \in [1..Word -> Nat] /\ SumFunctionOnSet(sm.lenHisto, 1..Word) = 256 + Len(sm.symbols)
  BY DEF MapInv, HistoInv
<1>3. M12!CountOf(sm.lenHisto) = 256 + Len(sm.symbols)
  BY <1>2, CountIsSum
<1>4. PICK k \in Nat : k = Len(sm.symbols)
  BY DEF MapInv
<1>5. code \in 0..255 + k /\ code < 256 + k /\ code + 1 \in 1..256 + k /\ (code + 1) - 1 = code
  BY <1>4
<1>6. strings[code + 1] = M12!Meaning(sm, (code + 1) - 1)
  BY <1>4, <1>5
<1>7. M12!Imported(buf, code) = IF code < M12!CountOf(buf.lenHisto) THEN buf.strings[code + 1] ELSE M12!Corrupt
  BY DEF M12!Imported
<1> HIDE DEF buf, strings
<1>8. code < M12!CountOf(buf.lenHisto)
  BY <1>1, <1>3, <1>4, <1>5
<1> QED BY <1>1, <1>5, <1>6, <1>7, <1>8 DEF buf

\* a piece of the text
PieceOf(text, p, w, q) ==
  /\ p \in Nat /\ q \in p + 1..Len(text)
  /\ w \in Seq(Byte12) /\ Len(w) = q - p /\ q - p <= Word
  /\ \A i \in 1..q - p : w[i] = text[p + i]

\* there are codes for all strings of a dictionary
Few(sm) == MapInv(sm) /\ Len(sm.symbols) <= 3840

\* The decoder's string of a code that stands for a piece is that piece.
LEMMA FitsPiece ==
  ASSUME NEW sm, Few(sm), NEW text, NEW p, NEW code, NEW q, Fits(sm, text, p, code, q)
  PROVE  code \in Codes12 /\ PieceOf(text, p, M12!Imported(M12!Exported(sm), code), q)
<1>1. PICK k \in Nat : k = Len(sm.symbols) /\ k <= 3840
  BY DEF Few, MapInv
<1>2. code \in 0..255 + k
  BY <1>1 DEF Fits
<1>3. code \in Codes12
  BY <1>1, <1>2 DEF Codes12
<1>4. code \in 0..255 + Len(sm.symbols) /\ MapInv(sm)
  BY <1>1, <1>2 DEF Few
<1>5. M12!Imported(M12!Exported(sm), code) = M12!Meaning(sm, code)
  BY <1>4, DecoderKnows
<1> QED BY <1>3, <1>5 DEF Fits, PieceOf

\* What the next three bytes give.
LEMMA PairDecoded ==
  ASSUME Few(map), NEW text, strIn \in Seq(Nat), posIn \in Nat, NEW p, NEW q,
         PairFits(map, text, strIn, posIn, p, q)
  PROVE  \E r : PieceOf(text, p, Pair12[1], r) /\ PieceOf(text, r, Pair12[2], q)
<1>1. PICK sm : sm = map
  OBVIOUS
<1>2. PICK bytes \in Seq(Nat) : bytes = strIn
  OBVIOUS
<1>3. PICK i \in Nat : i = posIn
  OBVIOUS
<1>4. PICK a, b, r : /\ Fits(sm, text, p, a, r) /\ Fits(sm, text, r, b, q)
                     /\ i + 3 <= Len(bytes) /\ \A k \in 1..3 : bytes[i + k] = Packed(a, b)[k]
  BY <1>1, <1>2, <1>3 DEF PairFits
<1> DEFINE w1 == M12!Imported(M12!Exported(sm), a)
           w2 == M12!Imported(M12!Exported(sm), b)
<1>5. a \in Codes12 /\ b \in Codes12 /\ PieceOf(text, p, w1, r) /\ PieceOf(text, r, w2, q)
  BY <1>1, <1>4, FitsPiece
<1>6. SubSeq(bytes, i + 1, i + 3) = Packed(a, b)
  <2>1. PICK t : t = SubSeq(bytes, i + 1, i + 3)
    OBVIOUS
  <2>2. t \in Seq(Nat) /\ Len(t) = 3 /\ \A k \in 1..3 : t[k] = bytes[i + k]
    <3>1. ASSUME NEW l \in Nat, i + l <= Len(bytes)
          PROVE  /\ SubSeq(bytes, i + 1, i + l) \in Seq(Nat) /\ Len(SubSeq(bytes, i + 1, i + l)) = l
                 /\ \A k \in 1..l : SubSeq(bytes, i + 1, i + l)[k] = bytes[i + k]
      BY <3>1, Slice
    <3> QED BY <1>4, <2>1, <3>1
  <2>3. t = <<t[1], t[2], t[3]>>
    BY <2>2
  <2>4. PICK u : u = Packed(a, b) /\ u = <<u[1], u[2], u[3]>>
    <3>1. PICK x, y, z : Packed(a, b) = <<x, y, z>>
      BY DEF Packed
    <3>2. <<x, y, z>>[1] = x /\ <<x, y, z>>[2] = y /\ <<x, y, z>>[3] = z
      OBVIOUS
    <3> QED BY <3>1, <3>2
  <2>5. t[1] = u[1] /\ t[2] = u[2] /\ t[3] = u[3]
    <3>1. \A k \in 1..3 : bytes[i + k] = Packed(a, b)[k]
      BY <1>4
    <3>2. \A k \in 1..3 : t[k] = u[k]
      BY <2>2, <2>4, <3>1
    <3> QED BY <3>2
  <2> QED BY <2>1, <2>3, <2>4, <2>5
<1>7. Unpacked(SubSeq(strIn, posIn + 1, posIn + 3)) = <<a, b>>
  <2>1. Unpacked(Packed(a, b)) = <<a, b>>
    <3>1. a \in Codes12 /\ b \in Codes12
      BY <1>5
    <3> HIDE DEF w1, w2
    <3> QED BY <3>1, UnpackedCodes, Zenon
  <2> QED BY <1>2, <1>3, <1>6, <2>1
<1>8. Pair12 = <<w1, w2>>
  BY <1>1, <1>7 DEF Pair12, Symbol12
<1> HIDE DEF w1, w2
<1> QED BY <1>5, <1>8

\* What a single code gives.
LEMMA LastDecoded ==
  ASSUME Few(map), NEW text, NEW p, NEW q, LastFits(map, text, strIn, posIn, p, q)
  PROVE  PieceOf(text, p, Symbol12((strIn[posIn + 1] + 256 * strIn[posIn + 2]) % 4096), q)
<1>1. PICK sm : sm = map
  OBVIOUS
<1>2. PICK a : Fits(sm, text, p, a, q) /\ \A k \in 1..2 : strIn[posIn + k] = PackedOne(a)[k]
  BY <1>1 DEF LastFits
<1>3. a \in Codes12 /\ PieceOf(text, p, M12!Imported(M12!Exported(sm), a), q)
  BY <1>1, <1>2, FitsPiece
<1>4. strIn[posIn + 1] = PackedOne(a)[1] /\ strIn[posIn + 2] = PackedOne(a)[2]
  BY <1>2
<1>5. PICK x, y : x = strIn[posIn + 1] /\ y = strIn[posIn + 2]
  OBVIOUS
<1>6. LastUnpacked(x, y) = a
  <2>1. a \in Codes12
    BY <1>3
  <2>2. x = PackedOne(a)[1] /\ y = PackedOne(a)[2]
    BY <1>4, <1>5
  <2> QED BY <2>1, <2>2, UnpackedOne, Zenon
<1> QED BY <1>1, <1>3, <1>5, <1>6 DEF Symbol12, LastUnpacked

-----------------------------------------------------------------------------
(* The memory of the decoder                                               *)

\* The memory agrees with the text up to a place, or as far as the buffer goes.
Agrees(memory, text, p) == \A i \in 1..p : i <= size => memory[i - 1] = text[i]

\* The buffer is part of the memory.
LEMMA BufferFits ==
  ASSUME NEW s \in Sizes
  PROVE  s \in Nat /\ \A i \in Nat : i < s => i \in Memory
<1>1. Sizes \subseteq Nat \ {0} /\ IsFiniteSet(Sizes)
  BY DecoderAssumption, CodecAssumption12
<1> DEFINE P == {T \in SUBSET Sizes : \E n \in Nat : T \subseteq 0..n}
<1>2. {} \in P
  <2>1. {} \subseteq 0..0 /\ 0 \in Nat
    OBVIOUS
  <2> QED BY <2>1
<1>3. ASSUME NEW T \in SUBSET Sizes, NEW x \in Sizes \ T, T \in P PROVE T \cup {x} \in P
  <2>1. PICK n \in Nat : T \subseteq 0..n
    BY <1>3
  <2>2. x \in Nat
    BY <1>1
  <2>3. n + x \in Nat /\ x \in 0..n + x /\ \A y \in 0..n : y \in 0..n + x
    BY <2>2
  <2>4. T \cup {x} \subseteq 0..n + x
    BY <2>1, <2>3
  <2> QED BY <2>3, <2>4
<1>4. Sizes \in P
  <2> HIDE DEF P
  <2> QED BY <1>1, <1>2, <1>3, FiniteInduction
<1>5. PICK n \in Nat : Sizes \in SUBSET (0..n)
  BY <1>4
<1>6. Max(Sizes) \in Sizes /\ s <= Max(Sizes)
  BY <1>5, MaxExists
<1>7. PICK max \in Nat : max = Max(Sizes)
  BY <1>1, <1>6
<1>8. s \in Nat /\ Word \in Nat
  BY <1>1, DecoderAssumption
<1>9. ASSUME NEW i \in Nat, i < s PROVE i \in 0..max + 4 * Word
  BY <1>6, <1>7, <1>8, <1>9
<1> QED BY <1>7, <1>8, <1>9 DEF Memory

\* A word that is stored whole, of which a piece of the text counts.
LEMMA StoredAgrees ==
  ASSUME size \in Sizes, NEW text, NEW memory, NEW p, NEW w, NEW q,
         PieceOf(text, p, w, q), Agrees(memory, text, p)
  PROVE  Agrees(Stored(memory, p, w), text, q)
<1>1. PICK s \in Nat : s = size /\ \A i \in Nat : i < s => i \in Memory
  BY BufferFits
<1>2. /\ p \in Nat /\ q \in p + 1..Len(text) /\ Len(w) = q - p /\ q - p <= Word
      /\ \A i \in 1..q - p : w[i] = text[p + i]
  BY DEF PieceOf
<1>w. Word \in Nat
  BY DecoderAssumption
<1>3. PICK n \in Nat : n = Len(w) /\ n <= Word /\ q = p + n
  BY <1>2
<1> SUFFICES ASSUME NEW i \in 1..q, i <= size PROVE Stored(memory, p, w)[i - 1] = text[i]
  BY DEF Agrees
<1>4. i - 1 \in Memory /\ i \in Nat /\ i >= 1
  BY <1>1, <1>3
<1>5. Stored(memory, p, w)[i - 1] = IF i - 1 \in p..p + Word - 1
                                    THEN IF (i - 1) - p < n THEN w[(i - 1) - p + 1] ELSE 0
                                    ELSE memory[i - 1]
  BY <1>3, <1>4 DEF Stored
<1>6. CASE i <= p
  <2>1. ~(i - 1 \in p..p + Word - 1) /\ i \in 1..p
    BY <1>2, <1>4, <1>6
  <2>2. memory[i - 1] = text[i]
    BY <2>1 DEF Agrees
  <2> QED BY <1>5, <2>1, <2>2
<1>7. CASE ~(i <= p)
  <2>1. /\ i - 1 \in p..p + Word - 1 /\ (i - 1) - p < n
        /\ (i - 1) - p + 1 \in 1..q - p /\ p + ((i - 1) - p + 1) = i
    <3>1. i \in Nat /\ i <= p + n /\ i > p /\ n <= Word /\ q - p = n
      BY <1>2, <1>3, <1>4, <1>7
    <3>2. p \in Nat
      BY <1>2
    <3> QED BY <1>3, <1>w, <3>1, <3>2
  <2>2. w[(i - 1) - p + 1] = text[p + ((i - 1) - p + 1)]
    BY <1>2, <2>1
  <2> QED BY <1>5, <2>1, <2>2
<1> QED BY <1>6, <1>7

\* Bytes that are copied as far as there is room.
LEMMA CopiedAgrees ==
  ASSUME size \in Sizes, NEW text, NEW w, NEW q, posOut \in Nat, q \in posOut + 1..Len(text),
         Len(w) = q - posOut, \A i \in 1..q - posOut : w[i] = text[posOut + i],
         Agrees(strOut, text, posOut)
  PROVE  Agrees(Copied(w), text, q)
<1>1. PICK s \in Nat : s = size /\ \A i \in Nat : i < s => i \in Memory
  BY BufferFits
<1>p. PICK p \in Nat : p = posOut
  OBVIOUS
<1>2. q \in p + 1..Len(text) /\ \A i \in 1..q - p : w[i] = text[p + i]
  BY <1>p
<1>3. PICK n \in Nat : n = Len(w) /\ q = p + n
  BY <1>2, <1>p
<1> SUFFICES ASSUME NEW i \in 1..q, i <= s PROVE Copied(w)[i - 1] = text[i]
  BY <1>1 DEF Agrees
<1>4. i - 1 \in Memory /\ i \in Nat /\ i >= 1
  BY <1>1, <1>3
<1>m. PICK v \in Nat : v = Min({p + n, s}) /\ v = IF p + n <= s THEN p + n ELSE s
  BY LesserOfTwo
<1>5. Copied(w)[i - 1] = IF i - 1 \in p..v - 1 THEN w[(i - 1) - p + 1] ELSE strOut[i - 1]
  BY <1>1, <1>3, <1>4, <1>m, <1>p DEF Copied
<1>6. CASE i <= p
  <2>1. ~(i - 1 \in p..v - 1) /\ i \in 1..p
    BY <1>4, <1>6
  <2>2. strOut[i - 1] = text[i]
    BY <1>1, <1>p, <2>1 DEF Agrees
  <2> QED BY <1>5, <2>1, <2>2
<1>7. CASE ~(i <= p)
  <2>0. i \in 1..p + n
    BY <1>3
  <2>m. i <= v
    BY <1>m, <2>0
  <2>1. /\ i - 1 \in p..v - 1
        /\ (i - 1) - p + 1 \in 1..q - p /\ p + ((i - 1) - p + 1) = i
    BY <1>3, <1>7, <2>0, <2>m
  <2>2. w[(i - 1) - p + 1] = text[p + ((i - 1) - p + 1)]
    BY <1>2, <2>1
  <2> QED BY <1>5, <2>1, <2>2
<1> QED BY <1>6, <1>7

\* these bytes are a part of the text
Covers(text, p, w, q) ==
  /\ q \in p + 1..Len(text)
  /\ Len(w) = q - p /\ \A i \in 1..q - p : w[i] = text[p + i]

\* Two pieces one after the other.
LEMMA TwoPieces ==
  ASSUME NEW text, NEW p, NEW u, NEW r, NEW w, NEW q, PieceOf(text, p, u, r), PieceOf(text, r, w, q)
  PROVE  Covers(text, p, u \o w, q)
<1>1. /\ p \in Nat /\ r \in p + 1..Len(text) /\ q \in r + 1..Len(text)
      /\ u \in Seq(Byte12) /\ w \in Seq(Byte12)
      /\ Len(u) = r - p /\ Len(w) = q - r
      /\ \A i \in 1..r - p : u[i] = text[p + i]
      /\ \A i \in 1..q - r : w[i] = text[r + i]
  BY DEF PieceOf
<1>a. /\ p \in Nat /\ r \in p + 1..Len(text) /\ q \in r + 1..Len(text)
      /\ Len(u) \in Nat /\ Len(w) \in Nat
      /\ Len(u) = r - p /\ Len(w) = q - r
  BY <1>1
<1>b. r \in Nat /\ q \in Nat /\ r > p /\ q > r
  BY <1>a
<1>2. PICK v \in Nat : v = Len(u) /\ r = p + v /\ v >= 1
  BY <1>a, <1>b
<1>3. PICK n \in Nat : n = Len(w) /\ q = (p + v) + n
  BY <1>a, <1>b, <1>2
<1> DEFINE t == u \o w
<1>4. /\ Len(t) = v + n /\ \A k \in 1..v : t[k] = u[k]
      /\ \A k \in 1..n : t[v + k] = w[k]
  <2>1. u \in Seq(Byte12) /\ w \in Seq(Byte12) /\ v = Len(u) /\ n = Len(w)
    BY <1>1, <1>2, <1>3
  <2>2. Len(t) = v + n
    BY <2>1, Joined
  <2>3. \A k \in 1..v : t[k] = u[k]
    BY <2>1, Joined
  <2>4. \A k \in 1..n : t[v + k] = w[k]
    BY <2>1, Joined
  <2> HIDE DEF t
  <2> QED BY <2>2, <2>3, <2>4
<1> HIDE DEF t
<1>5. q - p = v + n /\ q \in p + 1..Len(text)
  BY <1>1, <1>2, <1>3
<1>6. ASSUME NEW i \in 1..v + n PROVE t[i] = text[p + i]
  <2>1. CASE i <= v
    <3>1. i \in 1..v /\ r - p = v
      BY <1>1, <1>2, <2>1
    <3> QED BY <1>1, <1>4, <3>1
  <2>2. CASE ~(i <= v)
    <3>1. PICK k \in 1..n : i = v + k
      <4>1. i - v \in 1..n /\ i = v + (i - v)
        BY <2>2
      <4> QED BY <4>1
    <3>2. t[i] = w[k]
      BY <1>4, <3>1
    <3>3. q - r = n /\ r + k = p + i
      BY <1>1, <1>2, <1>3, <3>1
    <3>4. w[k] = text[r + k]
      BY <1>1, <3>3
    <3> QED BY <3>2, <3>3, <3>4
  <2> QED BY <2>1, <2>2
<1>7. Covers(text, p, t, q)
  BY <1>4, <1>5, <1>6 DEF Covers
<1> QED BY <1>7 DEF t

-----------------------------------------------------------------------------
(* What the encoders leave                                                 *)

\* FewestCodes() for any map
Fewest(sm, text) ==
  LET ends(p) == {p + Len(s) : s \in {t \in Range(sm.symbols) :
                    M12!StartsWith(SubSeq(text, p + 1, Len(text)), t)}} \cup {p + 1}
      reach[n \in 0..Len(text)] ==
        IF n = 0 THEN {0} ELSE (UNION {ends(p) : p \in reach[n - 1]}) \cap (0..Len(text))
  IN Min({n \in 0..Len(text) : Len(text) \in reach[n]})

\* The number of codes of the shortest parse depends on the map alone.
LEMMA FewestIs ==
  ASSUME NEW text
  PROVE  FewestCodes(text) = Fewest(map, text)
BY DEF FewestCodes, Fewest

\* what is left of a line: the bytes stand for all of it, and those of the DP
\* are as few as can be
Kept(sm, text, bytes, fewest) ==
  /\ \E S : CodedBy(sm, text, bytes, S, Len(text))
  /\ fewest => Len(bytes) = (3 * Fewest(sm, text) + 1) \div 2

\* The completed lines, and the one at hand as far as the cursor.
CodedInv ==
  /\ Few(map)
  /\ line <= Len(out)
  /\ \A l \in 1..line : Kept(map, lines[l], out[l], useDP)
  /\ at \in {"fast12", "tail12"} =>
       ~useDP /\ \E S : CodedBy(map, lines[line + 1], out[line + 1], S, cur)

\* The code of what a text goes on with stands for a piece of it.
LEMMA FitsAhead ==
  ASSUME NEW sm, MapInv(sm), NEW text \in Seq(Byte12), NEW c \in Nat, c < Len(text),
         NEW code, code = M12!Find(sm, SubSeq(text, c + 1, Min({Len(text), c + Word})))
  PROVE  Fits(sm, text, c, code, c + Len(M12!Meaning(sm, code)))
<1>1. PICK n \in Nat : n = Len(text)
  OBVIOUS
<1>2. PICK e \in c + 1..n : e = Min({n, c + Word})
  <2>1. Word \in Nat /\ Word > 0
    BY DecoderAssumption
  <2>2. Min({n, c + Word}) = IF n <= c + Word THEN n ELSE c + Word
    BY <2>1, LesserOfTwo
  <2> QED BY <1>1, <2>1, <2>2
<1>3. PICK k \in Nat : k = e - c /\ c + k = e /\ k >= 1
  BY <1>2
<1>4. SubSeq(text, c + 1, c + k) \in Seq(Byte12) /\ Len(SubSeq(text, c + 1, c + k)) = k
  <2>1. c + k <= Len(text)
    BY <1>1, <1>2, <1>3
  <2> QED BY <2>1, Slice
<1>5. PICK rest \in Seq(Byte12) : rest = SubSeq(text, c + 1, e) /\ Len(rest) >= 1
  BY <1>3, <1>4
<1>6. code = M12!Find(sm, rest)
  BY <1>1, <1>2, <1>5
<1>7. Stands(sm, code, SubSeq(text, c + 1, e))
  BY <1>5, <1>6, FindStands
<1>8. e \in c + 1..Len(text)
  BY <1>1, <1>2
<1> QED BY <1>7, <1>8, StandsFits

\* The line that is encoded.
LEMMA LineText ==
  ASSUME RoomInv, line < Len(lines)
  PROVE  line + 1 \in 1..Len(lines) /\ Text12 \in Seq(Byte12) /\ Text12 = lines[line + 1]
<1>1. lines \in Seq(Seq(Byte12)) /\ line \in 0..Len(lines)
  BY DEF RoomInv
<1>2. line + 1 \in 1..Len(lines)
  BY <1>1
<1> QED BY <1>1, <1>2 DEF Text12

\* The two codes at the cursor stand for what comes there.
LEMMA NextFits ==
  ASSUME RoomInv, at \in {"fast12", "tail12"}, cur < Len(Text12)
  PROVE  /\ Fits(map, Text12, cur, First, CurAfterFirst)
         /\ CurAfterFirst < Len(Text12) => Fits(map, Text12, CurAfterFirst, Second, CurAfterSecond)
<1>1. line < Len(lines) /\ MapInv(map) /\ cur \in 0..Len(lines[line + 1])
  BY DEF RoomInv
<1>2. PICK text \in Seq(Byte12) : text = Text12
  BY <1>1, LineText
<1>3. PICK c \in Nat : c = cur /\ c < Len(text)
  BY <1>1, <1>2
<1>4. PICK sm : sm = map /\ MapInv(sm)
  BY <1>1
<1>5. PICK a : a = First
  OBVIOUS
<1>6. a = M12!Find(sm, SubSeq(text, c + 1, Min({Len(text), c + Word})))
  BY <1>2, <1>3, <1>4, <1>5 DEF First, Rest
<1>7. Fits(sm, text, c, a, c + Len(M12!Meaning(sm, a)))
  BY <1>3, <1>4, <1>6, FitsAhead
<1>8. CurAfterFirst = c + Len(M12!Meaning(sm, a))
  BY <1>3, <1>4, <1>5 DEF CurAfterFirst
<1>9. CurAfterFirst \in cur + 1..Len(Text12)
  BY <1>2, <1>3, NextCodes
<1>10. PICK p \in Nat : p = CurAfterFirst
  BY <1>3, <1>9
<1>11. PICK b : b = Second
  OBVIOUS
<1>12. b = M12!Find(sm, SubSeq(text, p + 1, Min({Len(text), p + Word})))
  BY <1>2, <1>4, <1>10, <1>11 DEF Second
<1>13. p < Len(text) => Fits(sm, text, p, b, p + Len(M12!Meaning(sm, b)))
  BY <1>4, <1>12, FitsAhead
<1>14. CurAfterSecond = p + Len(M12!Meaning(sm, b))
  BY <1>4, <1>10, <1>11 DEF CurAfterSecond
<1> QED BY <1>2, <1>3, <1>4, <1>5, <1>7, <1>8, <1>10, <1>11, <1>13, <1>14

\* Nothing is encoded, and no code is missing.
LEMMA CodedInitial == Init12 => CodedInv
<1> SUFFICES ASSUME Init12 PROVE CodedInv
  OBVIOUS
<1>1. PICK d \in Dictionaries, past \in BOOLEAN : map = Filled(d, past)
  BY DEF Init12
<1>2. d \in Seq(Strings12)
  <2>1. Dictionaries \subseteq Seq(UNION {[1..n -> Byte12] : n \in 2..Word})
    BY CodecAssumption12
  <2> QED BY <2>1 DEF Strings12
<1>3. MapInv(map) /\ Len(map.symbols) <= Len(d)
  BY <1>1, <1>2, FoldedMap
<1>4. Len(d) <= MaxSymbols12 /\ MaxSymbols12 \in 0..3840 /\ Len(d) \in Nat
  BY <1>2, CodecAssumption12
<1>5. PICK k \in Nat : k = Len(map.symbols)
  BY <1>3 DEF MapInv
<1>6. Few(map)
  <2>1. PICK l \in Nat : l = Len(d) /\ l <= MaxSymbols12
    BY <1>4
  <2>2. k <= l
    BY <1>3, <1>5, <2>1
  <2>3. PICK x \in Nat : x = MaxSymbols12 /\ x <= 3840
    <3>1. MaxSymbols12 \in 0..3840
      BY <1>4
    <3> QED BY <3>1
  <2>4. k <= 3840
    BY <2>1, <2>2, <2>3
  <2> QED BY <1>3, <1>5, <2>4 DEF Few
<1>7. line = 0 /\ out = << >> /\ at = "line12"
  BY DEF Init12
<1>8. Len(out) = 0
  BY <1>7
<1> QED BY <1>6, <1>7, <1>8 DEF CodedInv

\* The bytes of one code or two are appended.
LEMMA CodedPut ==
  ASSUME RoomInv, CodedInv, at \in {"fast12", "tail12"},
         NEW bytes \in Seq(Nat), NEW next,
         \E T : CodedBy(map, Text12, out[line + 1] \o bytes, T, next),
         Put(bytes, next), UNCHANGED <<map, lines, useDP, line, at>>
  PROVE  CodedInv'
<1>1. PICK o \in Seq(Seq(Nat)) : o = out
  BY DEF RoomInv
<1>0. line \in Nat /\ line < Len(lines)
  <2>1. lines \in Seq(Seq(Byte12)) /\ line \in 0..Len(lines) /\ line < Len(lines)
    BY DEF RoomInv
  <2> QED BY <2>1
<1>2. PICK n \in Nat : n = line + 1 /\ n = Len(o) /\ n >= 1
  <2>1. Len(o) = line + 1
    BY <1>1 DEF RoomInv
  <2> QED BY <1>0, <2>1
<1>3. PICK e \in Seq(Nat) : e = o[n]
  BY <1>2
<1> DEFINE w == [o EXCEPT ![n] = e \o bytes]
<1>4. out' = w
  BY <1>1, <1>2, <1>3 DEF Put
<1>5. Len(w) = n /\ w[n] = e \o bytes /\ \A l \in 1..line : w[l] = o[l]
  <2>1. e \o bytes \in Seq(Nat)
    BY ConcatProperties
  <2>2. \A l \in 1..line : l \in 1..n /\ l # n
    BY <1>0, <1>2
  <2> QED BY <1>2, <2>1, <2>2
<1> HIDE DEF w
<1>6. \E T : CodedBy(map, lines[line + 1], w[n], T, next)
  BY <1>1, <1>2, <1>3, <1>5 DEF Text12
<1>7. cur' = next
  BY DEF Put
<1>8. \E T : CodedBy(map', lines'[line' + 1], out'[line' + 1], T, cur')
  BY <1>2, <1>4, <1>6, <1>7
<1>9. Few(map') /\ ~useDP'
  BY DEF CodedInv
<1>10. \A l \in 1..line' : Kept(map', lines'[l], out'[l], useDP')
  <2>1. \A l \in 1..line : Kept(map, lines[l], out[l], useDP)
    BY DEF CodedInv
  <2> QED BY <1>1, <1>4, <1>5, <2>1
<1>11. line' <= Len(out')
  BY <1>0, <1>2, <1>4, <1>5
<1> QED BY <1>8, <1>9, <1>10, <1>11 DEF CodedInv

\* The bytes of two codes are those of what they stand for.
LEMMA TwoCodes ==
  ASSUME RoomInv, CodedInv, at \in {"fast12", "tail12"}, cur < Len(Text12), CurAfterFirst < Len(Text12)
  PROVE  \E T : CodedBy(map, Text12, out[line + 1] \o Packed(First, Second), T, CurAfterSecond)
<1>1. /\ line < Len(lines) /\ MapInv(map) /\ cur \in 0..Len(lines[line + 1])
      /\ out \in Seq(Seq(Nat)) /\ Len(out) = line + 1 /\ line \in 0..Len(lines) /\ lines \in Seq(Seq(Byte12))
  BY DEF RoomInv
<1>2. PICK text \in Seq(Byte12) : text = Text12 /\ text = lines[line + 1]
  BY <1>1, LineText
<1>3. PICK c \in Nat : c = cur /\ c < Len(text)
  BY <1>1, <1>2
<1>4. PICK bytes \in Seq(Nat) : bytes = out[line + 1]
  <2>1. line + 1 \in 1..Len(out)
    BY <1>1
  <2> QED BY <1>1, <2>1
<1>5. PICK sm : sm = map
  OBVIOUS
<1>6. PICK S : CodedBy(sm, text, bytes, S, c)
  BY <1>2, <1>3, <1>4, <1>5 DEF CodedInv
<1>7. /\ First \in Nat /\ CurAfterFirst \in cur + 1..Len(Text12)
      /\ Second \in Nat /\ CurAfterSecond \in CurAfterFirst + 1..Len(Text12)
  BY NextCodes
<1>8. PICK a \in Nat, b \in Nat : a = First /\ b = Second
  BY <1>7
<1>9. PICK r \in Nat : r = CurAfterFirst
  BY <1>3, <1>7
<1>10. PICK q \in Nat : q = CurAfterSecond
  BY <1>7, <1>9
<1>11. Fits(sm, text, c, a, r) /\ Fits(sm, text, r, b, q)
  BY <1>2, <1>3, <1>5, <1>8, <1>9, <1>10, NextFits
<1>12. \E T : CodedBy(sm, text, bytes \o Packed(a, b), T, q)
  BY <1>3, <1>6, <1>8, <1>10, <1>11, CodedPair
<1> QED BY <1>2, <1>4, <1>5, <1>8, <1>10, <1>12

\* So are those of the last one.
LEMMA OneCode ==
  ASSUME RoomInv, CodedInv, at \in {"fast12", "tail12"}, cur < Len(Text12), CurAfterFirst >= Len(Text12)
  PROVE  \E T : CodedBy(map, Text12, out[line + 1] \o PackedOne(First), T, CurAfterFirst)
<1>1. /\ line < Len(lines) /\ MapInv(map) /\ cur \in 0..Len(lines[line + 1])
      /\ out \in Seq(Seq(Nat)) /\ Len(out) = line + 1 /\ line \in 0..Len(lines) /\ lines \in Seq(Seq(Byte12))
  BY DEF RoomInv
<1>2. PICK text \in Seq(Byte12) : text = Text12 /\ text = lines[line + 1]
  BY <1>1, LineText
<1>3. PICK c \in Nat : c = cur /\ c < Len(text)
  BY <1>1, <1>2
<1>4. PICK bytes \in Seq(Nat) : bytes = out[line + 1]
  <2>1. line + 1 \in 1..Len(out)
    BY <1>1
  <2> QED BY <1>1, <2>1
<1>5. PICK sm : sm = map
  OBVIOUS
<1>6. PICK S : CodedBy(sm, text, bytes, S, c)
  BY <1>2, <1>3, <1>4, <1>5 DEF CodedInv
<1>7. First \in Nat /\ CurAfterFirst \in cur + 1..Len(Text12)
  BY NextCodes
<1>8. PICK a \in Nat : a = First
  BY <1>7
<1>9. PICK q \in Nat : q = CurAfterFirst /\ q = Len(text)
  BY <1>2, <1>3, <1>7
<1>10. Fits(sm, text, c, a, q)
  BY <1>2, <1>3, <1>5, <1>8, <1>9, NextFits
<1>11. \E T : CodedBy(sm, text, bytes \o PackedOne(a), T, q)
  BY <1>3, <1>6, <1>8, <1>9, <1>10, CodedLast
<1> QED BY <1>2, <1>4, <1>5, <1>8, <1>9, <1>11

\* The DP leaves what stands for the line, in as few codes as can be.
LEMMA KeptByDP ==
  ASSUME MapInv(map), NEW text \in Seq(Byte12), NEW fewest
  PROVE  Kept(map, text, DPStream(text), fewest)
<1>1. PICK sm : sm = map /\ MapInv(sm)
  OBVIOUS
<1>2. PICK g, code, next, cost : Plan(sm, text, g, code, next, cost) /\ g[1] = DPStream(text)
  BY <1>1, DPStreamPlan
<1>3. \E S : CodedBy(sm, text, g[1], S, Len(text))
  BY <1>1, <1>2, PlanCoded
<1>4. Len(DPStream(text)) = (3 * FewestCodes(text) + 1) \div 2
  BY DPStreamFewest
<1>5. FewestCodes(text) = Fewest(map, text)
  BY FewestIs
<1> QED BY <1>1, <1>2, <1>3, <1>4, <1>5 DEF Kept

\* Every step of an encoder keeps it, and those of the decoder leave it alone.
LEMMA CodedStep ==
  ASSUME RoomInv, CodedInv, [Next12]_vars12
  PROVE  CodedInv'
<1>0. /\ MapInv(map) /\ lines \in Seq(Seq(Byte12)) /\ out \in Seq(Seq(Nat))
      /\ line \in 0..Len(lines) /\ line \in Nat /\ Len(lines) \in Nat
  BY DEF RoomInv
<1>1. /\ Few(map) /\ line <= Len(out)
      /\ \A l \in 1..line : Kept(map, lines[l], out[l], useDP)
  BY DEF CodedInv
<1>e. UNCHANGED encVars => UNCHANGED <<map, lines, room, useDP, line, cur, out, written>>
  BY DEF encVars, callVars
<1>c. UNCHANGED callVars => UNCHANGED <<map, lines, room, useDP>>
  BY DEF callVars
<1>d. ASSUME UNCHANGED <<map, lines, useDP, line, out>>, at' \notin {"fast12", "tail12"}
      PROVE  CodedInv'
  BY <1>1, <1>d DEF CodedInv
<1>2. CASE StartLine12
  <2>1. /\ at = "line12" /\ line < Len(lines) /\ at' = "fast12" /\ cur' = 0 /\ out' = Append(out, << >>)
        /\ ~useDP /\ UNCHANGED <<map, lines, useDP, line>>
    BY <1>2, <1>c DEF StartLine12
  <2>2. Len(out) = line
    BY <2>1 DEF RoomInv
  <2>3. << >> \in Seq(Nat)
    OBVIOUS
  <2>4. /\ Len(out') = line + 1 /\ out'[line + 1] = << >>
        /\ \A l \in 1..line : out'[l] = out[l]
    BY <1>0, <2>1, <2>2, <2>3, AppendProperties
  <2>5. CodedBy(map, lines[line + 1], << >>, {<<0, 0>>}, 0)
    BY CodedStart
  <2>6. \E S : CodedBy(map', lines'[line' + 1], out'[line' + 1], S, cur')
    BY <2>1, <2>4, <2>5
  <2>7. \A l \in 1..line' : Kept(map', lines'[l], out'[l], useDP')
    BY <1>1, <2>1, <2>4
  <2>8. line' <= Len(out')
    BY <1>0, <2>1, <2>4
  <2> QED BY <1>1, <2>1, <2>6, <2>7, <2>8 DEF CodedInv
<1>3. CASE FastPair
  <2>1. /\ at = "fast12" /\ FastLoop /\ Put(Packed(First, Second), CurAfterSecond)
        /\ UNCHANGED <<map, lines, useDP, line, at>>
    BY <1>3, <1>c DEF FastPair, dvars
  <2>2. PICK n \in Nat : n = Len(Text12)
    <3>1. line < Len(lines)
      BY <2>1 DEF RoomInv
    <3> QED BY <3>1, LineText
  <2>3. cur \in 0..n
    BY <2>1, <2>2 DEF RoomInv, Text12
  <2>4. cur + 2 * Word <= n /\ cur \in Nat /\ cur < n
    BY <2>1, <2>2, <2>3, DecoderAssumption DEF FastLoop
  <2>5. /\ First \in Nat /\ CurAfterFirst \in cur + 1..n /\ CurAfterFirst <= cur + Word
        /\ CurAfterFirst < n => Second \in Nat /\ CurAfterSecond \in CurAfterFirst + 1..n
    BY <2>1, <2>2, <2>4, NextCodes
  <2>6. CurAfterFirst < n
    BY <2>4, <2>5, DecoderAssumption
  <2>7. \E T : CodedBy(map, Text12, out[line + 1] \o Packed(First, Second), T, CurAfterSecond)
    BY <2>1, <2>2, <2>4, <2>6, TwoCodes
  <2>8. Packed(First, Second) \in Seq(Nat)
    BY <2>5, <2>6, PackedBytes
  <2>9. PICK bytes \in Seq(Nat) : bytes = Packed(First, Second)
    BY <2>8
  <2>10. PICK next : next = CurAfterSecond
    OBVIOUS
  <2> QED BY <2>1, <2>7, <2>9, <2>10, CodedPut
<1>4. CASE EndFast12
  <2>1. at = "fast12" /\ at' = "tail12" /\ UNCHANGED <<map, lines, useDP, line, cur, out>>
    BY <1>4, <1>e DEF EndFast12
  <2>2. ~useDP /\ \E S : CodedBy(map, lines[line + 1], out[line + 1], S, cur)
    BY <2>1 DEF CodedInv
  <2> QED BY <1>1, <2>1, <2>2 DEF CodedInv
<1>5. CASE OutOfMemory \/ Return12
  <2>1. at' = "encoded" /\ UNCHANGED <<map, lines, useDP, line, out>>
    BY <1>5, <1>e DEF OutOfMemory, Return12
  <2> QED BY <1>d, <2>1
<1>6. CASE TailCodes
  <2>1. at = "tail12" /\ cur < Len(Text12) /\ UNCHANGED <<map, lines, useDP, line, at>>
    BY <1>6, <1>c DEF TailCodes, dvars
  <2>2. PICK n \in Nat : n = Len(Text12)
    <3>1. line < Len(lines)
      BY <2>1 DEF RoomInv
    <3> QED BY <3>1, LineText
  <2>3. cur \in 0..n /\ cur < n
    BY <2>1, <2>2 DEF RoomInv, Text12
  <2>4. /\ First \in Nat /\ CurAfterFirst \in cur + 1..n
        /\ CurAfterFirst < n => Second \in Nat /\ CurAfterSecond \in CurAfterFirst + 1..n
    BY <2>1, <2>2, NextCodes
  <2>5. CASE CurAfterFirst >= n
    <3>1. Put(PackedOne(First), CurAfterFirst)
      BY <1>6, <2>2, <2>5 DEF TailCodes
    <3>2. \E T : CodedBy(map, Text12, out[line + 1] \o PackedOne(First), T, CurAfterFirst)
      BY <2>1, <2>2, <2>5, OneCode
    <3>3. PICK bytes \in Seq(Nat) : bytes = PackedOne(First)
      BY <2>4, PackedBytes
    <3>4. PICK next : next = CurAfterFirst
      OBVIOUS
    <3> QED BY <2>1, <3>1, <3>2, <3>3, <3>4, CodedPut
  <2>6. CASE CurAfterFirst < n
    <3>1. Put(Packed(First, Second), CurAfterSecond)
      <4>1. ~(CurAfterFirst >= n)
        BY <2>3, <2>4, <2>6
      <4> QED BY <1>6, <2>2, <4>1 DEF TailCodes
    <3>2. \E T : CodedBy(map, Text12, out[line + 1] \o Packed(First, Second), T, CurAfterSecond)
      BY <2>1, <2>2, <2>6, TwoCodes
    <3>3. PICK bytes \in Seq(Nat) : bytes = Packed(First, Second)
      BY <2>4, <2>6, PackedBytes
    <3>4. PICK next : next = CurAfterSecond
      OBVIOUS
    <3> QED BY <2>1, <3>1, <3>2, <3>3, <3>4, CodedPut
  <2> QED BY <2>3, <2>4, <2>5, <2>6
<1>7. CASE EndLine12
  <2>1. /\ at = "tail12" /\ at' = "line12" /\ line' = line + 1 /\ cur >= Len(Text12)
        /\ UNCHANGED <<map, lines, useDP, cur, out>>
    BY <1>7, <1>c DEF EndLine12
  <2>2. line < Len(lines) /\ Len(out) = line + 1 /\ cur \in 0..Len(lines[line + 1])
    BY <2>1 DEF RoomInv
  <2>3. PICK n \in Nat : n = Len(Text12) /\ n = Len(lines[line + 1])
    BY <2>2, LineText
  <2>4. cur = n
    BY <2>1, <2>2, <2>3
  <2>5. ~useDP /\ \E S : CodedBy(map, lines[line + 1], out[line + 1], S, cur)
    BY <2>1 DEF CodedInv
  <2>6. Kept(map, lines[line + 1], out[line + 1], useDP)
    BY <2>3, <2>4, <2>5 DEF Kept
  <2>7. \A l \in 1..line + 1 : l \in 1..line \/ l = line + 1
    BY <1>0
  <2>8. \A l \in 1..line' : Kept(map', lines'[l], out'[l], useDP')
    BY <1>1, <2>1, <2>6, <2>7
  <2>9. line' <= Len(out')
    BY <1>0, <2>1, <2>2
  <2> QED BY <1>1, <2>1, <2>8, <2>9 DEF CodedInv
<1>8. CASE DPLine
  <2>1. at = "line12" /\ line < Len(lines) /\ UNCHANGED <<map, lines, useDP, cur>> /\ Len(out) = line
    BY <1>8, <1>c DEF DPLine, RoomInv
  <2>2. CASE 2 * Len(Text12) + 3 > room - Written12
    <3>1. at' = "encoded" /\ UNCHANGED <<line, out>>
      BY <1>8, <2>2 DEF DPLine
    <3> QED BY <1>d, <2>1, <3>1
  <2>3. CASE ~(2 * Len(Text12) + 3 > room - Written12)
    <3>1. PICK text \in Seq(Byte12) : text = Text12 /\ text = lines[line + 1]
      BY <2>1, LineText
    <3>2. out' = Append(out, DPStream(text)) /\ line' = line + 1 /\ at' = at
      BY <1>8, <2>3, <3>1 DEF DPLine
    <3>3. PICK stream \in Seq(Nat) : stream = DPStream(text)
      BY <1>0, DPStreamPlan
    <3>4. /\ Len(out') = line + 1 /\ out'[line + 1] = stream
          /\ \A l \in 1..line : out'[l] = out[l]
      BY <1>0, <2>1, <3>2, <3>3, AppendProperties
    <3>5. Kept(map, lines[line + 1], stream, useDP)
      BY <1>0, <3>1, <3>3, KeptByDP
    <3>6. \A l \in 1..line + 1 : l \in 1..line \/ l = line + 1
      BY <1>0
    <3>7. \A l \in 1..line' : Kept(map', lines'[l], out'[l], useDP')
      BY <1>1, <2>1, <3>2, <3>4, <3>5, <3>6
    <3>8. line' <= Len(out')
      BY <1>0, <3>2, <3>4
    <3> QED BY <1>1, <2>1, <3>2, <3>7, <3>8 DEF CodedInv
  <2> QED BY <2>2, <2>3
<1>9. CASE Decompress
  <2>1. UNCHANGED <<map, lines, useDP, line, out>> /\ at' = "pairs"
    BY <1>9, <1>c DEF Decompress
  <2> QED BY <1>d, <2>1
<1>10. CASE StorePair \/ CopyPair
  <2>1. UNCHANGED encVars /\ at' \in {"pairs", "aligned"}
    BY <1>10 DEF StorePair, CopyPair
  <2> QED BY <1>d, <1>e, <2>1
<1>11. CASE EndPairs \/ Tail12
  <2>1. UNCHANGED encVars /\ at' \in {"aligned", "returned12"}
    BY <1>11, Zenon DEF EndPairs, Tail12
  <2> QED BY <1>d, <1>e, <2>1
<1>12. CASE UNCHANGED vars12
  <2>1. UNCHANGED <<map, lines, useDP, line, cur, out, at>>
    BY <1>12, <1>e DEF vars12, dvars
  <2> QED BY <2>1 DEF CodedInv
<1> QED BY <1>2, <1>3, <1>4, <1>5, <1>6, <1>7, <1>8, <1>9, <1>10, <1>11, <1>12 DEF Next12

-----------------------------------------------------------------------------
(* The decoder follows what the bytes stand for                            *)

\* The bytes stand for the text, and codes start at these places of both.
CodesAt(sm, text, bytes, i, p) ==
  \E S : CodedBy(sm, text, bytes, S, Len(text)) /\ i \in Nat /\ p \in Nat /\ <<i, p>> \in S

\* where the decoder has more to read
Decoding == {"pairs", "aligned"}

\* The output agrees with the line so far.
DecodeInv ==
  /\ at \in {"line12", "fast12", "tail12", "encoded"} => posIn = 0 /\ posOut = 0
  /\ at \in Decoding \cup {"returned12"} => cur \in 1..line /\ strIn = out[cur] /\ size \in Sizes
  /\ at \in Decoding => CodesAt(map, lines[cur], strIn, posIn, posOut)
  /\ at = "returned12" => posOut = Len(lines[cur])
  /\ at \in Decoding \cup {"returned12"} => Agrees(strOut, lines[cur], posOut)

\* What comes next.
LEMMA CodesAtNext ==
  ASSUME NEW sm, NEW text \in Seq(Byte12), NEW bytes \in Seq(Nat), NEW i, NEW p,
         CodesAt(sm, text, bytes, i, p)
  PROVE  /\ i \in Nat /\ p \in Nat
         /\ i + 4 < Len(bytes) =>
              \E q \in Nat : CodesAt(sm, text, bytes, i + 3, q) /\ PairFits(sm, text, bytes, i, p, q)
         /\ i + 4 >= Len(bytes) =>
              \/ Len(bytes) - i = 0 /\ p = Len(text)
              \/ Len(bytes) - i = 2 /\ LastFits(sm, text, bytes, i, p, Len(text))
              \/ Len(bytes) - i = 3 /\ PairFits(sm, text, bytes, i, p, Len(text))
<1>1. PICK S : CodedBy(sm, text, bytes, S, Len(text)) /\ i \in Nat /\ p \in Nat /\ <<i, p>> \in S
  BY DEF CodesAt
<1>2. i + 4 < Len(bytes) => \E q \in Nat : <<i + 3, q>> \in S /\ PairFits(sm, text, bytes, i, p, q)
  BY <1>1, CodedNext
<1>3. i + 4 >= Len(bytes) =>
              \/ Len(bytes) - i = 0 /\ p = Len(text)
              \/ Len(bytes) - i = 2 /\ LastFits(sm, text, bytes, i, p, Len(text))
              \/ Len(bytes) - i = 3 /\ PairFits(sm, text, bytes, i, p, Len(text))
  BY <1>1, CodedNext
<1>4. i + 3 \in Nat
  BY <1>1
<1>5. \A q \in Nat : <<i + 3, q>> \in S => CodesAt(sm, text, bytes, i + 3, q)
  BY <1>1, <1>4 DEF CodesAt
<1> QED BY <1>1, <1>2, <1>3, <1>5

\* The line that is decoded, and its bytes.
LEMMA DecodedLine ==
  ASSUME RoomInv, CodedInv, cur \in 1..line
  PROVE  lines[cur] \in Seq(Byte12) /\ out[cur] \in Seq(Nat) /\ Kept(map, lines[cur], out[cur], useDP)
<1>1. /\ lines \in Seq(Seq(Byte12)) /\ out \in Seq(Seq(Nat))
      /\ line \in 0..Len(lines)
  BY DEF RoomInv
<1>2. line <= Len(out) /\ \A l \in 1..line : Kept(map, lines[l], out[l], useDP)
  BY DEF CodedInv
<1>3. cur \in 1..Len(lines) /\ cur \in 1..Len(out)
  BY <1>1, <1>2
<1> QED BY <1>1, <1>2, <1>3

\* Two words are stored where the output ends.
LEMMA StorePairStep ==
  ASSUME RoomInv, CodedInv, DecodeInv, StorePair
  PROVE  DecodeInv'
<1>1. /\ at = "pairs" /\ posIn + 4 < Len(strIn) /\ posIn' = posIn + 3
      /\ posOut' = (posOut + Len(Pair12[1])) + Len(Pair12[2])
      /\ strOut' = Stored(Stored(strOut, posOut, Pair12[1]), posOut + Len(Pair12[1]), Pair12[2])
      /\ UNCHANGED <<at, strIn, size, map, lines, line, cur, out>>
  BY DEF StorePair, inputs, encVars, callVars
<1>2. /\ cur \in 1..line /\ strIn = out[cur] /\ size \in Sizes
      /\ CodesAt(map, lines[cur], strIn, posIn, posOut) /\ Agrees(strOut, lines[cur], posOut)
  BY <1>1 DEF DecodeInv, Decoding
<1>3. PICK text \in Seq(Byte12), bytes \in Seq(Nat) : text = lines[cur] /\ bytes = strIn
  BY <1>2, DecodedLine
<1>4. PICK i \in Nat, p \in Nat : i = posIn /\ p = posOut
  BY <1>2, <1>3, CodesAtNext
<1>5. PICK sm : sm = map /\ Few(map)
  BY DEF CodedInv
<1>6. CodesAt(sm, text, bytes, i, p) /\ i + 4 < Len(bytes)
  BY <1>1, <1>2, <1>3, <1>4, <1>5
<1>7. PICK q \in Nat : CodesAt(sm, text, bytes, i + 3, q) /\ PairFits(sm, text, bytes, i, p, q)
  BY <1>6, CodesAtNext
<1>8. PairFits(map, text, strIn, posIn, p, q) /\ strIn \in Seq(Nat) /\ posIn \in Nat
  BY <1>3, <1>4, <1>5, <1>7
<1>9. PICK r : PieceOf(text, p, Pair12[1], r) /\ PieceOf(text, r, Pair12[2], q)
  BY <1>5, <1>8, PairDecoded
<1>10. PICK u, w : u = Pair12[1] /\ w = Pair12[2]
  OBVIOUS
<1>11. PieceOf(text, p, u, r) /\ PieceOf(text, r, w, q) /\ Agrees(strOut, text, p)
  BY <1>2, <1>3, <1>4, <1>9, <1>10
<1>12. p + Len(u) = r /\ r + Len(w) = q
  BY <1>11 DEF PieceOf
<1>13. Agrees(Stored(strOut, p, u), text, r)
  BY <1>2, <1>11, StoredAgrees
<1>14. PICK memory : memory = Stored(strOut, p, u)
  OBVIOUS
<1>15. Agrees(Stored(memory, r, w), text, q)
  BY <1>2, <1>11, <1>13, <1>14, StoredAgrees
<1>16. strOut' = Stored(memory, r, w) /\ posOut' = q /\ posIn' = i + 3
  BY <1>1, <1>4, <1>10, <1>12, <1>14
<1>17. Agrees(strOut', text, q)
  BY <1>15, <1>16
<1>18. Agrees(strOut, lines[cur], posOut)'
  BY <1>1, <1>3, <1>16, <1>17 DEF Agrees
<1>19. CodesAt(map', lines'[cur'], strIn', posIn', posOut')
  BY <1>1, <1>3, <1>5, <1>7, <1>16
<1>20. cur' \in 1..line' /\ strIn' = out'[cur'] /\ size' \in Sizes /\ at' = "pairs"
  BY <1>1, <1>2
<1> QED BY <1>18, <1>19, <1>20 DEF DecodeInv, Decoding

\* What a copy of the right bytes leaves.
LEMMA CopyStep ==
  ASSUME size \in Sizes, NEW text, NEW w, NEW q, NEW used, posOut \in Nat, Covers(text, posOut, w, q),
         Agrees(strOut, text, posOut), Copy(w, used)
  PROVE  Agrees(strOut', text, q) /\ posOut' = q /\ posIn' = posIn + used
<1>1. strOut' = Copied(w) /\ posOut' = posOut + Len(w) /\ posIn' = posIn + used
  BY DEF Copy, Advance
<1>0. /\ q \in posOut + 1..Len(text) /\ Len(w) = q - posOut
      /\ \A i \in 1..q - posOut : w[i] = text[posOut + i]
  BY DEF Covers
<1>2. Agrees(Copied(w), text, q)
  BY <1>0, CopiedAgrees
<1>3. PICK p \in Nat : p = posOut
  OBVIOUS
<1>4. q \in p + 1..Len(text) /\ Len(w) = q - p
  BY <1>0, <1>3
<1>5. p + Len(w) = q
  BY <1>4
<1> QED BY <1>1, <1>2, <1>3, <1>5

\* The strings of two codes are copied where the output ends.
LEMMA PairCopied ==
  ASSUME Few(map), NEW text \in Seq(Byte12), strIn \in Seq(Nat), posIn \in Nat, posOut \in Nat, size \in Sizes,
         NEW q, PairFits(map, text, strIn, posIn, posOut, q), Agrees(strOut, text, posOut),
         Copy(Pair12[1] \o Pair12[2], 3)
  PROVE  Agrees(strOut', text, q) /\ posOut' = q /\ posIn' = posIn + 3
<1>1. PICK p \in Nat : p = posOut
  OBVIOUS
<1>2. PairFits(map, text, strIn, posIn, p, q)
  BY <1>1
<1>3. PICK r : PieceOf(text, p, Pair12[1], r) /\ PieceOf(text, r, Pair12[2], q)
  BY <1>2, PairDecoded
<1>4. PICK u, w : u = Pair12[1] /\ w = Pair12[2]
  OBVIOUS
<1>5. PieceOf(text, p, u, r) /\ PieceOf(text, r, w, q)
  BY <1>3, <1>4
<1>6. PICK t : t = u \o w
  OBVIOUS
<1>7. Covers(text, p, t, q)
  BY <1>5, <1>6, TwoPieces
<1>8. Copy(t, 3)
  BY <1>4, <1>6
<1>9. Covers(text, posOut, t, q)
  BY <1>1, <1>7
<1> QED BY <1>8, <1>9, CopyStep

\* So is that of the last one.
LEMMA LastCopied ==
  ASSUME Few(map), NEW text \in Seq(Byte12), posIn \in Nat, posOut \in Nat, size \in Sizes,
         NEW q, LastFits(map, text, strIn, posIn, posOut, q), Agrees(strOut, text, posOut),
         Copy(Symbol12((strIn[posIn + 1] + 256 * strIn[posIn + 2]) % 4096), 2)
  PROVE  Agrees(strOut', text, q) /\ posOut' = q
<1>1. PICK p \in Nat : p = posOut
  OBVIOUS
<1>2. LastFits(map, text, strIn, posIn, p, q)
  BY <1>1
<1>3. PICK w : w = Symbol12((strIn[posIn + 1] + 256 * strIn[posIn + 2]) % 4096)
  OBVIOUS
<1>4. PieceOf(text, p, w, q)
  BY <1>2, <1>3, LastDecoded
<1>5. Covers(text, posOut, w, q)
  BY <1>1, <1>4 DEF PieceOf, Covers
<1>6. Copy(w, 2)
  BY <1>3
<1> QED BY <1>5, <1>6, CopyStep

\* Two codes are copied.
LEMMA CopyPairStep ==
  ASSUME RoomInv, CodedInv, DecodeInv, CopyPair
  PROVE  DecodeInv'
<1>1. /\ at = "aligned" /\ posIn + 4 < Len(strIn) /\ Copy(Pair12[1] \o Pair12[2], 3)
      /\ UNCHANGED <<at, strIn, size, map, lines, line, cur, out>>
  BY DEF CopyPair, inputs, encVars, callVars
<1>2. /\ cur \in 1..line /\ strIn = out[cur] /\ size \in Sizes
      /\ CodesAt(map, lines[cur], strIn, posIn, posOut) /\ Agrees(strOut, lines[cur], posOut)
  BY <1>1 DEF DecodeInv, Decoding
<1>3. PICK text \in Seq(Byte12), bytes \in Seq(Nat) : text = lines[cur] /\ bytes = strIn
  BY <1>2, DecodedLine
<1>4. PICK i \in Nat, p \in Nat : i = posIn /\ p = posOut
  BY <1>2, <1>3, CodesAtNext
<1>5. PICK sm : sm = map /\ Few(map)
  BY DEF CodedInv
<1>6. CodesAt(sm, text, bytes, i, p) /\ i + 4 < Len(bytes)
  BY <1>1, <1>2, <1>3, <1>4, <1>5
<1>7. PICK q \in Nat : CodesAt(sm, text, bytes, i + 3, q) /\ PairFits(sm, text, bytes, i, p, q)
  BY <1>6, CodesAtNext
<1>8. /\ PairFits(map, text, strIn, posIn, posOut, q) /\ strIn \in Seq(Nat) /\ posIn \in Nat /\ posOut \in Nat
      /\ Agrees(strOut, text, posOut)
  BY <1>2, <1>3, <1>4, <1>5, <1>7
<1>9. Agrees(strOut', text, q) /\ posOut' = q /\ posIn' = i + 3
  <2>1. Agrees(strOut', text, q) /\ posOut' = q /\ posIn' = posIn + 3
    BY <1>1, <1>2, <1>5, <1>8, PairCopied
  <2> QED BY <1>4, <2>1
<1>10. Agrees(strOut, lines[cur], posOut)'
  BY <1>1, <1>3, <1>9 DEF Agrees
<1>11. CodesAt(map', lines'[cur'], strIn', posIn', posOut')
  BY <1>1, <1>3, <1>5, <1>7, <1>9
<1>12. cur' \in 1..line' /\ strIn' = out'[cur'] /\ size' \in Sizes /\ at' = "aligned"
  BY <1>1, <1>2
<1> QED BY <1>10, <1>11, <1>12 DEF DecodeInv, Decoding

\* The end of the stream is the end of the line.
LEMMA TailStep ==
  ASSUME RoomInv, CodedInv, DecodeInv, Tail12
  PROVE  DecodeInv'
<1>1. /\ at = "aligned" /\ posIn + 4 >= Len(strIn) /\ at' = "returned12"
      /\ UNCHANGED <<strIn, size, map, lines, line, cur, out>>
  BY DEF Tail12, inputs, encVars, callVars
<1>2. /\ cur \in 1..line /\ strIn = out[cur] /\ size \in Sizes
      /\ CodesAt(map, lines[cur], strIn, posIn, posOut) /\ Agrees(strOut, lines[cur], posOut)
  BY <1>1 DEF DecodeInv, Decoding
<1>3. PICK text \in Seq(Byte12), bytes \in Seq(Nat) : text = lines[cur] /\ bytes = strIn
  BY <1>2, DecodedLine
<1>4. PICK i \in Nat, p \in Nat : i = posIn /\ p = posOut
  BY <1>2, <1>3, CodesAtNext
<1>5. PICK sm : sm = map /\ Few(map)
  BY DEF CodedInv
<1>6. CodesAt(sm, text, bytes, i, p) /\ i + 4 >= Len(bytes)
  BY <1>1, <1>2, <1>3, <1>4, <1>5
<1>7. PICK n \in Nat : n = Len(bytes)
  OBVIOUS
<1>8. PICK q \in Nat : q = Len(text)
  OBVIOUS
<1>9. \/ n - i = 0 /\ p = q
      \/ n - i = 2 /\ LastFits(sm, text, bytes, i, p, q)
      \/ n - i = 3 /\ PairFits(sm, text, bytes, i, p, q)
  BY <1>6, <1>7, <1>8, CodesAtNext
<1>10. PICK left : left = Len(strIn) - posIn /\ left = n - i
  BY <1>3, <1>4, <1>7
<1>11. /\ left = 0 => UNCHANGED <<posOut, strOut>>
       /\ left = 2 => Copy(Symbol12((strIn[posIn + 1] + 256 * strIn[posIn + 2]) % 4096), 2)
       /\ left = 3 => Copy(Pair12[1] \o Pair12[2], 3)
  <2> DEFINE rest == Len(strIn) - posIn
             None == UNCHANGED <<posIn, posOut, strOut, high, read>>
             One == Copy(Symbol12((strIn[posIn + 1] + 256 * strIn[posIn + 2]) % 4096), 2)
             Two == Copy(Pair12[1] \o Pair12[2], 3)
  <2>1. (CASE rest = 0 -> None [] rest = 2 -> One [] rest = 3 -> Two)
    BY Zenon DEF Tail12
  <2>2. None => UNCHANGED <<posOut, strOut>>
    OBVIOUS
  <2>3. rest = left
    BY <1>10
  <2> HIDE DEF rest, None, One, Two
  <2>4. CASE rest = 0
    BY <2>1, <2>2, <2>3, <2>4
  <2>5. CASE rest = 2
    <3>1. One
      BY <2>1, <2>5
    <3> QED BY <2>3, <2>5, <3>1 DEF One
  <2>6. CASE rest = 3
    <3>1. Two
      BY <2>1, <2>6
    <3> QED BY <2>3, <2>6, <3>1 DEF Two
  <2> QED BY <1>9, <1>10, <2>3, <2>4, <2>5, <2>6
<1>12. Agrees(strOut', text, q) /\ posOut' = q
  <2>0. Agrees(strOut, text, posOut) /\ strIn \in Seq(Nat) /\ posIn \in Nat /\ posOut \in Nat
    BY <1>2, <1>3, <1>4
  <2>1. CASE left = 0
    <3>1. UNCHANGED <<posOut, strOut>>
      BY <1>11, <2>1
    <3>2. p = q
      BY <1>9, <1>10, <2>1
    <3>3. Agrees(strOut, text, q)
      BY <1>4, <2>0, <3>2
    <3> QED BY <1>4, <3>1, <3>2, <3>3
  <2>2. CASE left = 2
    <3>1. Copy(Symbol12((strIn[posIn + 1] + 256 * strIn[posIn + 2]) % 4096), 2)
      BY <1>11, <2>2
    <3>2. LastFits(map, text, strIn, posIn, posOut, q)
      BY <1>3, <1>4, <1>5, <1>9, <1>10, <2>2
    <3> QED BY <1>2, <1>5, <2>0, <3>1, <3>2, LastCopied
  <2>3. CASE left = 3
    <3>1. Copy(Pair12[1] \o Pair12[2], 3)
      BY <1>11, <2>3
    <3>2. PairFits(map, text, strIn, posIn, posOut, q)
      BY <1>3, <1>4, <1>5, <1>9, <1>10, <2>3
    <3> QED BY <1>2, <1>5, <2>0, <3>1, <3>2, PairCopied
  <2> QED BY <1>9, <1>10, <2>1, <2>2, <2>3
<1>13. Agrees(strOut, lines[cur], posOut)'
  BY <1>1, <1>3, <1>12 DEF Agrees
<1>14. posOut' = Len(lines'[cur'])
  BY <1>1, <1>3, <1>8, <1>12
<1>15. cur' \in 1..line' /\ strIn' = out'[cur'] /\ size' \in Sizes
  BY <1>1, <1>2
<1> QED BY <1>1, <1>13, <1>14, <1>15 DEF DecodeInv, Decoding

\* A completed line is where the decoder starts.
LEMMA DecompressStep ==
  ASSUME RoomInv, CodedInv, DecodeInv, Decompress
  PROVE  DecodeInv'
<1>1. PICK l \in 1..line, s \in Sizes : strIn' = out[l] /\ cur' = l /\ size' = s
  BY DEF Decompress
<1>2. at = "encoded" /\ at' = "pairs" /\ UNCHANGED <<map, lines, line, out, posIn, posOut>>
  BY DEF Decompress, callVars
<1>3. posIn = 0 /\ posOut = 0
  BY <1>2 DEF DecodeInv
<1>4. \A n \in 1..line : Kept(map, lines[n], out[n], useDP)
  BY DEF CodedInv
<1>5. PICK sm, text, bytes : sm = map /\ text = lines[l] /\ bytes = out[l]
  OBVIOUS
<1>6. PICK S : CodedBy(sm, text, bytes, S, Len(text))
  BY <1>4, <1>5 DEF Kept
<1>7. CodesAt(sm, text, bytes, 0, 0)
  <2>1. <<0, 0>> \in S /\ 0 \in Nat
    BY <1>6 DEF CodedBy
  <2> QED BY <1>6, <2>1 DEF CodesAt
<1>8. CodesAt(map', lines'[cur'], strIn', posIn', posOut')
  BY <1>1, <1>2, <1>3, <1>5, <1>7
<1>9. Agrees(strOut, lines[cur], posOut)'
  <2>1. \A i \in 1..0 : FALSE
    OBVIOUS
  <2>2. posOut' = 0
    BY <1>2, <1>3
  <2> QED BY <2>1, <2>2 DEF Agrees
<1>10. cur' \in 1..line' /\ strIn' = out'[cur'] /\ size' \in Sizes
  BY <1>1, <1>2
<1> QED BY <1>2, <1>8, <1>9, <1>10 DEF DecodeInv, Decoding

\* Every step of the decoder keeps it, and those of the encoders leave its
\* variables alone.
LEMMA DecodeStep ==
  ASSUME RoomInv, CodedInv, DecodeInv, [Next12]_vars12
  PROVE  DecodeInv'
<1>1. ASSUME at \in {"line12", "fast12", "tail12"}, UNCHANGED <<posIn, posOut>>,
             at' \in {"line12", "fast12", "tail12", "encoded"}
      PROVE  DecodeInv'
  BY <1>1 DEF DecodeInv, Decoding
<1>2. CASE StartLine12 \/ EndFast12 \/ OutOfMemory \/ EndLine12 \/ Return12
  <2>1. /\ at \in {"line12", "fast12", "tail12"} /\ UNCHANGED <<posIn, posOut>>
        /\ at' \in {"line12", "fast12", "tail12", "encoded"}
    BY <1>2 DEF StartLine12, EndFast12, OutOfMemory, EndLine12, Return12
  <2> QED BY <1>1, <2>1
<1>3. CASE FastPair \/ TailCodes
  <2>1. at \in {"fast12", "tail12"} /\ UNCHANGED <<at, posIn, posOut>>
    BY <1>3 DEF FastPair, TailCodes, dvars
  <2> QED BY <1>1, <2>1
<1>4. CASE DPLine
  <2>1. at = "line12" /\ (at' = "encoded" \/ at' = at) /\ UNCHANGED <<posIn, posOut>>
    BY <1>4 DEF DPLine
  <2> QED BY <1>1, <2>1
<1>5. CASE Decompress
  BY <1>5, DecompressStep
<1>6. CASE StorePair
  BY <1>6, StorePairStep
<1>7. CASE EndPairs
  <2>1. /\ at = "pairs" /\ at' = "aligned"
        /\ UNCHANGED <<strIn, size, posIn, posOut, strOut, map, lines, line, cur, out>>
    BY <1>7 DEF EndPairs, inputs, encVars, callVars
  <2>2. /\ cur \in 1..line /\ strIn = out[cur] /\ size \in Sizes
        /\ CodesAt(map, lines[cur], strIn, posIn, posOut) /\ Agrees(strOut, lines[cur], posOut)
    BY <2>1 DEF DecodeInv, Decoding
  <2>3. Agrees(strOut, lines[cur], posOut)'
    BY <2>1, <2>2 DEF Agrees
  <2>4. CodesAt(map', lines'[cur'], strIn', posIn', posOut')
    BY <2>1, <2>2
  <2>5. cur' \in 1..line' /\ strIn' = out'[cur'] /\ size' \in Sizes
    BY <2>1, <2>2
  <2> QED BY <2>1, <2>3, <2>4, <2>5 DEF DecodeInv, Decoding
<1>8. CASE CopyPair
  BY <1>8, CopyPairStep
<1>9. CASE Tail12
  BY <1>9, TailStep
<1>10. CASE UNCHANGED vars12
  <2>1. UNCHANGED <<at, strIn, size, posIn, posOut, strOut, map, lines, line, cur, out>>
    BY <1>10 DEF vars12, dvars, inputs, encVars, callVars
  <2>2. Agrees(strOut, lines[cur], posOut)' <=> Agrees(strOut, lines[cur], posOut)
    BY <2>1 DEF Agrees
  <2> QED BY <2>1, <2>2 DEF DecodeInv
<1> QED BY <1>2, <1>3, <1>4, <1>5, <1>6, <1>7, <1>8, <1>9, <1>10 DEF Next12

\* What the invariants say of a line that was decoded.
LEMMA LineIsBack ==
  ASSUME RoomInv, CodedInv, DecodeInv
  PROVE  LinesComeBack12
<1>1. ASSUME at = "aligned", posIn + 4 >= Len(strIn)
      PROVE  Len(strIn) - posIn \in {0, 2, 3}
  <2>1. cur \in 1..line /\ strIn = out[cur] /\ CodesAt(map, lines[cur], strIn, posIn, posOut)
    BY <1>1 DEF DecodeInv, Decoding
  <2>2. PICK text \in Seq(Byte12), bytes \in Seq(Nat) : text = lines[cur] /\ bytes = strIn
    BY <2>1, DecodedLine
  <2>3. PICK i \in Nat : i = posIn
    BY <2>1, <2>2, CodesAtNext
  <2>4. PICK sm, p : sm = map /\ p = posOut
    OBVIOUS
  <2>5. CodesAt(sm, text, bytes, i, p) /\ i + 4 >= Len(bytes)
    BY <1>1, <2>1, <2>2, <2>3, <2>4
  <2>6. Len(bytes) - i = 0 \/ Len(bytes) - i = 2 \/ Len(bytes) - i = 3
    BY <2>5, CodesAtNext
  <2> QED BY <2>2, <2>3, <2>6
<1>2. ASSUME at = "returned12"
      PROVE  /\ posOut = Len(lines[cur])
             /\ \A i \in 1..Min({posOut, size}) : strOut[i - 1] = lines[cur][i]
  <2>1. cur \in 1..line /\ size \in Sizes /\ posOut = Len(lines[cur]) /\ Agrees(strOut, lines[cur], posOut)
    BY <1>2 DEF DecodeInv, Decoding
  <2>2. PICK text \in Seq(Byte12) : text = lines[cur]
    BY <2>1, DecodedLine
  <2>3. PICK n \in Nat : n = posOut
    BY <2>1, <2>2
  <2>4. PICK s \in Nat : s = size
    BY <2>1, BufferFits
  <2>5. PICK k : k = Min({n, s}) /\ k = IF n <= s THEN n ELSE s
    BY LesserOfTwo
  <2>6. \A i \in 1..k : i \in 1..n /\ i <= s
    BY <2>5
  <2>7. \A i \in 1..n : i <= s => strOut[i - 1] = text[i]
    BY <2>1, <2>2, <2>3, <2>4 DEF Agrees
  <2>8. \A i \in 1..k : strOut[i - 1] = text[i]
    BY <2>6, <2>7
  <2>9. k = Min({posOut, size})
    BY <2>3, <2>4, <2>5
  <2> QED BY <2>1, <2>2, <2>8, <2>9
<1>3. ASSUME useDP, NEW l \in 1..line
      PROVE  Len(out[l]) = (3 * FewestCodes(lines[l]) + 1) \div 2
  <2>1. Kept(map, lines[l], out[l], useDP)
    BY DEF CodedInv
  <2>2. Len(out[l]) = (3 * Fewest(map, lines[l]) + 1) \div 2
    BY <1>3, <2>1 DEF Kept
  <2>3. FewestCodes(lines[l]) = Fewest(map, lines[l])
    BY FewestIs
  <2> QED BY <2>2, <2>3
<1> QED BY <1>1, <1>2, <1>3 DEF LinesComeBack12

\* For every dictionary of strings for which there are codes, entered through
\* the indexes or listed past them, all lines and
\* every buffer of either side: whichever 12-bit encoder completed a line, the
\* decoder returns its length and as much of it as fits, its assertion on the
\* last bytes holds, and compressBulkDP() uses no more codes than any parse of
\* the line has (compressBulk, compressBulkDP, fsst_decompress).
THEOREM LinesComeBack == Spec12 => []LinesComeBack12
<1>1. Init12 => RoomInv /\ CodedInv /\ DecodeInv
  <2>1. Init12 => DecodeInv
    BY DEF Init12, DecodeInv, Decoding
  <2> QED BY <2>1, RoomInitial, CodedInitial
<1>2. RoomInv /\ CodedInv /\ DecodeInv /\ [Next12]_vars12 => (RoomInv /\ CodedInv /\ DecodeInv)'
  <2>1. RoomInv /\ [Next12]_vars12 => RoomInv'
    BY RoomStep
  <2>2. RoomInv /\ CodedInv /\ [Next12]_vars12 => CodedInv'
    BY CodedStep
  <2>3. RoomInv /\ CodedInv /\ DecodeInv /\ [Next12]_vars12 => DecodeInv'
    BY DecodeStep
  <2> QED BY <2>1, <2>2, <2>3
<1>3. RoomInv /\ CodedInv /\ DecodeInv => LinesComeBack12
  BY LineIsBack
<1> QED BY <1>1, <1>2, <1>3, PTL DEF Spec12

-----------------------------------------------------------------------------
(* The row stores                                                          *)

\* what is packed into the b-th block of n rows each
BlockRows(rows, n, b) == SubSeq(rows, (b - 1) * n + 1, Min({b * n, Len(rows)}))
PackedRows(rows) == [rows |-> Len(rows), offsets |-> Ends(rows), data |-> FlattenSeq(rows)]

\* what the rows are compressed to, one by one
Coded(rows) == [i \in 1..Len(rows) |-> Escaped(rows[i])]

RowTypes ==
  /\ layout \in {"blocks", "lines", "fsst"}
  /\ corpus \in Seq(Seq(0..255)) /\ blockSize \in Nat \ {0}
  /\ stored \in 0..Len(corpus)
  /\ hits \in Seq(Nat) /\ hit \in 0..Len(hits)
  /\ \A i \in 1..Len(hits) : hits[i] < Len(corpus)

\* The blocks hold the rows that are stored, blockSize by blockSize.
BlocksHold ==
  layout = "blocks" =>
    \E n \in Nat :
      /\ stored = Min({n * blockSize, Len(corpus)})
      /\ blocks = [b \in 1..n |-> LZ4(PackedRows(BlockRows(corpus, blockSize, b)))]

LinesHold ==
  layout = "lines" =>
    /\ compressed = [i \in 1..stored |-> LZ4(corpus[i])]
    /\ offsets = [i \in 1..stored |-> i]

\* Rows behind each other, and then where they end.
CodesHold ==
  layout = "fsst" =>
    /\ rowPtrs = << >> => stored = 0
    /\ rowPtrs # << >> =>
         /\ compressed = FlattenSeq(Coded(corpus))
         /\ rowPtrs = [i \in 1..Len(corpus) |-> LengthOf(Coded(corpus), i - 1)]
    /\ stored # 0 => offsets = Ends(Coded(corpus))

\* The block at hand is the one it is taken for.
BufferHolds ==
  layout = "blocks" /\ blockBuffer # << >> =>
    /\ currentBlock \in Nat
    /\ blockBuffer = <<PackedRows(BlockRows(corpus, blockSize, currentBlock + 1))>>

RowInv == RowTypes /\ BlocksHold /\ LinesHold /\ CodesHold /\ BufferHolds /\ RowsComeBack

(* What lies between the ends of the rows l and l + 1 is row l + 1.        *)
LEMMA PieceIsRow ==
  ASSUME NEW E, NEW rows \in Seq(Seq(E)), NEW l \in 0..Len(rows) - 1
  PROVE  Piece(FlattenSeq(rows), Ends(rows), l) = rows[l + 1]
<1> DEFINE text == FlattenSeq(rows)
           a == LengthOf(rows, l)
           k == l + 1
<1>1. k \in 1..Len(rows) /\ k - 1 = l /\ l \in 0..Len(rows) /\ Len(rows) \in Nat /\ l \in Nat
  OBVIOUS
<1>2. text \in Seq(E) /\ rows[k] \in Seq(E)
  BY <1>1, FlattenType
<1>3. a \in Nat /\ LengthOf(rows, 0) = 0
  BY <1>1, LengthOfPrefix
<1>4. PICK n \in Nat : n = Len(rows[k])
  BY <1>2
<1>5. /\ LengthOf(rows, k) = a + n
      /\ LengthOf(rows, k) <= Len(text)
      /\ \A i \in 1..n : text[a + i] = rows[k][i]
  <2>1. PICK j : j = k
    OBVIOUS
  <2>2. j \in 1..Len(rows) /\ LengthOf(rows, j - 1) = a /\ Len(rows[j]) = n
    BY <1>1, <1>4, <2>1
  <2>3. /\ LengthOf(rows, j) = LengthOf(rows, j - 1) + Len(rows[j])
        /\ LengthOf(rows, j) <= Len(FlattenSeq(rows))
        /\ \A i \in 1..Len(rows[j]) : FlattenSeq(rows)[LengthOf(rows, j - 1) + i] = rows[j][i]
    BY <2>2, FlattenPlace
  <2> QED BY <2>1, <2>2, <2>3
<1>6. Ends(rows)[k] = a + n
  BY <1>1, <1>5 DEF Ends, LengthOf
<1>7. (IF l = 0 THEN 0 ELSE Ends(rows)[l]) = a
  <2>1. CASE l = 0
    BY <1>3, <2>1
  <2>2. CASE l # 0
    <3>1. l \in 1..Len(rows)
      BY <1>1, <2>2
    <3> QED BY <2>2, <3>1 DEF Ends, LengthOf
  <2> QED BY <2>1, <2>2
<1>8. Piece(text, Ends(rows), l) = SubSeq(text, a + 1, a + n)
  BY <1>6, <1>7 DEF Piece
<1> HIDE DEF text, a, k
<1>9. /\ SubSeq(text, a + 1, a + n) \in Seq(E)
      /\ Len(SubSeq(text, a + 1, a + n)) = n
      /\ \A i \in 1..n : SubSeq(text, a + 1, a + n)[i] = text[a + i]
  BY <1>2, <1>3, <1>5, Slice
<1>10. SubSeq(text, a + 1, a + n) = rows[k]
  <2>1. PICK part : part = SubSeq(text, a + 1, a + n)
    OBVIOUS
  <2>2. PICK row : row = rows[k]
    OBVIOUS
  <2>3. part \in Seq(E) /\ row \in Seq(E) /\ Len(part) = n /\ Len(row) = n
    BY <1>2, <1>4, <1>9, <2>1, <2>2
  <2>4. \A i \in 1..n : part[i] = row[i]
    BY <1>5, <1>9, <2>1, <2>2
  <2>5. part = row
    BY <2>3, <2>4, SeqEqual
  <2> QED BY <2>1, <2>2, <2>5
<1> QED BY <1>8, <1>10 DEF text, k

(* An escaped row has two codes for each byte, and the second is the byte. *)
LEMMA EscapesComeBack ==
  ASSUME NEW row \in Seq(0..255)
  PROVE  Escaped(row) \in Seq(0..255) /\ Unescaped(Escaped(row)) = row
<1> DEFINE pairs == [i \in 1..Len(row) |-> <<255, row[i]>>]
           T == {k \in Nat : k <= Len(row) => LengthOf(pairs, k) = 2 * k}
<1>1. pairs \in Seq(Seq(0..255)) /\ Len(pairs) = Len(row) /\ Len(row) \in Nat
  <2>1. ASSUME NEW i \in 1..Len(row) PROVE <<255, row[i]>> \in Seq(0..255)
    <3>1. row[i] \in 0..255
      BY ElementOfSeq
    <3>2. 255 \in 0..255
      OBVIOUS
    <3> QED BY <3>1, <3>2
  <2> QED BY <2>1
<1>2. \A i \in 1..Len(row) : pairs[i] = <<255, row[i]>> /\ Len(pairs[i]) = 2 /\ pairs[i][2] = row[i]
  OBVIOUS
<1> HIDE DEF pairs
<1>3. FlattenSeq(pairs) \in Seq(0..255)
  BY <1>1, FlattenType
<1>4. ASSUME NEW k \in Nat, k <= Len(row) PROVE LengthOf(pairs, k) = 2 * k
  <2>1. 0 \in T
    BY <1>1, LengthOfPrefix
  <2>2. ASSUME NEW j \in Nat, j \in T PROVE j + 1 \in T
    <3> SUFFICES ASSUME j + 1 <= Len(row) PROVE LengthOf(pairs, j + 1) = 2 * (j + 1)
      OBVIOUS
    <3>1. j \in 0..Len(pairs) - 1 /\ j + 1 \in 1..Len(row) /\ j <= Len(row)
      BY <1>1
    <3>2. LengthOf(pairs, j + 1) = LengthOf(pairs, j) + Len(pairs[j + 1])
      BY <1>1, <3>1, LengthOfPrefix
    <3>3. Len(pairs[j + 1]) = 2 /\ LengthOf(pairs, j) = 2 * j
      BY <1>2, <2>2, <3>1
    <3> QED BY <3>2, <3>3
  <2> HIDE DEF T
  <2>3. k \in T
    BY <2>1, <2>2, Induction
  <2> QED BY <1>4, <2>3 DEF T
<1>5. Len(FlattenSeq(pairs)) = 2 * Len(row)
  <2>1. LengthOf(pairs, Len(pairs)) = Len(FlattenSeq(pairs))
    BY <1>1, LengthOfPrefix
  <2>2. LengthOf(pairs, Len(row)) = 2 * Len(row)
    BY <1>1, <1>4
  <2> QED BY <1>1, <2>1, <2>2
<1>6. ASSUME NEW i \in 1..Len(row) PROVE FlattenSeq(pairs)[2 * i] = row[i]
  <2>1. i \in 1..Len(pairs) /\ i - 1 \in Nat /\ i - 1 <= Len(row) /\ 2 \in 1..2
    BY <1>1
  <2>2. FlattenSeq(pairs)[LengthOf(pairs, i - 1) + 2] = pairs[i][2]
    BY <1>1, <1>2, <2>1, FlattenPlace
  <2>3. LengthOf(pairs, i - 1) = 2 * (i - 1)
    BY <1>4, <2>1
  <2>4. LengthOf(pairs, i - 1) + 2 = 2 * i
    BY <2>3
  <2> QED BY <1>2, <2>2, <2>4
<1>7. Escaped(row) = FlattenSeq(pairs)
  BY DEF Escaped, pairs
<1>8. Unescaped(Escaped(row)) = [i \in 1..Len(row) |-> FlattenSeq(pairs)[2 * i]]
  <2>1. Len(FlattenSeq(pairs)) \div 2 = Len(row)
    BY <1>1, <1>5
  <2> QED BY <1>7, <2>1 DEF Unescaped
<1>9. Unescaped(Escaped(row)) = [i \in 1..Len(row) |-> row[i]]
  BY <1>6, <1>8
<1> QED BY <1>3, <1>7, <1>9

(* Row l of a corpus is row l - b * n of its block b (counted from 0).     *)
LEMMA RowInItsBlock ==
  ASSUME NEW E, NEW rows \in Seq(E), NEW n \in Nat \ {0}, NEW b \in Nat,
         NEW l \in Nat, l < Len(rows), b * n <= l, l < (b + 1) * n
  PROVE  /\ BlockRows(rows, n, b + 1) \in Seq(E)
         /\ l - b * n \in 0..Len(BlockRows(rows, n, b + 1)) - 1
         /\ BlockRows(rows, n, b + 1)[(l - b * n) + 1] = rows[l + 1]
<1>1. PICK a \in Nat : a = b * n
  OBVIOUS
<1>2. (b + 1) * n = a + n /\ ((b + 1) - 1) * n = a
  BY <1>1
<1>3. PICK top \in Nat : /\ top = Min({a + n, Len(rows)})
                         /\ a < top /\ top <= Len(rows) /\ l < top
  <2>1. Len(rows) \in Nat /\ a + n \in Nat
    OBVIOUS
  <2>2. Min({a + n, Len(rows)}) = IF a + n <= Len(rows) THEN a + n ELSE Len(rows)
    BY <2>1, LesserOfTwo
  <2> QED BY <1>1, <1>2, <2>1, <2>2
<1>4. BlockRows(rows, n, b + 1) = SubSeq(rows, a + 1, top)
  BY <1>2, <1>3 DEF BlockRows
<1>5. PICK k \in Nat : k = top - a
  BY <1>3
<1>6. top = a + k /\ a + k <= Len(rows)
  BY <1>3, <1>5
<1>7. /\ SubSeq(rows, a + 1, a + k) \in Seq(E)
      /\ Len(SubSeq(rows, a + 1, a + k)) = k
      /\ \A i \in 1..k : SubSeq(rows, a + 1, a + k)[i] = rows[a + i]
  BY <1>6, Slice
<1>8. l - a \in 0..k - 1 /\ (l - a) + 1 \in 1..k /\ a + ((l - a) + 1) = l + 1
  BY <1>1, <1>3, <1>5
<1>9. PICK block : block = SubSeq(rows, a + 1, a + k)
  OBVIOUS
<1>10. block = BlockRows(rows, n, b + 1)
  BY <1>4, <1>6, <1>9
<1>11. block \in Seq(E) /\ Len(block) = k /\ \A i \in 1..k : block[i] = rows[a + i]
  BY <1>7, <1>9
<1>12. block[(l - a) + 1] = rows[l + 1]
  BY <1>8, <1>11
<1> QED BY <1>1, <1>8, <1>10, <1>11, <1>12

(* Division, as the block of a row is found.                               *)
LEMMA InDivision ==
  ASSUME NEW l \in Nat, NEW n \in Nat \ {0}
  PROVE  /\ l \div n \in Nat
         /\ (l \div n) * n <= l
         /\ l < (l \div n + 1) * n
OBVIOUS

LEMMA MultiplesInOrder ==
  ASSUME NEW a \in Nat, NEW b \in Nat, NEW n \in Nat, a * n < b * n
  PROVE  a < b
OBVIOUS

LEMMA RowsAtFirst == InitRows => RowInv
<1> SUFFICES ASSUME InitRows PROVE RowInv
  OBVIOUS
<1>1. RowTypes
  <2>1. corpus \in Seq(Seq(0..255)) /\ blockSize \in Nat \ {0}
    BY RowsAssumption DEF InitRows
  <2>2. hits \in Seq(Nat) /\ Len(hits) = 0 /\ hit = 0
    BY DEF InitRows
  <2>3. stored \in 0..Len(corpus)
    BY <2>1 DEF InitRows
  <2> QED BY <2>1, <2>2, <2>3 DEF InitRows, RowTypes
<1>2. BlocksHold
  <2>1. blockSize \in Nat /\ Len(corpus) \in Nat
    BY <1>1 DEF RowTypes
  <2>2. 0 * blockSize = 0
    BY <2>1
  <2>3. Min({0 * blockSize, Len(corpus)}) = 0
    BY <2>1, <2>2, LesserOfTwo
  <2>4. blocks = [b \in 1..0 |-> LZ4(PackedRows(BlockRows(corpus, blockSize, b)))]
    BY DEF InitRows
  <2>5. stored = Min({0 * blockSize, Len(corpus)})
    BY <2>3 DEF InitRows
  <2> QED BY <2>4, <2>5 DEF BlocksHold
<1>3. LinesHold /\ RowsComeBack
  BY DEF InitRows, LinesHold, RowsComeBack
<1>4. CodesHold /\ BufferHolds
  BY DEF InitRows, CodesHold, BufferHolds
<1> QED BY <1>1, <1>2, <1>3, <1>4 DEF RowInv

LEMMA FormBlockStep == ASSUME RowInv, FormBlock PROVE RowInv'
<1>1. /\ layout = "blocks" /\ stored # Len(corpus)
      /\ UNCHANGED <<layout, corpus, blockSize, hits, hit, currentBlock, blockBuffer, target>>
  BY DEF FormBlock
<1>2. /\ corpus \in Seq(Seq(0..255)) /\ Len(corpus) \in Nat
      /\ blockSize \in Nat \ {0} /\ stored \in 0..Len(corpus)
  BY DEF RowInv, RowTypes
<1>3. PICK n \in Nat : /\ stored = Min({n * blockSize, Len(corpus)})
                       /\ blocks = [b \in 1..n |-> LZ4(PackedRows(BlockRows(corpus, blockSize, b)))]
  BY <1>1 DEF RowInv, BlocksHold
<1>4. PICK a \in Nat : a = n * blockSize
  BY <1>2
<1>5. stored = a /\ (n + 1) * blockSize = a + blockSize /\ ((n + 1) - 1) * blockSize = a
  <2>1. Min({a, Len(corpus)}) = IF a <= Len(corpus) THEN a ELSE Len(corpus)
    BY <1>2, LesserOfTwo
  <2>2. stored = a
    BY <1>1, <1>2, <1>3, <1>4, <2>1
  <2> QED BY <1>2, <1>4, <2>2
<1>6. PICK top : top = Min({(n + 1) * blockSize, Len(corpus)})
  OBVIOUS
<1>7. top \in 0..Len(corpus)
  <2>1. PICK k \in Nat : k = a + blockSize
    BY <1>2
  <2>2. Min({k, Len(corpus)}) = IF k <= Len(corpus) THEN k ELSE Len(corpus)
    BY <1>2, LesserOfTwo
  <2>3. top = Min({k, Len(corpus)})
    BY <1>5, <1>6, <2>1
  <2> QED BY <1>2, <2>2, <2>3
<1>8. stored' = top /\ SubSeq(corpus, stored + 1, top) = BlockRows(corpus, blockSize, n + 1)
  BY <1>5, <1>6 DEF FormBlock, BlockRows
<1>9. blocks' = Append(blocks, LZ4(PackedRows(BlockRows(corpus, blockSize, n + 1))))
  BY <1>5, <1>6, <1>8 DEF FormBlock, PackedRows
<1>10. blocks' = [b \in 1..n + 1 |-> LZ4(PackedRows(BlockRows(corpus, blockSize, b)))]
  BY <1>3, <1>9
<1>11. RowTypes'
  BY <1>1, <1>7, <1>8 DEF RowInv, RowTypes
<1>12. BlocksHold'
  <2>1. n + 1 \in Nat /\ stored' = Min({(n + 1) * blockSize', Len(corpus')})
    BY <1>1, <1>6, <1>8
  <2>2. blocks' = [b \in 1..n + 1 |-> LZ4(PackedRows(BlockRows(corpus', blockSize', b)))]
    BY <1>1, <1>10
  <2> QED BY <2>1, <2>2 DEF BlocksHold
<1>13. LinesHold' /\ CodesHold' /\ BufferHolds' /\ RowsComeBack'
  BY <1>1 DEF RowInv, LinesHold, CodesHold, BufferHolds, RowsComeBack
<1> QED BY <1>11, <1>12, <1>13 DEF RowInv

LEMMA StoreLineStep == ASSUME RowInv, StoreLine PROVE RowInv'
<1>1. /\ layout = "lines" /\ stored # Len(corpus) /\ stored' = stored + 1
      /\ compressed' = Append(compressed, LZ4(corpus[stored + 1]))
      /\ offsets' = Append(offsets, Len(compressed'))
      /\ UNCHANGED <<layout, corpus, blockSize, hits, hit, currentBlock, blockBuffer, target>>
  BY DEF StoreLine
<1>2. Len(corpus) \in Nat /\ stored \in Nat /\ stored <= Len(corpus)
  BY DEF RowInv, RowTypes
<1>3. /\ compressed = [i \in 1..stored |-> LZ4(corpus[i])]
      /\ offsets = [i \in 1..stored |-> i]
  BY <1>1 DEF RowInv, LinesHold
<1>4. compressed' = [i \in 1..stored + 1 |-> LZ4(corpus[i])]
  BY <1>1, <1>2, <1>3
<1>5. Len(compressed') = stored + 1
  BY <1>2, <1>4
<1>6. offsets' = [i \in 1..stored + 1 |-> i]
  BY <1>1, <1>2, <1>3, <1>5
<1>7. RowTypes'
  BY <1>1, <1>2 DEF RowInv, RowTypes
<1>8. LinesHold' /\ BlocksHold' /\ CodesHold' /\ BufferHolds'
  BY <1>1, <1>4, <1>6 DEF LinesHold, BlocksHold, CodesHold, BufferHolds
<1>9. RowsComeBack'
  BY <1>1 DEF RowInv, RowsComeBack
<1> QED BY <1>7, <1>8, <1>9 DEF RowInv

\* The rows that are compressed one by one.
LEMMA CodedRows ==
  ASSUME NEW rows \in Seq(Seq(0..255))
  PROVE  /\ Coded(rows) \in Seq(Seq(0..255)) /\ Len(Coded(rows)) = Len(rows)
         /\ \A i \in 1..Len(rows) : Unescaped(Coded(rows)[i]) = rows[i]
         /\ \A j \in 0..Len(rows) : SubSeq(Coded(rows), 1, j) = [i \in 1..j |-> Escaped(rows[i])]
<1>1. ASSUME NEW i \in 1..Len(rows)
      PROVE  Escaped(rows[i]) \in Seq(0..255) /\ Unescaped(Escaped(rows[i])) = rows[i]
  <2>1. rows[i] \in Seq(0..255)
    BY ElementOfSeq
  <2> QED BY <2>1, EscapesComeBack
<1>2. Coded(rows) \in Seq(Seq(0..255)) /\ Len(Coded(rows)) = Len(rows)
  BY <1>1 DEF Coded
<1>3. \A i \in 1..Len(rows) : Unescaped(Coded(rows)[i]) = rows[i]
  BY <1>1 DEF Coded
<1>4. ASSUME NEW j \in 0..Len(rows)
      PROVE  SubSeq(Coded(rows), 1, j) = [i \in 1..j |-> Escaped(rows[i])]
  <2>1. \A i \in 1..j : Coded(rows)[i] = Escaped(rows[i])
    BY DEF Coded
  <2>2. SubSeq(Coded(rows), 1, j) = [i \in 1..j |-> Coded(rows)[i]]
    BY <1>2
  <2> QED BY <2>1, <2>2
<1> QED BY <1>2, <1>3, <1>4

LEMMA CompressRowsStep == ASSUME RowInv, CompressRows PROVE RowInv'
<1>1. /\ layout = "fsst" /\ stored = 0 /\ corpus # << >>
      /\ compressed' = FlattenSeq([i \in 1..Len(corpus) |-> Escaped(corpus[i])])
      /\ rowPtrs' = [i \in 1..Len(corpus) |->
                       Len(FlattenSeq([j \in 1..i - 1 |-> Escaped(corpus[j])]))]
      /\ UNCHANGED <<layout, corpus, blockSize, stored, hits, hit, currentBlock, blockBuffer, target>>
  BY DEF CompressRows
<1>2. corpus \in Seq(Seq(0..255)) /\ Len(corpus) \in Nat
  BY DEF RowInv, RowTypes
<1>3. compressed' = FlattenSeq(Coded(corpus))
  BY <1>1 DEF Coded
<1>4. ASSUME NEW i \in 1..Len(corpus)
      PROVE  Len(FlattenSeq([j \in 1..i - 1 |-> Escaped(corpus[j])])) = LengthOf(Coded(corpus), i - 1)
  <2>1. i - 1 \in 0..Len(corpus)
    BY <1>2
  <2> QED BY <1>2, <2>1, CodedRows DEF LengthOf
<1>5. rowPtrs' = [i \in 1..Len(corpus) |-> LengthOf(Coded(corpus), i - 1)]
  BY <1>1, <1>4
<1>6. CodesHold'
  BY <1>1, <1>3, <1>5 DEF CodesHold
<1>7. RowTypes' /\ RowsComeBack'
  BY <1>1 DEF RowInv, RowTypes, RowsComeBack
<1>8. BlocksHold' /\ LinesHold' /\ BufferHolds'
  BY <1>1 DEF BlocksHold, LinesHold, BufferHolds
<1> QED BY <1>6, <1>7, <1>8 DEF RowInv

LEMMA KeepOffsetsStep == ASSUME RowInv, KeepOffsets PROVE RowInv'
<1>1. /\ layout = "fsst" /\ rowPtrs # << >> /\ offsets' = EndsOfRows /\ stored' = Len(corpus)
      /\ UNCHANGED <<layout, corpus, blockSize, compressed, rowPtrs, hits, hit,
                     currentBlock, blockBuffer, target>>
  BY DEF KeepOffsets
<1>2. PICK rows : rows = Coded(corpus)
  OBVIOUS
<1>3. PICK n : n = Len(corpus)
  OBVIOUS
<1>4. /\ corpus \in Seq(Seq(0..255)) /\ n \in Nat
      /\ rows \in Seq(Seq(0..255)) /\ Len(rows) = n
  BY <1>2, <1>3, CodedRows DEF RowInv, RowTypes
<1>5. compressed = FlattenSeq(rows) /\ rowPtrs = [i \in 1..n |-> LengthOf(rows, i - 1)]
  BY <1>1, <1>2, <1>3 DEF RowInv, CodesHold
<1>6. ASSUME NEW i \in 1..n
      PROVE  (IF i < n THEN rowPtrs[i + 1] ELSE Len(compressed)) = LengthOf(rows, i)
  <2>1. CASE i < n
    <3>1. i + 1 \in 1..n /\ (i + 1) - 1 = i
      BY <1>4, <2>1
    <3> QED BY <1>5, <2>1, <3>1
  <2>2. CASE ~(i < n)
    <3>1. i = n
      BY <1>4, <2>2
    <3>2. LengthOf(rows, n) = Len(FlattenSeq(rows))
      BY <1>4, LengthOfPrefix
    <3> QED BY <1>5, <2>2, <3>1, <3>2
  <2> QED BY <2>1, <2>2
<1>7. Len(rowPtrs) = n
  BY <1>4, <1>5
<1>8. EndsOfRows = [i \in 1..n |-> LengthOf(rows, i)]
  BY <1>6, <1>7 DEF EndsOfRows
<1>9. offsets' = Ends(rows)
  BY <1>1, <1>4, <1>8 DEF Ends, LengthOf
<1>10. CodesHold'
  <2>1. compressed' = FlattenSeq(Coded(corpus')) /\ offsets' = Ends(Coded(corpus')) /\ rowPtrs' # << >>
    BY <1>1, <1>2, <1>5, <1>9
  <2>2. rowPtrs' = [i \in 1..Len(corpus') |-> LengthOf(Coded(corpus'), i - 1)]
    BY <1>1, <1>2, <1>3, <1>5
  <2> QED BY <2>1, <2>2 DEF CodesHold
<1>11. RowTypes' /\ RowsComeBack'
  BY <1>1, <1>3, <1>4 DEF RowInv, RowTypes, RowsComeBack
<1>12. BlocksHold' /\ LinesHold' /\ BufferHolds'
  BY <1>1 DEF BlocksHold, LinesHold, BufferHolds
<1> QED BY <1>10, <1>11, <1>12 DEF RowInv

LEMMA AskStep == ASSUME RowInv, Ask PROVE RowInv'
<1>1. /\ hits' \in Hits /\ \A i \in 1..Len(hits') : hits'[i] < Len(corpus)
      /\ hit' = 0 /\ blockBuffer' = << >> /\ target' = << >>
      /\ UNCHANGED <<layout, corpus, blockSize, stored, blocks, compressed, offsets, rowPtrs>>
  BY DEF Ask
<1>2. hits' \in Seq(Nat) /\ Len(hits') \in Nat
  BY <1>1, RowsAssumption
<1>3. RowTypes'
  BY <1>1, <1>2 DEF RowInv, RowTypes
<1>4. RowsComeBack'
  BY <1>1 DEF RowsComeBack
<1>5. BlocksHold' /\ LinesHold' /\ CodesHold' /\ BufferHolds'
  BY <1>1 DEF RowInv, BlocksHold, LinesHold, CodesHold, BufferHolds
<1> QED BY <1>3, <1>4, <1>5 DEF RowInv

\* The row that is wanted is one of the corpus, all of which is compressed.
LEMMA WantedRow ==
  ASSUME RowInv, Wanted
  PROVE  /\ Row \in Nat /\ Row < Len(corpus) /\ stored = Len(corpus)
         /\ hit \in Nat /\ hit + 1 \in 1..Len(hits) /\ Row = hits[hit + 1]
<1>1. /\ hits \in Seq(Nat) /\ Len(hits) \in Nat /\ hit \in Nat /\ hit < Len(hits)
      /\ \A i \in 1..Len(hits) : hits[i] < Len(corpus)
  BY DEF RowInv, RowTypes, Wanted
<1>2. hit + 1 \in 1..Len(hits)
  BY <1>1
<1>3. hits[hit + 1] \in Nat /\ hits[hit + 1] < Len(corpus)
  BY <1>1, <1>2
<1> QED BY <1>1, <1>2, <1>3 DEF Row, Wanted, Compressed

LEMMA SwitchBlockStep == ASSUME RowInv, SwitchBlock PROVE RowInv'
<1>1. /\ Wanted /\ layout = "blocks"
      /\ currentBlock' = Row \div blockSize
      /\ blockBuffer' = <<blocks[currentBlock' + 1].lz4>>
      /\ UNCHANGED <<layout, corpus, blockSize, stored, blocks, compressed, offsets, rowPtrs,
                     hits, hit, target>>
  BY DEF SwitchBlock
<1>2. Row \in Nat /\ Row < Len(corpus) /\ stored = Len(corpus)
  BY <1>1, WantedRow
<1>3. blockSize \in Nat \ {0} /\ Len(corpus) \in Nat
  BY DEF RowInv, RowTypes
<1>4. PICK n \in Nat : /\ stored = Min({n * blockSize, Len(corpus)})
                       /\ blocks = [b \in 1..n |-> LZ4(PackedRows(BlockRows(corpus, blockSize, b)))]
  BY <1>1 DEF RowInv, BlocksHold
<1>5. PICK c \in Nat : c = Row \div blockSize /\ c * blockSize <= Row
  BY <1>2, <1>3, InDivision
<1>6. c + 1 \in 1..n
  <2>1. n * blockSize \in Nat /\ c * blockSize \in Nat
    BY <1>3
  <2>2. Len(corpus) <= n * blockSize
    <3>1. PICK a \in Nat : a = n * blockSize
      BY <2>1
    <3>2. Min({a, Len(corpus)}) = IF a <= Len(corpus) THEN a ELSE Len(corpus)
      BY <1>3, LesserOfTwo
    <3> QED BY <1>2, <1>3, <1>4, <3>1, <3>2
  <2>3. c * blockSize < n * blockSize
    BY <1>2, <1>3, <1>5, <2>1, <2>2
  <2>4. c < n
    BY <1>3, <2>3, MultiplesInOrder
  <2> QED BY <2>4
<1>7. blocks[c + 1].lz4 = PackedRows(BlockRows(corpus, blockSize, c + 1))
  BY <1>4, <1>6 DEF LZ4
<1>8. BufferHolds'
  BY <1>1, <1>5, <1>7 DEF BufferHolds
<1>9. RowTypes' /\ RowsComeBack'
  BY <1>1 DEF RowInv, RowTypes, RowsComeBack
<1>10. BlocksHold' /\ LinesHold' /\ CodesHold'
  BY <1>1 DEF RowInv, BlocksHold, LinesHold, CodesHold
<1> QED BY <1>8, <1>9, <1>10 DEF RowInv

(* Writing the row that is wanted is all there is to do.                   *)
LEMMA WriteStep == ASSUME RowInv, Wanted, Write(corpus[Row + 1]) PROVE RowInv'
<1>1. /\ target' = Append(target, Append(corpus[Row + 1], Newline)) /\ hit' = hit + 1
      /\ UNCHANGED <<layout, corpus, blockSize, stored, blocks, compressed, offsets, rowPtrs, hits,
                     currentBlock, blockBuffer>>
  BY DEF Write
<1>2. hit \in Nat /\ hit + 1 \in 1..Len(hits) /\ Row = hits[hit + 1]
  BY WantedRow
<1>3. target = [i \in 1..hit |-> Append(corpus[hits[i] + 1], Newline)]
  BY DEF RowInv, RowsComeBack
<1>4. target' = [i \in 1..hit + 1 |-> Append(corpus[hits[i] + 1], Newline)]
  <2>1. PICK f : f = [i \in 1..hit + 1 |-> Append(corpus[hits[i] + 1], Newline)]
    OBVIOUS
  <2>2. hit + 1 \in 1..hit + 1 /\ \A i \in 1..hit : i \in 1..hit + 1
    BY <1>2
  <2>3. f[hit + 1] = Append(corpus[Row + 1], Newline)
    BY <1>2, <2>1, <2>2
  <2>4. target = [i \in 1..hit |-> f[i]]
    BY <1>3, <2>1, <2>2
  <2>5. Append([i \in 1..hit |-> f[i]], f[hit + 1]) = [i \in 1..hit + 1 |-> f[i]]
    BY <1>2
  <2>6. f = [i \in 1..hit + 1 |-> f[i]]
    BY <2>1
  <2>7. target' = f
    BY <1>1, <2>3, <2>4, <2>5, <2>6
  <2> QED BY <2>1, <2>7
<1>5. RowsComeBack'
  BY <1>1, <1>4 DEF RowsComeBack
<1>6. RowTypes'
  BY <1>1, <1>2 DEF RowInv, RowTypes
<1>7. BlocksHold' /\ LinesHold' /\ CodesHold' /\ BufferHolds'
  BY <1>1 DEF RowInv, BlocksHold, LinesHold, CodesHold, BufferHolds
<1> QED BY <1>5, <1>6, <1>7 DEF RowInv

LEMMA UnpackRowStep == ASSUME RowInv, UnpackRow PROVE RowInv'
<1>1. Wanted /\ layout = "blocks" /\ blockBuffer # << >> /\ InBlock(Row)
  BY DEF UnpackRow
<1>2. corpus \in Seq(Seq(0..255)) /\ blockSize \in Nat \ {0} /\ Row \in Nat /\ Row < Len(corpus)
  BY <1>1, WantedRow DEF RowInv, RowTypes
<1>3. /\ currentBlock \in Nat
      /\ blockBuffer = <<PackedRows(BlockRows(corpus, blockSize, currentBlock + 1))>>
  BY <1>1 DEF RowInv, BufferHolds
<1>4. PICK rows : rows = BlockRows(corpus, blockSize, currentBlock + 1)
  OBVIOUS
<1>5. PICK l : l = Row - currentBlock * blockSize
  OBVIOUS
<1>6. rows \in Seq(Seq(0..255)) /\ l \in 0..Len(rows) - 1 /\ rows[l + 1] = corpus[Row + 1]
  BY <1>1, <1>2, <1>3, <1>4, <1>5, RowInItsBlock DEF InBlock
<1>7. Piece(FlattenSeq(rows), Ends(rows), l) = rows[l + 1]
  BY <1>6, PieceIsRow
<1>8. blockBuffer[1].data = FlattenSeq(rows) /\ blockBuffer[1].offsets = Ends(rows)
  BY <1>3, <1>4 DEF PackedRows
<1>9. Write(corpus[Row + 1])
  BY <1>5, <1>6, <1>7, <1>8 DEF UnpackRow
<1> QED BY <1>1, <1>9, WriteStep

LEMMA DecompressLineStep == ASSUME RowInv, DecompressLine PROVE RowInv'
<1>1. Wanted /\ layout = "lines"
  BY DEF DecompressLine
<1>2. Row \in Nat /\ Row < Len(corpus) /\ stored = Len(corpus) /\ Len(corpus) \in Nat
  BY <1>1, WantedRow DEF RowInv, RowTypes
<1>3. PICK l : l = Row
  OBVIOUS
<1>4. PICK n : n = stored
  OBVIOUS
<1>5. l \in Nat /\ n \in Nat /\ l + 1 \in 1..n
  BY <1>2, <1>3, <1>4
<1>6. compressed = [i \in 1..n |-> LZ4(corpus[i])] /\ offsets = [i \in 1..n |-> i]
  BY <1>1, <1>4 DEF RowInv, LinesHold
<1>7. (IF l = 0 THEN 0 ELSE offsets[l]) = l /\ offsets[l + 1] = l + 1
  BY <1>5, <1>6
<1>8. Piece(compressed, offsets, l) = SubSeq(compressed, l + 1, l + 1)
  BY <1>7 DEF Piece
<1>9. compressed[l + 1] = LZ4(corpus[l + 1]) /\ Len(compressed) = n
  BY <1>5, <1>6
<1>10. SubSeq(compressed, l + 1, l + 1)[1] = compressed[l + 1]
  BY <1>5, <1>6
<1>11. Piece(compressed, offsets, Row)[1].lz4 = corpus[Row + 1]
  <2>1. Piece(compressed, offsets, Row)[1] = LZ4(corpus[Row + 1])
    BY <1>3, <1>8, <1>9, <1>10
  <2>2. LZ4(corpus[Row + 1]).lz4 = corpus[Row + 1]
    BY DEF LZ4
  <2> QED BY <2>1, <2>2
<1>12. Write(corpus[Row + 1])
  BY <1>11 DEF DecompressLine
<1> QED BY <1>1, <1>12, WriteStep

LEMMA DecompressRowStep == ASSUME RowInv, DecompressRow PROVE RowInv'
<1>1. Wanted /\ layout = "fsst"
  BY DEF DecompressRow
<1>2. Row \in Nat /\ Row < Len(corpus) /\ stored = Len(corpus) /\ corpus \in Seq(Seq(0..255))
  BY <1>1, WantedRow DEF RowInv, RowTypes
<1>3. PICK rows : rows = Coded(corpus)
  OBVIOUS
<1>4. /\ rows \in Seq(Seq(0..255)) /\ Len(rows) = Len(corpus)
      /\ \A i \in 1..Len(corpus) : Unescaped(rows[i]) = corpus[i]
  BY <1>2, <1>3, CodedRows
<1>5. PICK l : l = Row
  OBVIOUS
<1>6. l \in 0..Len(rows) - 1 /\ l + 1 \in 1..Len(corpus) /\ stored # 0
  BY <1>2, <1>4, <1>5
<1>7. rowPtrs # << >> /\ compressed = FlattenSeq(rows) /\ offsets = Ends(rows)
  BY <1>1, <1>3, <1>6 DEF RowInv, CodesHold
<1>8. Piece(compressed, offsets, l) = rows[l + 1]
  BY <1>4, <1>6, <1>7, PieceIsRow
<1>9. Unescaped(Piece(compressed, offsets, Row)) = corpus[Row + 1]
  BY <1>4, <1>5, <1>6, <1>8
<1>10. Write(corpus[Row + 1])
  BY <1>9 DEF DecompressRow
<1> QED BY <1>1, <1>10, WriteStep

LEMMA RowStep == RowInv /\ [NextRows]_rvars => RowInv'
<1>1. ASSUME RowInv, UNCHANGED rvars PROVE RowInv'
  <2>1. RowTypes' /\ RowsComeBack'
    BY <1>1 DEF RowInv, RowTypes, RowsComeBack, rvars
  <2>2. BlocksHold' /\ LinesHold' /\ CodesHold' /\ BufferHolds'
    BY <1>1 DEF RowInv, BlocksHold, LinesHold, CodesHold, BufferHolds, rvars
  <2> QED BY <2>1, <2>2 DEF RowInv
<1> QED
  BY <1>1, FormBlockStep, StoreLineStep, CompressRowsStep, KeepOffsetsStep, AskStep, SwitchBlockStep,
     UnpackRowStep, DecompressLineStep, DecompressRowStep
  DEF NextRows

\* For any corpus, all block sizes and all requests: whichever way the rows
\* are stored, each row that is asked for comes back, in the order of the
\* request, the empty ones and those asked for again among them
\* (compressCorpus, decompressRows).
THEOREM RowsAreReturned == RowSpec => []RowsComeBack
<1>1. RowInv => RowsComeBack
  BY DEF RowInv
<1> QED
  BY <1>1, RowsAtFirst, RowStep, PTL DEF RowSpec

=============================================================================
