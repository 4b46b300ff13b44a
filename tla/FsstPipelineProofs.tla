------------------------- MODULE FsstPipelineProofs -------------------------
(***************************************************************************)
(* The utility keeps its buffers apart, its blocks in order, and emits     *)
(* what module BlockFilter promises, for every set of files, block size    *)
(* and codec: IInv and then CompleteInv of FsstPipelineInv are inductive   *)
(* and imply it.                                                           *)
(***************************************************************************)
EXTENDS FsstPipelineInv, DataLemmas

-----------------------------------------------------------------------------
(* The file format                                                         *)

(* What FormatAssumption says of a file.                                   *)
LEMMA FileFacts ==
  ASSUME NEW f \in Files
  PROVE  f \in Seq(Byte) /\ Len(f) \in Nat /\ BlkSz \in Nat \ {0} /\ Base \in Nat \ {0, 1}
BY FormatAssumption

(* Integer division, by its two inequalities.                              *)
LEMMA Division ==
  ASSUME NEW a \in Nat, NEW b \in Nat \ {0}
  PROVE  a \div b \in Nat /\ b * (a \div b) <= a /\ a < b * (a \div b) + b
OBVIOUS

(* A product grows with a factor.                                          *)
LEMMA ProductGrows ==
  ASSUME NEW a \in Nat, NEW b \in Nat, NEW c \in Nat, a <= b
  PROVE  a * c <= b * c
OBVIOUS

(* The blocks of a file: there is a k-th one when bytes are left behind    *)
(* the first k - 1, and it is not empty.                                   *)
LEMMA BlockFacts ==
  ASSUME NEW f \in Files
  PROVE  /\ Len(Blocks(f)) \in Nat
         /\ DOMAIN Blocks(f) = 1 .. Len(Blocks(f))
         /\ \A k \in Nat \ {0} : k <= Len(Blocks(f)) <=> (k - 1) * BlkSz < Len(f)
         /\ \A k \in 1 .. Len(Blocks(f)) :
              Blocks(f)[k] = SubSeq(f, (k - 1) * BlkSz + 1,
                                       IF k * BlkSz < Len(f) THEN k * BlkSz ELSE Len(f))
<1> DEFINE K == (Len(f) + BlkSz - 1) \div BlkSz
           B == [k \in 1 .. K |-> SubSeq(f, (k - 1) * BlkSz + 1,
                                       IF k * BlkSz < Len(f) THEN k * BlkSz ELSE Len(f))]
<1>0. f \in Seq(Byte) /\ Len(f) \in Nat /\ BlkSz \in Nat \ {0}
  BY FileFacts
<1>1. K \in Nat /\ BlkSz * K <= Len(f) + BlkSz - 1 /\ Len(f) + BlkSz - 1 < BlkSz * K + BlkSz
  <2>1. Len(f) + BlkSz - 1 \in Nat
    BY <1>0
  <2> QED BY <1>0, <2>1, Division
<1>2. Blocks(f) = B
  BY DEF Blocks
<1>3. Len(B) = K /\ DOMAIN B = 1 .. K
  <2> HIDE DEF K
  <2> QED BY <1>1
<1>4. ASSUME NEW k \in Nat \ {0}
      PROVE  k <= K <=> (k - 1) * BlkSz < Len(f)
  <2> HIDE DEF K
  <2>1. k - 1 \in Nat /\ K * BlkSz = BlkSz * K /\ k * BlkSz = (k - 1) * BlkSz + BlkSz
        /\ k * BlkSz \in Nat /\ (k - 1) * BlkSz \in Nat /\ K * BlkSz \in Nat
    BY <1>0, <1>1
  <2>2. ASSUME k <= K PROVE (k - 1) * BlkSz < Len(f)
    <3>1. k * BlkSz <= K * BlkSz
      BY <1>0, <1>1, <2>2, ProductGrows
    <3> QED BY <1>0, <1>1, <2>1, <3>1
  <2>3. ASSUME K < k PROVE Len(f) <= (k - 1) * BlkSz
    <3>1. K * BlkSz <= (k - 1) * BlkSz
      <4>1. K <= k - 1
        BY <1>1, <2>3
      <4> QED BY <1>0, <1>1, <2>1, <4>1, ProductGrows
    <3> QED BY <1>0, <1>1, <2>1, <3>1
  <2> QED BY <1>0, <1>1, <2>1, <2>2, <2>3
<1>5. ASSUME NEW k \in 1 .. K
      PROVE  B[k] = SubSeq(f, (k - 1) * BlkSz + 1, IF k * BlkSz < Len(f) THEN k * BlkSz ELSE Len(f))
  OBVIOUS
<1> HIDE DEF K, B
<1> QED BY <1>1, <1>2, <1>3, <1>4, <1>5

(* A block is a nonempty sequence of bytes.                                *)
LEMMA BlockType ==
  ASSUME NEW f \in Files, NEW k \in 1 .. Len(Blocks(f))
  PROVE  Blocks(f)[k] \in Seq(Byte) \ {<<>>}
<1> DEFINE from == (k - 1) * BlkSz + 1
           to   == IF k * BlkSz < Len(f) THEN k * BlkSz ELSE Len(f)
<1>0. Len(Blocks(f)) \in Nat
  BY BlockFacts
<1>1. f \in Seq(Byte) /\ Len(f) \in Nat /\ BlkSz \in Nat \ {0} /\ k \in Nat \ {0}
      /\ k <= Len(Blocks(f))
  BY <1>0, FileFacts
<1>2. (k - 1) * BlkSz < Len(f)
  <2>1. \A j \in Nat \ {0} : j <= Len(Blocks(f)) <=> (j - 1) * BlkSz < Len(f)
    BY BlockFacts
  <2> QED BY <1>1, <2>1
<1>3. k * BlkSz = (k - 1) * BlkSz + BlkSz /\ k * BlkSz \in Nat /\ (k - 1) * BlkSz \in Nat
  BY <1>1
<1>4. from \in 1 .. Len(f) /\ to \in from .. Len(f)
  <2> DEFINE p == (k - 1) * BlkSz
             q == k * BlkSz
  <2>1. p < Len(f) /\ q = p + BlkSz /\ q \in Nat /\ p \in Nat
    BY <1>2, <1>3
  <2>2. from = p + 1 /\ to = IF q < Len(f) THEN q ELSE Len(f)
    OBVIOUS
  <2> HIDE DEF p, q, from, to
  <2>3. Len(f) \in Nat /\ BlkSz \in Nat /\ BlkSz > 0
    BY <1>1
  <2>4. from \in Int /\ 1 <= from /\ from <= Len(f)
    BY <2>1, <2>2, <2>3
  <2>5. to \in Int /\ from <= to /\ to <= Len(f)
    BY <2>1, <2>2, <2>3
  <2> QED BY <2>4, <2>5
<1>5. Blocks(f)[k] = SubSeq(f, from, to)
  BY BlockFacts
<1> HIDE DEF from, to
<1>6. SubSeq(f, from, to) \in Seq(Byte) /\ Len(SubSeq(f, from, to)) = to - from + 1
  BY <1>1, <1>4
<1>7. SubSeq(f, from, to) # <<>>
  BY <1>4, <1>6, EmptySeq
<1> QED BY <1>5, <1>6, <1>7

(* Three digits are enough for a length below Base^3.                      *)
LEMMA FieldInverse ==
  ASSUME NEW l \in Nat, l < Base * Base * Base, Base \in Nat \ {0, 1}
  PROVE  /\ Deserialize(Serialize(l)[1], Serialize(l)[2], Serialize(l)[3]) = l
         /\ Serialize(l) \in Seq(Byte) /\ Len(Serialize(l)) = LenField
<1> DEFINE a == l \div Base
           c == a \div Base
<1>1. a \in Nat /\ Base * a <= l /\ l < Base * a + Base
  BY Division
<1>2. c \in Nat /\ Base * c <= a /\ a < Base * c + Base
  <2> HIDE DEF a
  <2> QED BY <1>1, Division
<1>3. l % Base = l - Base * a /\ l % Base \in Byte
  BY DEF Byte
<1>4. a % Base = a - Base * c /\ a % Base \in Byte
  <2> HIDE DEF a
  <2> QED BY <1>1 DEF Byte
<1>5. c < Base /\ c % Base = c /\ c % Base \in Byte
  <2> HIDE DEF a, c
  <2>1. ASSUME Base <= c PROVE FALSE
    <3>1. Base * Base <= c * Base
      BY <1>2, <2>1, ProductGrows
    <3>2. Base * Base <= a
      BY <1>1, <1>2, <3>1
    <3>3. Base * Base * Base <= a * Base
      <4>1. Base * Base \in Nat
        OBVIOUS
      <4> QED BY <1>1, <3>2, <4>1, ProductGrows
    <3> QED BY <1>1, <3>3
  <2> QED BY <1>2, <2>1 DEF Byte
<1>6. l \div (Base * Base) = c
  <2> DEFINE S == Base * Base
             q == l \div S
  <2>1. S \in Nat \ {0}
    OBVIOUS
  <2>2. q \in Nat /\ S * q <= l /\ l < S * q + S
    <3> HIDE DEF S
    <3> QED BY <2>1, Division
  <2>3. S * c <= l /\ l < S * c + S
    <3> HIDE DEF a, c
    <3>1. S * c = Base * (Base * c) /\ S * c + S = Base * (Base * c + Base)
      BY <1>2
    <3>0. S * c \in Nat /\ S \in Nat /\ Base * a \in Nat /\ Base * (Base * c) \in Nat
          /\ Base * (Base * c + Base) \in Nat
      BY <1>1, <1>2
    <3>2. Base * (Base * c) <= Base * a
      BY <1>1, <1>2
    <3>3. Base * a + Base <= Base * (Base * c + Base)
      <4>1. a + 1 <= Base * c + Base /\ Base * c \in Nat
        BY <1>1, <1>2
      <4>2. (a + 1) * Base <= (Base * c + Base) * Base
        BY <1>1, <4>1, ProductGrows
      <4> QED BY <1>1, <4>1, <4>2
    <3> HIDE DEF S
    <3> QED BY <1>1, <3>0, <3>1, <3>2, <3>3
  <2> HIDE DEF a, c, q, S
  <2>4. ASSUME q < c PROVE FALSE
    <3>1. (q + 1) * S <= c * S
      BY <1>2, <2>1, <2>2, <2>4, ProductGrows
    <3> QED BY <1>2, <2>1, <2>2, <2>3, <3>1
  <2>5. ASSUME c < q PROVE FALSE
    <3>1. (c + 1) * S <= q * S
      BY <1>2, <2>1, <2>2, <2>5, ProductGrows
    <3> QED BY <1>2, <2>1, <2>2, <2>3, <3>1
  <2>6. q = c
    BY <1>2, <2>2, <2>4, <2>5
  <2> QED BY <2>6 DEF q, S
<1> HIDE DEF c
<1>7. Serialize(l) = <<c % Base, a % Base, l % Base>>
  BY <1>6 DEF Serialize
<1> HIDE DEF a
<1>8. Deserialize(c, a - Base * c, l - Base * a) = l
  BY <1>1, <1>2 DEF Deserialize
<1>9. <<c % Base, a % Base, l % Base>> \in Seq(Byte)
  BY <1>3, <1>4, <1>5
<1> QED BY <1>3, <1>4, <1>5, <1>7, <1>8, <1>9 DEF LenField

(* What the assumption says of a block and of its frame.                   *)
LEMMA FrameFacts ==
  ASSUME NEW f \in Files, NEW k \in 1 .. Len(Blocks(f)), NEW b, b = Blocks(f)[k]
  PROVE  /\ Encode(b) \in Seq(Byte) /\ Len(Encode(b)) \in Nat \ {0} /\ Decode(Encode(b)) = b
         /\ Frame(b) \in Seq(Byte) /\ Len(Frame(b)) = LenField + Len(Encode(b))
         /\ Deserialize(Frame(b)[1], Frame(b)[2], Frame(b)[3]) = LenField + Len(Encode(b))
         /\ \A i \in 1 .. Len(Encode(b)) : Frame(b)[LenField + i] = Encode(b)[i]
<1> DEFINE e == Encode(b)
           l == LenField + Len(e)
           h == Serialize(l)
<1>1. e \in Seq(Byte) /\ e # <<>> /\ Decode(e) = b /\ LenField + Len(e) < Base * Base * Base
  <2>1. k \in DOMAIN Blocks(f)
    BY BlockFacts
  <2> QED BY <2>1, CodecAssumption
<1> HIDE DEF e
<1>2. Len(e) \in Nat \ {0} /\ l \in Nat /\ l < Base * Base * Base
  BY <1>1, EmptySeq DEF LenField
<1>3. Base \in Nat \ {0, 1}
  BY FormatAssumption
<1> HIDE DEF l
<1>4. /\ h \in Seq(Byte) /\ Len(h) = LenField
      /\ Deserialize(h[1], h[2], h[3]) = l
  BY <1>2, <1>3, FieldInverse
<1>5. Frame(b) = h \o e
  BY DEF Frame, e, l
<1> HIDE DEF h
<1>6. /\ h \o e \in Seq(Byte) /\ Len(h \o e) = LenField + Len(e)
      /\ \A i \in 1 .. LenField + Len(e) :
           (h \o e)[i] = IF i <= LenField THEN h[i] ELSE e[i - LenField]
  BY <1>1, <1>4, ConcatProperties
<1>7. (h \o e)[1] = h[1] /\ (h \o e)[2] = h[2] /\ (h \o e)[3] = h[3]
  BY <1>2, <1>6 DEF LenField
<1>8. \A i \in 1 .. Len(e) : (h \o e)[LenField + i] = e[i]
  BY <1>2, <1>6 DEF LenField
<1> QED BY <1>1, <1>2, <1>4, <1>5, <1>6, <1>7, <1>8 DEF e, l

(* The frames of a file, one behind the other.                             *)
LEMMA FramesFacts ==
  ASSUME orig \in Files
  PROVE  /\ Frames \in Seq(Seq(Byte)) /\ Len(Frames) = NBlocks /\ NBlocks \in Nat
         /\ Framed(orig) = FlattenSeq(Frames) /\ Framed(orig) \in Seq(Byte)
         /\ \A k \in 1 .. NBlocks : Frames[k] = Frame(Blocks(orig)[k])
<1> DEFINE K == Len(Blocks(orig))
           F == [k \in 1 .. K |-> Frame(Blocks(orig)[k])]
<1>1. K \in Nat /\ DOMAIN Blocks(orig) = 1 .. K
  BY BlockFacts
<1>2. Frames = F
  BY <1>1 DEF Frames
<1>3. \A k \in 1 .. K : Frame(Blocks(orig)[k]) \in Seq(Byte)
  BY FrameFacts
<1> HIDE DEF K
<1>4. F \in Seq(Seq(Byte)) /\ Len(F) = K /\ \A k \in 1 .. K : F[k] = Frame(Blocks(orig)[k])
  BY <1>1, <1>3
<1> HIDE DEF F
<1>5. Framed(orig) = FlattenSeq(Frames)
  BY DEF Framed, Frames
<1>6. FlattenSeq(Frames) \in Seq(Byte)
  BY <1>2, <1>4, FlattenType
<1> QED BY <1>1, <1>2, <1>4, <1>5, <1>6 DEF NBlocks, K

(* Where a frame is in the compressed file.                                *)
LEMMA FramePlace ==
  ASSUME orig \in Files, NEW k \in 0 .. NBlocks - 1
  PROVE  /\ Offset(k) \in Nat
         /\ Offset(k + 1) = Offset(k) + LenField + Len(Encode(Blocks(orig)[k + 1]))
         /\ Offset(k + 1) <= Len(Framed(orig))
         /\ \A i \in 1 .. LenField + Len(Encode(Blocks(orig)[k + 1])) :
              Framed(orig)[Offset(k) + i] = Frame(Blocks(orig)[k + 1])[i]
<1>1. /\ Frames \in Seq(Seq(Byte)) /\ Len(Frames) = NBlocks /\ NBlocks \in Nat
      /\ Framed(orig) = FlattenSeq(Frames)
      /\ k + 1 \in 1 .. NBlocks /\ (k + 1) - 1 = k /\ k \in 0 .. NBlocks
  BY FramesFacts
<1>2. Frames[k + 1] = Frame(Blocks(orig)[k + 1])
  BY <1>1, FramesFacts
<1>3. \A j : Offset(j) = LengthOf(Frames, j)
  BY DEF Offset, LengthOf
<1>4. Offset(k) \in Nat
  BY <1>1, <1>3, LengthOfPrefix
<1>5. /\ LengthOf(Frames, k + 1) = LengthOf(Frames, (k + 1) - 1) + Len(Frames[k + 1])
      /\ LengthOf(Frames, k + 1) <= Len(FlattenSeq(Frames))
      /\ \A i \in 1 .. Len(Frames[k + 1]) :
           FlattenSeq(Frames)[LengthOf(Frames, (k + 1) - 1) + i] = Frames[k + 1][i]
  BY <1>1, FlattenPlace
<1>6. Len(Frames[k + 1]) = LenField + Len(Encode(Blocks(orig)[k + 1]))
  BY <1>1, <1>2, FrameFacts DEF NBlocks
<1>7. Offset(k + 1) = Offset(k) + (LenField + Len(Encode(Blocks(orig)[k + 1])))
  BY <1>1, <1>3, <1>5, <1>6
<1>8. Len(Encode(Blocks(orig)[k + 1])) \in Nat
  BY <1>1, FrameFacts DEF NBlocks
<1>9. Offset(k + 1) = Offset(k) + LenField + Len(Encode(Blocks(orig)[k + 1]))
  BY <1>4, <1>7, <1>8 DEF LenField
<1>10. Offset(k + 1) <= Len(Framed(orig))
  BY <1>1, <1>3, <1>5
<1>11. \A i \in 1 .. LenField + Len(Encode(Blocks(orig)[k + 1])) :
         Framed(orig)[Offset(k) + i] = Frame(Blocks(orig)[k + 1])[i]
  BY <1>1, <1>2, <1>3, <1>5, <1>6
<1> QED BY <1>4, <1>9, <1>10, <1>11

(* The frames begin with the file and end with it.                         *)
LEMMA FramesEnd ==
  ASSUME orig \in Files
  PROVE  Offset(0) = 0 /\ Offset(NBlocks) = Len(Framed(orig))
<1>1. Frames \in Seq(Seq(Byte)) /\ Len(Frames) = NBlocks /\ Framed(orig) = FlattenSeq(Frames)
  BY FramesFacts
<1>2. LengthOf(Frames, 0) = 0 /\ LengthOf(Frames, Len(Frames)) = Len(FlattenSeq(Frames))
  BY <1>1, LengthOfPrefix
<1> QED BY <1>1, <1>2 DEF Offset, LengthOf

-----------------------------------------------------------------------------
(* What one read delivers                                                  *)

(* The abstract filter and the utility have the same file format.          *)
LEMMA SameFormat ==
  /\ \A f : Filter!Blocks(f) = Blocks(f)
  /\ \A b : Filter!Frame(b) = Frame(b)
<1>1. \A f : Filter!Blocks(f) = Blocks(f)
  BY DEF Filter!Blocks, Blocks
<1>2. \A l : Filter!Serialize(l) = Serialize(l)
  BY DEF Filter!Serialize, Serialize
<1>3. \A b : Filter!Frame(b) = Frame(b)
  BY <1>2 DEF Filter!Frame, Frame, Filter!LenField, LenField
<1> QED BY <1>1, <1>3

(* What the k-th read should deliver is empty behind the last block only,  *)
(* and a block is never processed to nothing.                              *)
LEMMA InputFacts ==
  ASSUME FileInv, NEW k \in Nat \ {0}
  PROVE  /\ Input(k) = <<>> <=> k > NBlocks
         /\ k <= NBlocks => /\ Output(Input(k)) # <<>>
                            /\ k \in DOMAIN Filter!Expected
                            /\ Output(Input(k)) = Filter!Expected[k]
         /\ Len(Filter!Expected) = NBlocks /\ NBlocks \in Nat
<1>1. orig \in Files /\ NBlocks \in Nat /\ DOMAIN Blocks(orig) = 1 .. NBlocks
  BY BlockFacts DEF FileInv, NBlocks
<1>0. Filter!Expected = IF decompress THEN Blocks(orig)
                        ELSE [j \in DOMAIN Blocks(orig) |-> Frame(Blocks(orig)[j])]
  BY SameFormat DEF Filter!Expected
<1>2. Len(Filter!Expected) = NBlocks /\ DOMAIN Filter!Expected = 1 .. NBlocks
  <2>1. CASE decompress
    BY <1>0, <1>1, <2>1 DEF NBlocks
  <2>2. CASE ~decompress
    <3> DEFINE E == [j \in 1 .. NBlocks |-> Frame(Blocks(orig)[j])]
    <3>1. Filter!Expected = E
      BY <1>0, <1>1, <2>2
    <3>2. Len(E) = NBlocks /\ DOMAIN E = 1 .. NBlocks
      BY <1>1
    <3> QED BY <3>1, <3>2
  <2> QED BY <2>1, <2>2
<1>3. CASE k > NBlocks
  BY <1>1, <1>2, <1>3 DEF Input
<1>4. CASE k <= NBlocks
  <2>1. k \in 1 .. NBlocks /\ k \in 1 .. Len(Blocks(orig)) /\ ~(k > NBlocks)
    BY <1>1, <1>4 DEF NBlocks
  <2> DEFINE b == Blocks(orig)[k]
  <2>2. b \in Seq(Byte) /\ b # <<>>
    BY <1>1, <2>1, BlockType
  <2>3. /\ Encode(b) \in Seq(Byte) /\ Len(Encode(b)) \in Nat \ {0} /\ Decode(Encode(b)) = b
        /\ Frame(b) \in Seq(Byte) /\ Len(Frame(b)) = LenField + Len(Encode(b))
    BY <1>1, <2>1, FrameFacts
  <2>4. Encode(b) # <<>> /\ Frame(b) # <<>>
    BY <2>3, EmptySeq DEF LenField
  <2>5. CASE decompress
    <3>1. Input(k) = Encode(b) /\ Output(Input(k)) = b /\ Filter!Expected[k] = b
      BY <1>0, <2>1, <2>3, <2>5 DEF Input, Output
    <3> QED BY <1>1, <1>2, <1>4, <2>1, <2>2, <2>4, <3>1
  <2>6. CASE ~decompress
    <3>1. Input(k) = b /\ Output(Input(k)) = Frame(b)
      BY <2>1, <2>6 DEF Input, Output
    <3>2. Filter!Expected[k] = Frame(b)
      BY <1>0, <1>1, <2>1, <2>6
    <3> QED BY <1>1, <1>2, <1>4, <2>1, <2>2, <2>4, <3>1, <3>2
  <2> QED BY <2>5, <2>6
<1> QED BY <1>1, <1>3, <1>4

(* The n-th read of a file that is compressed.                             *)
LEMMA ReadPlain ==
  ASSUME FileInv, ReaderInv, DataOK, ControlOK, ReaderRead, ~decompress
  PROVE  /\ srcBuf'[swap.reader] = Input(Len(reads) + 1)
         /\ blksz' = BlkSz
         /\ pos' = IF (Len(reads) + 1) * BlkSz < Len(orig) THEN (Len(reads) + 1) * BlkSz ELSE Len(orig)
<1> DEFINE n == Len(reads)
           L == Len(orig)
           p == n * BlkSz
           q == (n + 1) * BlkSz
<1>1. orig \in Files /\ file = orig /\ L \in Nat /\ BlkSz \in Nat /\ BlkSz > 0 /\ n \in Nat
  BY FileFacts DEF FileInv, DataOK
<1>2. p \in Nat /\ q \in Nat /\ q = p + BlkSz
  <2> HIDE DEF n
  <2> QED BY <1>1
<1>3. blksz = BlkSz /\ pos = IF p < L THEN p ELSE L
  BY DEF ReaderInv
<1>4. /\ srcBuf' = [srcBuf EXCEPT ![swap.reader] = SubSeq(orig, pos + 1, pos + Count)]
      /\ blksz' = BlkSz /\ pos' = pos + Count
  BY <1>1, <1>3 DEF ReaderRead, Deliver
<1>5. srcBuf'[swap.reader] = SubSeq(orig, pos + 1, pos + Count)
  BY <1>4 DEF DataOK, ControlOK
<1>6. Count = IF pos + BlkSz <= L THEN BlkSz ELSE L - pos
  BY <1>1, <1>3 DEF Count
<1>7. /\ n + 1 \in Nat \ {0} /\ (n + 1) - 1 = n
      /\ n + 1 <= NBlocks <=> ((n + 1) - 1) * BlkSz < L
      /\ NBlocks \in Nat
  <2>1. n + 1 \in Nat \ {0} /\ (n + 1) - 1 = n
    BY <1>1
  <2> HIDE DEF n
  <2> QED BY <1>1, <2>1, BlockFacts DEF NBlocks
<1>8. n + 1 <= NBlocks <=> p < L
  BY <1>7
<1>9. pos + Count = IF q < L THEN q ELSE L
  <2> HIDE DEF n, p, q, L
  <2> QED BY <1>1, <1>2, <1>3, <1>6
<1>10. srcBuf'[swap.reader] = Input(n + 1)
  <2>1. CASE n + 1 <= NBlocks
    <3>1. n + 1 \in 1 .. Len(Blocks(orig)) /\ ~(n + 1 > NBlocks)
      BY <1>7, <2>1 DEF NBlocks
    <3>2. Blocks(orig)[n + 1] = SubSeq(orig, ((n + 1) - 1) * BlkSz + 1, IF q < L THEN q ELSE L)
      <4> HIDE DEF n
      <4> QED BY <1>1, <3>1, BlockFacts
    <3>3. pos + 1 = ((n + 1) - 1) * BlkSz + 1
      BY <1>3, <1>7, <1>8, <2>1
    <3>4. Input(n + 1) = Blocks(orig)[n + 1]
      BY <3>1 DEF Input
    <3> HIDE DEF n, q, L
    <3> QED BY <1>5, <1>9, <3>2, <3>3, <3>4
  <2>2. CASE ~(n + 1 <= NBlocks)
    <3>1. Input(n + 1) = <<>>
      BY <1>7, <2>2 DEF Input
    <3>2. pos = L /\ pos + Count = L
      <4> HIDE DEF n, p, q, L
      <4> QED BY <1>1, <1>2, <1>3, <1>8, <1>9, <2>2
    <3>3. SubSeq(orig, L + 1, L) = <<>>
      <4> HIDE DEF L
      <4> QED BY <1>1, SubSeqEmpty
    <3> QED BY <1>5, <3>1, <3>2, <3>3
  <2> QED BY <2>1, <2>2
<1> QED BY <1>4, <1>9, <1>10

(* The n-th read of a file that is decompressed: up to and with the length *)
(* field of the next block, or up to the end of the file.                  *)
LEMMA ReadFramed ==
  ASSUME FileInv, ReaderInv, DataOK, ControlOK, ReaderRead, decompress
  PROVE  /\ srcBuf'[swap.reader] = Input(Len(reads) + 1)
         /\ IF Len(reads) + 1 < NBlocks
            THEN /\ pos' = Offset(Len(reads) + 1) + LenField
                 /\ blksz' = LenField + Len(Encode(Blocks(orig)[Len(reads) + 2]))
            ELSE pos' = Len(file) /\ blksz' = 0
<1> DEFINE n == Len(reads)
           L == Len(file)
           o == Offset(n)
           e == Encode(Blocks(orig)[n + 1])
<1>1. orig \in Files /\ file = Framed(orig) /\ file \in Seq(Byte) /\ L \in Nat /\ n \in Nat
      /\ NBlocks \in Nat /\ pc.reader # "off"
  BY FramesFacts DEF FileInv, DataOK, ReaderRead, Go
<1>2. IF n < NBlocks THEN pos = o + LenField /\ blksz = LenField + Len(e)
      ELSE pos = L /\ blksz = 0
  BY <1>1 DEF ReaderInv
<1>3. IF blksz # 0 /\ Count = blksz THEN Deliver(Count - LenField, NextBlksz) ELSE Deliver(Count, 0)
  BY DEF ReaderRead
<1>4. pos' = pos + Count
  BY DEF ReaderRead
<1>5. \A c, b : Deliver(c, b) => srcBuf'[swap.reader] = SubSeq(file, pos + 1, pos + c) /\ blksz' = b
  BY DEF Deliver, DataOK, ControlOK
<1>6. CASE n < NBlocks
  <2>1. n \in 0 .. NBlocks - 1 /\ n + 1 \in 1 .. NBlocks /\ n + 1 \in 1 .. Len(Blocks(orig))
    BY <1>1, <1>6 DEF NBlocks
  <2>2. /\ o \in Nat /\ Offset(n + 1) = o + LenField + Len(e) /\ Offset(n + 1) <= L
        /\ \A i \in 1 .. LenField + Len(e) : file[o + i] = Frame(Blocks(orig)[n + 1])[i]
    <3> HIDE DEF n
    <3> QED BY <1>1, <2>1, FramePlace
  <2>3. /\ e \in Seq(Byte) /\ Len(e) \in Nat \ {0}
        /\ \A i \in 1 .. Len(e) : Frame(Blocks(orig)[n + 1])[LenField + i] = e[i]
    <3> HIDE DEF n
    <3> QED BY <1>1, <2>1, FrameFacts
  <2>4. Input(n + 1) = e
    BY <1>1, <1>6 DEF Input
  <2> HIDE DEF e, o, L
  <2>5. pos = o + LenField /\ blksz = LenField + Len(e)
    BY <1>2, <1>6
  <2>10. o \in Nat /\ Len(e) \in Nat \ {0} /\ L \in Nat
    BY <1>1, <2>2, <2>3
  <2>11. o + LenField + Len(e) <= L
    <3>1. Offset(n + 1) = o + LenField + Len(e) /\ Offset(n + 1) <= L
      BY <2>2
    <3> QED BY <3>1
  <2>6. SubSeq(file, pos + 1, pos + Len(e)) = e
    <3> DEFINE s == SubSeq(file, pos + 1, pos + Len(e))
    <3>1. \A i \in 1 .. Len(e) : pos + i = o + (LenField + i) /\ LenField + i \in 1 .. LenField + Len(e)
                              /\ pos + i \in 1 .. L
      BY <2>5, <2>10, <2>11 DEF LenField
    <3>2. s \in Seq(Byte) /\ Len(s) = Len(e) /\ \A i \in 1 .. Len(e) : s[i] = file[pos + i]
      <4>1. pos + 1 \in 1 .. L /\ pos + Len(e) \in 1 .. L /\ pos \in Nat
        BY <2>5, <2>10, <2>11 DEF LenField
      <4> QED BY <1>1, <2>3, <4>1 DEF L
    <3>3. \A i \in 1 .. Len(e) : s[i] = e[i]
      <4> TAKE i \in 1 .. Len(e)
      <4>1. s[i] = file[o + (LenField + i)]
        BY <3>1, <3>2
      <4>2. file[o + (LenField + i)] = Frame(Blocks(orig)[n + 1])[LenField + i]
        BY <2>2, <3>1
      <4> QED BY <2>3, <4>1, <4>2
    <3> HIDE DEF s
    <3>4. s = e
      BY <2>3, <3>2, <3>3, SeqEqual
    <3> QED BY <3>4 DEF s
  <2>7. Count = IF pos + blksz <= L THEN blksz ELSE L - pos
    BY DEF Count, L
  <2>8. CASE n + 1 < NBlocks
    <3>1. n + 1 \in 0 .. NBlocks - 1 /\ n + 2 \in 1 .. Len(Blocks(orig)) /\ (n + 1) + 1 = n + 2
      BY <1>1, <2>8 DEF NBlocks
    <3> DEFINE p == Offset(n + 1)
               b == Blocks(orig)[n + 2]
    <3>2. /\ p \in Nat /\ Offset(n + 2) = p + LenField + Len(Encode(b)) /\ Offset(n + 2) <= L
          /\ \A i \in 1 .. LenField + Len(Encode(b)) : file[p + i] = Frame(b)[i]
      <4> HIDE DEF n
      <4>1. /\ p \in Nat /\ Offset((n + 1) + 1) = p + LenField + Len(Encode(Blocks(orig)[(n + 1) + 1]))
            /\ Offset((n + 1) + 1) <= Len(Framed(orig))
            /\ \A i \in 1 .. LenField + Len(Encode(Blocks(orig)[(n + 1) + 1])) :
                 Framed(orig)[p + i] = Frame(Blocks(orig)[(n + 1) + 1])[i]
        BY <1>1, <3>1, FramePlace
      <4> QED BY <1>1, <3>1, <4>1 DEF L
    <3>3. /\ Len(Encode(b)) \in Nat
          /\ Deserialize(Frame(b)[1], Frame(b)[2], Frame(b)[3]) = LenField + Len(Encode(b))
      <4> HIDE DEF n
      <4> QED BY <1>1, <3>1, FrameFacts
    <3>4. p = o + LenField + Len(e)
      BY <2>2
    <3> HIDE DEF p, b
    <3>10. p \in Nat /\ Len(Encode(b)) \in Nat
      BY <3>2, <3>3
    <3>11. p + LenField + Len(Encode(b)) <= L
      <4>1. Offset(n + 2) = p + LenField + Len(Encode(b)) /\ Offset(n + 2) <= L
        BY <3>2
      <4> QED BY <4>1
    <3>5. pos + blksz = p + LenField /\ p + LenField <= L
      BY <2>5, <2>10, <3>4, <3>10, <3>11 DEF LenField
    <3>6. Count = blksz /\ blksz # 0 /\ Count - LenField = Len(e)
      BY <2>5, <2>7, <2>10, <3>5 DEF LenField
    <3>7. Deliver(Len(e), NextBlksz)
      BY <1>3, <3>6
    <3>8. NextBlksz = LenField + Len(Encode(b))
      <4>1. pos + blksz - 2 = p + 1 /\ pos + blksz - 1 = p + 2 /\ pos + blksz = p + 3
        BY <2>5, <2>10, <3>5, <3>10 DEF LenField
      <4>2. file[p + 1] = Frame(b)[1] /\ file[p + 2] = Frame(b)[2] /\ file[p + 3] = Frame(b)[3]
        <5>1. 1 \in 1 .. LenField + Len(Encode(b)) /\ 2 \in 1 .. LenField + Len(Encode(b))
              /\ 3 \in 1 .. LenField + Len(Encode(b))
          BY <3>10 DEF LenField
        <5> QED BY <3>2, <5>1
      <4> QED BY <3>3, <4>1, <4>2 DEF NextBlksz
    <3>9. pos' = p + LenField
      BY <1>4, <3>5, <3>6
    <3> QED BY <1>5, <2>4, <2>6, <2>8, <3>7, <3>8, <3>9 DEF p, b
  <2>9. CASE ~(n + 1 < NBlocks)
    <3>1. n + 1 = NBlocks
      BY <1>1, <1>6, <2>9
    <3>2. Offset(n + 1) = L
      BY <1>1, <3>1, FramesEnd DEF L
    <3>3. pos + Len(e) = L /\ Count = Len(e) /\ Count # blksz
      BY <2>2, <2>3, <2>5, <2>7, <3>2 DEF LenField
    <3>4. Deliver(Len(e), 0)
      BY <1>3, <3>3
    <3>5. pos' = L
      BY <1>4, <3>3
    <3> QED BY <1>5, <2>4, <2>6, <2>9, <3>4, <3>5 DEF L
  <2> QED BY <2>8, <2>9
<1>7. CASE ~(n < NBlocks)
  <2>1. pos = L /\ blksz = 0
    BY <1>2, <1>7
  <2>2. Count = 0 /\ Deliver(0, 0) /\ pos' = L
    BY <1>1, <1>3, <1>4, <2>1 DEF Count
  <2>3. SubSeq(file, L + 1, L + 0) = <<>>
    BY <1>1, SubSeqEmpty
  <2>4. n + 1 > NBlocks /\ ~(n + 1 < NBlocks)
    BY <1>1, <1>7
  <2>5. Input(n + 1) = <<>>
    BY <2>4 DEF Input
  <2>6. srcBuf'[swap.reader] = SubSeq(file, L + 1, L + 0) /\ blksz' = 0
    BY <1>5, <2>1, <2>2
  <2> QED BY <2>2, <2>3, <2>4, <2>5, <2>6
<1> QED BY <1>6, <1>7

-----------------------------------------------------------------------------
(* Types                                                                   *)

(* Every step keeps the semaphores, flags and program counters in type.    *)
LEMMA ControlStep ==
  ASSUME ControlOK, [Next]_vars
  PROVE  ControlOK'
<1> USE DEF ControlOK, Swap, Sems, MainPcs, ReaderPcs, WriterPcs, MainEnd, Shutdown
<1> USE DEF data, fileVars, readVars, stopVars, Go, Wait, Post, Flip
<1>1. CASE ReaderWait
  BY <1>1 DEF ReaderWait, StopPosted
<1>2. CASE ReaderTest
  BY <1>2 DEF ReaderTest
<1>3. CASE ReaderRead
  BY <1>3 DEF ReaderRead
<1>4. CASE ReaderPost
  BY <1>4 DEF ReaderPost
<1>5. CASE WriterWait
  BY <1>5 DEF WriterWait
<1>6. CASE WriterTest
  BY <1>6 DEF WriterTest
<1>7. CASE WriterWrite
  BY <1>7 DEF WriterWrite
<1>8. CASE WriterPost
  BY <1>8 DEF WriterPost
<1>9. CASE WriterDrain
  <2>1. CASE Post("writer", "drain0", "dstDoneIO", 0, "drain1")
    BY <1>9, <2>1 DEF WriterDrain
  <2>2. CASE Post("writer", "drain1", "dstDoneIO", 1, "exit")
    BY <1>9, <2>2 DEF WriterDrain
  <2> QED BY <1>9, <2>1, <2>2 DEF WriterDrain
<1>10. CASE MainStart
  <2>1. CASE decompress /\ Len(file) < LenField
    BY <1>10, <2>1 DEF MainStart
  <2>2. CASE ~(decompress /\ Len(file) < LenField)
    <3>1. sem' = [s \in Sems |-> [i \in Swap |-> s \in {"srcDoneCPU", "dstDoneIO"}]]
      BY <1>10, <2>2 DEF MainStart
    <3>2. sem' \in [Sems -> [Swap -> BOOLEAN]]
      BY <3>1
    <3> QED BY <1>10, <2>2, <3>2 DEF MainStart
  <2> QED BY <2>1, <2>2
<1>11. CASE MainWaitSrc
  BY <1>11 DEF MainWaitSrc
<1>12. CASE MainWaitDst
  BY <1>12 DEF MainWaitDst
<1>13. CASE MainTest
  BY <1>13 DEF MainTest
<1>14. CASE MainProcess
  BY <1>14 DEF MainProcess
<1>15. CASE MainPostSrc
  BY <1>15 DEF MainPostSrc
<1>16. CASE MainPostDst
  BY <1>16 DEF MainPostDst
<1>17. CASE MainStop
  BY <1>17 DEF MainStop
<1>18. CASE MainShutdown
  <2>1. CASE Post("main", "shut1", "srcDoneCPU", 0, "shut2")
    BY <1>18, <2>1 DEF MainShutdown
  <2>2. CASE Post("main", "shut2", "dstDoneCPU", 0, "shut3")
    BY <1>18, <2>2 DEF MainShutdown
  <2>3. CASE Post("main", "shut3", "srcDoneCPU", 1, "shut4")
    BY <1>18, <2>3 DEF MainShutdown
  <2>4. CASE Post("main", "shut4", "dstDoneCPU", 1, "out0")
    BY <1>18, <2>4 DEF MainShutdown
  <2>5. CASE Wait("main", "out0", "dstDoneIO", 0, "out1")
    BY <1>18, <2>5 DEF MainShutdown
  <2>6. CASE Wait("main", "out1", "dstDoneIO", 1, "join1")
    BY <1>18, <2>6 DEF MainShutdown
  <2> QED BY <1>18, <2>1, <2>2, <2>3, <2>4, <2>5, <2>6 DEF MainShutdown
<1>19. CASE MainJoin
  BY <1>19 DEF MainJoin
<1>20. CASE Terminate
  BY <1>20 DEF Terminate
<1>21. CASE UNCHANGED vars
  BY <1>21 DEF vars
<1> QED
  BY <1>1, <1>2, <1>3, <1>4, <1>5, <1>6, <1>7, <1>8, <1>9, <1>10, <1>11, <1>12, <1>13,
     <1>14, <1>15, <1>16, <1>17, <1>18, <1>19, <1>20, <1>21
     DEF Next, Main, Reader, Writer

(* No step changes the mode or the input file.                             *)
LEMMA FileFixed ==
  ASSUME [Next]_vars
  PROVE  UNCHANGED <<decompress, orig, file>> /\ Slices' = Slices /\ Outputs' = Outputs
<1>1. UNCHANGED <<decompress, orig, file>>
  BY DEF Next, Main, Reader, Writer, vars, data, fileVars, ReaderWait, ReaderTest, ReaderRead,
     ReaderPost, WriterWait, WriterTest, WriterWrite, WriterPost, WriterDrain, MainStart,
     MainWaitSrc, MainWaitDst, MainTest, MainProcess, MainPostSrc, MainPostDst, MainStop,
     MainShutdown, MainJoin, Terminate
<1>2. Slices' = Slices
  BY <1>1 DEF Slices
<1> QED
  BY <1>1, <1>2 DEF Outputs, Output

(* Naturals are closed under the product.                                  *)
LEMMA NatProduct ==
  ASSUME NEW a \in Nat, NEW b \in Nat
  PROVE  a * b \in Nat
OBVIOUS

(* A length field decodes to a natural number.                             *)
LEMMA DeserializeType ==
  ASSUME NEW a \in Byte, NEW b \in Byte, NEW c \in Byte
  PROVE  Deserialize(a, b, c) \in Nat
<1>0. Base \in Nat /\ a \in Nat /\ b \in Nat /\ c \in Nat
  BY FormatAssumption DEF Byte
<1>1. a * Base \in Nat
  BY <1>0, NatProduct
<1>2. (a * Base + b) \in Nat
  BY <1>0, <1>1
<1>3. (a * Base + b) * Base \in Nat
  BY <1>0, <1>2, NatProduct
<1> QED
  BY <1>0, <1>3 DEF Deserialize

(* Whatever length n a read settles on, what it delivers is a slice.       *)
LEMMA DeliverType ==
  ASSUME DataOK, ControlOK, NEW n \in -LenField .. Len(file) - pos, NEW b \in Nat, Deliver(n, b)
  PROVE  blksz' \in Nat /\ srcBuf' \in [Swap -> Slices]
<1>1. SubSeq(file, pos + 1, pos + n) \in Slices
  <2>1. pos + 1 \in 1 .. Len(file) + 1 /\ pos + n \in -LenField .. Len(file)
    BY DEF DataOK, LenField
  <2> QED BY <2>1 DEF Slices
<1> QED
  BY <1>1 DEF Deliver, DataOK

(* A read moves forward inside the file and delivers a slice of it.        *)
LEMMA ReadType ==
  ASSUME DataOK, ControlOK, ReaderRead
  PROVE  /\ pos' \in pos .. Len(file)
         /\ blksz' \in Nat
         /\ srcBuf' \in [Swap -> Slices]
         /\ reads' = Append(reads, srcBuf'[swap.reader])
<1>1. Count \in 0 .. Len(file) - pos
  BY DEF DataOK, Count
<1>2. CASE ~decompress
  BY <1>1, <1>2, DeliverType DEF ReaderRead, DataOK, LenField
<1>3. CASE decompress /\ blksz # 0 /\ Count = blksz
  <2>1. Count - LenField \in -LenField .. Len(file) - pos
    BY <1>1 DEF DataOK, LenField
  <2>2. pc.reader # "off"
    BY DEF ReaderRead, Go
  <2>3. /\ pos \in Nat /\ pos >= 3 /\ blksz \in Nat \ {0}
        /\ Len(file) \in Nat /\ pos + blksz <= Len(file)
    BY <1>1, <1>3, <2>2 DEF DataOK, LenField
  <2>4. /\ pos + blksz - 2 \in 1 .. Len(file)
        /\ pos + blksz - 1 \in 1 .. Len(file)
        /\ pos + blksz \in 1 .. Len(file)
    BY <2>3
  <2>5. NextBlksz \in Nat
    <3>1. /\ file[pos + blksz - 2] \in Byte
          /\ file[pos + blksz - 1] \in Byte
          /\ file[pos + blksz] \in Byte
      BY <2>4 DEF DataOK
    <3> QED
      BY <3>1, DeserializeType DEF NextBlksz
  <2>6. Deliver(Count - LenField, NextBlksz) /\ pos' = pos + Count
        /\ reads' = Append(reads, srcBuf'[swap.reader])
    BY <1>3 DEF ReaderRead
  <2>7. blksz' \in Nat /\ srcBuf' \in [Swap -> Slices]
    BY <2>1, <2>5, <2>6, DeliverType
  <2> QED
    BY <1>1, <2>3, <2>6, <2>7
<1>4. CASE decompress /\ ~(blksz # 0 /\ Count = blksz)
  BY <1>1, <1>4, DeliverType DEF ReaderRead, DataOK, LenField
<1> QED
  BY <1>2, <1>3, <1>4

(* Every step keeps the buffers, the file position and the output in type. *)
LEMMA DataStep ==
  ASSUME DataOK, ControlOK, [Next]_vars
  PROVE  DataOK'
<1>0. UNCHANGED <<decompress, orig, file>> /\ Slices' = Slices /\ Outputs' = Outputs
  BY FileFixed
<1>1. CASE UNCHANGED <<pos, blksz, srcBuf, reads, dstBuf, dst>> /\ (pc'.reader = "off" <=> pc.reader = "off")
  BY <1>0, <1>1 DEF DataOK
<1>2. CASE ReaderRead
  <2>1. Append(reads, srcBuf'[swap.reader]) \in Seq(Slices)
    BY <1>2, ReadType DEF DataOK, ControlOK
  <2>2. UNCHANGED <<dstBuf, dst>> /\ pc.reader # "off"
    BY <1>2 DEF ReaderRead, Go
  <2>3. pos \in Nat /\ Len(file) \in Nat
    BY DEF DataOK
  <2>4. pos' \in 0 .. Len(file) /\ (decompress => LenField <= pos')
    BY <1>2, <2>2, <2>3, ReadType DEF DataOK, LenField
  <2> QED
    BY <1>0, <1>2, <2>1, <2>2, <2>4, ReadType DEF DataOK
<1>3. CASE WriterWrite
  <2>1. dst' = Append(dst, dstBuf[swap.writer]) /\ UNCHANGED <<pos, blksz, srcBuf, reads, dstBuf>>
    BY <1>3 DEF WriterWrite, readVars
  <2>2. dst' \in Seq(Outputs)
    BY <2>1 DEF DataOK, ControlOK
  <2>3. pc'.reader = pc.reader
    BY <1>3 DEF WriterWrite, Go, ControlOK
  <2> QED
    BY <1>0, <2>1, <2>2, <2>3 DEF DataOK
<1>4. CASE MainStart
  <2>1. CASE decompress /\ Len(file) < LenField
    BY <1>0, <1>4, <2>1 DEF MainStart, DataOK, ControlOK
  <2>2. CASE ~(decompress /\ Len(file) < LenField)
    <3>1. /\ pos' = IF decompress THEN LenField ELSE pos
          /\ blksz' = IF decompress THEN Deserialize(file[1], file[2], file[3]) ELSE blksz
          /\ UNCHANGED <<srcBuf, reads, dstBuf, dst>>
      BY <1>4, <2>2 DEF MainStart
    <3>2. pos \in Nat /\ Len(file) \in Nat
      BY DEF DataOK
    <3>3. pos' \in 0 .. Len(file) /\ (decompress => LenField <= pos')
      BY <2>2, <3>1, <3>2 DEF DataOK, LenField
    <3>4. decompress => file[1] \in Byte /\ file[2] \in Byte /\ file[3] \in Byte
      BY <2>2, <3>2 DEF DataOK, LenField
    <3>5. blksz' \in Nat
      BY <3>1, <3>4, DeserializeType DEF DataOK
    <3> QED
      BY <1>0, <3>1, <3>3, <3>5 DEF DataOK
  <2> QED
    BY <2>1, <2>2
<1>5. CASE MainTest
  <2>1. /\ UNCHANGED <<pos, blksz, srcBuf, reads, dst>>
        /\ dstBuf' \in [Swap -> Outputs]
    BY <1>5 DEF MainTest, readVars, DataOK, ControlOK, Outputs
  <2>2. pc'.reader = pc.reader
    BY <1>5 DEF MainTest, Go, ControlOK
  <2> QED
    BY <1>0, <2>1, <2>2 DEF DataOK
<1>6. CASE MainProcess
  <2>1. UNCHANGED <<pos, blksz, srcBuf, reads, dst>>
    BY <1>6 DEF MainProcess, readVars
  <2>2. Output(srcBuf[swap.main]) \in Outputs
    BY DEF DataOK, ControlOK, Outputs
  <2>3. dstBuf' \in [Swap -> Outputs]
    BY <1>6, <2>2 DEF MainProcess, DataOK
  <2>4. pc'.reader = pc.reader
    BY <1>6 DEF MainProcess, Go, ControlOK
  <2> QED
    BY <1>0, <2>1, <2>3, <2>4 DEF DataOK
<1>7. CASE ReaderWait \/ ReaderTest \/ ReaderPost
  BY <1>1, <1>7 DEF ReaderWait, ReaderTest, ReaderPost, Wait, Post, Go, data, readVars, ControlOK
<1>8. CASE WriterWait \/ WriterTest \/ WriterPost \/ WriterDrain
  BY <1>1, <1>8 DEF WriterWait, WriterTest, WriterPost, WriterDrain, Wait, Post, Go, data,
     readVars, ControlOK
<1>9. CASE MainWaitSrc \/ MainWaitDst \/ MainPostSrc \/ MainPostDst \/ MainStop
  BY <1>1, <1>9 DEF MainWaitSrc, MainWaitDst, MainPostSrc, MainPostDst, MainStop, Wait, Post,
     Go, data, readVars, ControlOK
<1>10. CASE MainShutdown \/ MainJoin \/ Terminate \/ UNCHANGED vars
  BY <1>1, <1>10 DEF MainShutdown, MainJoin, Terminate, Wait, Post, Go, vars, data, readVars,
     ControlOK
<1> QED
  BY <1>2, <1>3, <1>4, <1>5, <1>6, <1>7, <1>8, <1>9, <1>10 DEF Next, Main, Reader, Writer

-----------------------------------------------------------------------------
(* Which steps are possible while main() is in its loop, and after         *)

(* In main()'s loop the steps are those of the two threads and of the loop.*)
LEMMA LoopStep ==
  ASSUME ControlOK, Next, pc.main \in Loop, pc'.main \in Loop
  PROVE  \/ ReaderWait \/ ReaderTest \/ ReaderRead \/ ReaderPost
         \/ WriterWait \/ WriterTest \/ WriterWrite \/ WriterPost
         \/ WriterDrain \/ MainWaitSrc \/ MainWaitDst \/ MainTest
         \/ MainProcess \/ MainPostSrc \/ MainPostDst
BY DEF ControlOK, Loop, Next, Running, MainEnd, Shutdown, Main, Reader, Writer, MainStart,
       MainStop, MainShutdown, MainJoin, Terminate, Go, Wait, Post

(* After the loop main() only stops the threads.                           *)
LEMMA ShutdownStep ==
  ASSUME ControlOK, Next, pc.main \in {"stop"} \cup Shutdown, pc'.main \in {"stop"} \cup Shutdown
  PROVE  \/ ReaderWait \/ ReaderTest \/ ReaderRead \/ ReaderPost
         \/ WriterWait \/ WriterTest \/ WriterWrite \/ WriterPost
         \/ WriterDrain \/ MainStop \/ MainShutdown \/ MainJoin
         \/ UNCHANGED vars
BY DEF ControlOK, Next, Running, MainEnd, Shutdown, Main, Reader, Writer, MainStart,
       MainWaitSrc, MainWaitDst, MainTest, MainProcess, MainPostSrc, MainPostDst, Terminate,
       Go, Wait, Post

(* main() enters its loop only from start, and leaves it only at its test  *)
(* or by dying; no thread comes back to life.                              *)
LEMMA LoopEntry ==
  ASSUME ControlOK, Next
  PROVE  /\ pc'.main \in Loop => pc.main \in Loop \/ MainStart
         /\ pc'.main \in {"stop"} \cup Shutdown =>
               pc.main \in {"stop"} \cup Shutdown \/ (pc.main \in Loop /\ MainTest)
         /\ pc.main # "start" /\ WriterAlive' => WriterAlive
<1> USE DEF ControlOK, Loop, Go, Wait, Post, WriterAlive, Shutdown
<1>1. CASE Reader
  BY <1>1 DEF Reader, ReaderWait, ReaderTest, ReaderRead, ReaderPost
<1>2. CASE Writer
  BY <1>2 DEF Writer, WriterWait, WriterTest, WriterWrite, WriterPost, WriterDrain
<1>3. CASE MainStart
  BY <1>3 DEF MainStart
<1>4. CASE MainWaitSrc \/ MainWaitDst \/ MainTest \/ MainProcess
  BY <1>4 DEF MainWaitSrc, MainWaitDst, MainTest, MainProcess
<1>5. CASE MainPostSrc \/ MainPostDst \/ MainStop \/ MainShutdown \/ MainJoin
  BY <1>5 DEF MainPostSrc, MainPostDst, MainStop, MainShutdown, MainJoin
<1>6. CASE Terminate \/ UNCHANGED vars
  BY <1>6 DEF Terminate, vars
<1> QED
  BY <1>1, <1>2, <1>3, <1>4, <1>5, <1>6 DEF Next, Main

-----------------------------------------------------------------------------
(* The tokens                                                              *)

(* In main()'s loop an input buffer's token moves and is never duplicated. *)
LEMMA SrcTokenStep ==
  ASSUME ControlOK, ControlOK', pc.main \in Loop, pc'.main \in Loop, ~stopThreads,
         SrcToken, Next
  PROVE  SrcToken'
<1> USE DEF ControlOK, Swap, Sems, SrcToken, ExactlyOne, ReaderHolds, MainHoldsSrc, Loop,
            data, stopVars, Go, Wait, Post, Flip
<1>1. CASE ReaderWait
  BY <1>1 DEF ReaderWait
<1>2. CASE ReaderTest
  <2>1. PICK stop \in {stopThreads} \cup (IF readerSynced THEN {} ELSE {FALSE}) :
          Go("reader", "test", IF stop THEN "exit" ELSE "read")
    BY <1>2 DEF ReaderTest
  <2>2. stopThreads = FALSE
    OBVIOUS
  <2>3. stop = FALSE
    BY <2>1, <2>2
  <2>4. Go("reader", "test", "read")
    BY <2>1, <2>3
  <2>5. UNCHANGED <<sem, swap>>
    BY <1>2 DEF ReaderTest
  <2> QED BY <2>4, <2>5
<1>3. CASE ReaderRead
  BY <1>3 DEF ReaderRead
<1>4. CASE ReaderPost
  BY <1>4 DEF ReaderPost
<1>5. CASE WriterWait
  BY <1>5 DEF WriterWait
<1>6. CASE WriterTest
  BY <1>6 DEF WriterTest
<1>7. CASE WriterWrite
  BY <1>7 DEF WriterWrite
<1>8. CASE WriterPost
  BY <1>8 DEF WriterPost
<1>9. CASE WriterDrain
  BY <1>9 DEF WriterDrain
<1>10. CASE MainWaitSrc
  BY <1>10 DEF MainWaitSrc
<1>11. CASE MainWaitDst
  BY <1>11 DEF MainWaitDst
<1>12. CASE MainTest
  BY <1>12 DEF MainTest
<1>13. CASE MainProcess
  BY <1>13 DEF MainProcess
<1>14. CASE MainPostSrc
  BY <1>14 DEF MainPostSrc
<1>15. CASE MainPostDst
  BY <1>15 DEF MainPostDst
<1> QED
  BY <1>1, <1>2, <1>3, <1>4, <1>5, <1>6, <1>7, <1>8, <1>9, <1>10, <1>11, <1>12,
     <1>13, <1>14, <1>15, LoopStep

(* The same of an output buffer, as long as the writer is there.           *)
LEMMA DstTokenStep ==
  ASSUME ControlOK, ControlOK', pc.main \in Loop, pc'.main \in Loop,
         WriterAlive, WriterAlive', DstToken, Next
  PROVE  DstToken'
<1> USE DEF ControlOK, Swap, Sems, DstToken, ExactlyOne, WriterHolds, MainHoldsDst, Loop,
            WriterAlive, data, stopVars, Go, Wait, Post, Flip
<1>1. CASE ReaderWait
  BY <1>1 DEF ReaderWait
<1>2. CASE ReaderTest
  BY <1>2 DEF ReaderTest
<1>3. CASE ReaderRead
  BY <1>3 DEF ReaderRead
<1>4. CASE ReaderPost
  BY <1>4 DEF ReaderPost
<1>5. CASE WriterWait
  BY <1>5 DEF WriterWait
<1>6. CASE WriterTest
  BY <1>6 DEF WriterTest
<1>7. CASE WriterWrite
  BY <1>7 DEF WriterWrite
<1>8. CASE WriterPost
  BY <1>8 DEF WriterPost
<1>9. CASE WriterDrain
  BY <1>9 DEF WriterDrain
<1>10. CASE MainWaitSrc
  BY <1>10 DEF MainWaitSrc
<1>11. CASE MainWaitDst
  BY <1>11 DEF MainWaitDst
<1>12. CASE MainTest
  BY <1>12 DEF MainTest
<1>13. CASE MainProcess
  BY <1>13 DEF MainProcess
<1>14. CASE MainPostSrc
  BY <1>14 DEF MainPostSrc
<1>15. CASE MainPostDst
  BY <1>15 DEF MainPostDst
<1> QED
  BY <1>1, <1>2, <1>3, <1>4, <1>5, <1>6, <1>7, <1>8, <1>9, <1>10, <1>11, <1>12,
     <1>13, <1>14, <1>15, LoopStep

-----------------------------------------------------------------------------
(* The order of the full buffers                                           *)

(* The blocks between main() and the writer stay consecutive.              *)
LEMMA DstOrderStep ==
  ASSUME ControlOK, ControlOK', DataOK, DataOK', pc.main \in Loop, pc'.main \in Loop,
         WriterAlive, WriterAlive', decompress' = decompress,
         DstToken, DstToken', DstOrder, SrcOrder, Next
  PROVE  DstOrder'
<1> USE DEF ControlOK, Swap, Sems, DstToken, ExactlyOne, WriterHolds, MainHoldsDst, Loop,
            WriterAlive, data, readVars, fileVars, stopVars, Go, Wait, Post, Flip, DataOK,
            DstOrder, Between, Unwritten, DstFull, NextIn, NextOut, Both
<1>1. CASE ReaderWait
  BY <1>1 DEF ReaderWait, Output, SrcOrder, Processed, Unread, SrcFull
<1>2. CASE ReaderTest
  BY <1>2 DEF ReaderTest, Output, SrcOrder, Processed, Unread, SrcFull
<1>3. CASE ReaderRead
  BY <1>3 DEF ReaderRead, Output, SrcOrder, Processed, Unread, SrcFull
<1>4. CASE ReaderPost
  BY <1>4 DEF ReaderPost, Output, SrcOrder, Processed, Unread, SrcFull
<1>5. CASE WriterWait
  BY <1>5 DEF WriterWait, Output, SrcOrder, Processed, Unread, SrcFull
<1>6. CASE WriterTest
  BY <1>6 DEF WriterTest, Output, SrcOrder, Processed, Unread, SrcFull
<1>7. CASE WriterWrite
  BY <1>7 DEF WriterWrite, Output, SrcOrder, Processed, Unread, SrcFull
<1>8. CASE WriterPost
  BY <1>8 DEF WriterPost, Output, SrcOrder, Processed, Unread, SrcFull
<1>9. CASE WriterDrain
  BY <1>9 DEF WriterDrain, Output, SrcOrder, Processed, Unread, SrcFull
<1>10. CASE MainWaitSrc
  BY <1>10 DEF MainWaitSrc, Output, SrcOrder, Processed, Unread, SrcFull
<1>11. CASE MainWaitDst
  BY <1>11 DEF MainWaitDst, Output, SrcOrder, Processed, Unread, SrcFull
<1>12. CASE MainTest
  BY <1>12 DEF MainTest, Output, SrcOrder, Processed, Unread, SrcFull
<1>13. CASE MainProcess
  BY <1>13 DEF MainProcess, Output, SrcOrder, Processed, Unread, SrcFull
<1>14. CASE MainPostSrc
  BY <1>14 DEF MainPostSrc, Output, SrcOrder, Processed, Unread, SrcFull
<1>15. CASE MainPostDst
  BY <1>15 DEF MainPostDst, Output, SrcOrder, Processed, Unread, SrcFull
<1> QED
  BY <1>1, <1>2, <1>3, <1>4, <1>5, <1>6, <1>7, <1>8, <1>9, <1>10, <1>11, <1>12,
     <1>13, <1>14, <1>15, LoopStep

(* SrcOrder is kept by a step that changes nothing SrcOrder looks at.      *)
LEMMA SrcOrderFrame ==
  ASSUME SrcOrder, UNCHANGED <<srcBuf, reads>>, NextRead' = NextRead, NextIn' = NextIn,
         Processed' = Processed, \A i \in Swap : SrcFull(i)' <=> SrcFull(i), NextIn \in Swap
  PROVE  SrcOrder'
<1>1. Unread' = Unread
  BY DEF Unread, Both, Swap
<1>2. SrcFull(NextIn)' <=> SrcFull(NextIn)
  OBVIOUS
<1> QED
  BY <1>1, <1>2 DEF SrcOrder, Between

(* The blocks between the reader and main() stay consecutive.              *)
LEMMA SrcOrderStep ==
  ASSUME ControlOK, ControlOK', DataOK, DataOK', pc.main \in Loop, pc'.main \in Loop,
         WriterAlive, WriterAlive', decompress' = decompress,
         DstToken, DstToken', SrcToken, SrcToken', DstOrder, SrcOrder, Next
  PROVE  SrcOrder'
<1> USE DEF ControlOK, Swap, Sems, Loop, WriterAlive, data, readVars, fileVars, stopVars, Go,
            Wait, Post, Flip
<1>1. CASE ReaderWait
  BY <1>1 DEF ReaderWait,
     SrcToken, DstToken, ExactlyOne, ReaderHolds, MainHoldsSrc, WriterHolds, MainHoldsDst,
     DataOK, SrcOrder, DstOrder, Between, Unwritten, DstFull, NextIn, NextOut, Both,
     Processed, Unread, SrcFull, NextRead
<1>2. CASE ReaderTest
  BY <1>2 DEF ReaderTest,
     SrcToken, DstToken, ExactlyOne, ReaderHolds, MainHoldsSrc, WriterHolds, MainHoldsDst,
     DataOK, SrcOrder, DstOrder, Between, Unwritten, DstFull, NextIn, NextOut, Both,
     Processed, Unread, SrcFull, NextRead
<1>3. CASE ReaderRead
  <2> PICK j \in Swap : j = swap.reader
    OBVIOUS
  <2>1. /\ reads' = Append(reads, srcBuf'[j])
        /\ \A i \in Swap : i # j => srcBuf'[i] = srcBuf[i]
        /\ UNCHANGED <<dst, sem, swap>>
        /\ pc.reader = "read" /\ pc' = [pc EXCEPT !["reader"] = "post"]
    BY <1>3 DEF ReaderRead, Deliver, DataOK
  <2>2. NextIn' = NextIn /\ Processed' = Processed /\ NextRead = j /\ NextRead' = 1 - j
    BY <2>1 DEF NextIn, NextRead, Processed, Unwritten, DstFull, Both
  <2>3. ~SrcFull(j) /\ SrcFull(j)' /\ (SrcFull(1 - j)' <=> SrcFull(1 - j))
    BY <2>1 DEF SrcFull, SrcToken, ExactlyOne, ReaderHolds, MainHoldsSrc
  <2>4. Unread' = Unread + 1 /\ Unread \in {0, 1}
    BY <2>3 DEF Unread, Both
  <2>5. Len(reads) = Processed + Unread /\ Processed \in Nat
    BY DEF SrcOrder, Processed, Unwritten, Both, DataOK
  <2>6. /\ Len(reads') = Len(reads) + 1
        /\ reads'[Len(reads) + 1] = srcBuf'[j]
        /\ \A n \in 1 .. Len(reads) : reads'[n] = reads[n]
    BY <2>1 DEF DataOK
  <2>7. CASE Unread = 0
    <3>1. NextIn = j /\ ~SrcFull(1 - j)
      BY <2>2, <2>3, <2>7 DEF SrcOrder, Between, Unread, Both
    <3>2. /\ Len(reads') = Processed' + Unread' /\ Unread' = 1
          /\ NextRead' = 1 - j /\ NextIn' = j
          /\ srcBuf'[j] = reads'[Processed' + 1]
      BY <2>2, <2>4, <2>5, <2>6, <2>7, <3>1
    <3>3. SrcFull(j)' /\ ~SrcFull(1 - j)'
      BY <2>3, <3>1
    <3>4. \A i \in Swap : SrcFull(i)' => srcBuf'[i] = reads'[Processed' + (IF i = j THEN 1 ELSE 2)]
      BY <3>2, <3>3
    <3>5. SrcFull(NextIn)'
      BY <3>2, <3>3
    <3> QED
      BY <3>2, <3>4, <3>5 DEF SrcOrder, Between
  <2>8. CASE Unread = 1
    <3>1. NextIn = 1 - j /\ SrcFull(1 - j)
      BY <2>2, <2>3, <2>8 DEF SrcOrder, Between, Unread, Both, NextIn
    <3>2. srcBuf'[1 - j] = reads[Processed + 1]
      BY <2>1, <3>1 DEF SrcOrder
    <3> QED
      BY <2>2, <2>3, <2>4, <2>5, <2>6, <2>8, <3>1, <3>2 DEF SrcOrder, Between
  <2> QED
    BY <2>4, <2>7, <2>8
<1>4. CASE ReaderPost
  <2>1. UNCHANGED <<srcBuf, reads, dst, swap.main, pc.main>> /\ NextRead' = NextRead /\ NextIn' = NextIn
    BY <1>4 DEF ReaderPost, NextRead, NextIn
  <2>2. Processed' = Processed
    BY <1>4 DEF ReaderPost, Processed, Unwritten, DstFull, Both
  <2>3. \A i \in Swap : SrcFull(i)' <=> SrcFull(i)
    BY <1>4 DEF ReaderPost, SrcFull, SrcToken, ExactlyOne, ReaderHolds
  <2>4. NextIn \in Swap
    BY DEF NextIn
  <2> QED BY <2>1, <2>2, <2>3, <2>4, SrcOrderFrame
<1>5. CASE WriterWait
  <2>1. UNCHANGED <<srcBuf, reads>> /\ NextRead' = NextRead /\ NextIn' = NextIn
    BY <1>5 DEF WriterWait, NextRead, NextIn
  <2>2. Processed' = Processed
    BY <1>5 DEF WriterWait, Processed, Unwritten, DstFull, Both
  <2>3. \A i \in Swap : SrcFull(i)' <=> SrcFull(i)
    BY <1>5 DEF WriterWait, SrcFull
  <2>4. NextIn \in Swap
    BY DEF NextIn
  <2> QED BY <2>1, <2>2, <2>3, <2>4, SrcOrderFrame
<1>6. CASE WriterTest
  <2>1. UNCHANGED <<srcBuf, reads>> /\ NextRead' = NextRead /\ NextIn' = NextIn
    BY <1>6 DEF WriterTest, NextRead, NextIn
  <2>2. Processed' = Processed
    BY <1>6 DEF WriterTest, Processed, Unwritten, DstFull, Both
  <2>3. \A i \in Swap : SrcFull(i)' <=> SrcFull(i)
    BY <1>6 DEF WriterTest, SrcFull
  <2>4. NextIn \in Swap
    BY DEF NextIn
  <2> QED BY <2>1, <2>2, <2>3, <2>4, SrcOrderFrame
<1>7. CASE WriterWrite
  BY <1>7 DEF WriterWrite,
     SrcToken, DstToken, ExactlyOne, ReaderHolds, MainHoldsSrc, WriterHolds, MainHoldsDst,
     DataOK, SrcOrder, DstOrder, Between, Unwritten, DstFull, NextIn, NextOut, Both,
     Processed, Unread, SrcFull, NextRead
<1>8. CASE WriterPost
  <2>1. UNCHANGED <<srcBuf, reads>> /\ NextRead' = NextRead /\ NextIn' = NextIn
    BY <1>8 DEF WriterPost, NextRead, NextIn
  <2>2. Processed' = Processed
    BY <1>8 DEF WriterPost, Processed, Unwritten, DstFull, Both
  <2>3. \A i \in Swap : SrcFull(i)' <=> SrcFull(i)
    BY <1>8 DEF WriterPost, SrcFull
  <2>4. NextIn \in Swap
    BY DEF NextIn
  <2> QED BY <2>1, <2>2, <2>3, <2>4, SrcOrderFrame
<1>9. CASE WriterDrain
  BY <1>9 DEF WriterDrain,
     SrcToken, DstToken, ExactlyOne, ReaderHolds, MainHoldsSrc, WriterHolds, MainHoldsDst,
     DataOK, SrcOrder, DstOrder, Between, Unwritten, DstFull, NextIn, NextOut, Both,
     Processed, Unread, SrcFull, NextRead
<1>10. CASE MainWaitSrc
  BY <1>10 DEF MainWaitSrc,
     SrcToken, DstToken, ExactlyOne, ReaderHolds, MainHoldsSrc, WriterHolds, MainHoldsDst,
     DataOK, SrcOrder, DstOrder, Between, Unwritten, DstFull, NextIn, NextOut, Both,
     Processed, Unread, SrcFull, NextRead
<1>11. CASE MainWaitDst
  BY <1>11 DEF MainWaitDst,
     SrcToken, DstToken, ExactlyOne, ReaderHolds, MainHoldsSrc, WriterHolds, MainHoldsDst,
     DataOK, SrcOrder, DstOrder, Between, Unwritten, DstFull, NextIn, NextOut, Both,
     Processed, Unread, SrcFull, NextRead
<1>12. CASE MainTest
  BY <1>12 DEF MainTest,
     SrcToken, DstToken, ExactlyOne, ReaderHolds, MainHoldsSrc, WriterHolds, MainHoldsDst,
     DataOK, SrcOrder, DstOrder, Between, Unwritten, DstFull, NextIn, NextOut, Both,
     Processed, Unread, SrcFull, NextRead
<1>13. CASE MainProcess
  BY <1>13 DEF MainProcess,
     SrcToken, DstToken, ExactlyOne, ReaderHolds, MainHoldsSrc, WriterHolds, MainHoldsDst,
     DataOK, SrcOrder, DstOrder, Between, Unwritten, DstFull, NextIn, NextOut, Both,
     Processed, Unread, SrcFull, NextRead
<1>14. CASE MainPostSrc
  BY <1>14 DEF MainPostSrc,
     SrcToken, DstToken, ExactlyOne, ReaderHolds, MainHoldsSrc, WriterHolds, MainHoldsDst,
     DataOK, SrcOrder, DstOrder, Between, Unwritten, DstFull, NextIn, NextOut, Both,
     Processed, Unread, SrcFull, NextRead
<1>15. CASE MainPostDst
  BY <1>15 DEF MainPostDst,
     SrcToken, DstToken, ExactlyOne, ReaderHolds, MainHoldsSrc, WriterHolds, MainHoldsDst,
     DataOK, SrcOrder, DstOrder, Between, Unwritten, DstFull, NextIn, NextOut, Both,
     Processed, Unread, SrcFull, NextRead
<1> QED
  BY <1>1, <1>2, <1>3, <1>4, <1>5, <1>6, <1>7, <1>8, <1>9, <1>10, <1>11, <1>12,
     <1>13, <1>14, <1>15, LoopStep

(* When main() breaks out of its loop, only the other output buffer can    *)
(* hold a block that is not written yet.                                   *)
LEMMA ShutdownBegins ==
  ASSUME ControlOK, ControlOK', DataOK, DataOK', pc.main \in Loop, pc'.main = "stop",
         WriterAlive, decompress' = decompress, DstToken, DstOrder, SrcOrder, MainTest
  PROVE  ShutdownOrder'
BY DEF ControlOK, Swap, Sems, DstToken, ExactlyOne, WriterHolds, MainHoldsDst, Loop,
       WriterAlive, data, readVars, fileVars, stopVars, Go, DataOK, MainTest, Output,
       SrcOrder, DstOrder, Between, Unwritten, DstFull, NextIn, NextOut, Both, Processed,
       Unread, SrcFull, ShutdownOrder

(* The extra posts of the shutdown do not make the writer write again.     *)
LEMMA ShutdownOrderStep ==
  ASSUME ControlOK, ControlOK', DataOK, DataOK', pc.main \in {"stop"} \cup Shutdown,
         pc'.main \in {"stop"} \cup Shutdown, WriterAlive, WriterAlive',
         decompress' = decompress, ShutdownOrder, Next
  PROVE  ShutdownOrder'
<1> USE DEF ControlOK, Swap, Sems, WriterAlive, Shutdown, NextOut, ShutdownOrder, data,
            readVars, fileVars, stopVars, Go, Wait, Post, Flip, DataOK, Output
<1>1. CASE ReaderWait
  BY <1>1 DEF ReaderWait
<1>2. CASE ReaderTest
  BY <1>2 DEF ReaderTest
<1>3. CASE ReaderRead
  BY <1>3 DEF ReaderRead
<1>4. CASE ReaderPost
  BY <1>4 DEF ReaderPost
<1>5. CASE WriterWait
  BY <1>5 DEF WriterWait
<1>6. CASE WriterTest
  BY <1>6 DEF WriterTest
<1>7. CASE WriterWrite
  BY <1>7 DEF WriterWrite
<1>8. CASE WriterPost
  BY <1>8 DEF WriterPost
<1>9. CASE WriterDrain
  BY <1>9 DEF WriterDrain
<1>10. CASE MainStop
  BY <1>10 DEF MainStop
<1>11. CASE MainShutdown
  BY <1>11 DEF MainShutdown
<1>12. CASE MainJoin
  BY <1>12 DEF MainJoin
<1>13. CASE UNCHANGED vars
  BY <1>13 DEF vars
<1> QED
  BY <1>13, <1>1, <1>2, <1>3, <1>4, <1>5, <1>6, <1>7, <1>8, <1>9, <1>10, <1>11, <1>12, ShutdownStep

-----------------------------------------------------------------------------
(* What has been written                                                   *)

(* A write appends the next block; nothing else touches the output file.   *)
LEMMA BlocksInOrderStep ==
  ASSUME IInv, TypeOK', Next, decompress' = decompress
  PROVE  BlocksInOrder'
<1> USE DEF IInv, TypeOK, DataOK, BlocksInOrder
<1>1. CASE WriterWrite
  <2>1. /\ dst' = Append(dst, dstBuf[swap.writer]) /\ reads' = reads
        /\ pc.writer = "write"
    BY <1>1 DEF WriterWrite, readVars, Go
  <2>2. WriterAlive /\ NextOut = swap.writer
    BY <2>1 DEF WriterAlive, NextOut
  <2>3. Len(dst) < Len(reads) /\ dstBuf[swap.writer] = Output(reads[Len(dst) + 1])
    <3>1. CASE pc.main \in Loop
      <4>1. DstOrder /\ SrcOrder /\ DstFull(swap.writer) /\ swap.writer \in Swap
        BY <2>1, <2>2, <3>1 DEF LoopInv, DstFull, ControlOK
      <4>2. Processed >= Len(dst) + 1 /\ Unread \in Nat /\ Len(reads) = Processed + Unread
        <5>1. DstFull(0) \/ DstFull(1)
          BY <4>1 DEF Swap
        <5>2. Unwritten >= 1 /\ Unwritten \in Nat /\ Unread \in Nat
          BY <5>1 DEF Unwritten, Unread, Both
        <5> QED
          BY <4>1, <5>2 DEF Processed, SrcOrder
      <4> QED
        BY <2>2, <4>1, <4>2 DEF DstOrder, Processed, Unwritten, Both
    <3>2. CASE pc.main \in {"stop"} \cup Shutdown
      BY <2>1, <2>2, <3>2 DEF StopInv, ShutdownOrder
    <3>3. CASE pc.main \in {"start"} \cup MainEnd
      <4>1. pc.main # "start"
        BY <2>1 DEF StartInv
      <4>2. pc' # pc
        BY <1>1 DEF WriterWrite, Go, ControlOK
      <4>3. pc.main \notin MainEnd
        BY <4>2 DEF Next, Running, vars
      <4> QED BY <3>3, <4>1, <4>3
    <3> QED
      BY <3>1, <3>2, <3>3 DEF ControlOK, MainPcs, Loop
  <2>4. dst'[Len(dst) + 1] = dstBuf[swap.writer] /\ \A n \in 1 .. Len(dst) : dst'[n] = dst[n]
        /\ Len(dst') = Len(dst) + 1
    BY <2>1 DEF ControlOK
  <2> QED
    BY <2>1, <2>3, <2>4 DEF Output
<1>2. CASE ReaderRead
  <2>1. dst' = dst /\ reads' = Append(reads, srcBuf'[swap.reader])
    BY <1>2 DEF ReaderRead
  <2>2. Len(reads') = Len(reads) + 1 /\ \A n \in 1 .. Len(reads) : reads'[n] = reads[n]
    BY <2>1 DEF ControlOK
  <2> QED
    BY <2>1, <2>2 DEF Output
<1>3. CASE UNCHANGED <<reads, dst>>
  BY <1>3 DEF Output
<1>4. UNCHANGED <<reads, dst>> \/ WriterWrite \/ ReaderRead
  BY DEF Next, Main, Reader, Writer, vars, data, readVars, ReaderWait, ReaderTest, ReaderPost,
     WriterWait, WriterTest, WriterPost, WriterDrain, MainStart, MainWaitSrc, MainWaitDst,
     MainTest, MainProcess, MainPostSrc, MainPostDst, MainStop, MainShutdown, MainJoin, Terminate
<1> QED
  BY <1>1, <1>2, <1>3, <1>4

-----------------------------------------------------------------------------
(* The invariant                                                           *)

(* main() starts its loop with every buffer free.                          *)
LEMMA LoopBegins ==
  ASSUME IInv, ControlOK', MainStart, pc'.main \in Loop
  PROVE  SrcToken' /\ DstToken' /\ DstOrder' /\ SrcOrder'
<1>1. /\ pc' = [main |-> "waitSrc", reader |-> "wait", writer |-> "wait"]
      /\ sem' = [s \in Sems |-> [i \in Swap |-> s \in {"srcDoneCPU", "dstDoneIO"}]]
      /\ pc.main = "start"
  BY DEF MainStart, Loop, IInv, TypeOK, ControlOK
<1>2. /\ swap' = [main |-> 0, reader |-> 0, writer |-> 0]
      /\ dst' = <<>> /\ reads' = <<>>
  BY <1>1 DEF MainStart, IInv, StartInv
<1>3. \A i \in Swap : /\ sem'["srcDoneCPU"][i] /\ sem'["dstDoneIO"][i]
                      /\ ~sem'["srcDoneIO"][i] /\ ~sem'["dstDoneCPU"][i]
  <2> SUFFICES ASSUME NEW i \in Swap
               PROVE  /\ sem'["srcDoneCPU"][i] /\ sem'["dstDoneIO"][i]
                      /\ ~sem'["srcDoneIO"][i] /\ ~sem'["dstDoneCPU"][i]
    OBVIOUS
  <2>1. \A t \in Sems : sem'[t][i] <=> (t \in {"srcDoneCPU", "dstDoneIO"})
    BY <1>1
  <2> QED
    BY <2>1 DEF Sems
<1>4. SrcToken'
  BY <1>1, <1>3 DEF SrcToken, ExactlyOne, ReaderHolds, MainHoldsSrc
<1>5. DstToken'
  BY <1>1, <1>3 DEF DstToken, ExactlyOne, WriterHolds, MainHoldsDst
<1>6. \A i \in Swap : ~SrcFull(i)' /\ ~DstFull(i)'
  BY <1>1, <1>3 DEF SrcFull, DstFull
<1>7. Unread' = 0 /\ Unwritten' = 0 /\ Processed' = 0
  BY <1>2, <1>6 DEF Unread, Unwritten, Both, Swap, Processed
<1>8. NextRead' = 0 /\ NextIn' = 0 /\ NextOut' = 0
  BY <1>1, <1>2 DEF NextRead, NextIn, NextOut
<1> QED
  BY <1>2, <1>4, <1>5, <1>6, <1>7, <1>8 DEF SrcOrder, DstOrder, Between

(* Initially nothing is read, written or posted.                           *)
LEMMA IInvInit == Init => IInv
<1> SUFFICES ASSUME Init PROVE IInv
  OBVIOUS
<1>1. file \in Seq(Byte) /\ Len(file) \in Nat
  BY FileFacts, FramesFacts DEF Init
<1>2. <<>> \in Slices
  <2>1. SubSeq(file, 1, 0) = <<>> /\ 1 \in 1 .. Len(file) + 1 /\ 0 \in -LenField .. Len(file)
    BY <1>1 DEF LenField
  <2> QED BY <2>1 DEF Slices
<1>3. DataOK
  BY <1>1, <1>2, FormatAssumption DEF Init, DataOK, Outputs
<1>4. ControlOK
  BY DEF Init, ControlOK, MainPcs, ReaderPcs, WriterPcs, Swap
<1>5. StartInv /\ LoopInv /\ StopInv
  BY DEF Init, StartInv, LoopInv, StopInv, Loop, Shutdown
<1>6. BlocksInOrder
  BY DEF Init, BlocksInOrder
<1> QED
  BY <1>3, <1>4, <1>5, <1>6 DEF IInv, TypeOK

(* main() never returns to its start, and the threads do not move it.      *)
LEMMA StartStep ==
  ASSUME ControlOK
  PROVE  /\ Main \/ Terminate => pc'.main # "start"
         /\ Reader \/ Writer => pc'.main = pc.main
<1> USE DEF ControlOK, Go, Wait, Post
<1>1. Reader => pc'.main = pc.main
  BY DEF Reader, ReaderWait, ReaderTest, ReaderRead, ReaderPost
<1>2. Writer => pc'.main = pc.main
  BY DEF Writer, WriterWait, WriterTest, WriterWrite, WriterPost, WriterDrain
<1>3. ASSUME MainStart PROVE pc'.main # "start"
  BY <1>3 DEF MainStart
<1>4. ASSUME MainWaitSrc \/ MainWaitDst \/ MainTest \/ MainProcess PROVE pc'.main # "start"
  BY <1>4 DEF MainWaitSrc, MainWaitDst, MainTest, MainProcess
<1>5. ASSUME MainPostSrc \/ MainPostDst \/ MainStop \/ MainShutdown \/ MainJoin
      PROVE  pc'.main # "start"
  BY <1>5 DEF MainPostSrc, MainPostDst, MainStop, MainShutdown, MainJoin
<1>6. ASSUME Terminate PROVE pc'.main # "start"
  BY <1>6 DEF Terminate
<1> QED
  BY <1>1, <1>2, <1>3, <1>4, <1>5, <1>6 DEF Main

(* A thread that is off takes no step.                                     *)
LEMMA OffStep ==
  ASSUME pc.reader = "off", pc.writer = "off"
  PROVE  ~Reader /\ ~Writer
BY DEF Reader, ReaderWait, ReaderTest, ReaderRead, ReaderPost, Writer, WriterWait, WriterTest,
       WriterWrite, WriterPost, WriterDrain, Go, Wait, Post

(* IInv is inductive.                                                      *)
LEMMA IInvStep ==
  ASSUME IInv, [Next]_vars
  PROVE  IInv'
<1>1. ControlOK /\ ControlOK' /\ DataOK /\ DataOK' /\ decompress' = decompress
  BY ControlStep, DataStep, FileFixed DEF IInv, TypeOK
<1>2. CASE UNCHANGED vars
  <2>1. UNCHANGED <<decompress, srcBuf, reads, dstBuf, dst, sem, stopThreads, pc, swap>>
    BY <1>2 DEF vars, data, fileVars, readVars, stopVars
  <2>2. BlocksInOrder'
    BY <2>1 DEF IInv, BlocksInOrder, Output
  <2>3. StartInv'
    BY <2>1 DEF IInv, StartInv
  <2>4. SrcToken <=> SrcToken'
    BY <2>1 DEF SrcToken, ExactlyOne, ReaderHolds, MainHoldsSrc
  <2>5. DstToken <=> DstToken'
    BY <2>1 DEF DstToken, ExactlyOne, WriterHolds, MainHoldsDst
  <2>6. \A i \in Swap : (SrcFull(i)' <=> SrcFull(i)) /\ (DstFull(i)' <=> DstFull(i))
    BY <2>1 DEF SrcFull, DstFull
  <2>7. /\ NextRead' = NextRead /\ NextIn' = NextIn /\ NextOut' = NextOut
        /\ Unread' = Unread /\ Unwritten' = Unwritten /\ Processed' = Processed
        /\ (WriterAlive' <=> WriterAlive)
    BY <2>1, <2>6 DEF NextRead, NextIn, NextOut, Unread, Unwritten, Processed, Both, Swap,
       WriterAlive
  <2>8. NextIn \in Swap /\ NextOut \in Swap
    BY <1>1 DEF NextIn, NextOut, ControlOK, Swap
  <2>9. SrcOrder => SrcOrder'
    BY <2>1, <2>6, <2>7, <2>8, SrcOrderFrame
  <2>10. DstOrder => DstOrder'
    BY <2>1, <2>6, <2>7, <2>8 DEF DstOrder, Between, Output
  <2>11. ShutdownOrder => ShutdownOrder'
    BY <2>1, <2>7 DEF ShutdownOrder, Output
  <2>12. LoopInv' /\ StopInv'
    BY <2>1, <2>4, <2>5, <2>7, <2>9, <2>10, <2>11 DEF IInv, LoopInv, StopInv
  <2> QED
    BY <1>1, <2>2, <2>3, <2>12 DEF IInv, TypeOK
<1>3. CASE Next /\ ~UNCHANGED vars
  <2>1. BlocksInOrder'
    BY <1>1, <1>3, BlocksInOrderStep DEF TypeOK
  <2>2. StartInv'
    BY <1>1, <1>3, StartStep, OffStep DEF IInv, StartInv, Next
  <2>3. LoopInv'
    <3> SUFFICES ASSUME pc'.main \in Loop
                 PROVE  SrcToken' /\ (WriterAlive' => DstToken' /\ DstOrder' /\ SrcOrder')
      BY DEF LoopInv
    <3>1. CASE MainStart
      BY <1>1, <3>1, LoopBegins
    <3>2. CASE ~MainStart
      <4>1. pc.main \in Loop /\ pc.main # "start" /\ ~stopThreads
        BY <1>1, <1>3, <3>2, LoopEntry DEF Loop, IInv, StopInv
      <4>2. SrcToken /\ SrcToken'
        BY <1>1, <1>3, <4>1, SrcTokenStep DEF IInv, LoopInv
      <4>3. ASSUME WriterAlive' PROVE DstToken' /\ DstOrder' /\ SrcOrder'
        <5>1. WriterAlive /\ DstToken /\ DstOrder /\ SrcOrder
          BY <1>1, <1>3, <4>1, <4>3, LoopEntry DEF IInv, LoopInv
        <5>2. DstToken'
          BY <1>1, <1>3, <4>1, <4>3, <5>1, DstTokenStep
        <5>3. DstOrder'
          BY <1>1, <1>3, <4>1, <4>3, <5>1, <5>2, DstOrderStep
        <5> QED
          BY <1>1, <1>3, <4>1, <4>2, <4>3, <5>1, <5>2, <5>3, SrcOrderStep
      <4> QED
        BY <4>2, <4>3
    <3> QED
      BY <3>1, <3>2
  <2>4. StopInv'
    <3>1. ASSUME pc'.main \in {"stop"} \cup Shutdown, WriterAlive'
          PROVE  ShutdownOrder'
      <4>1. CASE pc.main \in {"stop"} \cup Shutdown
        <5>1. WriterAlive /\ ShutdownOrder
          BY <1>1, <1>3, <3>1, <4>1, LoopEntry DEF IInv, StopInv, Shutdown
        <5> QED
          BY <1>1, <1>3, <3>1, <4>1, <5>1, ShutdownOrderStep
      <4>2. CASE pc.main \in Loop /\ MainTest
        <5>1. WriterAlive /\ DstToken /\ DstOrder /\ SrcOrder
          BY <1>1, <1>3, <3>1, <4>2, LoopEntry DEF IInv, LoopInv, Loop
        <5>2. pc'.main = "stop"
          BY <3>1, <4>2, <1>1 DEF MainTest, Go, ControlOK, Shutdown
        <5> QED
          BY <1>1, <4>2, <5>1, <5>2, ShutdownBegins
      <4> QED
        BY <1>1, <1>3, <3>1, <4>1, <4>2, LoopEntry
    <3>2. stopThreads' => pc'.main \notin Loop \cup {"start"}
      <4>1. CASE MainStop
        BY <1>1, <4>1 DEF MainStop, Go, ControlOK, Loop
      <4>2. CASE ~MainStop
        <5>1. stopThreads' = stopThreads
          BY <1>3, <4>2 DEF Next, Main, Reader, Writer, stopVars, ReaderWait, ReaderTest,
             ReaderRead, ReaderPost, WriterWait, WriterTest, WriterWrite, WriterPost,
             WriterDrain, MainStart, MainWaitSrc, MainWaitDst, MainTest, MainProcess,
             MainPostSrc, MainPostDst, MainShutdown, MainJoin, Terminate
        <5>2. MainStart => ~stopThreads
          BY DEF MainStart, IInv, StopInv
        <5>3. stopThreads => pc'.main \notin Loop
          BY <1>1, <1>3, <5>2, LoopEntry DEF IInv, StopInv
        <5>4. stopThreads => pc'.main # "start"
          BY <1>1, <1>3, StartStep DEF IInv, StopInv, Next
        <5> QED
          BY <5>1, <5>3, <5>4
      <4> QED
        BY <4>1, <4>2
    <3> QED
      BY <3>1, <3>2 DEF StopInv
  <2> QED
    BY <1>1, <2>1, <2>2, <2>3, <2>4 DEF IInv, TypeOK
<1> QED
  BY <1>2, <1>3

(* IInv holds in every reachable state.                                    *)
THEOREM Invariance == Spec => []IInv
<1>1. Init => IInv
  BY IInvInit
<1>2. IInv /\ [Next]_vars => IInv'
  BY IInvStep
<1> QED
  BY <1>1, <1>2, PTL DEF Spec

(* TypeOK: the control state is well formed, the reader never leaves the   *)
(* file, and the buffers and the output hold pieces of it.                 *)
THEOREM TypeCorrect == Spec => []TypeOK
<1>1. IInv => TypeOK
  BY DEF IInv
<1> QED
  BY <1>1, Invariance, PTL

(* BuffersExclusive: main() never works on a buffer the reader fills or    *)
(* the writer drains, for any file, block size and codec.                  *)
THEOREM Exclusion == Spec => []BuffersExclusive
<1>1. IInv => BuffersExclusive
  <2> SUFFICES ASSUME IInv, pc.main \in {"test", "process"}
               PROVE  /\ ~ (pc.reader = "read" /\ swap.reader = swap.main)
                      /\ ~ (pc.writer \in {"test", "write"} /\ swap.writer = swap.main)
    BY DEF BuffersExclusive
  <2>1. swap.main \in Swap /\ SrcToken /\ (WriterAlive => DstToken)
    BY DEF IInv, TypeOK, ControlOK, LoopInv, Loop
  <2>2. ~ (pc.reader = "read" /\ swap.reader = swap.main)
    BY <2>1 DEF SrcToken, ExactlyOne, ReaderHolds, MainHoldsSrc
  <2>3. ~ (pc.writer \in {"test", "write"} /\ swap.writer = swap.main)
    BY <2>1 DEF DstToken, ExactlyOne, WriterHolds, MainHoldsDst, WriterAlive
  <2> QED
    BY <2>2, <2>3
<1> QED
  BY <1>1, Invariance, PTL

(* BlocksInOrder: the n-th block written is the n-th block read, processed,*)
(* during the run and through the shutdown, for any number of blocks.      *)
THEOREM Order == Spec => []BlocksInOrder
<1>1. IInv => BlocksInOrder
  BY DEF IInv
<1> QED
  BY <1>1, Invariance, PTL

-----------------------------------------------------------------------------
(* The reads deliver the file                                              *)

(* The file never changes, nor what the reads should deliver.              *)
LEMMA FormatFixed ==
  ASSUME [Next]_vars
  PROVE  /\ NBlocks' = NBlocks /\ UNCHANGED <<decompress, orig, file>>
         /\ \A k : Offset(k)' = Offset(k)
         /\ \A k : Input(k)' = Input(k)
         /\ Filter!Expected' = Filter!Expected
<1>1. UNCHANGED <<decompress, orig, file>>
  BY FileFixed
<1>2. NBlocks' = NBlocks /\ Frames' = Frames
  BY <1>1 DEF NBlocks, Frames
<1>3. \A k : Offset(k)' = Offset(k)
  BY <1>2 DEF Offset
<1>4. \A k : Input(k)' = Input(k)
  BY <1>1, <1>2 DEF Input
<1>5. Filter!Expected' = Filter!Expected
  BY <1>1 DEF Filter!Expected
<1> QED BY <1>1, <1>2, <1>3, <1>4, <1>5

(* Only an empty file has no blocks, and no length field when compressed.  *)
LEMMA EmptyFile ==
  ASSUME FileInv
  PROVE  /\ NBlocks = 0 <=> orig = <<>>
         /\ decompress => (Len(file) < LenField <=> NBlocks = 0)
         /\ decompress /\ NBlocks # 0 =>
              /\ Deserialize(file[1], file[2], file[3]) = LenField + Len(Encode(Blocks(orig)[1]))
              /\ Offset(0) = 0
<1>1. orig \in Files /\ orig \in Seq(Byte) /\ Len(orig) \in Nat /\ NBlocks \in Nat
  BY FileFacts, BlockFacts DEF FileInv, NBlocks
<1>2. NBlocks = 0 <=> orig = <<>>
  <2>1. \A k \in Nat \ {0} : k <= NBlocks <=> (k - 1) * BlkSz < Len(orig)
    BY <1>1, BlockFacts DEF NBlocks
  <2>2. 1 <= NBlocks <=> (1 - 1) * BlkSz < Len(orig)
    BY <2>1
  <2>3. (1 - 1) * BlkSz = 0
    BY FormatAssumption
  <2>4. orig = <<>> <=> Len(orig) = 0
    BY <1>1
  <2> QED BY <1>1, <2>2, <2>3, <2>4
<1>3. Offset(0) = 0 /\ Offset(NBlocks) = Len(Framed(orig))
  BY <1>1, FramesEnd
<1>4. ASSUME decompress, NBlocks = 0 PROVE Len(file) < LenField
  BY <1>3, <1>4 DEF FileInv, LenField
<1>5. ASSUME decompress, NBlocks # 0
      PROVE  /\ ~(Len(file) < LenField)
             /\ Deserialize(file[1], file[2], file[3]) = LenField + Len(Encode(Blocks(orig)[1]))
  <2> DEFINE b == Blocks(orig)[1]
  <2>1. 0 \in 0 .. NBlocks - 1 /\ 1 \in 1 .. Len(Blocks(orig)) /\ 0 + 1 = 1
    BY <1>1, <1>5 DEF NBlocks
  <2>2. /\ Offset(0 + 1) = Offset(0) + LenField + Len(Encode(Blocks(orig)[0 + 1]))
        /\ Offset(0 + 1) <= Len(Framed(orig))
        /\ \A i \in 1 .. LenField + Len(Encode(Blocks(orig)[0 + 1])) :
             Framed(orig)[Offset(0) + i] = Frame(Blocks(orig)[0 + 1])[i]
    BY <1>1, <2>1, FramePlace
  <2>3. /\ Len(Encode(b)) \in Nat
        /\ Deserialize(Frame(b)[1], Frame(b)[2], Frame(b)[3]) = LenField + Len(Encode(b))
    BY <1>1, <2>1, FrameFacts
  <2>4. file = Framed(orig) /\ Len(file) \in Nat
    BY <1>1, <1>5, FramesFacts DEF FileInv
  <2> HIDE DEF b
  <2>5. 0 + LenField + Len(Encode(b)) <= Len(file)
    <3>1. Offset(1) = 0 + LenField + Len(Encode(b)) /\ Offset(1) <= Len(file)
      BY <1>3, <2>1, <2>2, <2>4 DEF b
    <3> QED BY <3>1
  <2>6. /\ 1 \in 1 .. LenField + Len(Encode(b)) /\ 2 \in 1 .. LenField + Len(Encode(b))
        /\ 3 \in 1 .. LenField + Len(Encode(b))
    BY <2>3 DEF LenField
  <2>7. \A i \in 1 .. LenField + Len(Encode(b)) : file[0 + i] = Frame(b)[i]
    BY <1>3, <2>1, <2>2, <2>4 DEF b
  <2>8. file[0 + 1] = Frame(b)[1] /\ file[0 + 2] = Frame(b)[2] /\ file[0 + 3] = Frame(b)[3]
    BY <2>6, <2>7
  <2>9. ~(Len(file) < LenField)
    BY <2>3, <2>4, <2>5 DEF LenField
  <2> QED BY <2>3, <2>8, <2>9 DEF b
<1> QED BY <1>2, <1>3, <1>4, <1>5

(* main() refuses a compressed file without a length field; otherwise the  *)
(* reader starts before the first block.                                   *)
LEMMA ReadingBegins ==
  ASSUME IInv, FileInv, ReaderInv, MainStart
  PROVE  /\ pc'.main \in Loop <=> ~(decompress /\ orig = <<>>)
         /\ pc'.main \notin Loop => pc'.main = "failed" /\ pc'.reader = "off"
         /\ UNCHANGED <<decompress, orig, file, reads, dst>>
         /\ reads = <<>>
         /\ pc'.main \in Loop => /\ pos' = IF decompress THEN LenField ELSE pos
                                 /\ blksz' = IF decompress THEN LenField + Len(Encode(Blocks(orig)[1])) ELSE blksz
         /\ pc'.main \notin Loop => UNCHANGED <<pos, blksz>>
<1>1. pc.main = "start" /\ pc.reader = "off" /\ reads = <<>> /\ pc \in [main : MainPcs, reader : ReaderPcs, writer : WriterPcs]
  BY DEF MainStart, IInv, StartInv, TypeOK, ControlOK
<1>2. UNCHANGED <<decompress, orig, file, reads, dst>>
  BY DEF MainStart, fileVars
<1>3. CASE decompress /\ Len(file) < LenField
  <2>1. orig = <<>>
    BY <1>3, EmptyFile
  <2>2. pc' = [pc EXCEPT !["main"] = "failed"] /\ UNCHANGED <<pos, blksz>>
    BY <1>3 DEF MainStart
  <2> QED BY <1>1, <1>2, <1>3, <2>1, <2>2 DEF Loop
<1>4. CASE ~(decompress /\ Len(file) < LenField)
  <2>1. ~(decompress /\ orig = <<>>)
    BY <1>4, EmptyFile
  <2>2. /\ pc' = [main |-> "waitSrc", reader |-> "wait", writer |-> "wait"]
        /\ pos' = IF decompress THEN LenField ELSE pos
        /\ blksz' = IF decompress THEN Deserialize(file[1], file[2], file[3]) ELSE blksz
    BY <1>4 DEF MainStart
  <2>3. decompress => Deserialize(file[1], file[2], file[3]) = LenField + Len(Encode(Blocks(orig)[1]))
    BY <1>4, EmptyFile
  <2>4. pc'.main = "waitSrc"
    BY <2>2
  <2> QED BY <1>1, <1>2, <2>1, <2>2, <2>3, <2>4 DEF Loop
<1> QED BY <1>3, <1>4

(* FileInv is kept by every step.                                          *)
LEMMA FileInvStep ==
  ASSUME IInv, FileInv, ReaderInv, [Next]_vars
  PROVE  FileInv'
<1>1. UNCHANGED <<decompress, orig, file>>
  BY FileFixed
<1>2. ControlOK
  BY DEF IInv, TypeOK
<1>3. CASE UNCHANGED vars
  BY <1>1, <1>3 DEF vars, FileInv
<1>4. CASE Next
  <2>1. CASE MainStart
    <3>1. pc'.main \in {"stop"} \cup Loop \cup Shutdown => pc'.main \in Loop
      BY <2>1, ReadingBegins DEF Loop, Shutdown
    <3> QED BY <1>1, <2>1, <3>1, ReadingBegins DEF FileInv
  <2>2. CASE ~MainStart
    <3>1. pc'.main \in {"stop"} \cup Loop \cup Shutdown => pc.main \in {"stop"} \cup Loop \cup Shutdown
      BY <1>2, <1>4, <2>2, LoopEntry
    <3> QED BY <1>1, <3>1 DEF FileInv
  <2> QED BY <2>1, <2>2
<1> QED BY <1>3, <1>4

(* Only main()'s start and the reader's read move the reader.              *)
LEMMA ReaderFrame ==
  ASSUME ControlOK, [Next]_vars
  PROVE  MainStart \/ ReaderRead \/ (/\ UNCHANGED <<pos, blksz, reads>>
                                     /\ (pc'.reader = "off" <=> pc.reader = "off"))
<1> USE DEF data, readVars, Go, Wait, Post, ControlOK
<1>1. CASE Main
  BY <1>1 DEF Main, MainWaitSrc, MainWaitDst, MainTest, MainProcess, MainPostSrc, MainPostDst,
     MainStop, MainShutdown, MainJoin
<1>2. CASE Reader
  BY <1>2 DEF Reader, ReaderWait, ReaderTest, ReaderPost
<1>3. CASE Writer
  BY <1>3 DEF Writer, WriterWait, WriterTest, WriterWrite, WriterPost, WriterDrain
<1>4. CASE Terminate \/ UNCHANGED vars
  BY <1>4 DEF Terminate, vars
<1> QED BY <1>1, <1>2, <1>3, <1>4 DEF Next

(* ReaderInv is kept by every step.                                        *)
LEMMA ReaderInvStep ==
  ASSUME IInv, IInv', FileInv, ReaderInv, [Next]_vars
  PROVE  ReaderInv'
<1>1. /\ NBlocks' = NBlocks /\ UNCHANGED <<decompress, orig, file>>
      /\ \A k : Offset(k)' = Offset(k)
      /\ \A k : Input(k)' = Input(k)
  BY FormatFixed
<1>2. ControlOK /\ DataOK /\ reads \in Seq(Slices) /\ Len(reads) \in Nat
  BY DEF IInv, TypeOK, DataOK
<1>3. CASE UNCHANGED <<pos, blksz, reads>> /\ (pc'.reader = "off" <=> pc.reader = "off")
  BY <1>1, <1>3 DEF ReaderInv
<1>4. CASE MainStart
  <2>1. reads' = <<>> /\ reads = <<>> /\ Len(reads') = 0
    BY <1>4, ReadingBegins
  <2>2. \A k \in 1 .. Len(reads') : reads'[k] = Input(k)'
    BY <2>1
  <2>3. CASE pc'.main \notin Loop
    <3>1. UNCHANGED <<pos, blksz, reads>> /\ pc'.reader = "off"
      BY <1>4, <2>1, <2>3, ReadingBegins
    <3> QED BY <1>1, <2>2, <3>1 DEF ReaderInv
  <2>4. CASE pc'.main \in Loop /\ ~decompress
    <3>1. UNCHANGED <<pos, blksz, reads>>
      BY <1>4, <2>1, <2>4, ReadingBegins
    <3> QED BY <1>1, <2>2, <2>4, <3>1 DEF ReaderInv
  <2>5. CASE pc'.main \in Loop /\ decompress
    <3>1. pos' = LenField /\ blksz' = LenField + Len(Encode(Blocks(orig)[1]))
      BY <1>4, <2>5, ReadingBegins
    <3>2. NBlocks # 0 /\ Offset(0) = 0
      BY <1>4, <2>5, ReadingBegins, EmptyFile
    <3>3. NBlocks \in Nat
      BY BlockFacts DEF FileInv, NBlocks
    <3>4. /\ Len(reads') < NBlocks'
          /\ pos' = Offset(Len(reads))' + LenField
          /\ blksz' = LenField + Len(Encode(Blocks(orig')[Len(reads') + 1]))
      <4>1. Offset(0)' = 0 /\ 0 < NBlocks' /\ orig' = orig
        BY <1>1, <3>2, <3>3
      <4>2. Len(reads') + 1 = 1 /\ 0 + LenField = LenField
        BY <2>1 DEF LenField
      <4>3. Offset(Len(reads))' = 0
        BY <1>1, <2>1, <4>1
      <4> QED BY <2>1, <3>1, <4>1, <4>2, <4>3
    <3>5. decompress'
      BY <1>1, <2>5
    <3> QED BY <2>2, <3>4, <3>5 DEF ReaderInv
  <2> QED BY <2>3, <2>4, <2>5
<1>5. CASE ReaderRead
  <2> DEFINE n == Len(reads)
             s == srcBuf'[swap.reader]
  <2>1. reads' = Append(reads, s) /\ s \in Slices
    BY <1>2, <1>5, ReadType DEF ControlOK
  <2>2. Len(reads') = n + 1 /\ reads'[n + 1] = s /\ \A k \in 1 .. n : reads'[k] = reads[k]
    BY <1>2, <2>1
  <2>3. s = Input(n + 1)
    BY <1>2, <1>5, ReadPlain, ReadFramed
  <2> HIDE DEF s
  <2>4. \A k \in 1 .. Len(reads') : reads'[k] = Input(k)'
    <3>1. \A k \in 1 .. n + 1 : k \in 1 .. n \/ k = n + 1
      BY <1>2
    <3>2. \A k \in 1 .. n : reads[k] = Input(k)
      BY DEF ReaderInv
    <3> QED BY <1>1, <2>2, <2>3, <3>1, <3>2
  <2>5. CASE ~decompress
    <3>1. /\ blksz' = BlkSz
          /\ pos' = IF (n + 1) * BlkSz < Len(orig) THEN (n + 1) * BlkSz ELSE Len(orig)
      BY <1>2, <1>5, <2>5, ReadPlain
    <3>2. ~decompress' /\ orig' = orig
      BY <1>1, <2>5
    <3> HIDE DEF n
    <3> QED BY <2>2, <2>4, <3>1, <3>2 DEF ReaderInv
  <2>6. CASE decompress
    <3>1. IF n + 1 < NBlocks
          THEN /\ pos' = Offset(n + 1) + LenField
               /\ blksz' = LenField + Len(Encode(Blocks(orig)[n + 2]))
          ELSE pos' = Len(file) /\ blksz' = 0
      BY <1>2, <1>5, <2>6, ReadFramed
    <3>2. decompress' /\ orig' = orig /\ file' = file
      BY <1>1, <2>6
    <3>3. (n + 1) + 1 = n + 2
      BY <1>2
    <3> HIDE DEF n
    <3> QED BY <1>1, <2>2, <2>4, <3>1, <3>2, <3>3 DEF ReaderInv
  <2> QED BY <2>5, <2>6
<1> QED BY <1>2, <1>3, <1>4, <1>5, ReaderFrame

-----------------------------------------------------------------------------
(* All of it is written                                                    *)

(* In the loop, only main()'s processing adds a block to the processed     *)
(* ones; a write moves one from a buffer to the output.                    *)
LEMMA ProcessedStep ==
  ASSUME ControlOK, ControlOK', DataOK, DataOK', pc.main \in Loop, pc'.main \in Loop,
         WriterAlive, WriterAlive', DstToken, Next
  PROVE  Processed' = Processed + (IF pc.main = "process" /\ pc'.main = "postSrc" THEN 1 ELSE 0)
<1> USE DEF ControlOK, Swap, Sems, Loop, WriterAlive, data, readVars, fileVars, stopVars, Go,
            Wait, Post, Flip, Processed, Unwritten, DstFull, Both, DataOK,
            DstToken, ExactlyOne, WriterHolds, MainHoldsDst
<1>1. CASE ReaderWait
  BY <1>1 DEF ReaderWait
<1>2. CASE ReaderTest
  BY <1>2 DEF ReaderTest
<1>3. CASE ReaderRead
  BY <1>3 DEF ReaderRead
<1>4. CASE ReaderPost
  BY <1>4 DEF ReaderPost
<1>5. CASE WriterWait
  BY <1>5 DEF WriterWait
<1>6. CASE WriterTest
  BY <1>6 DEF WriterTest
<1>7. CASE WriterWrite
  BY <1>7 DEF WriterWrite
<1>8. CASE WriterPost
  BY <1>8 DEF WriterPost
<1>9. CASE WriterDrain
  BY <1>9 DEF WriterDrain
<1>10. CASE MainWaitSrc
  BY <1>10 DEF MainWaitSrc
<1>11. CASE MainWaitDst
  BY <1>11 DEF MainWaitDst
<1>12. CASE MainTest
  BY <1>12 DEF MainTest
<1>13. CASE MainProcess
  BY <1>13 DEF MainProcess
<1>14. CASE MainPostSrc
  BY <1>14 DEF MainPostSrc
<1>15. CASE MainPostDst
  BY <1>15 DEF MainPostDst
<1> QED
  BY <1>1, <1>2, <1>3, <1>4, <1>5, <1>6, <1>7, <1>8, <1>9, <1>10, <1>11, <1>12,
     <1>13, <1>14, <1>15, LoopStep

(* What the writer finds in its buffer while main() is in its loop: the    *)
(* next block of the file, processed.                                      *)
LEMMA WriterFinds ==
  ASSUME CompleteInv, pc.main \in Loop, pc.writer \in {"test", "write"}
  PROVE  /\ Len(dst) < NBlocks
         /\ dstBuf[swap.writer] = Output(Input(Len(dst) + 1))
<1>1. /\ ControlOK /\ DataOK /\ WriterAlive /\ DstOrder /\ SrcOrder /\ swap.writer \in Swap
      /\ Processed <= NBlocks /\ NBlocks \in Nat /\ Len(dst) \in Nat
  <2>1. ControlOK /\ DataOK /\ WriterAlive /\ DstOrder /\ SrcOrder
    BY DEF CompleteInv, IInv, TypeOK, LoopInv, CountInv
  <2>2. NBlocks \in Nat
    BY BlockFacts DEF CompleteInv, FileInv, NBlocks
  <2>3. Len(dst) \in Nat /\ Processed \in Nat
    BY <2>1 DEF DataOK, Processed, Unwritten, Both
  <2>4. Processed <= NBlocks
    BY <2>2, <2>3 DEF CompleteInv, CountInv
  <2> QED BY <2>1, <2>2, <2>3, <2>4 DEF ControlOK
<1>2. NextOut = swap.writer /\ DstFull(swap.writer)
  BY DEF NextOut, DstFull
<1>3. Unwritten \in {1, 2} /\ Unread \in Nat
  <2>1. DstFull(0) \/ DstFull(1)
    BY <1>1, <1>2 DEF Swap
  <2> QED BY <2>1 DEF Unwritten, Unread, Both
<1>4. Len(dst) < Processed /\ Processed <= Len(reads)
  BY <1>1, <1>3 DEF Processed, SrcOrder
<1>5. dstBuf[swap.writer] = Output(reads[Len(dst) + 1])
  BY <1>1, <1>2 DEF DstOrder
<1>6. Len(dst) + 1 \in 1 .. Len(reads) /\ Len(dst) < NBlocks
  BY <1>1, <1>4 DEF DataOK, Processed, Unwritten, Both
<1> QED BY <1>5, <1>6 DEF CompleteInv, ReaderInv

(* The same from the break on, when main()'s own buffer is not the next.   *)
LEMMA WriterFindsLast ==
  ASSUME CompleteInv, pc.main \in {"stop"} \cup Shutdown, WriterAlive, NextOut # swap.main
  PROVE  /\ Len(dst) + 1 = NBlocks
         /\ dstBuf[NextOut] = Output(Input(Len(dst) + 1))
<1>1. Len(dst) < Len(reads) /\ dstBuf[NextOut] = Output(reads[Len(dst) + 1])
  BY DEF CompleteInv, IInv, StopInv, ShutdownOrder
<1>2. Len(dst) \in Nat /\ Len(reads) \in Nat
  BY DEF CompleteInv, IInv, TypeOK, DataOK
<1>3. Len(dst) + 1 \in 1 .. Len(reads)
  BY <1>1, <1>2
<1>4. Len(dst) + 1 = NBlocks
  BY <1>2 DEF CompleteInv, CountInv
<1> QED BY <1>1, <1>3, <1>4 DEF CompleteInv, ReaderInv

(* A processed block of the file is never empty.                           *)
LEMMA NothingEmpty ==
  ASSUME FileInv, NEW k \in Nat \ {0}, k <= NBlocks
  PROVE  Output(Input(k)) # <<>>
BY InputFacts

(* main() finds the next block in its input buffer, or nothing when there  *)
(* is none left.                                                           *)
LEMMA MainFinds ==
  ASSUME CompleteInv, pc.main = "test"
  PROVE  /\ Processed \in Nat
         /\ srcBuf[swap.main] = Input(Processed + 1)
<1>1. /\ ControlOK /\ DataOK /\ WriterAlive /\ SrcOrder /\ swap.main \in Swap /\ Len(dst) \in Nat
  BY DEF CompleteInv, IInv, TypeOK, LoopInv, CountInv, ControlOK, DataOK, Loop
<1>2. NextIn = swap.main /\ SrcFull(swap.main)
  BY DEF NextIn, SrcFull
<1>3. Unread \in {1, 2}
  <2>1. SrcFull(0) \/ SrcFull(1)
    BY <1>1, <1>2 DEF Swap
  <2> QED BY <2>1 DEF Unread, Both
<1>4. Processed \in Nat
  BY <1>1 DEF Processed, Unwritten, Both
<1>5. srcBuf[swap.main] = reads[Processed + 1]
  BY <1>1, <1>2 DEF SrcOrder
<1>6. Processed + 1 \in 1 .. Len(reads)
  BY <1>1, <1>3, <1>4 DEF SrcOrder
<1> QED BY <1>4, <1>5, <1>6 DEF CompleteInv, ReaderInv

(* The writer does not give up while main() is in its loop.                *)
LEMMA WriterStays ==
  ASSUME CompleteInv, Next, pc.main \in Loop, pc'.main \in Loop
  PROVE  WriterAlive'
<1>1. ControlOK /\ WriterAlive /\ FileInv
  BY DEF CompleteInv, IInv, TypeOK, CountInv
<1> USE DEF ControlOK, WriterAlive, Go, Wait, Post
<1>2. CASE WriterTest
  <2>1. pc.writer = "test"
    BY <1>2 DEF WriterTest
  <2>2. Len(dst) \in Nat /\ NBlocks \in Nat
    <3>1. NBlocks \in Nat
      BY <1>1, BlockFacts DEF FileInv, NBlocks
    <3> QED BY <3>1 DEF CompleteInv, IInv, TypeOK, DataOK
  <2>3. Len(dst) < NBlocks /\ dstBuf[swap.writer] = Output(Input(Len(dst) + 1))
    BY <2>1, WriterFinds
  <2>4. dstBuf[swap.writer] # <<>>
    BY <1>1, <2>2, <2>3, NothingEmpty
  <2> QED BY <1>1, <1>2, <2>4 DEF WriterTest
<1>3. CASE ReaderWait \/ ReaderTest \/ ReaderRead \/ ReaderPost
  BY <1>1, <1>3 DEF ReaderWait, ReaderTest, ReaderRead, ReaderPost
<1>4. CASE WriterWait \/ WriterWrite \/ WriterPost \/ WriterDrain
  BY <1>1, <1>4 DEF WriterWait, WriterWrite, WriterPost, WriterDrain
<1>5. CASE MainWaitSrc \/ MainWaitDst \/ MainTest \/ MainProcess \/ MainPostSrc \/ MainPostDst
  BY <1>1, <1>5 DEF MainWaitSrc, MainWaitDst, MainTest, MainProcess, MainPostSrc, MainPostDst
<1> QED BY <1>1, <1>2, <1>3, <1>4, <1>5, LoopStep

(* In the loop main() processes blocks of the file only.                   *)
LEMMA CountLoopStep ==
  ASSUME CompleteInv, IInv', Next, pc.main \in Loop, pc'.main \in Loop
  PROVE  /\ WriterAlive'
         /\ Processed' + (IF pc'.main = "process" THEN 1 ELSE 0) <= NBlocks
<1>1. WriterAlive'
  BY WriterStays
<1>2. /\ ControlOK /\ ControlOK' /\ DataOK /\ DataOK' /\ WriterAlive /\ DstToken /\ FileInv
      /\ Processed + (IF pc.main = "process" THEN 1 ELSE 0) <= NBlocks
  BY DEF CompleteInv, IInv, TypeOK, LoopInv, CountInv
<1>3. Processed' = Processed + (IF pc.main = "process" /\ pc'.main = "postSrc" THEN 1 ELSE 0)
  BY <1>1, <1>2, ProcessedStep
<1>4. NBlocks \in Nat /\ Processed \in Nat
  <2>1. NBlocks \in Nat
    BY <1>2, BlockFacts DEF FileInv, NBlocks
  <2> QED BY <1>2, <2>1 DEF Processed, Unwritten, Both, DataOK
<1>5. CASE pc.main = "test" /\ pc'.main = "process"
  <2>1. MainTest
    BY <1>2, <1>5, LoopStep DEF ReaderWait, ReaderTest, ReaderRead, ReaderPost, WriterWait,
       WriterTest, WriterWrite, WriterPost, WriterDrain, MainWaitSrc, MainWaitDst, MainProcess,
       MainPostSrc, MainPostDst, Go, Wait, Post, ControlOK
  <2>2. srcBuf[swap.main] # <<>>
    BY <1>2, <1>5, <2>1 DEF MainTest, Go, ControlOK
  <2>3. srcBuf[swap.main] = Input(Processed + 1)
    BY <1>5, MainFinds
  <2>4. Processed + 1 <= NBlocks
    BY <1>4, <2>2, <2>3 DEF Input
  <2> QED BY <1>1, <1>3, <1>4, <1>5, <2>4
<1>6. CASE ~(pc.main = "test" /\ pc'.main = "process")
  <2>1. pc'.main = "process" => pc.main = "process"
    BY <1>2, <1>6, LoopStep DEF ReaderWait, ReaderTest, ReaderRead, ReaderPost, WriterWait,
       WriterTest, WriterWrite, WriterPost, WriterDrain, MainWaitSrc, MainWaitDst, MainTest,
       MainProcess, MainPostSrc, MainPostDst, Go, Wait, Post, ControlOK
  <2> QED BY <1>1, <1>2, <1>3, <1>4, <2>1
<1> QED BY <1>5, <1>6

(* main() breaks out of its loop when all blocks are processed, with at    *)
(* most the last of them not yet written.                                  *)
LEMMA CountBreak ==
  ASSUME CompleteInv, IInv', Next, pc.main \in Loop, MainTest, pc'.main = "stop"
  PROVE  NBlocks = Len(dst') + (IF WriterAlive' /\ NextOut' # swap'.main THEN 1 ELSE 0)
<1>1. /\ ControlOK /\ DataOK /\ WriterAlive /\ DstToken /\ DstOrder /\ FileInv /\ Processed <= NBlocks
  <2>1. /\ ControlOK /\ DataOK /\ WriterAlive /\ DstToken /\ DstOrder /\ FileInv
        /\ Processed + (IF pc.main = "process" THEN 1 ELSE 0) <= NBlocks
    BY DEF CompleteInv, IInv, TypeOK, LoopInv, CountInv
  <2>2. pc.main = "test"
    BY DEF MainTest, Go
  <2>3. Processed \in Nat
    BY <2>2, MainFinds
  <2> QED BY <2>1, <2>2, <2>3
<1>2. /\ pc.main = "test" /\ srcBuf[swap.main] = <<>>
      /\ UNCHANGED <<dst, sem, swap>> /\ pc' = [pc EXCEPT !["main"] = "stop"]
  <2>1. pc.main = "test" /\ UNCHANGED <<dst, sem, swap>> /\ pc' = [pc EXCEPT !["main"] = pc'.main]
    BY <1>1 DEF MainTest, Go, ControlOK
  <2>2. srcBuf[swap.main] = <<>>
    BY <1>1 DEF MainTest, Go, ControlOK
  <2> QED BY <2>1, <2>2
<1>3. Processed \in Nat /\ Input(Processed + 1) = <<>>
  BY <1>2, MainFinds
<1>4. NBlocks \in Nat
  BY <1>1, BlockFacts DEF FileInv, NBlocks
<1>5. Processed = NBlocks
  <2>1. Processed + 1 > NBlocks
    BY <1>1, <1>3, <1>4, InputFacts
  <2> QED BY <1>1, <1>3, <1>4, <2>1
<1>6. WriterAlive' /\ NextOut' = NextOut /\ swap' = swap /\ dst' = dst
  BY <1>1, <1>2 DEF WriterAlive, NextOut, ControlOK
<1>7. Unwritten = IF NextOut # swap.main THEN 1 ELSE 0
  <2>1. ~DstFull(swap.main) /\ swap.main \in Swap
    BY <1>1, <1>2 DEF DstFull, DstToken, ExactlyOne, MainHoldsDst, WriterHolds, ControlOK
  <2>2. Unwritten \in {0, 1}
    BY <2>1 DEF Unwritten, Both, Swap
  <2>3. NextIn = swap.main /\ NextOut \in Swap
    BY <1>1, <1>2 DEF NextIn, NextOut, ControlOK, Swap
  <2>4. /\ Unwritten = 1 => NextIn = 1 - NextOut
        /\ Unwritten # 1 => NextIn = NextOut
    BY <1>1 DEF DstOrder, Between
  <2> QED BY <2>2, <2>3, <2>4 DEF Swap
<1>8. NBlocks = Len(dst) + Unwritten
  BY <1>5 DEF Processed
<1> QED BY <1>6, <1>7, <1>8

(* From then on the missing block, if any, is written and nothing else.    *)
LEMMA CountShutdownStep ==
  ASSUME CompleteInv, IInv', Next, pc.main \in {"stop"} \cup Shutdown,
         pc'.main \in {"stop"} \cup Shutdown
  PROVE  NBlocks = Len(dst') + (IF WriterAlive' /\ NextOut' # swap'.main THEN 1 ELSE 0)
<1>1. /\ ControlOK /\ DataOK /\ FileInv /\ (WriterAlive => ShutdownOrder)
      /\ Len(dst) \in Nat /\ NBlocks \in Nat
      /\ NBlocks = Len(dst) + (IF WriterAlive /\ NextOut # swap.main THEN 1 ELSE 0)
  <2>1. ControlOK /\ DataOK /\ FileInv /\ (WriterAlive => ShutdownOrder)
    BY DEF CompleteInv, IInv, TypeOK, StopInv
  <2>2. NBlocks \in Nat
    BY <2>1, BlockFacts DEF FileInv, NBlocks
  <2>3. Len(dst) \in Nat
    BY <2>1 DEF DataOK
  <2>4. NBlocks = Len(dst) + (IF WriterAlive /\ NextOut # swap.main THEN 1 ELSE 0)
    BY DEF CompleteInv, CountInv
  <2> QED BY <2>1, <2>2, <2>3, <2>4
<1>2. CASE WriterWrite
  <2>1. pc.writer = "write" /\ WriterAlive /\ NextOut = swap.writer /\ NextOut # swap.main
    BY <1>1, <1>2 DEF WriterWrite, Go, WriterAlive, NextOut, ShutdownOrder
  <2>2. dst' = Append(dst, dstBuf[swap.writer]) /\ swap' = swap
        /\ pc'.writer = "post" /\ swap.writer \in Swap /\ swap.main \in Swap
    BY <1>1, <1>2 DEF WriterWrite, Go, ControlOK
  <2>3. Len(dst') = Len(dst) + 1
    BY <1>1, <2>2 DEF DataOK
  <2>4. NextOut' = swap'.main
    BY <2>1, <2>2 DEF NextOut, Swap
  <2> QED BY <1>1, <2>1, <2>3, <2>4
<1>3. CASE WriterTest
  <2>1. pc.writer = "test" /\ WriterAlive /\ NextOut = swap.writer /\ UNCHANGED <<dst, swap>>
    BY <1>3 DEF WriterTest, Go, WriterAlive, NextOut, data
  <2>2. CASE NextOut = swap.main
    <3>1. NextOut' = swap'.main
      BY <1>1, <1>3, <2>1, <2>2 DEF WriterTest, Go, ControlOK, NextOut
    <3> QED BY <1>1, <2>1, <2>2, <3>1
  <2>3. CASE NextOut # swap.main
    <3>1. Len(dst) + 1 = NBlocks /\ dstBuf[NextOut] = Output(Input(Len(dst) + 1))
      BY <2>1, <2>3, WriterFindsLast
    <3>2. Len(dst) + 1 \in Nat \ {0} /\ Len(dst) + 1 <= NBlocks
      BY <1>1, <3>1
    <3>3. dstBuf[swap.writer] # <<>>
      BY <1>1, <2>1, <3>1, <3>2, NothingEmpty
    <3>4. pc'.writer = "write"
      BY <1>1, <1>3, <3>3 DEF WriterTest, Go, ControlOK
    <3>5. WriterAlive' /\ NextOut' # swap'.main
      BY <2>1, <2>3, <3>4 DEF WriterAlive, NextOut
    <3> QED BY <1>1, <2>1, <2>3, <3>5
  <2> QED BY <2>2, <2>3
<1>4. CASE WriterDrain
  <2>1. ~WriterAlive /\ ~WriterAlive' /\ dst' = dst
    BY <1>1, <1>4 DEF WriterDrain, Post, Go, WriterAlive, ControlOK, data
  <2> QED BY <1>1, <2>1
<1>5. CASE WriterWait \/ WriterPost
  <2>1. /\ WriterAlive /\ WriterAlive' /\ dst' = dst /\ NextOut' = NextOut /\ swap'.main = swap.main
    BY <1>1, <1>5 DEF WriterWait, WriterPost, Wait, Post, Go, Flip, WriterAlive, ControlOK, data, NextOut
  <2> QED BY <1>1, <2>1
<1>6. ASSUME dst' = dst, swap'.main = swap.main, pc'.writer = pc.writer, swap'.writer = swap.writer
      PROVE  NBlocks = Len(dst') + (IF WriterAlive' /\ NextOut' # swap'.main THEN 1 ELSE 0)
  <2>1. (WriterAlive' <=> WriterAlive) /\ NextOut' = NextOut
    BY <1>6 DEF WriterAlive, NextOut
  <2> QED BY <1>1, <1>6, <2>1
<1>7. CASE ReaderWait \/ ReaderTest \/ ReaderRead \/ ReaderPost
  BY <1>1, <1>6, <1>7 DEF ReaderWait, ReaderTest, ReaderRead, ReaderPost, Wait, Post, Go, Flip,
     ControlOK, data
<1>8. CASE MainStop \/ MainShutdown \/ MainJoin \/ UNCHANGED vars
  BY <1>1, <1>6, <1>8 DEF MainStop, MainShutdown, MainJoin, Wait, Post, Go, vars, data, ControlOK
<1> QED BY <1>1, <1>2, <1>3, <1>4, <1>5, <1>7, <1>8, ShutdownStep

(* CountInv is kept by every step.                                         *)
LEMMA CountInvStep ==
  ASSUME CompleteInv, IInv', [Next]_vars
  PROVE  CountInv'
<1>1. ControlOK /\ ControlOK' /\ FileInv
  BY DEF CompleteInv, IInv, TypeOK
<1>2. NBlocks' = NBlocks /\ NBlocks \in Nat
  BY <1>1, FormatFixed, BlockFacts DEF FileInv, NBlocks
<1>3. CASE UNCHANGED vars
  <2>1. UNCHANGED <<dst, sem, pc, swap>>
    BY <1>3 DEF vars, data
  <2>2. (WriterAlive' <=> WriterAlive) /\ NextOut' = NextOut /\ Processed' = Processed
    BY <2>1 DEF WriterAlive, NextOut, Processed, Unwritten, Both, DstFull
  <2>3. CountInv
    BY DEF CompleteInv
  <2> QED BY <1>2, <2>1, <2>2, <2>3 DEF CountInv
<1>4. CASE Next
  <2>1. ASSUME pc'.main \in Loop
        PROVE  WriterAlive' /\ Processed' + (IF pc'.main = "process" THEN 1 ELSE 0) <= NBlocks
    <3>1. CASE pc.main \in Loop
      BY <1>4, <2>1, <3>1, CountLoopStep
    <3>2. CASE MainStart
      <4>1. /\ pc' = [main |-> "waitSrc", reader |-> "wait", writer |-> "wait"]
        <5>1. ~(decompress /\ Len(file) < LenField)
          <6> SUFFICES ASSUME decompress /\ Len(file) < LenField PROVE pc'.main = "failed"
            BY <2>1 DEF Loop
          <6>1. pc' = [pc EXCEPT !["main"] = "failed"]
            BY <3>2 DEF MainStart
          <6> QED BY <1>1, <6>1 DEF ControlOK
        <5> QED BY <3>2, <5>1 DEF MainStart
      <4>2. dst' = <<>> /\ reads' = <<>>
        BY <3>2 DEF MainStart, CompleteInv, IInv, StartInv
      <4>3. WriterAlive' /\ SrcOrder'
        BY <2>1, <4>1 DEF WriterAlive, IInv, LoopInv
      <4>4. Len(dst') = 0 /\ Len(reads') = 0 /\ Unread' \in Nat /\ Unwritten' \in Nat
        BY <4>2 DEF Unread, Unwritten, Both
      <4>5. Processed' = 0
        <5>1. Len(reads') = Processed' + Unread'
          BY <4>3 DEF SrcOrder
        <5>2. Processed' = Len(dst') + Unwritten'
          BY DEF Processed
        <5>3. \A p, a, b : a \in Nat /\ b \in Nat /\ 0 = p + a /\ p = 0 + b => p = 0
          OBVIOUS
        <5>4. 0 = Processed' + Unread' /\ Processed' = 0 + Unwritten'
          BY <4>4, <5>1, <5>2
        <5> QED BY <4>4, <5>3, <5>4
      <4> QED BY <1>2, <4>1, <4>3, <4>5
    <3> QED BY <1>1, <1>4, <2>1, <3>1, <3>2, LoopEntry
  <2>2. ASSUME pc'.main \in {"stop"} \cup Shutdown
        PROVE  NBlocks = Len(dst') + (IF WriterAlive' /\ NextOut' # swap'.main THEN 1 ELSE 0)
    <3>1. CASE pc.main \in {"stop"} \cup Shutdown
      BY <1>4, <2>2, <3>1, CountShutdownStep
    <3>2. CASE pc.main \in Loop /\ MainTest
      <4>1. pc'.main = "stop"
        BY <1>1, <2>2, <3>2 DEF MainTest, Go, ControlOK, Shutdown
      <4> QED BY <1>4, <3>2, <4>1, CountBreak
    <3> QED BY <1>1, <1>4, <2>2, <3>1, <3>2, LoopEntry
  <2> QED BY <1>2, <2>1, <2>2 DEF CountInv
<1> QED BY <1>3, <1>4

(* Initially the reader stands at the start of the file.                   *)
LEMMA CompleteInit == Init => CompleteInv
<1> SUFFICES ASSUME Init PROVE CompleteInv
  OBVIOUS
<1>1. IInv
  BY IInvInit
<1>2. FileInv
  BY DEF Init, FileInv, Loop, Shutdown
<1>3. CountInv
  BY DEF Init, CountInv, Loop, Shutdown
<1>4. ReaderInv
  <2>1. Len(reads) = 0 /\ reads = <<>> /\ blksz = BlkSz /\ pos = 0 /\ pc.reader = "off"
    BY DEF Init
  <2>2. 0 * BlkSz = 0 /\ Len(orig) \in Nat
    BY FileFacts DEF Init
  <2> QED BY <2>1, <2>2 DEF ReaderInv
<1> QED BY <1>1, <1>2, <1>3, <1>4 DEF CompleteInv

(* The reads deliver the blocks of the file, and when main() stops all of  *)
(* them are written or about to be: CompleteInv holds in every reachable   *)
(* state.                                                                  *)
THEOREM Completeness == Spec => []CompleteInv
<1>1. Init => CompleteInv
  BY CompleteInit
<1>2. CompleteInv /\ [Next]_vars => CompleteInv'
  <2> SUFFICES ASSUME CompleteInv, [Next]_vars PROVE CompleteInv'
    OBVIOUS
  <2>1. IInv /\ FileInv /\ ReaderInv
    BY DEF CompleteInv
  <2>2. IInv'
    BY <2>1, IInvStep
  <2>3. FileInv' /\ ReaderInv' /\ CountInv'
    BY <2>1, <2>2, FileInvStep, ReaderInvStep, CountInvStep
  <2> QED BY <2>2, <2>3 DEF CompleteInv
<1> QED BY <1>1, <1>2, PTL DEF Spec

-----------------------------------------------------------------------------
(* The refinement                                                          *)

(* A step that leaves the output file and the fate of main() alone is a    *)
(* stutter of the abstract filter.                                         *)
LEMMA Stutters ==
  ASSUME [Next]_vars, dst' = dst, pc.main \notin MainEnd, pc'.main \notin MainEnd
  PROVE  UNCHANGED Filter!bvars
<1>1. UNCHANGED <<decompress, orig>>
  BY FileFixed
<1> QED BY <1>1 DEF Filter!bvars, MainEnd

(* Every step of the utility is a step of the abstract filter, or none.    *)
LEMMA FilterStep ==
  ASSUME CompleteInv, [Next]_vars
  PROVE  [Filter!BNext]_(Filter!bvars)
<1>1. /\ ControlOK /\ DataOK /\ FileInv /\ UNCHANGED <<decompress, orig>>
      /\ Len(dst) \in Nat /\ NBlocks \in Nat
  <2>1. ControlOK /\ DataOK /\ FileInv
    BY DEF CompleteInv, IInv, TypeOK
  <2> QED BY <2>1, FileFixed, BlockFacts DEF DataOK, FileInv, NBlocks
<1>2. CASE UNCHANGED vars
  BY <1>2 DEF vars, data, fileVars, Filter!bvars
<1>3. CASE pc.main \in MainEnd
  <2>1. UNCHANGED vars
    BY <1>2, <1>3 DEF Next, Running
  <2> QED BY <1>2, <2>1
<1>4. CASE pc.main \notin MainEnd /\ Next
  <2>1. CASE WriterWrite
    <3>1. pc.writer = "write" /\ pc'.main = pc.main /\ dst' = Append(dst, dstBuf[swap.writer])
          /\ WriterAlive /\ NextOut = swap.writer /\ pc.main # "start"
      BY <1>1, <2>1 DEF WriterWrite, Go, ControlOK, WriterAlive, NextOut, CompleteInv, IInv, StartInv
    <3>2. Len(dst) < NBlocks /\ dstBuf[swap.writer] = Output(Input(Len(dst) + 1))
      <4>1. CASE pc.main \in Loop
        BY <3>1, <4>1, WriterFinds
      <4>2. CASE pc.main \in {"stop"} \cup Shutdown
        <5>1. NextOut # swap.main
          BY <3>1, <4>2 DEF CompleteInv, IInv, StopInv, ShutdownOrder
        <5>2. Len(dst) + 1 = NBlocks /\ dstBuf[swap.writer] = Output(Input(Len(dst) + 1))
          BY <3>1, <4>2, <5>1, WriterFindsLast
        <5> QED BY <1>1, <5>2
      <4> QED BY <1>1, <1>4, <3>1, <4>1, <4>2 DEF ControlOK, MainPcs, Loop
    <3>3. Len(dst) + 1 \in Nat \ {0} /\ Len(dst) + 1 <= NBlocks
      BY <1>1, <3>2
    <3>4. Output(Input(Len(dst) + 1)) = Filter!Expected[Len(dst) + 1] /\ Len(Filter!Expected) = NBlocks
      BY <1>1, <3>3, InputFacts
    <3>5. Filter!Emit
      BY <1>1, <1>4, <3>1, <3>2, <3>4 DEF Filter!Emit, MainEnd
    <3> QED BY <3>5 DEF Filter!BNext
  <2>2. CASE MainStart
    <3>1. dst' = dst /\ (pc'.main \notin Loop => pc'.main = "failed" /\ decompress /\ orig = <<>>)
      BY <2>2, ReadingBegins DEF CompleteInv
    <3>2. CASE pc'.main \in Loop
      <4>1. pc'.main \notin MainEnd
        BY <3>2 DEF Loop, MainEnd
      <4> QED BY <1>4, <3>1, <4>1, Stutters
    <3>3. CASE pc'.main \notin Loop
      <4>1. Filter!Refuse
        BY <1>1, <1>4, <3>1, <3>3 DEF Filter!Refuse, MainEnd
      <4> QED BY <4>1 DEF Filter!BNext
    <3> QED BY <3>2, <3>3
  <2>3. CASE Terminate
    <3>1. dst' = dst /\ pc'.main = "terminated"
      BY <1>1, <2>3 DEF Terminate, data, ControlOK
    <3>2. Filter!Die
      BY <1>1, <1>4, <3>1 DEF Filter!Die, MainEnd
    <3> QED BY <3>2 DEF Filter!BNext
  <2>4. CASE MainJoin
    <3>1. dst' = dst
      BY <2>4 DEF MainJoin, data
    <3>2. CASE pc.reader = "exit" /\ Go("main", "join1", "join2")
      <4>1. pc'.main = "join2"
        BY <1>1, <3>2 DEF Go, ControlOK
      <4> QED BY <1>4, <3>1, <4>1, Stutters DEF MainEnd
    <3>3. CASE pc.writer = "exit" /\ Go("main", "join2", "exit")
      <4>1. pc.main = "join2" /\ pc'.main = "exit" /\ ~WriterAlive
        BY <1>1, <3>3 DEF Go, ControlOK, WriterAlive
      <4>2. NBlocks = Len(dst) + 0 /\ ~(decompress /\ orig = <<>>)
        BY <4>1 DEF CompleteInv, CountInv, FileInv, Shutdown
      <4>3. Len(Filter!Expected) = Len(dst)
        <5>1. 1 \in Nat \ {0}
          OBVIOUS
        <5>2. Len(Filter!Expected) = NBlocks
          BY <1>1, <5>1, InputFacts
        <5> QED BY <1>1, <4>2, <5>2
      <4>4. Filter!Finish
        BY <1>1, <3>1, <4>1, <4>2, <4>3 DEF Filter!Finish
      <4> QED BY <4>4 DEF Filter!BNext
    <3> QED BY <2>4, <3>2, <3>3 DEF MainJoin
  <2>5. CASE Reader \/ WriterWait \/ WriterTest \/ WriterPost \/ WriterDrain
    <3>1. dst' = dst /\ pc'.main = pc.main
      BY <1>1, <2>5 DEF Reader, ReaderWait, ReaderTest, ReaderRead, ReaderPost, WriterWait,
         WriterTest, WriterPost, WriterDrain, Go, Wait, Post, ControlOK, data
    <3> QED BY <1>4, <3>1, Stutters
  <2>6. CASE \/ MainWaitSrc \/ MainWaitDst \/ MainTest \/ MainProcess \/ MainPostSrc \/ MainPostDst
             \/ MainStop \/ MainShutdown
    <3>1. dst' = dst /\ pc'.main \in Loop \cup {"stop"} \cup (Shutdown \ {"exit"})
      BY <1>1, <2>6 DEF MainWaitSrc, MainWaitDst, MainTest, MainProcess, MainPostSrc, MainPostDst,
         MainStop, MainShutdown, Go, Wait, Post, ControlOK, data, Loop, Shutdown
    <3>2. pc'.main \notin MainEnd
      BY <3>1 DEF Loop, Shutdown, MainEnd
    <3> QED BY <1>4, <3>1, <3>2, Stutters
  <2> QED BY <1>2, <1>4, <2>1, <2>2, <2>3, <2>4, <2>5, <2>6 DEF Next, Main, Writer
<1> QED BY <1>2, <1>3, <1>4

(* Filter!BSafety, the safety part of IsBlockFilter: for every file, block *)
(* size and codec, threads, buffers and shutdown included, the utility     *)
(* emits the blocks its input stands for, each once and in order, and ends *)
(* successfully only when all of them are written.                         *)
THEOREM ImplementsFilter == Spec => Filter!BSafety
<1>1. Init => Filter!BInit
  BY DEF Init, Filter!BInit
<1>2. CompleteInv /\ [Next]_vars => [Filter!BNext]_(Filter!bvars)
  BY FilterStep
<1> QED BY <1>1, <1>2, Completeness, PTL DEF Spec, Filter!BSafety
=============================================================================
