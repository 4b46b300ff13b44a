------------------------------ MODULE Sampling -------------------------------
(***************************************************************************)
(* makeSample() of libfsst.cpp and makeSampleChunks() of libfsst12.cpp,    *)
(* which are the same: what of the caller's lines is the sample that a     *)
(* symbol table is trained with.  A small input is the sample.  Of a large *)
(* one, random chunks of random lines are copied into a buffer, and the    *)
(* lengths that the caller gets back are no longer those of the lines.     *)
(*                                                                         *)
(* The bytes do not matter: a string of the sample is where it was copied  *)
(* from.  Any line and any chunk may come up, whatever the hash yields.    *)
(***************************************************************************)
EXTENDS Integers, Sequences, FiniteSetsExt, SequencesExt

CONSTANTS
  SampleTarget,   \* FSST_SAMPLETARGET: 16 KB, and 128 KB in the 12-bit library
  SampleLine,     \* FSST_SAMPLELINE: 512
  LineLengths     \* the inputs: the lengths of their lines

ASSUME SamplingAssumption ==
  /\ SampleTarget \in Nat \ {0} /\ SampleLine \in 1..SampleTarget
  /\ LineLengths \subseteq Seq(Nat) \ {<< >>}

VARIABLES
  lenIn,       \* the lengths of the caller's lines
  chosen,      \* the strings of the sample: [line, from, len]
  filled,      \* how far sampleBuf is filled
  ownLens,     \* *lenRef is an array of makeSample() and not the caller's
  sampling     \* "begin", "draw" or "end"

samplingVars == <<lenIn, chosen, filled, ownLens, sampling>>

SampleMax == 2 * SampleTarget   \* FSST_SAMPLEMAXSZ, the bytes of sampleBuf

TotalSize == FoldLeft(+, 0, lenIn)

\* the entries of the array of lengths
LenLimit == Len(lenIn) + SampleMax \div SampleLine

AllLines == [l \in 1..Len(lenIn) |-> [line |-> l, from |-> 0, len |-> lenIn[l]]]

SamplingInit ==
  /\ lenIn \in LineLengths
  /\ chosen = << >> /\ filled = 0 /\ ownLens = FALSE
  /\ sampling = "begin"

TakeAll ==
  /\ sampling = "begin" /\ TotalSize < SampleTarget
  /\ chosen' = AllLines
  /\ sampling' = "end"
  /\ UNCHANGED <<lenIn, filled, ownLens>>

BeginDraw ==
  /\ sampling = "begin" /\ TotalSize >= SampleTarget
  /\ ownLens' = TRUE
  /\ sampling' = "draw"
  /\ UNCHANGED <<lenIn, chosen, filled>>

\* The line drawn is skipped, around the end, up to one that is not empty.
NotEmpty == {l \in 1..Len(lenIn) : lenIn[l] > 0}

\* where the chunks of a line begin
ChunkStarts(l) == {n \in 0..lenIn[l] - 1 : n % SampleLine = 0}

\* (mutant) every chunk has the length of a whole one, or of a short line
WholeChunk(l, from) == Min({lenIn[l], SampleLine})

ChunkLength(l, from) == Min({lenIn[l] - from, SampleLine})

WantsMore == filled < SampleTarget /\ Len(chosen) < LenLimit

Draw ==
  /\ sampling = "draw" /\ WantsMore
  /\ \E l \in NotEmpty : \E from \in ChunkStarts(l) :
       /\ chosen' = Append(chosen, [line |-> l, from |-> from, len |-> ChunkLength(l, from)])
       /\ filled' = filled + ChunkLength(l, from)
  /\ UNCHANGED <<lenIn, ownLens, sampling>>

EndDraw ==
  /\ sampling = "draw" /\ ~WantsMore
  /\ sampling' = "end"
  /\ UNCHANGED <<lenIn, chosen, filled, ownLens>>

SamplingNext == TakeAll \/ BeginDraw \/ Draw \/ EndDraw

SamplingSpec == SamplingInit /\ [][SamplingNext]_samplingVars

-----------------------------------------------------------------------------
(* Property                                                                *)

\* The sample never leaves what it is copied from, nor the buffer and the
\* array it is copied to, whichever lines and chunks come up; and unless the
\* array is full, it is as large as was asked for, or all there is.
SampleFits ==
  /\ \A i \in 1..Len(chosen) :
       LET s == chosen[i] IN
       s.from + s.len <= lenIn[s.line] /\ (ownLens => s.len > 0)
  /\ ownLens => filled <= SampleMax /\ Len(chosen) <= LenLimit
  /\ sampling = "end" =>
       IF ownLens THEN filled >= SampleTarget \/ Len(chosen) = LenLimit
       ELSE chosen = AllLines

=============================================================================
