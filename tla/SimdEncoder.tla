----------------------------- MODULE SimdEncoder -----------------------------
(***************************************************************************)
(* compressSIMD() of libfsst.cpp: it cuts the lines into jobs of at most   *)
(* ChunkMax bytes, stages up to JobMax of them in simdbuf (their bytes in  *)
(* symbolBase, room for their codes in codeBase), has a batch compressed,  *)
(* and appends the codes to the output.  A batch ends in the middle of a   *)
(* line as often as not.                                                   *)
(*                                                                         *)
(* A byte of line l at offset p is the pair <<l, p>>, and it stands for    *)
(* its own code.  A line that compresses badly has cost 2: all its bytes   *)
(* are escaped; other lines have cost 1.  fsst_compressAVX512, the kernel, *)
(* may finish any of the jobs that it starts and leave the others off      *)
(* anywhere; it reports the jobs in any order.                             *)
(***************************************************************************)
EXTENDS Integers, Sequences, SequencesExt, FiniteSetsExt, Functions

CONSTANTS
  ChunkMax,   \* bytes of a job (511 in the code)
  JobMax,     \* jobs of a batch (512)
  CodeRoom,   \* bytes of codeBase (2^19)
  KernelMin,  \* the jobs that make it worth while to call the kernel (32)
  Batches,    \* sequences of lines [len, cost]
  Sizes       \* the sizes of the output buffer

ASSUME SimdAssumption ==
  /\ {ChunkMax, JobMax, KernelMin} \subseteq Nat \ {0}
  /\ CodeRoom \in Nat /\ 2 * ChunkMax + 7 <= CodeRoom
  /\ KernelMin <= JobMax
  /\ Batches \subseteq Seq([len : Nat, cost : {1, 2}]) /\ Sizes \subseteq Nat

VARIABLES
  batch, size,
  at,        \* "line", "job", "check", "kernel", "finish" or "returned"
  curLine, prevLine, curOff,
  inOff, outOff,   \* what is used of symbolBase and of codeBase
  budget,
  input,     \* the jobs of the batch; jobLine is their field line
  output,    \* the jobs as the kernel leaves them
  dst, strOut, lenOut,
  count      \* the return value, -1 before

callVars == <<batch, size>>
lineVars == <<curLine, prevLine, curOff>>
roomVars == <<inOff, outOff, budget>>
outVars == <<dst, strOut, lenOut>>
vars == <<callVars, at, lineVars, roomVars, input, output, outVars, count>>

Null == -1         \* strOut of a line without output
Huge == 1000000    \* a size_t that a subtraction took below zero

Init ==
  /\ batch \in Batches /\ size \in Sizes
  /\ at = "line"
  /\ curLine = 0 /\ prevLine = 0 /\ curOff = 0
  /\ inOff = 0 /\ outOff = 0 /\ budget = size
  /\ input = << >> /\ output = << >>
  /\ dst = << >>
  /\ strOut = [l \in 1..Len(batch) |-> Null]
  /\ lenOut = [l \in 1..Len(batch) |-> 0]
  /\ count = -1

Length(l) == batch[l + 1].len    \* lines count from 0

\* (mutant) asks for the worst case of a full job
FitsFullJob(l) == 2 * Max({Length(l), ChunkMax}) + 7 <= budget

Fits(l) == 2 * Length(l) + 7 <= budget

\* the codes of the bytes from..to-1 of line l
CodesOf(l, from, to) ==
  FlattenSeq([i \in 1..to - from |->
    [n \in 1..batch[l + 1].cost |-> <<l, from + i - 1>>]])

-----------------------------------------------------------------------------
(* the outer loop: the next line, if it fits                               *)

StartLine ==
  /\ at = "line"
  /\ curLine < Len(batch) /\ outOff <= CodeRoom
  /\ Fits(curLine)
  /\ budget' = budget - 2 * Length(curLine)
  /\ strOut' = [strOut EXCEPT ![curLine + 1] = Null]
  /\ lenOut' = [lenOut EXCEPT ![curLine + 1] = 0]
  /\ prevLine' = curLine /\ curOff' = 0
  /\ at' = "job"
  /\ UNCHANGED <<callVars, curLine, inOff, outOff, input, output, dst, count>>

Return ==
  /\ at = "line"
  /\ curLine < Len(batch) /\ outOff <= CodeRoom => ~Fits(curLine)
  /\ count' = curLine
  /\ at' = "returned"
  /\ UNCHANGED <<callVars, lineVars, roomVars, input, output, outVars>>

-----------------------------------------------------------------------------
(* the inner loop: the jobs of the line                                    *)

\* (mutant) does not chop up large strings
WholeLine == Length(curLine) - curOff

Chunk ==
  IF Length(curLine) - curOff > ChunkMax THEN ChunkMax ELSE Length(curLine) - curOff

\* (mutant) forgets the 7 bytes that the kernel scatters behind the codes
TightRoom == 2 * Chunk

WorstCase == 2 * Chunk + 7

Job == [line |-> curLine, from |-> curOff, to |-> curOff + Chunk, in |-> inOff, out |-> outOff]

\* simdbuf may get full, stop before this chunk
CodeBaseFull ==
  /\ at = "job"
  /\ outOff + WorstCase > CodeRoom
  /\ outOff' = outOff + WorstCase
  /\ at' = "check"
  /\ UNCHANGED <<callVars, lineVars, inOff, budget, input, output, outVars, count>>

\* an empty line has an empty job; every other job is followed by a terminator
AddJob ==
  /\ at = "job"
  /\ outOff + WorstCase <= CodeRoom
  /\ outOff' = outOff + WorstCase
  /\ input' = Append(input, Job)
  /\ inOff' = IF Chunk = 0 THEN inOff ELSE inOff + Chunk + 1
  /\ curOff' = curOff + Chunk
  /\ at' = IF Len(input) + 1 # JobMax /\ curOff' < Length(curLine) THEN "job" ELSE "check"
  /\ UNCHANGED <<callVars, curLine, prevLine, budget, output, outVars, count>>

BatchFull == Len(input) = JobMax \/ outOff > CodeRoom

\* cannot accumulate more?  Only a batch with room ends the line.
Check ==
  /\ at = "check"
  /\ curLine' = IF BatchFull THEN curLine ELSE curLine + 1
  /\ at' = IF \/ BatchFull
              \/ curLine + 1 >= Len(batch)
              \/ ~Fits(curLine + 1)
           THEN "kernel" ELSE "line"
  /\ UNCHANGED <<callVars, prevLine, curOff, roomVars, input, output, outVars, count>>

-----------------------------------------------------------------------------
(* the batch                                                               *)

Size(job) == job.to - job.from
Work == Cardinality({i \in 1..Len(input) : Size(input[i]) > 0})   \* batchPos - empty

\* (mutant) the jobs are not sorted
UnsortedPosition(i) == i

\* where the counting sort puts job i: longest string first, in order
Position(i) ==
  Cardinality({k \in 1..Len(input) :
    \/ Size(input[k]) > Size(input[i])
    \/ Size(input[k]) = Size(input[i]) /\ k <= i})

Untouched(i) == [pos |-> i, cur |-> input[i].from, codes |-> << >>]

\* a job of which the kernel has compressed the bytes up to cur
Progress(i, cur) ==
  [pos |-> i, cur |-> cur, codes |-> CodesOf(input[i].line, input[i].from, cur)]

KernelCalled == Work >= KernelMin

\* fsst_compressAVX512 is given the first Work jobs of the sorted batch.  It
\* starts some of them in order, and reports those first.
SIMD ==
  /\ at = "kernel" /\ KernelCalled
  /\ \E processed \in 0..Work :
       LET started == {i \in 1..Len(input) : Position(i) <= processed}
           rest == (1..Len(input)) \ started
       IN \E order \in SetToSeqs(started), done \in [started -> 0..ChunkMax] :
            /\ \A i \in started : done[i] <= Size(input[i])
            /\ output' = [n \in 1..processed |->
                            Progress(order[n], input[order[n]].from + done[order[n]])]
                         \o [n \in 1..Cardinality(rest) |->
                               Untouched(CHOOSE i \in rest : Position(i) = processed + n)]
  /\ at' = "finish"
  /\ UNCHANGED <<callVars, lineVars, roomVars, input, outVars, count>>

TooLittleWork ==
  /\ at = "kernel" /\ ~KernelCalled
  /\ output' = [i \in 1..Len(input) |-> Untouched(i)]
  /\ at' = "finish"
  /\ UNCHANGED <<callVars, lineVars, roomVars, input, outVars, count>>

\* what the kernel and then the scalar loop make of a job
Completed(job) ==
  job.codes \o CodesOf(input[job.pos].line, job.cur, input[job.pos].to)

\* (mutant) the results stay in the order in which the kernel reports them
ResultInOrder(i) == Completed(output[i])

\* the result of job i: job.pos says which one it is
Result(i) == Completed(output[CHOOSE n \in 1..Len(output) : output[n].pos = i])

Results(n) == FlattenSeq([i \in 1..n |-> Result(i)])   \* of the first n jobs
JobsOf(l) == {i \in 1..Len(input) : input[i].line = l}

\* copy the results out, in the order of the jobs, and go on with the line
\* in the middle of which the batch ended, or with the next one
Finish ==
  /\ at = "finish"
  /\ dst' = dst \o Results(Len(input))
  /\ strOut' = [k \in DOMAIN strOut |->
       IF strOut[k] = Null /\ JobsOf(k - 1) # {}
       THEN Len(dst) + Len(Results(Min(JobsOf(k - 1)) - 1))
       ELSE strOut[k]]
  /\ lenOut' = [k \in DOMAIN lenOut |->
       lenOut[k] + SumFunction([i \in JobsOf(k - 1) |-> Len(Result(i))])]
  /\ inOff' = 0 /\ outOff' = 0
  /\ budget' = IF Len(dst') <= size THEN size - Len(dst') ELSE Huge
  /\ input' = << >> /\ output' = << >>
  /\ at' = IF curLine = prevLine THEN "job" ELSE "line"
  /\ UNCHANGED <<callVars, lineVars, count>>

Next ==
  \/ StartLine
  \/ Return
  \/ CodeBaseFull
  \/ AddJob
  \/ Check
  \/ SIMD
  \/ TooLittleWork
  \/ Finish

Spec == Init /\ [][Next]_vars /\ WF_vars(Next)

-----------------------------------------------------------------------------
(* Properties                                                              *)

Starts(l) == SumFunction([k \in 1..l |-> batch[k].cost * batch[k].len])

\* "The return value is the number of strings compressed": however the lines
\* were cut and in whatever order the kernel reported the jobs, the codes of
\* every line counted lie one after another, and strOut and lenOut find them.
LinesWhole ==
  at = "returned" =>
    /\ dst = FlattenSeq([k \in 1..count |-> CodesOf(k - 1, 0, batch[k].len)])
    /\ \A k \in 1..count :
         /\ strOut[k] = Starts(k - 1)
         /\ lenOut[k] = batch[k].cost * batch[k].len

Slot(job) == job.out .. job.out + 2 * Size(job) + 6
Bytes(job) == job.in .. job.in + Size(job)    \* the terminator included

\* The kernel scatters 8 bytes for every code: what it writes for one job
\* stays in the job's slot of codeBase, out of the slots of the others.  Every
\* job keeps its terminator, and all of them fit into the symbolBase.
StagingDisjoint ==
  /\ \A i \in 1..Len(input) : Slot(input[i]) \subseteq 0..CodeRoom - 1
  /\ \A i, j \in 1..Len(input) :
       i < j => Slot(input[i]) \cap Slot(input[j]) = {}
  /\ \A i, j \in {k \in 1..Len(input) : Size(input[k]) > 0} :
       i < j => Bytes(input[i]) \cap Bytes(input[j]) = {}
  /\ inOff <= JobMax * (ChunkMax + 1)

\* "SIMD code cannot handle empty strings, so they need to be filtered out".
KernelGetsWork ==
  at = "kernel" /\ KernelCalled =>
    \A i \in 1..Len(input) : (Position(i) <= Work) <=> (Size(input[i]) > 0)

\* "at least conservative space (7+2*inputlength) for the first string for
\* something to happen" (fsst.h): a line is refused only if the buffer is
\* smaller than that for the lines up to it.
ConservativeSpace ==
  at = "returned" /\ count < Len(batch) =>
    size < 7 + 2 * SumFunction([k \in 1..count + 1 |-> batch[k].len])

\* strOut "will all point into [output,output+size)" (fsst.h).
WithinBuffer == Len(dst) <= size

\* Every call returns: no batch is empty, and no line is refused forever in
\* the middle.
Returns == <>(at = "returned")

=============================================================================
