-------------------------- MODULE SimdEncoderProofs --------------------------
(***************************************************************************)
(* Proofs about SimdEncoder, for all batches of lines and all sizes of a   *)
(* chunk, a batch and the staging buffers: jobs never share a byte of the  *)
(* buffers; the kernel is given the jobs that have bytes; what the call    *)
(* returns is, line by line, what the lines are compressed to; and no line *)
(* is refused that the caller made room for.                               *)
(***************************************************************************)
EXTENDS SimdEncoder, DataLemmas

LineRecord == [len : Nat, cost : {1, 2}]
JobRecord == [line : Nat, from : Nat, to : Nat, in : Nat, out : Nat]

StagingTypes ==
  /\ batch \in Seq(LineRecord)
  /\ curLine \in Nat /\ prevLine \in Nat /\ curOff \in Nat
  /\ inOff \in Nat /\ outOff \in Nat
  /\ input \in Seq(JobRecord)

\* a job keeps what it takes of codeBase and of symbolBase, which ends below
\* what is handed out next
OutEnd(job) == job.out + 2 * (job.to - job.from) + 7
InEnd(job) == job.in + (job.to - job.from) + 1

JobFits(job) ==
  /\ job.from <= job.to /\ job.to - job.from <= ChunkMax
  /\ OutEnd(job) <= CodeRoom /\ OutEnd(job) <= outOff
  /\ job.from < job.to => InEnd(job) <= inOff

Before(job, other) ==
  /\ OutEnd(job) <= other.out
  /\ job.from < job.to => InEnd(job) <= other.in

\* Jobs are staged one behind the other.
StagedInOrder ==
  /\ \A i \in 1..Len(input) : JobFits(input[i])
  /\ \A i, j \in 1..Len(input) : i < j => Before(input[i], input[j])
  /\ inOff <= Len(input) * (ChunkMax + 1)
  /\ Len(input) <= JobMax

\* A line that is gone on with exists and has the bytes that were consumed.
LineIsOpen == curLine < Len(batch) /\ curOff <= batch[curLine + 1].len

StagingControl ==
  /\ at \in {"line", "job"} => Len(input) < JobMax
  /\ at \in {"job", "check"} => curLine = prevLine /\ LineIsOpen
  /\ at \in {"kernel", "finish"} => (curLine = prevLine => LineIsOpen)

StagingInv == StagingTypes /\ StagedInOrder /\ StagingControl

\* What is assumed of the constants, in the words of the proofs.
LEMMA SimdConstants ==
  /\ ChunkMax \in Nat \ {0} /\ JobMax \in Nat \ {0} /\ CodeRoom \in Nat
  /\ \A b \in Batches : b \in Seq(LineRecord)
  /\ \A n \in Sizes : n \in Nat
BY SimdAssumption DEF LineRecord

\* The fields of a job are numbers, and so are the ends of its room.
LEMMA JobFacts ==
  ASSUME NEW job \in JobRecord
  PROVE  /\ job.from \in Nat /\ job.to \in Nat /\ job.in \in Nat /\ job.out \in Nat
         /\ OutEnd(job) = job.out + 2 * (job.to - job.from) + 7 /\ OutEnd(job) \in Int
         /\ InEnd(job) = job.in + (job.to - job.from) + 1 /\ InEnd(job) \in Int
<1>1. job.from \in Nat /\ job.to \in Nat /\ job.in \in Nat /\ job.out \in Nat
  BY DEF JobRecord
<1> QED
  BY <1>1 DEF OutEnd, InEnd

\* What a job writes and reads, as intervals.
LEMMA JobIntervals ==
  ASSUME NEW job \in JobRecord
  PROVE  /\ Slot(job) = job.out .. OutEnd(job) - 1
         /\ Bytes(job) = job.in .. InEnd(job) - 1
<1>1. /\ job.out + 2 * Size(job) + 6 = OutEnd(job) - 1
      /\ job.in + Size(job) = InEnd(job) - 1
  BY JobFacts DEF Size
<1> QED
  BY <1>1 DEF Slot, Bytes

\* Intervals one behind the other have nothing in common.
LEMMA Apart ==
  ASSUME NEW a \in Int, NEW b \in Int, NEW c \in Int, NEW d \in Int, b < c
  PROVE  (a .. b) \cap (c .. d) = {}
OBVIOUS

\* A line that exists has a length.
LEMMA OpenLineFacts ==
  ASSUME StagingTypes, curLine < Len(batch)
  PROVE  Length(curLine) = batch[curLine + 1].len /\ Length(curLine) \in Nat
<1>1. curLine \in Nat /\ batch \in Seq(LineRecord) /\ Len(batch) \in Nat
  BY DEF StagingTypes
<1>2. curLine + 1 \in 1..Len(batch)
  BY <1>1
<1>3. batch[curLine + 1] \in LineRecord
  BY <1>1, <1>2, ElementOfSeq
<1> QED
  BY <1>3 DEF Length, LineRecord

\* A chunk is part of what is left of the line.
LEMMA ChunkInLine ==
  ASSUME StagingTypes, LineIsOpen
  PROVE  /\ Chunk \in 0..ChunkMax
         /\ curOff + Chunk <= batch[curLine + 1].len
         /\ WorstCase = 2 * Chunk + 7
<1>1. Length(curLine) = batch[curLine + 1].len /\ Length(curLine) \in Nat /\ curOff \in Nat
  BY OpenLineFacts DEF LineIsOpen, StagingTypes
<1>2. curOff <= Length(curLine)
  BY <1>1 DEF LineIsOpen
<1> QED
  BY <1>1, <1>2, SimdConstants DEF Chunk, WorstCase

\* No job is staged in a new batch.
LEMMA NoJobs ==
  ASSUME StagingTypes, input = << >>, inOff = 0
  PROVE  StagedInOrder /\ Len(input) < JobMax
<1>1. Len(input) = 0
  BY EmptySeq
<1>2. inOff <= Len(input) * (ChunkMax + 1)
  BY <1>1, SimdConstants
<1> QED
  BY <1>1, <1>2, SimdConstants DEF StagedInOrder

\* Nothing is staged at first.
LEMMA StagingInit == Init => StagingInv
<1> SUFFICES ASSUME Init PROVE StagingInv
  OBVIOUS
<1>1. StagingTypes
  BY SimdConstants, EmptySeq DEF Init, StagingTypes
<1>2. StagedInOrder /\ Len(input) < JobMax
  BY <1>1, NoJobs DEF Init
<1> QED
  BY <1>1, <1>2 DEF Init, StagingInv, StagingControl

\* A step that stages nothing may only widen what is handed out.
LEMMA SameJobs ==
  ASSUME StagingInv, StagingTypes', input' = input, inOff' = inOff, outOff <= outOff'
  PROVE  StagedInOrder'
<1>1. \A i \in 1..Len(input) : input[i] \in JobRecord
  BY DEF StagingInv, StagingTypes
<1>2. outOff \in Nat /\ outOff' \in Nat
  BY DEF StagingInv, StagingTypes
<1>3. \A i \in 1..Len(input) : JobFits(input[i])'
  <2> SUFFICES ASSUME NEW i \in 1..Len(input) PROVE JobFits(input[i])'
    OBVIOUS
  <2>1. JobFits(input[i]) /\ OutEnd(input[i]) \in Int
    BY <1>1, JobFacts DEF StagingInv, StagedInOrder
  <2>2. OutEnd(input[i])' = OutEnd(input[i]) /\ InEnd(input[i])' = InEnd(input[i])
    BY DEF OutEnd, InEnd
  <2>3. OutEnd(input[i]) <= outOff'
    BY <2>1, <1>2 DEF JobFits
  <2> QED
    BY <2>1, <2>2, <2>3 DEF JobFits
<1> QED
  BY <1>3 DEF StagingInv, StagedInOrder, Before, OutEnd, InEnd

\* The next job gets what was not handed out yet.
LEMMA AddJobKeeps ==
  ASSUME StagingInv, AddJob
  PROVE  StagingInv'
<1>1. StagingTypes /\ LineIsOpen /\ curLine = prevLine /\ Len(input) < JobMax
  BY DEF StagingInv, StagingControl, AddJob
<1> DEFINE n == Len(input)
           chunk == Chunk
<1>2. chunk \in 0..ChunkMax /\ curOff + chunk <= batch[curLine + 1].len /\ WorstCase = 2 * chunk + 7
  BY <1>1, ChunkInLine
<1>3. /\ n \in Nat /\ curLine \in Nat /\ prevLine \in Nat /\ curOff \in Nat
      /\ inOff \in Nat /\ outOff \in Nat
      /\ input \in Seq(JobRecord)
  BY <1>1 DEF StagingTypes
<1>4. /\ outOff + (2 * chunk + 7) <= CodeRoom
      /\ outOff' = outOff + (2 * chunk + 7)
      /\ inOff' = IF chunk = 0 THEN inOff ELSE inOff + chunk + 1
      /\ curOff' = curOff + chunk
      /\ input' = Append(input, Job)
      /\ UNCHANGED <<batch, curLine, prevLine>>
  BY <1>2 DEF AddJob, callVars
<1>5. /\ Job \in JobRecord
      /\ Job.from <= Job.to /\ Job.to - Job.from = chunk
      /\ Job.in = inOff /\ Job.out = outOff
      /\ Job.from < Job.to <=> chunk # 0
  <2>1. Job = [line |-> curLine, from |-> curOff, to |-> curOff + chunk, in |-> inOff, out |-> outOff]
    BY DEF Job
  <2> HIDE DEF chunk
  <2> QED
    BY <2>1, <1>2, <1>3, SimdConstants DEF JobRecord
<1>6. /\ input' \in Seq(JobRecord) /\ Len(input') = n + 1
      /\ \A i \in 1..n : input'[i] = input[i] /\ input[i] \in JobRecord
      /\ input'[n + 1] = Job
  BY <1>3, <1>4, <1>5, AppendProperties
<1> HIDE DEF chunk, n
<1>a. chunk \in Nat /\ chunk <= ChunkMax
  BY <1>2, SimdConstants
<1>7. StagingTypes'
  <2>1. /\ curLine' \in Nat /\ prevLine' \in Nat /\ curOff' \in Nat
        /\ inOff' \in Nat /\ outOff' \in Nat
    BY <1>a, <1>3, <1>4
  <2> QED
    BY <2>1, <1>1, <1>4, <1>6 DEF StagingTypes
<1>8. \A i \in 1..n : /\ JobFits(input[i])
                     /\ OutEnd(input[i]) \in Int /\ InEnd(input[i]) \in Int
  BY <1>6, JobFacts DEF StagingInv, StagedInOrder, n
<1>9. OutEnd(Job) = outOff' /\ OutEnd(Job) <= CodeRoom /\ (Job.from < Job.to => InEnd(Job) <= inOff')
  <2>1. OutEnd(Job) = outOff + 2 * chunk + 7 /\ InEnd(Job) = inOff + chunk + 1
    BY <1>5 DEF OutEnd, InEnd
  <2> QED
    BY <2>1, <1>a, <1>3, <1>4, <1>5, SimdConstants
<1>10. \A i \in 1..n + 1 : JobFits(input[i])'
  <2> SUFFICES ASSUME NEW i \in 1..n + 1 PROVE JobFits(input[i])'
    OBVIOUS
  <2> DEFINE job == input'[i]
  <2>1. CASE i = n + 1
    <3>1. /\ job.from <= job.to /\ job.to - job.from <= ChunkMax
          /\ OutEnd(job) <= CodeRoom /\ OutEnd(job) <= outOff'
          /\ job.from < job.to => InEnd(job) <= inOff'
      BY <2>1, <1>a, <1>3, <1>4, <1>5, <1>6, <1>9
    <3> QED
      BY <3>1 DEF JobFits, OutEnd, InEnd
  <2>2. CASE i \in 1..n
    <3>1. JobFits(input[i]) /\ OutEnd(input[i]) \in Int /\ InEnd(input[i]) \in Int /\ job = input[i]
      BY <2>2, <1>6, <1>8
    <3>2. outOff <= outOff' /\ inOff <= inOff'
      BY <1>a, <1>3, <1>4
    <3>3. outOff' \in Int /\ inOff' \in Int
      BY <1>a, <1>3, <1>4
    <3>4. OutEnd(input[i]) <= outOff'
      BY <3>1, <3>2, <3>3, <1>3 DEF JobFits
    <3>5. input[i].from < input[i].to => InEnd(input[i]) <= inOff'
      BY <3>1, <3>2, <3>3, <1>3 DEF JobFits
    <3> QED
      BY <3>1, <3>4, <3>5 DEF JobFits, OutEnd, InEnd
  <2> QED
    BY <2>1, <2>2, <1>3
<1>11. \A i, j \in 1..n + 1 : i < j => Before(input'[i], input'[j])
  <2> SUFFICES ASSUME NEW i \in 1..n + 1, NEW j \in 1..n + 1, i < j
               PROVE  Before(input'[i], input'[j])
    OBVIOUS
  <2>1. i \in 1..n /\ (j = n + 1 \/ j \in 1..n)
    BY <1>3
  <2>2. CASE j = n + 1
    BY <2>1, <2>2, <1>5, <1>6, <1>8 DEF JobFits, Before
  <2>3. CASE j \in 1..n
    BY <2>1, <2>3, <1>6 DEF StagingInv, StagedInOrder, n
  <2> QED
    BY <2>1, <2>2, <2>3
<1>12. inOff' <= (n + 1) * (ChunkMax + 1)
  <2>1. inOff <= n * (ChunkMax + 1)
    BY DEF StagingInv, StagedInOrder, n
  <2>2. (n + 1) * (ChunkMax + 1) = n * (ChunkMax + 1) + (ChunkMax + 1)
    BY <1>3, SimdConstants
  <2>3. n * (ChunkMax + 1) \in Nat
    BY <1>3, SimdConstants
  <2> DEFINE product == n * (ChunkMax + 1)
  <2>4. inOff' <= product + (ChunkMax + 1)
    <3>1. product \in Nat /\ inOff <= product
      BY <2>1, <2>3
    <3> HIDE DEF product
    <3> QED
      BY <3>1, <1>a, <1>3, <1>4, SimdConstants
  <2> QED
    BY <2>2, <2>4
<1>13. StagedInOrder'
  <2>1. Len(input') = n + 1 /\ n + 1 <= JobMax
    BY <1>1, <1>3, <1>6, SimdConstants DEF n
  <2>2. \A i, j \in 1..Len(input') : i < j => Before(input[i], input[j])'
    BY <2>1, <1>11 DEF Before, OutEnd, InEnd
  <2>3. \A i \in 1..Len(input') : JobFits(input[i])'
    BY <2>1, <1>10
  <2>4. inOff' <= Len(input') * (ChunkMax + 1) /\ Len(input') <= JobMax
    BY <2>1, <1>12
  <2> QED
    BY <2>2, <2>3, <2>4 DEF StagedInOrder
<1>14. LineIsOpen'
  BY <1>1, <1>2, <1>3, <1>4 DEF LineIsOpen
<1>15. at' = IF n + 1 # JobMax /\ curOff' < Length(curLine) THEN "job" ELSE "check"
  BY DEF AddJob, n
<1>16. StagingControl'
  BY <1>1, <1>3, <1>4, <1>6, <1>14, <1>15, SimdConstants DEF StagingControl, n
<1> QED
  BY <1>7, <1>13, <1>16 DEF StagingInv

\* Every step keeps the jobs staged one behind the other.
LEMMA StagingStep == StagingInv /\ [Next]_vars => StagingInv'
<1> SUFFICES ASSUME StagingInv, [Next]_vars PROVE StagingInv'
  OBVIOUS
<1>0. StagingTypes /\ StagedInOrder /\ StagingControl
  BY DEF StagingInv
<1>1. CASE StartLine
  <2>1. /\ UNCHANGED <<batch, curLine, inOff, outOff, input>>
        /\ curLine < Len(batch) /\ prevLine' = curLine /\ curOff' = 0
        /\ at = "line" /\ at' = "job"
    BY <1>1 DEF StartLine, callVars
  <2>2. StagingTypes' /\ StagedInOrder'
    BY <1>0, <2>1, SameJobs DEF StagingTypes
  <2>3. batch[curLine + 1].len \in Nat
    BY <1>0, <2>1, OpenLineFacts
  <2> QED
    BY <1>0, <2>1, <2>2, <2>3 DEF StagingInv, StagingControl, LineIsOpen
<1>2. CASE CodeBaseFull
  <2>1. /\ UNCHANGED <<batch, curLine, prevLine, curOff, inOff, input>>
        /\ at = "job" /\ at' = "check" /\ outOff' = outOff + WorstCase
    BY <1>2 DEF CodeBaseFull, callVars, lineVars
  <2>2. LineIsOpen /\ WorstCase \in Nat
    BY <1>0, <2>1, ChunkInLine, SimdConstants DEF StagingControl
  <2>3. StagingTypes' /\ outOff <= outOff'
    BY <1>0, <2>1, <2>2 DEF StagingTypes
  <2>4. StagedInOrder'
    BY <2>1, <2>3, SameJobs
  <2> QED
    BY <1>0, <2>1, <2>3, <2>4 DEF StagingInv, StagingControl, LineIsOpen
<1>3. CASE AddJob
  BY <1>3, AddJobKeeps
<1>4. CASE Check
  <2>1. /\ UNCHANGED <<batch, prevLine, curOff, inOff, outOff, input>>
        /\ at = "check" /\ at' \in {"kernel", "line"}
        /\ BatchFull => at' = "kernel" /\ curLine' = curLine
        /\ ~BatchFull => curLine' = curLine + 1
    BY <1>4 DEF Check, callVars, roomVars
  <2>2. StagingTypes' /\ StagedInOrder'
    BY <1>0, <2>1, SameJobs DEF StagingTypes
  <2>3. ~BatchFull => Len(input) < JobMax
    BY <1>0, SimdConstants DEF BatchFull, StagedInOrder, StagingTypes
  <2>4. ~BatchFull => curLine' # prevLine'
    BY <1>0, <2>1 DEF StagingControl, StagingTypes
  <2> QED
    BY <1>0, <2>1, <2>2, <2>3, <2>4 DEF StagingInv, StagingControl, LineIsOpen
<1>5. CASE SIMD \/ TooLittleWork
  <2>1. /\ UNCHANGED <<batch, curLine, prevLine, curOff, inOff, outOff, input>>
        /\ at = "kernel" /\ at' = "finish"
    BY <1>5 DEF SIMD, TooLittleWork, callVars, lineVars, roomVars
  <2>2. StagingTypes' /\ StagedInOrder'
    BY <1>0, <2>1, SameJobs DEF StagingTypes
  <2> QED
    BY <1>0, <2>1, <2>2 DEF StagingInv, StagingControl, LineIsOpen
<1>6. CASE Finish
  <2>1. /\ UNCHANGED <<batch, curLine, prevLine, curOff>>
        /\ inOff' = 0 /\ outOff' = 0 /\ input' = << >>
        /\ at = "finish" /\ at' = IF curLine = prevLine THEN "job" ELSE "line"
    BY <1>6 DEF Finish, callVars, lineVars
  <2>2. StagingTypes'
    BY <1>0, <2>1, EmptySeq DEF StagingTypes
  <2>3. StagedInOrder' /\ Len(input') < JobMax
    <3>1. Len(input') = 0
      BY <2>1, EmptySeq
    <3>2. inOff' <= Len(input') * (ChunkMax + 1)
      BY <2>1, <3>1, SimdConstants
    <3> QED
      BY <3>1, <3>2, SimdConstants DEF StagedInOrder
  <2> QED
    BY <1>0, <2>1, <2>2, <2>3 DEF StagingInv, StagingControl, LineIsOpen
<1>7. CASE Return \/ UNCHANGED vars
  <2>1. /\ UNCHANGED <<batch, curLine, prevLine, curOff, inOff, outOff, input>>
        /\ at' = "returned" \/ at' = at
    BY <1>7 DEF Return, vars, callVars, lineVars, roomVars
  <2>2. StagingTypes' /\ StagedInOrder'
    BY <1>0, <2>1, SameJobs DEF StagingTypes
  <2> QED
    BY <1>0, <2>1, <2>2 DEF StagingInv, StagingControl, LineIsOpen
<1> QED
  BY <1>1, <1>2, <1>3, <1>4, <1>5, <1>6, <1>7 DEF Next

\* The order in which jobs are staged keeps their intervals apart.
LEMMA OrderSeparates == StagingInv => StagingDisjoint
<1> SUFFICES ASSUME StagingInv PROVE StagingDisjoint
  OBVIOUS
<1>1. \A i \in 1..Len(input) : input[i] \in JobRecord /\ JobFits(input[i])
  BY DEF StagingInv, StagingTypes, StagedInOrder
<1>2. \A i \in 1..Len(input) : Slot(input[i]) \subseteq 0..CodeRoom - 1
  <2> SUFFICES ASSUME NEW i \in 1..Len(input) PROVE Slot(input[i]) \subseteq 0..CodeRoom - 1
    OBVIOUS
  <2>1. /\ Slot(input[i]) = input[i].out .. OutEnd(input[i]) - 1
        /\ input[i].out \in Nat /\ OutEnd(input[i]) \in Int /\ OutEnd(input[i]) <= CodeRoom
    BY <1>1, JobFacts, JobIntervals DEF JobFits
  <2> QED
    BY <2>1, SimdConstants
<1>3. \A i, j \in 1..Len(input) : i < j => Slot(input[i]) \cap Slot(input[j]) = {}
  <2> SUFFICES ASSUME NEW i \in 1..Len(input), NEW j \in 1..Len(input), i < j
               PROVE  Slot(input[i]) \cap Slot(input[j]) = {}
    OBVIOUS
  <2>1. OutEnd(input[i]) <= input[j].out
    BY DEF StagingInv, StagedInOrder, Before
  <2>2. \A k \in {i, j} :
          /\ Slot(input[k]) = input[k].out .. OutEnd(input[k]) - 1
          /\ input[k].out \in Int /\ OutEnd(input[k]) \in Int
    BY <1>1, JobFacts, JobIntervals
  <2> QED
    BY <2>1, <2>2, Apart
<1>4. \A i, j \in {k \in 1..Len(input) : Size(input[k]) > 0} :
        i < j => Bytes(input[i]) \cap Bytes(input[j]) = {}
  <2> SUFFICES ASSUME NEW i \in 1..Len(input), NEW j \in 1..Len(input), i < j,
                      Size(input[i]) > 0
               PROVE  Bytes(input[i]) \cap Bytes(input[j]) = {}
    OBVIOUS
  <2>1. input[i].from < input[i].to
    BY <1>1, JobFacts DEF Size
  <2>2. InEnd(input[i]) <= input[j].in
    BY <2>1 DEF StagingInv, StagedInOrder, Before
  <2>3. \A k \in {i, j} :
          /\ Bytes(input[k]) = input[k].in .. InEnd(input[k]) - 1
          /\ input[k].in \in Int /\ InEnd(input[k]) \in Int
    BY <1>1, JobFacts, JobIntervals
  <2> QED
    BY <2>2, <2>3, Apart
<1>5. inOff <= JobMax * (ChunkMax + 1)
  <2>1. /\ inOff <= Len(input) * (ChunkMax + 1) /\ Len(input) <= JobMax
        /\ Len(input) \in Nat /\ inOff \in Nat
    BY DEF StagingInv, StagingTypes, StagedInOrder
  <2>2. \A a, b, c \in Nat : a <= b => a * c <= b * c
    OBVIOUS
  <2>3. Len(input) * (ChunkMax + 1) <= JobMax * (ChunkMax + 1)
    BY <2>1, <2>2, SimdConstants
  <2>4. Len(input) * (ChunkMax + 1) \in Nat /\ JobMax * (ChunkMax + 1) \in Nat
    BY <2>1, SimdConstants
  <2> QED
    BY <2>1, <2>3, <2>4
<1> QED
  BY <1>2, <1>3, <1>4, <1>5 DEF StagingDisjoint

\* For all lines and whatever the kernel does: what it writes for one job
\* stays in the job's slot, and jobs do not share bytes of the two buffers.
THEOREM StagingKeepsApart == Spec => []StagingDisjoint
BY StagingInit, StagingStep, OrderSeparates, PTL DEF Spec

-----------------------------------------------------------------------------
(* The counting sort                                                        *)

\* job i is not behind job k in the sorted batch
Sorted(i, k) == Size(input[i]) > Size(input[k]) \/ (Size(input[i]) = Size(input[k]) /\ i <= k)

UpToJob(i) == {k \in 1..Len(input) : Sorted(k, i)}

\* The jobs of a batch and their sizes.
LEMMA SizeFacts ==
  ASSUME StagingInv
  PROVE  /\ Len(input) \in Nat
         /\ \A i \in 1..Len(input) : Size(input[i]) \in Nat /\ input[i] \in JobRecord
<1>1. input \in Seq(JobRecord)
  BY DEF StagingInv, StagingTypes
<1>2. ASSUME NEW i \in 1..Len(input) PROVE Size(input[i]) \in Nat /\ input[i] \in JobRecord
  <2>1. input[i] \in JobRecord /\ input[i].from <= input[i].to
    BY <1>1 DEF StagingInv, StagedInOrder, JobFits
  <2>2. input[i].from \in Nat /\ input[i].to \in Nat
    BY <2>1, JobFacts
  <2> QED BY <2>1, <2>2 DEF Size
<1> QED BY <1>1, <1>2

\* The counting sort puts each job at a place of its own, and none is empty.
LEMMA PositionsPermute ==
  ASSUME StagingInv
  PROVE  /\ \A i \in 1..Len(input) : Position(i) \in 1..Len(input)
         /\ \A i, k \in 1..Len(input) : Position(i) = Position(k) => i = k
         /\ \A p \in 1..Len(input) : \E i \in 1..Len(input) : Position(i) = p
<1> DEFINE n == Len(input)
<1>0. n \in Nat /\ \A i \in 1..n : Size(input[i]) \in Nat
  BY SizeFacts
<1>1. \A i : Position(i) = Cardinality(UpToJob(i))
  BY DEF Position, UpToJob, Sorted
<1>2. IsFiniteSet(1..n) /\ Cardinality(1..n) = n
  BY <1>0, SizeOfRange
<1>3. ASSUME NEW i \in 1..n
      PROVE  /\ UpToJob(i) \in SUBSET (1..n) /\ IsFiniteSet(UpToJob(i)) /\ i \in UpToJob(i)
             /\ Cardinality(UpToJob(i)) \in 1..n
  <2>1. UpToJob(i) \in SUBSET (1..n)
    BY DEF UpToJob
  <2>2. i \in UpToJob(i)
    BY <1>0 DEF UpToJob, Sorted
  <2>3. IsFiniteSet(UpToJob(i)) /\ Cardinality(UpToJob(i)) <= n /\ Cardinality(UpToJob(i)) \in Nat
    BY <1>2, <2>1, FS_Subset, FS_CardinalityType
  <2>4. Cardinality(UpToJob(i)) # 0
    BY <2>2, <2>3, FS_EmptySet
  <2> QED BY <1>0, <2>1, <2>2, <2>3, <2>4
<1>4. ASSUME NEW i \in 1..n, NEW k \in 1..n, i # k, Sorted(i, k)
      PROVE  Cardinality(UpToJob(i)) < Cardinality(UpToJob(k))
  <2>1. \A j \in 1..n : Sorted(j, i) => Sorted(j, k)
    BY <1>0, <1>4 DEF Sorted
  <2>2. ~Sorted(k, i)
    BY <1>0, <1>4 DEF Sorted
  <2>3. UpToJob(i) \in SUBSET UpToJob(k) /\ k \notin UpToJob(i) /\ k \in UpToJob(k)
    BY <1>3, <2>1, <2>2 DEF UpToJob
  <2>4. /\ Cardinality(UpToJob(i)) <= Cardinality(UpToJob(k))
        /\ Cardinality(UpToJob(k)) = Cardinality(UpToJob(i)) => UpToJob(k) = UpToJob(i)
    BY <1>3, <2>3, FS_Subset
  <2>5. Cardinality(UpToJob(i)) # Cardinality(UpToJob(k))
    BY <2>3, <2>4
  <2> QED BY <1>0, <1>3, <2>4, <2>5
<1>5. ASSUME NEW i \in 1..n, NEW k \in 1..n, Position(i) = Position(k) PROVE i = k
  <2> SUFFICES ASSUME i # k PROVE FALSE
    OBVIOUS
  <2>1. Sorted(i, k) \/ Sorted(k, i)
    BY <1>0 DEF Sorted
  <2>2. Cardinality(UpToJob(i)) < Cardinality(UpToJob(k)) \/ Cardinality(UpToJob(k)) < Cardinality(UpToJob(i))
    BY <1>4, <2>1
  <2>3. Cardinality(UpToJob(i)) = Cardinality(UpToJob(k)) /\ Cardinality(UpToJob(i)) \in 1..n
    BY <1>1, <1>3, <1>5
  <2> QED BY <1>0, <2>2, <2>3
<1>6. ASSUME NEW p \in 1..n PROVE \E i \in 1..n : Position(i) = p
  <2> DEFINE f == [i \in 1..n |-> Position(i)]
  <2>1. f \in [1..n -> 1..n]
    BY <1>1, <1>3
  <2>2. f \in Injection(1..n, 1..n)
    BY <1>5, <2>1 DEF Injection, IsInjective
  <2>3. f \in Surjection(1..n, 1..n)
    <3> HIDE DEF f, n
    <3> QED BY <1>2, <2>2, FS_Injection
  <2>4. \E i \in 1..n : f[i] = p
    BY <2>3 DEF Surjection
  <2> QED BY <2>4
<1> QED BY <1>1, <1>3, <1>5, <1>6

\* The jobs with something to do are the first ones of the sorted batch.
LEMMA WorkComesFirst ==
  ASSUME StagingInv
  PROVE  \A i \in 1..Len(input) : (Position(i) <= Work) <=> (Size(input[i]) > 0)
<1> DEFINE n == Len(input)
           W == {i \in 1..n : Size(input[i]) > 0}
<1>0. n \in Nat /\ \A i \in 1..n : Size(input[i]) \in Nat
  BY SizeFacts
<1>1. \A i : Position(i) = Cardinality(UpToJob(i))
  BY DEF Position, UpToJob, Sorted
<1>2. IsFiniteSet(1..n)
  BY <1>0, SizeOfRange
<1>3. Work = Cardinality(W) /\ IsFiniteSet(W) /\ Cardinality(W) \in Nat
  <2>1. W \in SUBSET (1..n)
    OBVIOUS
  <2>2. IsFiniteSet(W)
    BY <1>2, <2>1, FS_Subset
  <2> QED BY <2>2, FS_CardinalityType DEF Work
<1> TAKE i \in 1..Len(input)
<1>4. IsFiniteSet(UpToJob(i)) /\ Cardinality(UpToJob(i)) \in Nat
  <2>1. UpToJob(i) \in SUBSET (1..n)
    BY DEF UpToJob
  <2>2. IsFiniteSet(UpToJob(i))
    BY <1>2, <2>1, FS_Subset
  <2> QED BY <2>2, FS_CardinalityType
<1>5. CASE Size(input[i]) > 0
  <2>1. UpToJob(i) \in SUBSET W
    BY <1>0, <1>5 DEF UpToJob, Sorted
  <2>2. Cardinality(UpToJob(i)) <= Cardinality(W)
    BY <1>3, <2>1, FS_Subset
  <2> QED BY <1>1, <1>3, <1>5, <2>2
<1>6. CASE ~(Size(input[i]) > 0)
  <2>1. W \in SUBSET UpToJob(i)
    BY <1>0, <1>6 DEF UpToJob, Sorted
  <2>2. i \in UpToJob(i) /\ i \notin W
    BY <1>0, <1>6 DEF UpToJob, Sorted
  <2>3. /\ Cardinality(W) <= Cardinality(UpToJob(i))
        /\ Cardinality(UpToJob(i)) = Cardinality(W) => UpToJob(i) = W
    BY <1>4, <2>1, FS_Subset
  <2>4. Cardinality(UpToJob(i)) # Cardinality(W)
    BY <2>2, <2>3
  <2>5. ~(Cardinality(UpToJob(i)) <= Cardinality(W))
    BY <1>3, <1>4, <2>3, <2>4
  <2> QED BY <1>1, <1>3, <1>6, <2>5
<1> QED BY <1>5, <1>6

\* However the lines were cut: the kernel is given the jobs that have bytes,
\* and no other.
THEOREM KernelGetsTheWork == Spec => []KernelGetsWork
<1>1. StagingInv => KernelGetsWork
  BY WorkComesFirst DEF KernelGetsWork
<1> QED BY <1>1, StagingInit, StagingStep, PTL DEF Spec


-----------------------------------------------------------------------------
(* The codes of a line, and of lines                                        *)

\* a sequence with one more sequence behind it, flattened
LEMMA FlattenNext ==
  ASSUME NEW E, NEW n \in Nat, NEW s \in Seq(Seq(E)), NEW t \in Seq(Seq(E)),
         Len(s) = n, Len(t) = n + 1, \A i \in 1..n : s[i] = t[i]
  PROVE  FlattenSeq(t) = FlattenSeq(s) \o t[n + 1] /\ t[n + 1] \in Seq(E)
<1> DEFINE m == n + 1
<1>1. m \in 1..Len(t) /\ t[m] \in Seq(E)
  OBVIOUS
<1> DEFINE e == t[m]
           a == Append(s, e)
<1>2. a \in Seq(Seq(E)) /\ Len(a) = n + 1 /\ (\A i \in 1..n : a[i] = s[i]) /\ a[n + 1] = e
  BY <1>1, AppendProperties
<1>3. \A i \in 1..Len(a) : a[i] = t[i]
  BY <1>2
<1>4. t = a
  BY <1>2, <1>3, SeqEqual
<1>5. FlattenSeq(a) = FlattenSeq(s) \o e
  <2>1. e \in Seq(E)
    BY <1>1
  <2> HIDE DEF e
  <2> QED BY <2>1, FlattenAppend
<1> QED BY <1>1, <1>4, <1>5

Code == Nat \X Nat

\* what byte p of the line is compressed to
ByteCodes(c, l, p) == [n \in 1..c |-> <<l, p>>]

\* CodesOf, for a line of cost c
CodesBetween(c, l, from, to) ==
  FlattenSeq([i \in 1..to - from |-> ByteCodes(c, l, from + i - 1)])

\* The codes of one byte.
LEMMA ByteCodesType ==
  ASSUME NEW c \in Nat, NEW l \in Nat, NEW p \in Nat
  PROVE  ByteCodes(c, l, p) \in Seq(Code) /\ Len(ByteCodes(c, l, p)) = c
<1>1. <<l, p>> \in Code
  BY DEF Code
<1> QED BY <1>1 DEF ByteCodes

\* a sequence that consists of two
Joins(whole, a, b) == whole = a \o b

\* The codes of a line, by one byte at a time.
LEMMA CodesGrow ==
  ASSUME NEW c \in Nat, NEW l \in Nat, NEW from \in Nat, NEW mid \in Nat, from <= mid,
         NEW to \in Nat, to = mid + 1
  PROVE  /\ CodesBetween(c, l, from, mid) \in Seq(Code)
         /\ Joins(CodesBetween(c, l, from, to), CodesBetween(c, l, from, mid), ByteCodes(c, l, mid))
<1> DEFINE k == mid - from
           m == k + 1
           s == [i \in 1..k |-> ByteCodes(c, l, from + i - 1)]
           t == [i \in 1..m |-> ByteCodes(c, l, from + i - 1)]
<1>0. k \in Nat /\ m \in Nat /\ to - from = m /\ m = k + 1
  OBVIOUS
<1>1. \A i \in 1..m : ByteCodes(c, l, from + i - 1) \in Seq(Code)
  <2> SUFFICES ASSUME NEW i \in 1..m PROVE ByteCodes(c, l, from + i - 1) \in Seq(Code)
    OBVIOUS
  <2>1. from + i - 1 \in Nat
    BY <1>0
  <2> QED BY <2>1, ByteCodesType
<1>2. CodesBetween(c, l, from, mid) = FlattenSeq(s) /\ CodesBetween(c, l, from, to) = FlattenSeq(t)
  BY <1>0 DEF CodesBetween
<1>6. m \in 1..m /\ from + m - 1 = mid /\ \A i \in 1..k : i \in 1..m
  BY <1>0
<1>7. t[m] = ByteCodes(c, l, mid)
  BY <1>6
<1>4. \A i \in 1..k : s[i] = t[i]
  BY <1>6
<1> HIDE DEF k, m
<1>8. s \in Seq(Seq(Code)) /\ Len(s) = k
  <2>1. \A i \in 1..k : ByteCodes(c, l, from + i - 1) \in Seq(Code)
    BY <1>1, <1>6
  <2> QED BY <1>0, <2>1
<1>3. t \in Seq(Seq(Code)) /\ Len(t) = k + 1
  BY <1>0, <1>1
<1>5. FlattenSeq(t) = FlattenSeq(s) \o t[m]
  <2>1. k \in Nat /\ m = k + 1
    BY <1>0
  <2>2. FlattenSeq(t) = FlattenSeq(s) \o t[k + 1]
    <3> HIDE DEF s, t
    <3>1. \A i \in 1..k : s[i] = t[i]
      BY <1>4
    <3> QED BY <2>1, <1>8, <1>3, <3>1, FlattenNext
  <2> HIDE DEF s, t
  <2> QED BY <2>1, <2>2
<1>9. FlattenSeq(s) \in Seq(Code)
  <2> HIDE DEF s
  <2> QED BY <1>8, FlattenType
<1> QED BY <1>2, <1>5, <1>7, <1>9 DEF Joins

\* No byte has no codes.
LEMMA NoCodes ==
  ASSUME NEW c, NEW l, NEW from \in Nat
  PROVE  CodesBetween(c, l, from, from) = << >>
<1>1. 1..from - from = {}
  OBVIOUS
<1>2. [i \in 1..from - from |-> ByteCodes(c, l, from + i - 1)] = << >>
  BY <1>1
<1> QED BY <1>2, FlattenEmpty DEF CodesBetween

\* What lines of any cost and any bytes of theirs are compressed to.
LEMMA CodesFacts ==
  ASSUME NEW c \in Nat, NEW l \in Nat, NEW from \in Nat, NEW to \in Nat, from <= to
  PROVE  /\ CodesBetween(c, l, from, to) \in Seq(Code)
         /\ Len(CodesBetween(c, l, from, to)) = c * (to - from)
<1> DEFINE B(k) == CodesBetween(c, l, from, from + k)
           P == {k \in Nat : Len(B(k)) = c * k}
<1>1. 0 \in P
  <2>1. B(0) = << >>
    BY NoCodes
  <2> QED BY <2>1
<1>2. ASSUME NEW k \in Nat, k \in P PROVE k + 1 \in P
  <2> DEFINE e == ByteCodes(c, l, from + k)
  <2>1. B(k) \in Seq(Code) /\ e \in Seq(Code) /\ B(k + 1) = B(k) \o e /\ Len(e) = c
    <3> DEFINE m == from + k
               u == from + (k + 1)
    <3>1. u = m + 1 /\ u \in Nat /\ m \in Nat /\ from <= m
      OBVIOUS
    <3>2. /\ CodesBetween(c, l, from, m) \in Seq(Code)
          /\ Joins(CodesBetween(c, l, from, u), CodesBetween(c, l, from, m), ByteCodes(c, l, m))
          /\ ByteCodes(c, l, m) \in Seq(Code) /\ Len(ByteCodes(c, l, m)) = c
      <4> HIDE DEF m, u
      <4> QED BY <3>1, CodesGrow, ByteCodesType
    <3> QED BY <3>2 DEF Joins
  <2>2. Len(B(k + 1)) = Len(B(k)) + c
    <3> HIDE DEF e, B
    <3> QED BY <2>1, ConcatProperties
  <2>3. Len(B(k)) = c * k
    BY <1>2
  <2>4. c * (k + 1) = c * k + c
    OBVIOUS
  <2> HIDE DEF B
  <2> QED BY <2>2, <2>3, <2>4
<1>3. Nat \subseteq P
  <2> HIDE DEF P
  <2> QED BY <1>1, <1>2, Induction
<1>4. to - from \in Nat /\ from + (to - from) = to
  OBVIOUS
<1>5. B(to - from) \in Seq(Code)
  <2>1. to + 1 \in Nat
    OBVIOUS
  <2> QED BY <1>4, <2>1, CodesGrow
<1>6. Len(B(to - from)) = c * (to - from)
  BY <1>3, <1>4
<1> QED BY <1>4, <1>5, <1>6

\* The codes of the first n bytes of a line.
LEMMA CodesFromStart ==
  ASSUME NEW c \in Nat, NEW l \in Nat, NEW n \in Nat
  PROVE  CodesBetween(c, l, 0, n) \in Seq(Code) /\ Len(CodesBetween(c, l, 0, n)) = c * n
<1>1. ASSUME NEW z \in Nat, z = 0
      PROVE  CodesBetween(c, l, z, n) \in Seq(Code) /\ Len(CodesBetween(c, l, z, n)) = c * n
  <2>1. z <= n /\ n - z = n
    BY <1>1
  <2>2. CodesBetween(c, l, z, n) \in Seq(Code) /\ Len(CodesBetween(c, l, z, n)) = c * (n - z)
    BY <2>1, CodesFacts
  <2> QED BY <2>1, <2>2
<1> QED BY <1>1

\* Cut anywhere, the codes of the two parts are the codes of the whole.
LEMMA CodesJoin ==
  ASSUME NEW c \in Nat, NEW l \in Nat, NEW from \in Nat, NEW mid \in Nat, NEW to \in Nat,
         from <= mid, mid <= to
  PROVE  Joins(CodesBetween(c, l, from, to), CodesBetween(c, l, from, mid), CodesBetween(c, l, mid, to))
<1> DEFINE A == CodesBetween(c, l, from, mid)
           B(k) == CodesBetween(c, l, mid, mid + k)
           C(k) == CodesBetween(c, l, from, mid + k)
           P == {k \in Nat : A \o B(k) = C(k)}
<1>0. A \in Seq(Code)
  BY CodesFacts
<1>1. 0 \in P
  <2>1. B(0) = << >>
    BY NoCodes
  <2>2. A \o << >> = A
    BY <1>0, ConcatEmptySeq
  <2>3. C(0) = A
    OBVIOUS
  <2> QED BY <2>1, <2>2, <2>3
<1>2. ASSUME NEW k \in Nat, k \in P PROVE k + 1 \in P
  <2> DEFINE e == ByteCodes(c, l, mid + k)
  <2>1. B(k) \in Seq(Code) /\ e \in Seq(Code) /\ B(k + 1) = B(k) \o e
    <3> DEFINE m == mid + k
               u == mid + (k + 1)
    <3>1. u = m + 1 /\ u \in Nat /\ m \in Nat /\ mid <= m
      OBVIOUS
    <3>2. /\ CodesBetween(c, l, mid, m) \in Seq(Code)
          /\ Joins(CodesBetween(c, l, mid, u), CodesBetween(c, l, mid, m), ByteCodes(c, l, m))
          /\ ByteCodes(c, l, m) \in Seq(Code)
      <4> HIDE DEF m, u
      <4> QED BY <3>1, CodesGrow, ByteCodesType
    <3> QED BY <3>2 DEF Joins
  <2>2. C(k + 1) = C(k) \o e
    <3> DEFINE m == mid + k
               u == mid + (k + 1)
    <3>1. u = m + 1 /\ u \in Nat /\ m \in Nat /\ from <= m
      OBVIOUS
    <3>2. Joins(CodesBetween(c, l, from, u), CodesBetween(c, l, from, m), ByteCodes(c, l, m))
      <4> HIDE DEF m, u
      <4> QED BY <3>1, CodesGrow
    <3> QED BY <3>2 DEF Joins
  <2>3. A \o B(k) = C(k)
    BY <1>2
  <2>4. A \o (B(k) \o e) = (A \o B(k)) \o e
    <3> HIDE DEF A, B, e
    <3> QED BY <1>0, <2>1, ConcatAssoc, SMTT(30)
  <2>5. A \o B(k + 1) = C(k + 1)
    <3> HIDE DEF A, B, C, e
    <3> QED BY <2>1, <2>2, <2>3, <2>4, Zenon
  <2> QED BY <2>5
<1>3. Nat \subseteq P
  <2> HIDE DEF P
  <2> QED BY <1>1, <1>2, Induction
<1>4. to - mid \in Nat /\ mid + (to - mid) = to
  OBVIOUS
<1> QED BY <1>3, <1>4 DEF Joins

-----------------------------------------------------------------------------
(* What is written and what is staged                                      *)

LineCodes(b, l, from, to) == CodesBetween(b[l + 1].cost, l, from, to)

\* the codes of the first l lines
Whole(b, l) == FlattenSeq([k \in 1..l |-> LineCodes(b, k - 1, 0, b[k].len)])

\* and of o bytes of the next one
UpToHere(b, l, o) == Whole(b, l) \o LineCodes(b, l, 0, o)

JobCodes(b, job) == LineCodes(b, job.line, job.from, job.to)

\* the codes of the first n jobs
Staged(b, jobs, n) == FlattenSeq([i \in 1..n |-> JobCodes(b, jobs[i])])

LinesTotal(b, l) == SumFunctionOnSet([k \in 1..l |-> b[k].cost * b[k].len], 1..l)

\* The cost and the length of a line.
LEMMA LineFacts ==
  ASSUME NEW b \in Seq(LineRecord), NEW k \in 1..Len(b)
  PROVE  b[k].cost \in {1, 2} /\ b[k].cost \in Nat /\ b[k].len \in Nat
<1>1. b[k] \in LineRecord
  BY ElementOfSeq
<1> QED BY <1>1 DEF LineRecord

\* One more line, and how long the codes of the lines are.
LEMMA WholeGrows ==
  ASSUME NEW b \in Seq(LineRecord), NEW l \in Nat, l < Len(b)
  PROVE  /\ Whole(b, l) \in Seq(Code) /\ Whole(b, l + 1) \in Seq(Code)
         /\ Joins(Whole(b, l + 1), Whole(b, l), LineCodes(b, l, 0, b[l + 1].len))
<1> DEFINE s == [k \in 1..l |-> LineCodes(b, k - 1, 0, b[k].len)]
           t == [k \in 1..l + 1 |-> LineCodes(b, k - 1, 0, b[k].len)]
<1>1. \A k \in 1..l + 1 : LineCodes(b, k - 1, 0, b[k].len) \in Seq(Code)
  <2> SUFFICES ASSUME NEW k \in 1..l + 1 PROVE LineCodes(b, k - 1, 0, b[k].len) \in Seq(Code)
    OBVIOUS
  <2>1. k \in 1..Len(b) /\ k - 1 \in Nat /\ k - 1 + 1 = k
    OBVIOUS
  <2>2. b[k].cost \in Nat /\ b[k].len \in Nat /\ 0 <= b[k].len
    BY <2>1, LineFacts
  <2>3. CodesBetween(b[k].cost, k - 1, 0, b[k].len) \in Seq(Code)
    BY <2>1, <2>2, CodesFacts
  <2> QED BY <2>1, <2>3 DEF LineCodes
<1>2. s \in Seq(Seq(Code)) /\ Len(s) = l
  BY <1>1
<1>3. t \in Seq(Seq(Code)) /\ Len(t) = l + 1
  BY <1>1
<1>4. \A i \in 1..l : s[i] = t[i]
  OBVIOUS
<1>5. t[l + 1] = LineCodes(b, l, 0, b[l + 1].len)
  <2>1. l + 1 \in 1..l + 1 /\ l + 1 - 1 = l
    OBVIOUS
  <2> QED BY <2>1
<1>6. FlattenSeq(t) = FlattenSeq(s) \o t[l + 1]
  <2> HIDE DEF s, t
  <2> QED BY <1>2, <1>3, <1>4, FlattenNext
<1>7. FlattenSeq(s) \in Seq(Code) /\ FlattenSeq(t) \in Seq(Code)
  <2> HIDE DEF s, t
  <2> QED BY <1>2, <1>3, FlattenType
<1> QED BY <1>5, <1>6, <1>7 DEF Whole, Joins

\* One more line costs as much as its bytes do.
LEMMA TotalGrows ==
  ASSUME NEW b \in Seq(LineRecord), NEW l \in Nat, l < Len(b)
  PROVE  /\ LinesTotal(b, l) \in Nat
         /\ LinesTotal(b, l + 1) = LinesTotal(b, l) + b[l + 1].cost * b[l + 1].len
<1> DEFINE f == [k \in 1..l |-> b[k].cost * b[k].len]
           g == [k \in 1..l + 1 |-> b[k].cost * b[k].len]
           m == l + 1
<1>1. \A k \in 1..l + 1 : b[k].cost * b[k].len \in Nat
  <2> SUFFICES ASSUME NEW k \in 1..l + 1 PROVE b[k].cost * b[k].len \in Nat
    OBVIOUS
  <2>1. k \in 1..Len(b)
    OBVIOUS
  <2>2. b[k].cost \in Nat /\ b[k].len \in Nat
    BY <2>1, LineFacts
  <2> QED BY <2>2
<1>2. IsFiniteSet(1..l) /\ 1..l + 1 = (1..l) \cup {m} /\ m \notin 1..l
  BY SizeOfRange
<1>3. \A k \in 1..l : g[k] \in Int /\ f[k] = g[k]
  BY <1>1
<1>4. g[m] \in Int /\ g[m] = b[m].cost * b[m].len
  BY <1>1
<1>5. SumFunctionOnSet(g, (1..l) \cup {m}) = g[m] + SumFunctionOnSet(g, 1..l)
  <2> HIDE DEF g, m
  <2> QED BY <1>2, <1>3, <1>4, SumAdd
<1>6. SumFunctionOnSet(f, 1..l) = SumFunctionOnSet(g, 1..l)
  <2> HIDE DEF f, g
  <2> QED BY <1>2, <1>3, SumSame
<1>7. SumFunctionOnSet(f, 1..l) \in Nat
  <2>1. \A k \in 1..l : f[k] \in Nat
    BY <1>1
  <2> HIDE DEF f
  <2> QED BY <1>2, <2>1, SumType
<1>8. LinesTotal(b, l + 1) = SumFunctionOnSet(g, (1..l) \cup {m}) /\ LinesTotal(b, l) = SumFunctionOnSet(f, 1..l)
  BY <1>2 DEF LinesTotal
<1> HIDE DEF f, g
<1> QED BY <1>4, <1>5, <1>6, <1>7, <1>8

\* The codes of all lines up to one are as many as the lines cost together.
LEMMA WholeLength ==
  ASSUME NEW b \in Seq(LineRecord), NEW l \in Nat, l <= Len(b)
  PROVE  /\ Whole(b, l) \in Seq(Code) /\ LinesTotal(b, l) \in Nat
         /\ Len(Whole(b, l)) = LinesTotal(b, l)
<1> DEFINE Q(k) == /\ Whole(b, k) \in Seq(Code) /\ LinesTotal(b, k) \in Nat
                   /\ Len(Whole(b, k)) = LinesTotal(b, k)
           P == {k \in Nat : k <= Len(b) => Q(k)}
<1>1. 0 \in P
  <2>1. Whole(b, 0) = << >>
    <3>1. [k \in 1..0 |-> LineCodes(b, k - 1, 0, b[k].len)] = << >>
      OBVIOUS
    <3> QED BY <3>1, FlattenEmpty DEF Whole
  <2>2. LinesTotal(b, 0) = 0
    <3>1. 1..0 = {}
      OBVIOUS
    <3> QED BY <3>1, SumEmpty DEF LinesTotal
  <2>3. << >> \in Seq(Code) /\ Len(<< >>) = 0
    OBVIOUS
  <2>4. Q(0)
    <3>1. Whole(b, 0) \in Seq(Code) /\ Len(Whole(b, 0)) = 0
      BY <2>1, <2>3
    <3>2. 0 \in Nat
      OBVIOUS
    <3> QED BY <2>2, <3>1, <3>2
  <2> HIDE DEF Q
  <2> QED BY <2>4
<1>2. ASSUME NEW k \in Nat, k \in P PROVE k + 1 \in P
  <2> SUFFICES ASSUME k + 1 <= Len(b) PROVE Q(k + 1)
    OBVIOUS
  <2>1. k < Len(b) /\ Q(k)
    BY <1>2
  <2> DEFINE e == LineCodes(b, k, 0, b[k + 1].len)
             c == b[k + 1].cost
             n == b[k + 1].len
  <2>2. c \in Nat /\ n \in Nat
    <3>1. k + 1 \in 1..Len(b)
      BY <2>1
    <3> QED BY <3>1, LineFacts
  <2>3. e \in Seq(Code) /\ Len(e) = c * n
    <3>1. CodesBetween(c, k, 0, n) \in Seq(Code) /\ Len(CodesBetween(c, k, 0, n)) = c * n
      <4> HIDE DEF c, n
      <4> QED BY <2>2, CodesFromStart
    <3> QED BY <3>1 DEF LineCodes
  <2>4. Whole(b, k + 1) = Whole(b, k) \o e /\ Whole(b, k + 1) \in Seq(Code)
    <3>1. Joins(Whole(b, k + 1), Whole(b, k), e) /\ Whole(b, k + 1) \in Seq(Code)
      BY <2>1, WholeGrows
    <3> QED BY <3>1 DEF Joins
  <2>5. LinesTotal(b, k + 1) = LinesTotal(b, k) + c * n
    BY <2>1, TotalGrows
  <2>6. Len(Whole(b, k + 1)) = Len(Whole(b, k)) + Len(e)
    <3> HIDE DEF e
    <3> QED BY <2>1, <2>3, <2>4, ConcatProperties
  <2>7. c * n \in Nat
    <3> HIDE DEF c, n
    <3> QED BY <2>2
  <2> HIDE DEF e, c, n
  <2> QED BY <2>1, <2>3, <2>4, <2>5, <2>6, <2>7
<1>3. Nat \subseteq P
  <2> HIDE DEF P
  <2> QED BY <1>1, <1>2, Induction
<1> QED BY <1>3


-----------------------------------------------------------------------------
(* What is written and staged                                               *)

\* The codes of a part of a line are codes.
LEMMA LineCodesFacts ==
  ASSUME NEW b \in Seq(LineRecord), NEW l \in Nat, l < Len(b),
         NEW from \in Nat, NEW to \in Nat, from <= to
  PROVE  LineCodes(b, l, from, to) \in Seq(Code)
<1>1. l + 1 \in 1..Len(b)
  OBVIOUS
<1> DEFINE c == b[l + 1].cost
<1>2. c \in Nat
  BY <1>1, LineFacts
<1>3. CodesBetween(c, l, from, to) \in Seq(Code)
  <2> HIDE DEF c
  <2> QED BY <1>2, CodesFacts
<1> QED BY <1>3 DEF LineCodes

\* Nothing of a line is in front of it.
LEMMA FrontIsWhole ==
  ASSUME NEW b \in Seq(LineRecord), NEW l \in Nat, l <= Len(b)
  PROVE  UpToHere(b, l, 0) = Whole(b, l)
<1>1. \A z \in Nat : LineCodes(b, l, z, z) = << >>
  BY NoCodes DEF LineCodes
<1>2. LineCodes(b, l, 0, 0) = << >>
  BY <1>1
<1>3. Whole(b, l) \in Seq(Code)
  BY WholeLength
<1>4. Whole(b, l) \o << >> = Whole(b, l)
  BY <1>3, ConcatEmptySeq
<1> QED BY <1>2, <1>4 DEF UpToHere

\* At the end of a line the next one begins.
LEMMA FrontEnds ==
  ASSUME NEW b \in Seq(LineRecord), NEW l \in Nat, l < Len(b)
  PROVE  UpToHere(b, l, b[l + 1].len) = UpToHere(b, l + 1, 0)
<1>1. Joins(Whole(b, l + 1), Whole(b, l), LineCodes(b, l, 0, b[l + 1].len))
  BY WholeGrows
<1>2. UpToHere(b, l + 1, 0) = Whole(b, l + 1)
  <2>1. l + 1 \in Nat /\ l + 1 <= Len(b)
    OBVIOUS
  <2> QED BY <2>1, FrontIsWhole
<1> QED BY <1>1, <1>2 DEF Joins, UpToHere

\* A job that goes on where the line was left off adds its codes.
LEMMA FrontGrows ==
  ASSUME NEW b \in Seq(LineRecord), NEW l \in Nat, l < Len(b),
         NEW o \in Nat, NEW to \in Nat, o <= to
  PROVE  /\ UpToHere(b, l, o) \in Seq(Code)
         /\ Joins(UpToHere(b, l, to), UpToHere(b, l, o), LineCodes(b, l, o, to))
<1> DEFINE W == Whole(b, l)
           A == LineCodes(b, l, 0, o)
           B == LineCodes(b, l, o, to)
           C == LineCodes(b, l, 0, to)
           c == b[l + 1].cost
<1>1. W \in Seq(Code)
  BY WholeLength
<1>2. c \in Nat
  <2>1. l + 1 \in 1..Len(b)
    OBVIOUS
  <2> QED BY <2>1, LineFacts
<1>3. B \in Seq(Code)
  BY LineCodesFacts
<1>4. A \in Seq(Code) /\ Joins(C, A, B)
  <2>1. ASSUME NEW z \in Nat, z = 0
        PROVE  /\ LineCodes(b, l, z, o) \in Seq(Code)
               /\ Joins(LineCodes(b, l, z, to), LineCodes(b, l, z, o), LineCodes(b, l, o, to))
    <3>1. z <= o
      BY <2>1
    <3>2. /\ CodesBetween(c, l, z, o) \in Seq(Code)
          /\ Joins(CodesBetween(c, l, z, to), CodesBetween(c, l, z, o), CodesBetween(c, l, o, to))
      <4> HIDE DEF c
      <4> QED BY <1>2, <3>1, CodesFacts, CodesJoin
    <3> QED BY <3>2 DEF LineCodes
  <2> QED BY <2>1
<1>5. W \o (A \o B) = (W \o A) \o B /\ W \o A \in Seq(Code)
  <2> HIDE DEF W, A, B
  <2> QED BY <1>1, <1>3, <1>4, ConcatAssoc, ConcatProperties, SMTT(30)
<1>6. C = A \o B
  BY <1>4 DEF Joins
<1>7. UpToHere(b, l, to) = W \o C /\ UpToHere(b, l, o) = W \o A
  BY DEF UpToHere
<1> HIDE DEF W, A, B, C
<1>8. UpToHere(b, l, to) = UpToHere(b, l, o) \o B
  BY <1>5, <1>6, <1>7, Zenon
<1> QED BY <1>5, <1>7, <1>8 DEF Joins, B

\* jobs that are parts of lines
JobsOfLines(b, jobs) ==
  /\ jobs \in Seq(JobRecord)
  /\ \A i \in 1..Len(jobs) : jobs[i].from <= jobs[i].to /\ jobs[i].line < Len(b)

\* The codes of a job are codes.
LEMMA JobCodesFacts ==
  ASSUME NEW b \in Seq(LineRecord), NEW jobs, JobsOfLines(b, jobs), NEW i \in 1..Len(jobs)
  PROVE  JobCodes(b, jobs[i]) \in Seq(Code)
<1>1. jobs[i] \in JobRecord /\ jobs[i].from <= jobs[i].to /\ jobs[i].line < Len(b)
  BY DEF JobsOfLines
<1>2. jobs[i].line \in Nat /\ jobs[i].from \in Nat /\ jobs[i].to \in Nat
  BY <1>1 DEF JobRecord
<1>3. LineCodes(b, jobs[i].line, jobs[i].from, jobs[i].to) \in Seq(Code)
  BY <1>1, <1>2, LineCodesFacts
<1> QED BY <1>3 DEF JobCodes

\* One more job, and jobs that were appended do not change those before.
LEMMA StagedGrows ==
  ASSUME NEW b \in Seq(LineRecord), NEW jobs, JobsOfLines(b, jobs), NEW n \in Nat, n < Len(jobs)
  PROVE  /\ Staged(b, jobs, n) \in Seq(Code)
         /\ Joins(Staged(b, jobs, n + 1), Staged(b, jobs, n), JobCodes(b, jobs[n + 1]))
<1> DEFINE s == [i \in 1..n |-> JobCodes(b, jobs[i])]
           t == [i \in 1..n + 1 |-> JobCodes(b, jobs[i])]
<1>0. Len(jobs) \in Nat
  BY DEF JobsOfLines
<1>1. \A i \in 1..n + 1 : JobCodes(b, jobs[i]) \in Seq(Code)
  BY <1>0, JobCodesFacts
<1>2. s \in Seq(Seq(Code)) /\ Len(s) = n
  BY <1>1
<1>3. t \in Seq(Seq(Code)) /\ Len(t) = n + 1
  BY <1>1
<1>4. \A i \in 1..n : s[i] = t[i]
  OBVIOUS
<1>5. t[n + 1] = JobCodes(b, jobs[n + 1])
  OBVIOUS
<1>6. FlattenSeq(t) = FlattenSeq(s) \o t[n + 1]
  <2> HIDE DEF s, t
  <2> QED BY <1>2, <1>3, <1>4, FlattenNext
<1>7. FlattenSeq(s) \in Seq(Code)
  <2> HIDE DEF s
  <2> QED BY <1>2, FlattenType
<1> QED BY <1>5, <1>6, <1>7 DEF Staged, Joins

\* The codes of the first jobs are codes.
LEMMA StagedType ==
  ASSUME NEW b \in Seq(LineRecord), NEW jobs, JobsOfLines(b, jobs), NEW n \in Nat, n <= Len(jobs)
  PROVE  Staged(b, jobs, n) \in Seq(Code)
<1> DEFINE s == [i \in 1..n |-> JobCodes(b, jobs[i])]
<1>0. Len(jobs) \in Nat
  BY DEF JobsOfLines
<1>1. \A i \in 1..n : JobCodes(b, jobs[i]) \in Seq(Code)
  BY <1>0, JobCodesFacts
<1>2. s \in Seq(Seq(Code))
  BY <1>1
<1>3. FlattenSeq(s) \in Seq(Code)
  <2> HIDE DEF s
  <2> QED BY <1>2, FlattenType
<1> QED BY <1>3 DEF Staged

\* No jobs have no codes.
LEMMA StagedNone == \A b, jobs : Staged(b, jobs, 0) = << >>
<1>1. \A b, jobs : [i \in 1..0 |-> JobCodes(b, jobs[i])] = << >>
  OBVIOUS
<1> QED BY <1>1, FlattenEmpty DEF Staged

\* Jobs that agree have the same codes.
LEMMA StagedSame ==
  ASSUME NEW b, NEW jobs, NEW other, NEW n \in Nat, \A i \in 1..n : jobs[i] = other[i]
  PROVE  Staged(b, jobs, n) = Staged(b, other, n)
<1>1. [i \in 1..n |-> JobCodes(b, jobs[i])] = [i \in 1..n |-> JobCodes(b, other[i])]
  OBVIOUS
<1> QED BY <1>1 DEF Staged

\* d and the codes of the jobs are the codes up to o of line l, and every job
\* goes on where what is before it ends
TextInv(b, jobs, d, l, o) ==
  /\ d \in Seq(Code)
  /\ Joins(UpToHere(b, l, o), d, Staged(b, jobs, Len(jobs)))
  /\ \A m \in 1..Len(jobs) :
       Joins(UpToHere(b, jobs[m].line, jobs[m].from), d, Staged(b, jobs, m - 1))

\* Nothing is written or staged before the first line.
LEMMA TextStart ==
  ASSUME NEW b \in Seq(LineRecord)
  PROVE  TextInv(b, << >>, << >>, 0, 0)
<1>1. \A z \in Nat : z = 0 => UpToHere(b, z, 0) = Whole(b, z)
  BY FrontIsWhole
<1>2. UpToHere(b, 0, 0) = Whole(b, 0)
  BY <1>1
<1>3. Whole(b, 0) = << >>
  <2>1. [k \in 1..0 |-> LineCodes(b, k - 1, 0, b[k].len)] = << >>
    OBVIOUS
  <2> QED BY <2>1, FlattenEmpty DEF Whole
<1>4. << >> \in Seq(Code) /\ Len(<< >>) = 0
  OBVIOUS
<1>5. << >> \o << >> = << >>
  BY <1>4, ConcatEmptySeq
<1>6. \A j : Staged(b, j, 0) = << >>
  BY StagedNone
<1>7. Joins(UpToHere(b, 0, 0), << >>, Staged(b, << >>, Len(<< >>)))
  BY <1>2, <1>3, <1>4, <1>5, <1>6 DEF Joins
<1> QED BY <1>4, <1>7 DEF TextInv

\* A job that goes on where the line was left off keeps the text whole.
LEMMA TextJob ==
  ASSUME NEW b \in Seq(LineRecord), NEW jobs, JobsOfLines(b, jobs), NEW d,
         NEW l \in Nat, l < Len(b), NEW o \in Nat, TextInv(b, jobs, d, l, o),
         NEW job \in JobRecord, job.line = l, job.from = o, o <= job.to
  PROVE  /\ JobsOfLines(b, Append(jobs, job))
         /\ TextInv(b, Append(jobs, job), d, l, job.to)
<1> DEFINE n == Len(jobs)
           js == Append(jobs, job)
           to == job.to
<1>1. jobs \in Seq(JobRecord) /\ n \in Nat
  BY DEF JobsOfLines
<1>2. /\ js \in Seq(JobRecord) /\ Len(js) = n + 1 /\ js[n + 1] = job
      /\ \A i \in 1..n : js[i] = jobs[i]
  BY <1>1, AppendProperties
<1>3. JobsOfLines(b, js)
  <2>1. ASSUME NEW i \in 1..n + 1 PROVE js[i].from <= js[i].to /\ js[i].line < Len(b)
    <3>1. CASE i = n + 1
      <4>1. js[i] = job
        BY <1>2, <3>1
      <4> HIDE DEF js, n
      <4> QED BY <4>1
    <3>2. CASE i \in 1..n
      <4>1. js[i] = jobs[i] /\ jobs[i].from <= jobs[i].to /\ jobs[i].line < Len(b)
        BY <1>2, <3>2 DEF JobsOfLines
      <4> HIDE DEF js, n
      <4> QED BY <4>1
    <3> QED BY <1>1, <3>1, <3>2
  <2> HIDE DEF js, n
  <2> QED BY <1>2, <2>1 DEF JobsOfLines
<1>4. to \in Nat /\ o <= to
  BY DEF JobRecord
<1>5. \A m \in 0..n : Staged(b, js, m) = Staged(b, jobs, m)
  <2> SUFFICES ASSUME NEW m \in 0..n PROVE Staged(b, js, m) = Staged(b, jobs, m)
    OBVIOUS
  <2>1. \A i \in 1..m : js[i] = jobs[i]
    BY <1>1, <1>2
  <2> HIDE DEF js, n
  <2> QED BY <1>1, <2>1, StagedSame
<1> DEFINE F == UpToHere(b, l, o)
           S == Staged(b, jobs, n)
           e == LineCodes(b, l, o, to)
<1>6. F \in Seq(Code) /\ Joins(UpToHere(b, l, to), F, e)
  BY <1>4, FrontGrows
<1>7. e \in Seq(Code)
  BY <1>4, LineCodesFacts
<1>8. S \in Seq(Code)
  BY <1>1, StagedType
<1>9. JobCodes(b, job) = e
  BY DEF JobCodes
<1> HIDE DEF js, n, to
<1>10. Joins(Staged(b, js, n + 1), S, e)
  <2>1. n < Len(js)
    BY <1>1, <1>2
  <2>2. Joins(Staged(b, js, n + 1), Staged(b, js, n), JobCodes(b, js[n + 1]))
    BY <1>1, <1>3, <2>1, StagedGrows
  <2>3. n \in 0..n
    BY <1>1
  <2> QED BY <1>2, <1>5, <1>9, <2>2, <2>3
<1>11. d \in Seq(Code) /\ Joins(F, d, S)
  BY DEF TextInv, n
<1>12. Joins(UpToHere(b, l, to), d, Staged(b, js, n + 1))
  <2>1. (d \o S) \o e = d \o (S \o e)
    <3> HIDE DEF S, e
    <3> QED BY <1>7, <1>8, <1>11, ConcatAssoc, SMTT(30)
  <2>2. UpToHere(b, l, to) = (d \o S) \o e
    BY <1>6, <1>11 DEF Joins
  <2>3. Staged(b, js, n + 1) = S \o e
    BY <1>10 DEF Joins
  <2>4. UpToHere(b, l, to) = d \o Staged(b, js, n + 1)
    BY <2>1, <2>2, <2>3, Zenon
  <2> QED BY <2>4 DEF Joins
<1>13. ASSUME NEW m \in 1..n + 1 PROVE Joins(UpToHere(b, js[m].line, js[m].from), d, Staged(b, js, m - 1))
  <2>1. m - 1 \in 0..n
    BY <1>1
  <2>2. Staged(b, js, m - 1) = Staged(b, jobs, m - 1)
    BY <1>5, <2>1
  <2>3. CASE m = n + 1
    <3>1. m - 1 = n /\ js[m] = job
      BY <1>1, <1>2, <2>3
    <3> QED BY <1>11, <2>2, <3>1
  <2>4. CASE m \in 1..n
    <3>1. Joins(UpToHere(b, jobs[m].line, jobs[m].from), d, Staged(b, jobs, m - 1))
      BY <2>4 DEF TextInv, n
    <3> QED BY <1>2, <2>2, <2>4, <3>1
  <2> QED BY <1>1, <2>3, <2>4
<1>14. TextInv(b, js, d, l, to)
  BY <1>2, <1>11, <1>12, <1>13 DEF TextInv
<1> QED BY <1>3, <1>14 DEF js, to

\* What was staged is the same text when it is written.
LEMMA TextFlushed ==
  ASSUME NEW b \in Seq(LineRecord), NEW jobs, JobsOfLines(b, jobs), NEW d, NEW l, NEW o,
         TextInv(b, jobs, d, l, o)
  PROVE  TextInv(b, << >>, d \o Staged(b, jobs, Len(jobs)), l, o)
<1> DEFINE S == Staged(b, jobs, Len(jobs))
           D == d \o S
<1>1. Len(jobs) \in Nat
  BY DEF JobsOfLines
<1>2. S \in Seq(Code) /\ d \in Seq(Code)
  BY <1>1, StagedType DEF TextInv
<1>3. D \in Seq(Code)
  <2> HIDE DEF S
  <2> QED BY <1>2, ConcatProperties
<1>4. Joins(UpToHere(b, l, o), d, S)
  BY DEF TextInv
<1>5. UpToHere(b, l, o) = D
  BY <1>4 DEF Joins
<1>6. Len(<< >>) = 0 /\ Staged(b, << >>, 0) = << >>
  BY StagedNone
<1> HIDE DEF D
<1>7. D \o << >> = D
  BY <1>3, ConcatEmptySeq
<1>8. Joins(UpToHere(b, l, o), D, Staged(b, << >>, Len(<< >>)))
  BY <1>5, <1>6, <1>7 DEF Joins
<1>9. TextInv(b, << >>, D, l, o)
  BY <1>3, <1>6, <1>8 DEF TextInv
<1> QED BY <1>9 DEF D


-----------------------------------------------------------------------------
(* The lengths and the beginnings of lines                                  *)

JobsIn(jobs, l) == {i \in 1..Len(jobs) : jobs[i].line = l}

\* how many codes the jobs of line l have together
LengthIn(b, jobs, l) ==
  SumFunctionOnSet([i \in JobsIn(jobs, l) |-> Len(JobCodes(b, jobs[i]))], JobsIn(jobs, l))

\* The jobs of a line are finitely many, and their codes have a length.
LEMMA LengthInType ==
  ASSUME NEW b \in Seq(LineRecord), NEW jobs, JobsOfLines(b, jobs), NEW l
  PROVE  /\ LengthIn(b, jobs, l) \in Nat /\ IsFiniteSet(JobsIn(jobs, l))
         /\ \A i \in JobsIn(jobs, l) : Len(JobCodes(b, jobs[i])) \in Nat
<1> DEFINE S == JobsIn(jobs, l)
           f == [i \in S |-> Len(JobCodes(b, jobs[i]))]
<1>1. Len(jobs) \in Nat
  BY DEF JobsOfLines
<1>2. IsFiniteSet(S)
  <2>1. IsFiniteSet(1..Len(jobs)) /\ S \in SUBSET (1..Len(jobs))
    BY <1>1, SizeOfRange DEF JobsIn
  <2> HIDE DEF S
  <2> QED BY <2>1, FS_Subset
<1>3. \A i \in S : Len(JobCodes(b, jobs[i])) \in Nat
  <2>1. \A i \in 1..Len(jobs) : JobCodes(b, jobs[i]) \in Seq(Code)
    BY JobCodesFacts
  <2>2. \A i \in 1..Len(jobs) : Len(JobCodes(b, jobs[i])) \in Nat
    BY <2>1
  <2> QED BY <2>2 DEF JobsIn
<1>4. SumFunctionOnSet(f, S) \in Nat
  <2>1. \A i \in S : f[i] \in Nat
    BY <1>3
  <2> HIDE DEF f, S
  <2> QED BY <1>2, <2>1, SumType
<1> QED BY <1>2, <1>3, <1>4 DEF LengthIn

\* A job that is appended belongs to its own line.
LEMMA JobsInAppend ==
  ASSUME NEW jobs \in Seq(JobRecord), NEW job \in JobRecord, NEW l
  PROVE  JobsIn(Append(jobs, job), l)
           = IF job.line = l THEN JobsIn(jobs, l) \cup {Len(jobs) + 1} ELSE JobsIn(jobs, l)
<1> DEFINE n == Len(jobs)
           js == Append(jobs, job)
<1>1. /\ Len(js) = n + 1 /\ js[n + 1] = job /\ n \in Nat
      /\ \A i \in 1..n : js[i] = jobs[i]
  BY AppendProperties
<1>2. 1..n + 1 = (1..n) \cup {n + 1}
  BY <1>1
<1> HIDE DEF js, n
<1>3. JobsIn(js, l) = {i \in (1..n) \cup {n + 1} : js[i].line = l}
  BY <1>1, <1>2 DEF JobsIn
<1>4. JobsIn(jobs, l) = {i \in 1..n : jobs[i].line = l}
  BY DEF JobsIn, n
<1>5. JobsIn(js, l) = IF job.line = l THEN JobsIn(jobs, l) \cup {n + 1} ELSE JobsIn(jobs, l)
  BY <1>1, <1>3, <1>4
<1> QED BY <1>5 DEF js, n

\* The codes of a job are counted for its line.
LEMMA LengthInAppend ==
  ASSUME NEW b \in Seq(LineRecord), NEW jobs, JobsOfLines(b, jobs),
         NEW job \in JobRecord, job.from <= job.to, job.line < Len(b), NEW l
  PROVE  LengthIn(b, Append(jobs, job), l)
           = LengthIn(b, jobs, l)
             + (IF job.line = l THEN b[job.line + 1].cost * (job.to - job.from) ELSE 0)
<1> DEFINE n == Len(jobs)
           m == n + 1
           js == Append(jobs, job)
           S == JobsIn(jobs, l)
           T == JobsIn(js, l)
           f == [i \in S |-> Len(JobCodes(b, jobs[i]))]
           g == [i \in T |-> Len(JobCodes(b, js[i]))]
           more == b[job.line + 1].cost * (job.to - job.from)
<1>0. jobs \in Seq(JobRecord) /\ n \in Nat
  BY DEF JobsOfLines
<1>1. /\ Len(js) = n + 1 /\ js[m] = job
      /\ \A i \in 1..n : js[i] = jobs[i]
  BY <1>0, AppendProperties
<1>2. T = IF job.line = l THEN S \cup {m} ELSE S
  BY <1>0, JobsInAppend
<1>3. /\ LengthIn(b, jobs, l) \in Nat /\ IsFiniteSet(S)
      /\ \A i \in S : Len(JobCodes(b, jobs[i])) \in Nat
  BY LengthInType
<1>4. S \in SUBSET (1..n) /\ m \notin S
  BY <1>0 DEF JobsIn
<1>5. \A i \in S : js[i] = jobs[i]
  BY <1>1, <1>4
<1>6. Len(JobCodes(b, job)) = more /\ more \in Nat
  <2>1. job.line \in Nat /\ job.from \in Nat /\ job.to \in Nat
    BY DEF JobRecord
  <2>2. job.line + 1 \in 1..Len(b)
    BY <2>1
  <2>3. b[job.line + 1].cost \in Nat
    BY <2>2, LineFacts
  <2> DEFINE c == b[job.line + 1].cost
             k == job.line
             from == job.from
             to == job.to
  <2>4. Len(CodesBetween(c, k, from, to)) = c * (to - from) /\ c * (to - from) \in Nat
    <3>1. c \in Nat /\ k \in Nat /\ from \in Nat /\ to \in Nat /\ from <= to
      BY <2>1, <2>3
    <3> HIDE DEF c, k, from, to
    <3>2. to - from \in Nat
      BY <3>1
    <3>3. c * (to - from) \in Nat
      BY <3>1, <3>2
    <3> QED BY <3>1, <3>3, CodesFacts
  <2> QED BY <2>4 DEF JobCodes, LineCodes
<1>7. LengthIn(b, jobs, l) = SumFunctionOnSet(f, S) /\ LengthIn(b, js, l) = SumFunctionOnSet(g, T)
  BY DEF LengthIn
<1>8. \A i \in S : f[i] = g[i] /\ g[i] \in Int
  <2> SUFFICES ASSUME NEW i \in S PROVE f[i] = g[i] /\ g[i] \in Int
    OBVIOUS
  <2>1. f[i] = Len(JobCodes(b, jobs[i])) /\ f[i] \in Nat
    BY <1>3
  <2>2. i \in T
    <3> HIDE DEF S, T
    <3> QED BY <1>2
  <2>3. g[i] = Len(JobCodes(b, js[i])) /\ js[i] = jobs[i]
    BY <1>5, <2>2
  <2>4. g[i] = f[i]
    <3> HIDE DEF f, g, js
    <3>1. Len(JobCodes(b, js[i])) = Len(JobCodes(b, jobs[i]))
      BY <2>3
    <3> QED BY <2>1, <2>3, <3>1
  <2> HIDE DEF f, g
  <2> QED BY <2>1, <2>4
<1>9. SumFunctionOnSet(f, S) = SumFunctionOnSet(g, S)
  <2> HIDE DEF f, g, S
  <2> QED BY <1>3, <1>8, SumSame
<1>10. CASE job.line = l
  <2>1. T = S \cup {m}
    BY <1>2, <1>10
  <2>2. g[m] = more
    BY <1>1, <1>6, <2>1
  <2>3. SumFunctionOnSet(g, S \cup {m}) = g[m] + SumFunctionOnSet(g, S)
    <3> HIDE DEF g, S, m, more
    <3>1. g[m] \in Int /\ \A i \in S : g[i] \in Int
      BY <1>6, <1>8, <2>2
    <3>2. IsFiniteSet(S) /\ m \notin S
      BY <1>3, <1>4
    <3> QED BY <3>1, <3>2, SumAdd
  <2>4. LengthIn(b, js, l) = more + LengthIn(b, jobs, l)
    <3> HIDE DEF f, g, S, T, m, more, js
    <3> QED BY <1>7, <1>9, <2>1, <2>2, <2>3
  <2> HIDE DEF more, js
  <2>5. LengthIn(b, js, l) = LengthIn(b, jobs, l) + more
    BY <1>3, <1>6, <2>4
  <2> QED BY <1>10, <2>5 DEF more, js
<1>11. CASE job.line # l
  <2>1. T = S
    BY <1>2, <1>11
  <2>2. LengthIn(b, js, l) = LengthIn(b, jobs, l)
    <3> HIDE DEF f, g, S, T, js
    <3> QED BY <1>7, <1>9, <2>1
  <2>3. LengthIn(b, js, l) = LengthIn(b, jobs, l) + 0
    <3> HIDE DEF js
    <3> QED BY <1>3, <2>2
  <2> QED BY <1>11, <2>3
<1> QED BY <1>10, <1>11

-----------------------------------------------------------------------------
(* One line                                                                *)

\* o bytes of line l are written or staged; s and n are its strOut and lenOut
LineInv(b, jobs, s, n, l, o) ==
  /\ n \in Nat /\ n + LengthIn(b, jobs, l) = b[l + 1].cost * o
  /\ s \in {Null, LinesTotal(b, l)}
  /\ s = Null /\ JobsIn(jobs, l) = {} => o = 0
  /\ s = Null => \A i \in JobsIn(jobs, l) :
                   jobs[i].from = 0 \/ \E k \in JobsIn(jobs, l) : k < i

\* something of the line is written or staged
Begun(jobs, s, l) == s # Null \/ JobsIn(jobs, l) # {}

\* A line that nothing is known of begins with no byte.
LEMMA LineOpened ==
  ASSUME NEW b \in Seq(LineRecord), NEW jobs, NEW l \in Nat, l < Len(b), JobsIn(jobs, l) = {}
  PROVE  LineInv(b, jobs, Null, 0, l, 0)
<1> DEFINE c == b[l + 1].cost
<1>1. c \in Nat
  <2>1. l + 1 \in 1..Len(b)
    OBVIOUS
  <2> QED BY <2>1, LineFacts
<1>2. LengthIn(b, jobs, l) = 0
  BY SumEmpty DEF LengthIn
<1>3. 0 + 0 = c * 0 /\ 0 \in Nat
  <2> HIDE DEF c
  <2> QED BY <1>1
<1> QED BY <1>2, <1>3 DEF LineInv

\* A job of the line takes it further.
LEMMA LineJob ==
  ASSUME NEW b \in Seq(LineRecord), NEW jobs, JobsOfLines(b, jobs), NEW l \in Nat, l < Len(b),
         NEW o \in Nat, NEW s, NEW n, LineInv(b, jobs, s, n, l, o),
         NEW job \in JobRecord, job.line = l, job.from = o, o <= job.to
  PROVE  LineInv(b, Append(jobs, job), s, n, l, job.to) /\ Begun(Append(jobs, job), s, l)
<1> DEFINE js == Append(jobs, job)
           c == b[l + 1].cost
           to == job.to
           m == Len(jobs) + 1
<1>0. jobs \in Seq(JobRecord) /\ Len(jobs) \in Nat /\ to \in Nat
  BY DEF JobsOfLines, JobRecord
<1>a. o <= to
  OBVIOUS
<1>1. JobsIn(js, l) = JobsIn(jobs, l) \cup {m}
  BY <1>0, JobsInAppend
<1>2. c \in Nat
  <2>1. l + 1 \in 1..Len(b)
    OBVIOUS
  <2> QED BY <2>1, LineFacts
<1>3. LengthIn(b, js, l) = LengthIn(b, jobs, l) + c * (to - o)
  BY LengthInAppend
<1>4. LengthIn(b, jobs, l) \in Nat
  BY LengthInType
<1>5. n \in Nat /\ n + LengthIn(b, jobs, l) = c * o
  BY DEF LineInv
<1>6. n + LengthIn(b, js, l) = c * to
  <2>1. c * to = c * o + c * (to - o) /\ c * o \in Nat /\ c * (to - o) \in Nat
    <3> HIDE DEF c, to
    <3>1. to - o \in Nat /\ to = o + (to - o)
      BY <1>0, <1>a
    <3>2. \A x, y, z \in Nat : x * (y + z) = x * y + x * z /\ x * y \in Nat /\ x * z \in Nat
      OBVIOUS
    <3>3. c * (o + (to - o)) = c * o + c * (to - o) /\ c * o \in Nat /\ c * (to - o) \in Nat
      BY <1>2, <3>1, <3>2
    <3> QED BY <3>1, <3>3
  <2> DEFINE p == c * o
             q == c * (to - o)
             r == c * to
  <2>2. r = p + q /\ p \in Nat /\ q \in Nat
    BY <2>1
  <2>3. LengthIn(b, js, l) = LengthIn(b, jobs, l) + q /\ n + LengthIn(b, jobs, l) = p
    BY <1>3, <1>5
  <2> HIDE DEF p, q, r, js
  <2> DEFINE x == LengthIn(b, jobs, l)
             y == LengthIn(b, js, l)
  <2>5. x \in Nat /\ y = x + q /\ n + x = p /\ n \in Nat
    BY <1>4, <1>5, <2>3
  <2>6. n + y = r
    <3> HIDE DEF x, y
    <3> QED BY <2>2, <2>5
  <2>4. n + LengthIn(b, js, l) = r
    BY <2>6, <1>4, <1>5, <2>2, <2>3
  <2> QED BY <2>4 DEF r
<1>7. /\ js[m] = job
      /\ \A i \in JobsIn(jobs, l) : js[i] = jobs[i] /\ i < m
  BY <1>0, AppendProperties DEF JobsIn
<1> HIDE DEF js, m, to
<1>8. ASSUME s = Null, NEW i \in JobsIn(js, l)
      PROVE  js[i].from = 0 \/ \E k \in JobsIn(js, l) : k < i
  <2>1. CASE i \in JobsIn(jobs, l)
    <3>1. jobs[i].from = 0 \/ \E k \in JobsIn(jobs, l) : k < i
      BY <1>8, <2>1 DEF LineInv
    <3> QED BY <1>1, <1>7, <2>1, <3>1
  <2>2. CASE i = m /\ JobsIn(jobs, l) = {}
    <3>1. o = 0
      BY <1>8, <2>2 DEF LineInv
    <3> QED BY <1>7, <2>2, <3>1
  <2>3. CASE i = m /\ JobsIn(jobs, l) # {}
    BY <1>1, <1>7, <2>3
  <2> QED BY <1>1, <1>8, <2>1, <2>2, <2>3
<1>9. JobsIn(js, l) # {}
  BY <1>1
<1>10. s \in {Null, LinesTotal(b, l)}
  BY DEF LineInv
<1>11. LineInv(b, js, s, n, l, to)
  BY <1>5, <1>6, <1>8, <1>9, <1>10 DEF LineInv
<1> QED BY <1>9, <1>11 DEF Begun, js, to

\* A job of another line changes nothing for this one.
LEMMA LineOfOtherJob ==
  ASSUME NEW b \in Seq(LineRecord), NEW jobs, JobsOfLines(b, jobs), NEW l \in Nat,
         NEW o, NEW s, NEW n, LineInv(b, jobs, s, n, l, o),
         NEW job \in JobRecord, job.line # l, job.from <= job.to, job.line < Len(b)
  PROVE  /\ LineInv(b, Append(jobs, job), s, n, l, o)
         /\ Begun(jobs, s, l) => Begun(Append(jobs, job), s, l)
<1> DEFINE js == Append(jobs, job)
<1>0. jobs \in Seq(JobRecord)
  BY DEF JobsOfLines
<1>1. JobsIn(js, l) = JobsIn(jobs, l)
  BY <1>0, JobsInAppend
<1>2. \A i \in JobsIn(jobs, l) : js[i] = jobs[i]
  BY <1>0, AppendProperties DEF JobsIn
<1>3. LengthIn(b, js, l) = LengthIn(b, jobs, l)
  <2>1. LengthIn(b, jobs, l) \in Nat
    BY LengthInType
  <2>2. LengthIn(b, js, l) = LengthIn(b, jobs, l) + 0
    BY LengthInAppend
  <2> HIDE DEF js
  <2> QED BY <2>1, <2>2
<1> HIDE DEF js
<1>4. LineInv(b, js, s, n, l, o) /\ (Begun(jobs, s, l) => Begun(js, s, l))
  BY <1>1, <1>2, <1>3 DEF LineInv, Begun
<1> QED BY <1>4 DEF js

\* The output of a batch finds where its lines begin.
LEMMA LineFlushed ==
  ASSUME NEW b \in Seq(LineRecord), NEW jobs, JobsOfLines(b, jobs), NEW l \in Nat, l < Len(b),
         NEW o, NEW s, NEW n, LineInv(b, jobs, s, n, l, o),
         NEW d, NEW line, NEW off, TextInv(b, jobs, d, line, off)
  PROVE  LET t == IF s = Null /\ JobsIn(jobs, l) # {}
                  THEN Len(d) + Len(Staged(b, jobs, Min(JobsIn(jobs, l)) - 1)) ELSE s
         IN  /\ LineInv(b, << >>, t, n + LengthIn(b, jobs, l), l, o)
             /\ Begun(jobs, s, l) => Begun(<< >>, t, l)
<1> DEFINE S == JobsIn(jobs, l)
           first == Min(S)
           t == IF s = Null /\ S # {} THEN Len(d) + Len(Staged(b, jobs, first - 1)) ELSE s
           k == n + LengthIn(b, jobs, l)
<1>1. jobs \in Seq(JobRecord) /\ Len(jobs) \in Nat
  BY DEF JobsOfLines
<1>2. LinesTotal(b, l) \in Nat /\ Len(Whole(b, l)) = LinesTotal(b, l)
  BY WholeLength
<1>3. LinesTotal(b, l) # Null
  BY <1>2 DEF Null
<1>4. ASSUME s = Null, S # {} PROVE t = LinesTotal(b, l)
  <2>1. first \in S /\ \A x \in S : first <= x
    <3>1. S \subseteq Nat
      BY <1>1 DEF JobsIn
    <3>2. \E x \in S : \A y \in S : x <= y
      <4> HIDE DEF S
      <4> QED BY <1>4, <3>1, LeastNatural
    <3> HIDE DEF S
    <3> QED BY <3>2 DEF Min
  <2>2. first \in 1..Len(jobs) /\ jobs[first].line = l
    BY <2>1 DEF JobsIn
  <2>3. jobs[first].from = 0
    <3>1. jobs[first].from = 0 \/ \E x \in S : x < first
      BY <1>4, <2>1 DEF LineInv
    <3>2. \A x \in S : x \in Int
      BY <1>1 DEF JobsIn
    <3>3. first \in Int
      BY <2>2
    <3> HIDE DEF first, S
    <3> QED BY <2>1, <3>1, <3>2, <3>3
  <2> HIDE DEF first
  <2>4. Joins(UpToHere(b, l, 0), d, Staged(b, jobs, first - 1)) /\ d \in Seq(Code)
    BY <2>2, <2>3 DEF TextInv
  <2>5. Staged(b, jobs, first - 1) \in Seq(Code)
    <3>1. first - 1 \in Nat /\ first - 1 <= Len(jobs)
      BY <1>1, <2>2
    <3> QED BY <3>1, StagedType
  <2>6. UpToHere(b, l, 0) = Whole(b, l)
    BY FrontIsWhole
  <2> DEFINE R == Staged(b, jobs, first - 1)
  <2>7. Whole(b, l) = d \o R
    BY <2>4, <2>6 DEF Joins
  <2>8. Len(d \o R) = Len(d) + Len(R)
    <3> HIDE DEF R
    <3> QED BY <2>4, <2>5, ConcatProperties
  <2>9. Len(d) + Len(R) = LinesTotal(b, l)
    <3> HIDE DEF R
    <3> QED BY <1>2, <2>7, <2>8
  <2> QED BY <1>4, <2>9
<1>5. t \in {Null, LinesTotal(b, l)}
  <2>1. s \in {Null, LinesTotal(b, l)}
    BY DEF LineInv
  <2>2. CASE s = Null /\ S # {}
    <3> HIDE DEF t
    <3> QED BY <1>4, <2>2
  <2>3. CASE ~(s = Null /\ S # {})
    BY <2>1, <2>3
  <2> QED BY <2>2, <2>3
<1>6. t = Null => s = Null /\ S = {}
  <2>1. CASE s = Null /\ S # {}
    <3> HIDE DEF t
    <3> QED BY <1>3, <1>4, <2>1
  <2>2. CASE ~(s = Null /\ S # {})
    BY <2>2
  <2> QED BY <2>1, <2>2
<1>7. JobsIn(<< >>, l) = {}
  BY DEF JobsIn
<1>8. LengthIn(b, << >>, l) = 0
  BY <1>7, SumEmpty DEF LengthIn
<1>9. k \in Nat /\ k + 0 = b[l + 1].cost * o
  <2>1. n \in Nat /\ k = b[l + 1].cost * o
    BY DEF LineInv
  <2>2. k \in Nat
    <3>1. LengthIn(b, jobs, l) \in Nat
      BY LengthInType
    <3> QED BY <2>1, <3>1
  <2> HIDE DEF k
  <2> QED BY <2>1, <2>2
<1>10. s = Null /\ S = {} => o = 0
  BY DEF LineInv
<1> HIDE DEF t, k
<1>11. LineInv(b, << >>, t, k, l, o)
  BY <1>5, <1>6, <1>7, <1>8, <1>9, <1>10 DEF LineInv
<1>12. Begun(jobs, s, l) => Begun(<< >>, t, l)
  BY <1>6 DEF Begun
<1> QED BY <1>11, <1>12 DEF t, k


-----------------------------------------------------------------------------
(* What the kernel reports                                                  *)

\* CodesOf in the words of these lemmas.
LEMMA CodesOfLine == \A l, from, to : CodesOf(l, from, to) = LineCodes(batch, l, from, to)
BY DEF CodesOf, LineCodes, CodesBetween, ByteCodes

\* what the kernel says of a job: which one it is, how far it got, and the
\* codes of the bytes up to there
ReportOk(b, jobs, pos, cur, codes) ==
  /\ pos \in 1..Len(jobs)
  /\ cur \in jobs[pos].from .. jobs[pos].to
  /\ codes = LineCodes(b, jobs[pos].line, jobs[pos].from, cur)

\* every job is reported
OutputOk(b, jobs, out) ==
  /\ \A i \in 1..Len(jobs) : \E n \in 1..Len(out) : out[n].pos = i
  /\ \A n \in 1..Len(out) : ReportOk(b, jobs, out[n].pos, out[n].cur, out[n].codes)

\* A job that the kernel did not start is reported as it was.
LEMMA UntouchedOk ==
  ASSUME StagingInv, NEW i \in 1..Len(input)
  PROVE  /\ Untouched(i).pos = i
         /\ ReportOk(batch, input, Untouched(i).pos, Untouched(i).cur, Untouched(i).codes)
<1>1. input[i] \in JobRecord /\ input[i].from <= input[i].to
  BY SizeFacts DEF StagingInv, StagedInOrder, JobFits
<1>2. input[i].from \in Nat /\ input[i].to \in Nat
  BY <1>1, JobFacts
<1>3. LineCodes(batch, input[i].line, input[i].from, input[i].from) = << >>
  BY <1>2, NoCodes DEF LineCodes
<1>4. Untouched(i).pos = i /\ Untouched(i).cur = input[i].from /\ Untouched(i).codes = << >>
  BY DEF Untouched
<1>5. input[i].from \in input[i].from .. input[i].to
  BY <1>1, <1>2
<1> QED BY <1>3, <1>4, <1>5 DEF ReportOk

\* A job that the kernel left off anywhere is reported up to there.
LEMMA ProgressOk ==
  ASSUME StagingInv, NEW i \in 1..Len(input), NEW done \in Nat, done <= Size(input[i])
  PROVE  LET r == Progress(i, input[i].from + done)
         IN  r.pos = i /\ ReportOk(batch, input, r.pos, r.cur, r.codes)
<1> DEFINE cur == input[i].from + done
           r == Progress(i, cur)
<1>1. input[i] \in JobRecord
  BY SizeFacts
<1>2. input[i].from \in Nat /\ input[i].to \in Nat
  BY <1>1, JobFacts
<1>3. cur \in input[i].from .. input[i].to
  BY <1>2 DEF Size
<1> HIDE DEF cur
<1>4. r.pos = i /\ r.cur = cur /\ r.codes = CodesOf(input[i].line, input[i].from, cur)
  BY DEF Progress
<1>5. r.codes = LineCodes(batch, input[i].line, input[i].from, cur)
  BY <1>4, CodesOfLine
<1> HIDE DEF r
<1>6. r.pos = i /\ ReportOk(batch, input, r.pos, r.cur, r.codes)
  BY <1>3, <1>4, <1>5 DEF ReportOk
<1> QED BY <1>6 DEF r, cur

\* The jobs that the kernel starts are as many as it says.
LEMMA StartedJobs ==
  ASSUME StagingInv, NEW processed \in 0..Len(input)
  PROVE  LET started == {i \in 1..Len(input) : Position(i) <= processed}
         IN  IsFiniteSet(started) /\ Cardinality(started) = processed
<1> DEFINE started == {i \in 1..Len(input) : Position(i) <= processed}
           n == Len(input)
           f == [i \in started |-> Position(i)]
<1>0. n \in Nat /\ processed \in Nat /\ processed <= n
  BY SizeFacts
<1>1. /\ \A i \in 1..n : Position(i) \in 1..n
      /\ \A i, k \in 1..n : Position(i) = Position(k) => i = k
      /\ \A p \in 1..n : \E i \in 1..n : Position(i) = p
  BY PositionsPermute
<1>2. started \in SUBSET (1..n) /\ IsFiniteSet(started)
  <2>1. started \in SUBSET (1..n) /\ IsFiniteSet(1..n)
    BY <1>0, SizeOfRange
  <2> HIDE DEF started, n
  <2> QED BY <2>1, FS_Subset
<1>3. f \in [started -> 1..processed]
  BY <1>0, <1>1
<1>4. \A i, k \in started : f[i] = f[k] => i = k
  BY <1>1
<1>5. \A p \in 1..processed : \E i \in started : f[i] = p
  <2> SUFFICES ASSUME NEW p \in 1..processed PROVE \E i \in started : f[i] = p
    OBVIOUS
  <2>1. p \in 1..n
    BY <1>0
  <2>2. PICK i \in 1..n : Position(i) = p
    BY <1>1, <2>1
  <2>3. i \in started /\ f[i] = p
    BY <2>2
  <2> QED BY <2>3
<1>6. f \in Bijection(started, 1..processed)
  <2> HIDE DEF f, started
  <2> QED BY <1>3, <1>4, <1>5 DEF Bijection, Injection, Surjection, IsInjective
<1>7. ExistsBijection(started, 1..processed)
  BY <1>6 DEF ExistsBijection
<1>8. Cardinality(1..processed) = Cardinality(started)
  <2> HIDE DEF started
  <2> QED BY <1>2, <1>7, FS_Bijection
<1>9. Cardinality(1..processed) = processed
  BY <1>0, SizeOfRange
<1> QED BY <1>2, <1>8, <1>9

\* Whatever order the kernel reports the jobs in, it reports all of them.
LEMMA OrderIsOnto ==
  ASSUME NEW S, IsFiniteSet(S), NEW order \in SetToSeqs(S)
  PROVE  /\ \A k \in 1..Cardinality(S) : order[k] \in S
         /\ \A i \in S : \E k \in 1..Cardinality(S) : order[k] = i
<1> DEFINE D == 1..Cardinality(S)
<1>1. order \in [D -> S] /\ \A i, j \in D : i # j => order[i] # order[j]
  BY DEF SetToSeqs
<1>2. order \in Injection(D, S)
  BY <1>1 DEF Injection, IsInjective
<1>3. Cardinality(S) \in Nat
  BY FS_CardinalityType
<1>4. IsFiniteSet(D) /\ Cardinality(D) = Cardinality(S)
  BY <1>3, SizeOfRange
<1>5. order \in Surjection(D, S)
  <2> HIDE DEF D
  <2> QED BY <1>2, <1>4, FS_Injection
<1> QED BY <1>1, <1>5 DEF Surjection

\* Without the kernel every job is reported as it was.
LEMMA TooLittleReports ==
  ASSUME StagingInv, TooLittleWork
  PROVE  OutputOk(batch, input, output')
<1> DEFINE n == Len(input)
           out == [i \in 1..n |-> Untouched(i)]
<1>1. output' = out /\ n \in Nat
  BY SizeFacts DEF TooLittleWork
<1>2. Len(out) = n
  BY <1>1
<1>3. \A i \in 1..n : out[i] = Untouched(i)
  OBVIOUS
<1>4. \A i \in 1..n : /\ out[i].pos = i
                     /\ ReportOk(batch, input, out[i].pos, out[i].cur, out[i].codes)
  BY <1>3, UntouchedOk
<1> HIDE DEF out
<1>5. OutputOk(batch, input, out)
  BY <1>2, <1>4 DEF OutputOk
<1> QED BY <1>1, <1>5

\* There are no more jobs with work than jobs.
LEMMA WorkInBatch ==
  ASSUME StagingInv
  PROVE  Work \in 0..Len(input)
<1> DEFINE W == {i \in 1..Len(input) : Size(input[i]) > 0}
<1>1. Len(input) \in Nat /\ W \in SUBSET (1..Len(input))
  BY SizeFacts
<1>2. IsFiniteSet(1..Len(input)) /\ Cardinality(1..Len(input)) = Len(input)
  BY <1>1, SizeOfRange
<1>3. Cardinality(W) <= Len(input) /\ Cardinality(W) \in Nat
  <2> HIDE DEF W
  <2> QED BY <1>1, <1>2, FS_Subset, FS_CardinalityType
<1> QED BY <1>1, <1>3 DEF Work

\* a sequence of two parts, by its places
LEMMA TwoSequences ==
  ASSUME NEW m \in Nat, NEW k \in Nat, NEW f, NEW g, NEW T,
         f \in [1..m -> T], g \in [1..k -> T]
  PROVE  /\ Len(f \o g) = m + k
         /\ \A i \in 1..m : (f \o g)[i] = f[i]
         /\ \A i \in 1..k : (f \o g)[m + i] = g[i]
         /\ \A j \in 1..m + k : (j \in 1..m) \/ \E i \in 1..k : j = m + i
<1>1. f \in Seq(T) /\ Len(f) = m /\ g \in Seq(T) /\ Len(g) = k
  OBVIOUS
<1>2. /\ Len(f \o g) = m + k
      /\ \A i \in 1..m + k : (f \o g)[i] = IF i <= m THEN f[i] ELSE g[i - m]
  BY <1>1, ConcatProperties
<1>3. \A i \in 1..m : (f \o g)[i] = f[i]
  BY <1>2
<1>4. \A i \in 1..k : (f \o g)[m + i] = g[i]
  <2> SUFFICES ASSUME NEW i \in 1..k PROVE (f \o g)[m + i] = g[i]
    OBVIOUS
  <2>1. m + i \in 1..m + k /\ ~(m + i <= m) /\ m + i - m = i
    OBVIOUS
  <2> QED BY <1>2, <2>1
<1>5. \A j \in 1..m + k : (j \in 1..m) \/ \E i \in 1..k : j = m + i
  <2> SUFFICES ASSUME NEW j \in 1..m + k, ~(j \in 1..m) PROVE \E i \in 1..k : j = m + i
    OBVIOUS
  <2>1. j - m \in 1..k /\ j = m + (j - m)
    OBVIOUS
  <2> QED BY <2>1
<1> QED BY <1>2, <1>3, <1>4, <1>5

\* The kernel reports every job, and each as far as it got.
LEMMA SIMDReports ==
  ASSUME StagingInv, SIMD
  PROVE  OutputOk(batch, input, output')
<1> DEFINE n == Len(input)
<1>1. PICK processed \in 0..Work :
       LET started == {i \in 1..Len(input) : Position(i) <= processed}
           rest == (1..Len(input)) \ started
       IN \E order \in SetToSeqs(started), done \in [started -> 0..ChunkMax] :
            /\ \A i \in started : done[i] <= Size(input[i])
            /\ output' = [k \in 1..processed |->
                            Progress(order[k], input[order[k]].from + done[order[k]])]
                         \o [k \in 1..Cardinality(rest) |->
                               Untouched(CHOOSE i \in rest : Position(i) = processed + k)]
  BY DEF SIMD
<1> DEFINE started == {i \in 1..n : Position(i) <= processed}
           rest == (1..n) \ started
           r == Cardinality(rest)
           Other(k) == CHOOSE i \in rest : Position(i) = processed + k
<1>2. PICK order \in SetToSeqs(started), done \in [started -> 0..ChunkMax] :
            /\ \A i \in started : done[i] <= Size(input[i])
            /\ output' = [k \in 1..processed |->
                            Progress(order[k], input[order[k]].from + done[order[k]])]
                         \o [k \in 1..r |-> Untouched(Other(k))]
  BY <1>1
<1> DEFINE f == [k \in 1..processed |-> Progress(order[k], input[order[k]].from + done[order[k]])]
           g == [k \in 1..r |-> Untouched(Other(k))]
           T == Range(f) \cup Range(g)
<1>3. n \in Nat /\ processed \in 0..n /\ processed \in Nat /\ ChunkMax \in Nat
  BY SizeFacts, WorkInBatch, SimdConstants
<1>4. IsFiniteSet(started) /\ Cardinality(started) = processed
  BY <1>3, StartedJobs
<1>5. r \in Nat /\ n = processed + r
  <2>1. started \cup rest = 1..n /\ started \cap rest = {}
    OBVIOUS
  <2>2. IsFiniteSet(1..n) /\ Cardinality(1..n) = n
    BY <1>3, SizeOfRange
  <2>3. IsFiniteSet(started \cup rest) /\ Cardinality(started \cup rest) = n
    BY <2>1, <2>2
  <2>4. /\ Cardinality(started \cup rest) = Cardinality(started) + Cardinality(rest)
        /\ Cardinality(rest) \in Nat
    <3> HIDE DEF started, rest
    <3> QED BY <2>1, <2>3, TwoParts
  <2> HIDE DEF started, rest, n
  <2> QED BY <1>4, <2>3, <2>4
<1>6. /\ \A k \in 1..processed : order[k] \in started
      /\ \A i \in started : \E k \in 1..processed : order[k] = i
  <2>1. order \in SetToSeqs(started)
    OBVIOUS
  <2>2. /\ \A k \in 1..Cardinality(started) : order[k] \in started
        /\ \A i \in started : \E k \in 1..Cardinality(started) : order[k] = i
    <3> HIDE DEF started
    <3> QED BY <1>4, <2>1, OrderIsOnto
  <2> QED BY <1>4, <2>2
<1>7. ASSUME NEW k \in 1..processed
      PROVE  f[k].pos = order[k] /\ ReportOk(batch, input, f[k].pos, f[k].cur, f[k].codes)
  <2>1. order[k] \in started /\ order[k] \in 1..n
    BY <1>6
  <2>2. done[order[k]] \in Nat /\ done[order[k]] <= Size(input[order[k]])
    BY <1>2, <1>3, <2>1
  <2> DEFINE i == order[k]
             p == Progress(i, input[i].from + done[i])
  <2>3. p.pos = i /\ ReportOk(batch, input, p.pos, p.cur, p.codes)
    <3> HIDE DEF i
    <3> QED BY <2>1, <2>2, ProgressOk DEF i
  <2>4. f[k] = p
    OBVIOUS
  <2> HIDE DEF p, f
  <2> QED BY <2>3, <2>4
<1>8. /\ \A i \in 1..n : Position(i) \in 1..n
      /\ \A i, k \in 1..n : Position(i) = Position(k) => i = k
      /\ \A p \in 1..n : \E i \in 1..n : Position(i) = p
  BY PositionsPermute
<1>9. ASSUME NEW k \in 1..r PROVE Other(k) \in rest /\ Position(Other(k)) = processed + k
  <2>1. processed + k \in 1..n
    BY <1>3, <1>5
  <2>2. PICK i \in 1..n : Position(i) = processed + k
    BY <1>8, <2>1
  <2>3. i \in rest
    BY <1>3, <2>2
  <2> HIDE DEF rest
  <2> QED BY <2>2, <2>3
<1>10. ASSUME NEW k \in 1..r
       PROVE  g[k].pos = Other(k) /\ ReportOk(batch, input, g[k].pos, g[k].cur, g[k].codes)
  <2>1. Other(k) \in 1..n
    BY <1>9
  <2> DEFINE i == Other(k)
             p == Untouched(i)
  <2>2. p.pos = i /\ ReportOk(batch, input, p.pos, p.cur, p.codes)
    <3> HIDE DEF Other
    <3> QED BY <2>1, UntouchedOk
  <2>3. g[k] = p
    OBVIOUS
  <2> HIDE DEF p, g
  <2> QED BY <2>2, <2>3
<1>11. ASSUME NEW i \in rest PROVE \E k \in 1..r : Other(k) = i
  <2>1. i \in 1..n /\ Position(i) \in 1..n /\ ~(Position(i) <= processed)
    BY <1>8
  <2>2. PICK k \in 1..r : Position(i) = processed + k
    <3> DEFINE p == Position(i)
    <3>1. p - processed \in 1..r /\ p = processed + (p - processed)
      <4> HIDE DEF p
      <4> QED BY <1>3, <1>5, <2>1 DEF p
    <3> HIDE DEF p
    <3> QED BY <3>1 DEF p
  <2>3. Other(k) \in 1..n /\ Position(Other(k)) = Position(i)
    BY <1>9, <2>2
  <2> QED BY <1>8, <2>1, <2>3
<1>12. f \in [1..processed -> T] /\ g \in [1..r -> T]
  BY DEF Range
<1> DEFINE out == f \o g
<1>13. output' = out
  BY <1>2
<1> HIDE DEF f, g, T, r, n, Other
<1>14. /\ Len(out) = processed + r
       /\ \A i \in 1..processed : out[i] = f[i]
       /\ \A i \in 1..r : out[processed + i] = g[i]
       /\ \A j \in 1..processed + r : (j \in 1..processed) \/ \E i \in 1..r : j = processed + i
  BY <1>3, <1>5, <1>12, TwoSequences
<1> HIDE DEF out
<1>15. ASSUME NEW i \in 1..n PROVE \E j \in 1..Len(out) : out[j].pos = i
  <2>1. CASE i \in started
    <3>1. PICK k \in 1..processed : order[k] = i
      BY <1>6, <2>1
    <3>2. out[k].pos = i
      BY <1>7, <1>14, <3>1
    <3>3. k \in 1..Len(out)
      BY <1>3, <1>5, <1>14
    <3> QED BY <3>2, <3>3
  <2>2. CASE i \notin started
    <3>1. PICK k \in 1..r : Other(k) = i
      BY <1>11, <2>2
    <3>2. out[processed + k].pos = i
      BY <1>10, <1>14, <3>1
    <3>3. processed + k \in 1..Len(out)
      BY <1>3, <1>5, <1>14
    <3> QED BY <3>2, <3>3
  <2> QED BY <2>1, <2>2
<1>16. ASSUME NEW j \in 1..Len(out)
       PROVE  ReportOk(batch, input, out[j].pos, out[j].cur, out[j].codes)
  <2>1. CASE j \in 1..processed
    BY <1>7, <1>14, <2>1
  <2>2. ASSUME NEW i \in 1..r, j = processed + i
        PROVE  ReportOk(batch, input, out[j].pos, out[j].cur, out[j].codes)
    <3>1. out[j] = g[i]
      BY <1>14, <2>2
    <3> QED BY <1>10, <3>1
  <2> QED BY <1>14, <2>1, <2>2
<1>17. OutputOk(batch, input, out)
  BY <1>15, <1>16 DEF OutputOk, n
<1> QED BY <1>13, <1>17

\* Every job's result is what its bytes are compressed to.
LEMMA ResultsAreCodes ==
  ASSUME StagingInv, OutputOk(batch, input, output), JobsOfLines(batch, input),
         batch \in Seq(LineRecord)
  PROVE  \A i \in 1..Len(input) : Result(i) = JobCodes(batch, input[i])
<1> SUFFICES ASSUME NEW i \in 1..Len(input) PROVE Result(i) = JobCodes(batch, input[i])
  OBVIOUS
<1> DEFINE k == CHOOSE n \in 1..Len(output) : output[n].pos = i
           job == input[i]
           c == batch[job.line + 1].cost
           cur == output[k].cur
<1>1. k \in 1..Len(output) /\ output[k].pos = i
  BY DEF OutputOk
<1>2. Result(i) = Completed(output[k])
  BY DEF Result
<1> HIDE DEF k
<1>3. ReportOk(batch, input, i, cur, output[k].codes)
  BY <1>1 DEF OutputOk
<1>4. cur \in job.from .. job.to /\ output[k].codes = LineCodes(batch, job.line, job.from, cur)
  BY <1>3 DEF ReportOk
<1>5. Completed(output[k]) = output[k].codes \o LineCodes(batch, job.line, cur, job.to)
  <2>1. CodesOf(job.line, cur, job.to) = LineCodes(batch, job.line, cur, job.to)
    BY CodesOfLine
  <2>2. Completed(output[k]) = output[k].codes \o CodesOf(job.line, cur, job.to)
    BY <1>1 DEF Completed
  <2> QED BY <2>1, <2>2
<1>6. job \in JobRecord /\ job.from <= job.to /\ job.line < Len(batch)
  BY DEF JobsOfLines
<1>7. job.line \in Nat /\ job.from \in Nat /\ job.to \in Nat
  BY <1>6 DEF JobRecord
<1>8. job.line + 1 \in 1..Len(batch)
  BY <1>6, <1>7
<1>9. c \in Nat
  BY <1>8, LineFacts
<1>10. cur \in Nat /\ job.from <= cur /\ cur <= job.to
  BY <1>4, <1>7
<1>11. Joins(LineCodes(batch, job.line, job.from, job.to),
             LineCodes(batch, job.line, job.from, cur), LineCodes(batch, job.line, cur, job.to))
  <2> DEFINE l == job.line
             from == job.from
             to == job.to
  <2>1. Joins(CodesBetween(c, l, from, to), CodesBetween(c, l, from, cur), CodesBetween(c, l, cur, to))
    <3>1. l \in Nat /\ from \in Nat /\ to \in Nat
      BY <1>7
    <3>2. from <= cur /\ cur <= to
      BY <1>10
    <3> HIDE DEF c, l, from, to, cur
    <3> QED BY <1>9, <1>10, <3>1, <3>2, CodesJoin
  <2> QED BY <2>1 DEF LineCodes
<1> HIDE DEF cur
<1>12. LineCodes(batch, job.line, job.from, job.to)
         = LineCodes(batch, job.line, job.from, cur) \o LineCodes(batch, job.line, cur, job.to)
  BY <1>11 DEF Joins
<1> QED BY <1>2, <1>4, <1>5, <1>12 DEF JobCodes


-----------------------------------------------------------------------------
(* The output of a batch                                                    *)

\* the lines before cur are written or staged as a whole
LinesOk(b, jobs, s, n, cur) ==
  \A l \in 0..Len(b) - 1 : l < cur =>
    LineInv(b, jobs, s[l + 1], n[l + 1], l, b[l + 1].len) /\ Begun(jobs, s[l + 1], l)

\* cur is the line that is next, or, if it is open, the one of which the
\* bytes up to off are written or staged
CopyState(b, jobs, d, s, n, cur, open, off) ==
  /\ b \in Seq(LineRecord) /\ JobsOfLines(b, jobs)
  /\ s \in [1..Len(b) -> Int] /\ n \in [1..Len(b) -> Int]
  /\ cur \in Nat /\ cur <= Len(b)
  /\ open => cur < Len(b) /\ off \in Nat
  /\ TextInv(b, jobs, d, cur, IF open THEN off ELSE 0)
  /\ \A i \in 1..Len(jobs) : jobs[i].line <= cur /\ (~open => jobs[i].line < cur)
  /\ LinesOk(b, jobs, s, n, cur)
  /\ open => LineInv(b, jobs, s[cur + 1], n[cur + 1], cur, off)

\* The line of a job is a number.
LEMMA JobLine ==
  ASSUME NEW b, NEW jobs, JobsOfLines(b, jobs), NEW i \in 1..Len(jobs)
  PROVE  jobs[i].line \in Nat
<1>1. jobs[i] \in JobRecord
  BY DEF JobsOfLines
<1> QED BY <1>1 DEF JobRecord

\* At first there is no output.
LEMMA CopyStarts ==
  ASSUME NEW b \in Seq(LineRecord), NEW off
  PROVE  CopyState(b, << >>, << >>, [l \in 1..Len(b) |-> Null], [l \in 1..Len(b) |-> 0], 0, FALSE, off)
<1> DEFINE s == [l \in 1..Len(b) |-> Null]
           n == [l \in 1..Len(b) |-> 0]
<1>1. << >> \in Seq(JobRecord) /\ Len(<< >>) = 0 /\ Len(b) \in Nat
  OBVIOUS
<1>2. JobsOfLines(b, << >>)
  BY <1>1 DEF JobsOfLines
<1>3. s \in [1..Len(b) -> Int] /\ n \in [1..Len(b) -> Int]
  BY DEF Null
<1>4. TextInv(b, << >>, << >>, 0, IF FALSE THEN off ELSE 0)
  BY TextStart
<1>5. LinesOk(b, << >>, s, n, 0)
  BY <1>1 DEF LinesOk
<1>6. 0 \in Nat /\ 0 <= Len(b)
  BY <1>1
<1> HIDE DEF s, n
<1>7. CopyState(b, << >>, << >>, s, n, 0, FALSE, off)
  BY <1>1, <1>2, <1>3, <1>4, <1>5, <1>6 DEF CopyState
<1> QED BY <1>7 DEF s, n

\* The next line is opened.
LEMMA CopyOpens ==
  ASSUME NEW b, NEW jobs, NEW d, NEW s, NEW n, NEW cur, NEW off,
         CopyState(b, jobs, d, s, n, cur, FALSE, off), cur < Len(b)
  PROVE  CopyState(b, jobs, d, [s EXCEPT ![cur + 1] = Null], [n EXCEPT ![cur + 1] = 0], cur, TRUE, 0)
<1> DEFINE t == [s EXCEPT ![cur + 1] = Null]
           m == [n EXCEPT ![cur + 1] = 0]
<1>1. /\ b \in Seq(LineRecord) /\ JobsOfLines(b, jobs)
      /\ s \in [1..Len(b) -> Int] /\ n \in [1..Len(b) -> Int]
      /\ cur \in Nat /\ Len(b) \in Nat
      /\ \A i \in 1..Len(jobs) : jobs[i].line < cur
      /\ LinesOk(b, jobs, s, n, cur)
  BY DEF CopyState
<1>2. TextInv(b, jobs, d, cur, 0)
  BY DEF CopyState
<1>3. cur + 1 \in 1..Len(b)
  BY <1>1
<1>4. /\ t \in [1..Len(b) -> Int] /\ m \in [1..Len(b) -> Int]
      /\ t[cur + 1] = Null /\ m[cur + 1] = 0
      /\ \A l \in 0..Len(b) - 1 : l < cur => t[l + 1] = s[l + 1] /\ m[l + 1] = n[l + 1]
  BY <1>1, <1>3 DEF Null
<1>5. JobsIn(jobs, cur) = {}
  <2>1. \A i \in 1..Len(jobs) : jobs[i].line # cur
    <3> SUFFICES ASSUME NEW i \in 1..Len(jobs), jobs[i].line = cur PROVE FALSE
      OBVIOUS
    <3>1. cur < cur
      BY <1>1
    <3> QED BY <1>1, <3>1
  <2> QED BY <2>1 DEF JobsIn
<1>6. LineInv(b, jobs, Null, 0, cur, 0)
  BY <1>1, <1>5, LineOpened
<1> HIDE DEF t, m
<1>7. LinesOk(b, jobs, t, m, cur)
  BY <1>1, <1>4 DEF LinesOk
<1>8. \A i \in 1..Len(jobs) : jobs[i].line <= cur
  <2> SUFFICES ASSUME NEW i \in 1..Len(jobs) PROVE jobs[i].line <= cur
    OBVIOUS
  <2>1. jobs[i].line < cur
    BY <1>1
  <2>2. jobs[i].line \in Nat
    BY <1>1, JobLine
  <2> QED BY <1>1, <2>1, <2>2
<1>9. 0 \in Nat /\ cur <= Len(b)
  BY <1>1
<1>10. CopyState(b, jobs, d, t, m, cur, TRUE, 0)
  BY <1>1, <1>2, <1>4, <1>6, <1>7, <1>8, <1>9 DEF CopyState
<1> QED BY <1>10 DEF t, m

\* A job of the open line is staged.
LEMMA CopyJob ==
  ASSUME NEW b, NEW jobs, NEW d, NEW s, NEW n, NEW cur, NEW off,
         CopyState(b, jobs, d, s, n, cur, TRUE, off),
         NEW job \in JobRecord, job.line = cur, job.from = off, off <= job.to
  PROVE  /\ CopyState(b, Append(jobs, job), d, s, n, cur, TRUE, job.to)
         /\ Begun(Append(jobs, job), s[cur + 1], cur)
<1> DEFINE js == Append(jobs, job)
           to == job.to
<1>1. /\ b \in Seq(LineRecord) /\ JobsOfLines(b, jobs)
      /\ s \in [1..Len(b) -> Int] /\ n \in [1..Len(b) -> Int]
      /\ cur \in Nat /\ cur <= Len(b) /\ Len(b) \in Nat
      /\ cur < Len(b) /\ off \in Nat
      /\ LinesOk(b, jobs, s, n, cur)
      /\ LineInv(b, jobs, s[cur + 1], n[cur + 1], cur, off)
  BY DEF CopyState
<1>2. TextInv(b, jobs, d, cur, off)
  BY DEF CopyState
<1>3. \A i \in 1..Len(jobs) : jobs[i].line <= cur
  BY DEF CopyState
<1>4. JobsOfLines(b, js) /\ TextInv(b, js, d, cur, to)
  BY <1>1, <1>2, TextJob
<1>5. LineInv(b, js, s[cur + 1], n[cur + 1], cur, to) /\ Begun(js, s[cur + 1], cur)
  BY <1>1, LineJob
<1>6. LinesOk(b, js, s, n, cur)
  <2> SUFFICES ASSUME NEW l \in 0..Len(b) - 1, l < cur
               PROVE  /\ LineInv(b, js, s[l + 1], n[l + 1], l, b[l + 1].len)
                      /\ Begun(js, s[l + 1], l)
    BY DEF LinesOk
  <2>1. LineInv(b, jobs, s[l + 1], n[l + 1], l, b[l + 1].len) /\ Begun(jobs, s[l + 1], l)
    BY <1>1 DEF LinesOk
  <2>2. l \in Nat /\ job.line # l
    BY <1>1
  <2> DEFINE o == b[l + 1].len
             si == s[l + 1]
             ni == n[l + 1]
  <2> HIDE DEF o, si, ni
  <2>3. LineInv(b, jobs, si, ni, l, o) /\ Begun(jobs, si, l)
    BY <2>1 DEF o, si, ni
  <2>4. LineInv(b, js, si, ni, l, o) /\ Begun(js, si, l)
    BY <1>1, <2>2, <2>3, LineOfOtherJob
  <2> QED BY <2>4 DEF o, si, ni
<1>7. \A i \in 1..Len(js) : js[i].line <= cur
  <2>1. /\ Len(js) = Len(jobs) + 1 /\ js[Len(jobs) + 1] = job /\ Len(jobs) \in Nat
        /\ \A i \in 1..Len(jobs) : js[i] = jobs[i]
    BY <1>1, AppendProperties DEF JobsOfLines
  <2> SUFFICES ASSUME NEW i \in 1..Len(js) PROVE js[i].line <= cur
    OBVIOUS
  <2> HIDE DEF js
  <2>2. CASE i = Len(jobs) + 1
    BY <1>1, <2>1, <2>2
  <2>3. CASE i \in 1..Len(jobs)
    BY <1>3, <2>1, <2>3
  <2> QED BY <2>1, <2>2, <2>3
<1>8. to \in Nat
  BY DEF JobRecord
<1> HIDE DEF js, to
<1>9. CopyState(b, js, d, s, n, cur, TRUE, to)
  BY <1>1, <1>4, <1>5, <1>6, <1>7, <1>8 DEF CopyState
<1> QED BY <1>5, <1>9 DEF js, to

\* A line of which all bytes are staged is closed.
LEMMA CopyCloses ==
  ASSUME NEW b, NEW jobs, NEW d, NEW s, NEW n, NEW cur, NEW off, NEW other,
         CopyState(b, jobs, d, s, n, cur, TRUE, off), off = b[cur + 1].len,
         Begun(jobs, s[cur + 1], cur)
  PROVE  CopyState(b, jobs, d, s, n, cur + 1, FALSE, other)
<1> DEFINE next == cur + 1
<1>1. /\ b \in Seq(LineRecord) /\ JobsOfLines(b, jobs)
      /\ s \in [1..Len(b) -> Int] /\ n \in [1..Len(b) -> Int]
      /\ cur \in Nat /\ Len(b) \in Nat /\ cur < Len(b)
      /\ LinesOk(b, jobs, s, n, cur)
      /\ LineInv(b, jobs, s[cur + 1], n[cur + 1], cur, b[cur + 1].len)
  BY DEF CopyState
<1>2. TextInv(b, jobs, d, next, 0)
  <2>1. TextInv(b, jobs, d, cur, b[cur + 1].len)
    BY DEF CopyState
  <2>2. UpToHere(b, cur, b[cur + 1].len) = UpToHere(b, next, 0)
    BY <1>1, FrontEnds
  <2> HIDE DEF next
  <2> QED BY <2>1, <2>2 DEF TextInv
<1>3. \A i \in 1..Len(jobs) : jobs[i].line < next
  <2> SUFFICES ASSUME NEW i \in 1..Len(jobs) PROVE jobs[i].line < next
    OBVIOUS
  <2>1. jobs[i].line <= cur
    BY DEF CopyState
  <2>2. jobs[i].line \in Nat
    BY <1>1, JobLine
  <2> QED BY <1>1, <2>1, <2>2
<1>4. LinesOk(b, jobs, s, n, next)
  <2> SUFFICES ASSUME NEW l \in 0..Len(b) - 1, l < next
               PROVE  /\ LineInv(b, jobs, s[l + 1], n[l + 1], l, b[l + 1].len)
                      /\ Begun(jobs, s[l + 1], l)
    BY DEF LinesOk
  <2>1. CASE l = cur
    BY <1>1, <2>1
  <2>2. CASE l < cur
    BY <1>1, <2>2 DEF LinesOk
  <2> QED BY <1>1, <2>1, <2>2
<1>5. next \in Nat /\ next <= Len(b)
  BY <1>1
<1>6. \A i \in 1..Len(jobs) : jobs[i].line <= next
  <2> SUFFICES ASSUME NEW i \in 1..Len(jobs) PROVE jobs[i].line <= next
    OBVIOUS
  <2>1. jobs[i].line < next /\ jobs[i].line \in Nat
    BY <1>1, <1>3, JobLine
  <2> QED BY <1>5, <2>1
<1> HIDE DEF next
<1>7. CopyState(b, jobs, d, s, n, next, FALSE, other)
  BY <1>1, <1>2, <1>3, <1>4, <1>5, <1>6 DEF CopyState
<1> QED BY <1>7 DEF next

\* The results of a batch are copied out.
LEMMA CopyFlushes ==
  ASSUME NEW b, NEW jobs, NEW d, NEW s, NEW n, NEW cur, NEW open, NEW off,
         CopyState(b, jobs, d, s, n, cur, open, off)
  PROVE  CopyState(b, << >>, d \o Staged(b, jobs, Len(jobs)),
           [k \in 1..Len(b) |-> IF s[k] = Null /\ JobsIn(jobs, k - 1) # {}
              THEN Len(d) + Len(Staged(b, jobs, Min(JobsIn(jobs, k - 1)) - 1)) ELSE s[k]],
           [k \in 1..Len(b) |-> n[k] + LengthIn(b, jobs, k - 1)],
           cur, open, off)
<1> DEFINE D == d \o Staged(b, jobs, Len(jobs))
           S(k) == IF s[k] = Null /\ JobsIn(jobs, k - 1) # {}
                   THEN Len(d) + Len(Staged(b, jobs, Min(JobsIn(jobs, k - 1)) - 1)) ELSE s[k]
           N(k) == n[k] + LengthIn(b, jobs, k - 1)
           t == [k \in 1..Len(b) |-> S(k)]
           m == [k \in 1..Len(b) |-> N(k)]
           o == IF open THEN off ELSE 0
<1>1. /\ b \in Seq(LineRecord) /\ JobsOfLines(b, jobs)
      /\ s \in [1..Len(b) -> Int] /\ n \in [1..Len(b) -> Int]
      /\ cur \in Nat /\ cur <= Len(b) /\ Len(b) \in Nat
      /\ open => cur < Len(b) /\ off \in Nat
      /\ TextInv(b, jobs, d, cur, o)
      /\ LinesOk(b, jobs, s, n, cur)
      /\ open => LineInv(b, jobs, s[cur + 1], n[cur + 1], cur, off)
  BY DEF CopyState
<1>2. ASSUME NEW l \in 0..Len(b) - 1, NEW p, LineInv(b, jobs, s[l + 1], n[l + 1], l, p)
      PROVE  /\ LineInv(b, << >>, S(l + 1), N(l + 1), l, p)
             /\ Begun(jobs, s[l + 1], l) => Begun(<< >>, S(l + 1), l)
  <2>1. l \in Nat /\ l < Len(b)
    BY <1>1
  <2> DEFINE x == s[l + 1]
             y == n[l + 1]
             z == IF x = Null /\ JobsIn(jobs, l) # {}
                  THEN Len(d) + Len(Staged(b, jobs, Min(JobsIn(jobs, l)) - 1)) ELSE x
  <2>2. /\ LineInv(b, << >>, z, y + LengthIn(b, jobs, l), l, p)
        /\ Begun(jobs, x, l) => Begun(<< >>, z, l)
    <3>1. LineInv(b, jobs, x, y, l, p)
      BY <1>2
    <3> HIDE DEF x, y, o
    <3> QED BY <1>1, <2>1, <3>1, LineFlushed
  <2>3. l + 1 - 1 = l
    OBVIOUS
  <2>4. S(l + 1) = z /\ N(l + 1) = y + LengthIn(b, jobs, l)
    BY <2>3
  <2> HIDE DEF S, N, x, y, z
  <2>5. /\ LineInv(b, << >>, S(l + 1), N(l + 1), l, p)
        /\ Begun(jobs, x, l) => Begun(<< >>, S(l + 1), l)
    BY <2>2, <2>4
  <2> QED BY <2>5 DEF x
<1>3. ASSUME NEW k \in 1..Len(b) PROVE S(k) \in Int /\ N(k) \in Int
  <2>0. Len(jobs) \in Nat /\ d \in Seq(Code)
    BY <1>1 DEF JobsOfLines, TextInv
  <2>1. LengthIn(b, jobs, k - 1) \in Nat
    BY <1>1, LengthInType
  <2>2. s[k] \in Int /\ n[k] \in Int
    BY <1>1
  <2> DEFINE J == JobsIn(jobs, k - 1)
             R == Staged(b, jobs, Min(J) - 1)
  <2>3. J # {} => Len(R) \in Nat
    <3> SUFFICES ASSUME J # {} PROVE Len(R) \in Nat
      OBVIOUS
    <3>1. Min(J) \in J
      <4>1. J \subseteq Nat
        BY <2>0 DEF JobsIn
      <4>2. \E x \in J : \A y \in J : x <= y
        <5> HIDE DEF J
        <5> QED BY <4>1, LeastNatural
      <4> HIDE DEF J
      <4> QED BY <4>2 DEF Min
    <3>2. Min(J) \in 1..Len(jobs)
      BY <3>1 DEF JobsIn
    <3> DEFINE q == Min(J) - 1
    <3>3. q \in Nat /\ q <= Len(jobs)
      <4> HIDE DEF J
      <4> QED BY <2>0, <3>2
    <3>4. Staged(b, jobs, q) \in Seq(Code)
      <4> HIDE DEF q
      <4> QED BY <1>1, <3>3, StagedType
    <3> HIDE DEF J
    <3> QED BY <3>4
  <2>4. Len(d) \in Nat
    BY <2>0
  <2> HIDE DEF J, R
  <2>5. J # {} => Len(d) + Len(R) \in Int
    BY <2>3, <2>4
  <2>6. S(k) = IF s[k] = Null /\ J # {} THEN Len(d) + Len(R) ELSE s[k]
    BY DEF J, R
  <2>7. N(k) = n[k] + LengthIn(b, jobs, k - 1)
    OBVIOUS
  <2> HIDE DEF S, N
  <2>8. S(k) \in Int
    BY <2>2, <2>5, <2>6
  <2>9. N(k) \in Int
    <3> DEFINE x == n[k]
               y == LengthIn(b, jobs, k - 1)
    <3>1. x \in Int /\ y \in Nat /\ N(k) = x + y
      BY <2>1, <2>2, <2>7
    <3> HIDE DEF x, y
    <3> QED BY <3>1
  <2> QED BY <2>8, <2>9
<1> HIDE DEF S, N
<1>4. t \in [1..Len(b) -> Int] /\ m \in [1..Len(b) -> Int]
  BY <1>3
<1>5. \A l \in 0..Len(b) - 1 : t[l + 1] = S(l + 1) /\ m[l + 1] = N(l + 1)
  BY <1>1
<1> HIDE DEF t, m
<1>6. TextInv(b, << >>, D, cur, o)
  <2> HIDE DEF o
  <2> QED BY <1>1, TextFlushed
<1>7. LinesOk(b, << >>, t, m, cur)
  <2> SUFFICES ASSUME NEW l \in 0..Len(b) - 1, l < cur
               PROVE  /\ LineInv(b, << >>, t[l + 1], m[l + 1], l, b[l + 1].len)
                      /\ Begun(<< >>, t[l + 1], l)
    BY DEF LinesOk
  <2>1. LineInv(b, jobs, s[l + 1], n[l + 1], l, b[l + 1].len) /\ Begun(jobs, s[l + 1], l)
    BY <1>1 DEF LinesOk
  <2>2. LineInv(b, << >>, S(l + 1), N(l + 1), l, b[l + 1].len) /\ Begun(<< >>, S(l + 1), l)
    BY <1>2, <2>1
  <2> QED BY <1>5, <2>2
<1>8. open => LineInv(b, << >>, t[cur + 1], m[cur + 1], cur, off)
  <2> SUFFICES ASSUME open PROVE LineInv(b, << >>, t[cur + 1], m[cur + 1], cur, off)
    OBVIOUS
  <2>1. cur \in 0..Len(b) - 1
    BY <1>1
  <2>2. LineInv(b, jobs, s[cur + 1], n[cur + 1], cur, off)
    BY <1>1
  <2>3. LineInv(b, << >>, S(cur + 1), N(cur + 1), cur, off)
    BY <1>2, <2>1, <2>2
  <2> QED BY <1>5, <2>1, <2>3
<1>9. << >> \in Seq(JobRecord) /\ Len(<< >>) = 0
  OBVIOUS
<1>10. JobsOfLines(b, << >>)
  BY <1>9 DEF JobsOfLines
<1> HIDE DEF D
<1>11. CopyState(b, << >>, D, t, m, cur, open, off)
  BY <1>1, <1>4, <1>6, <1>7, <1>8, <1>9, <1>10 DEF CopyState
<1> QED BY <1>11 DEF D, t, m, S, N


-----------------------------------------------------------------------------
(* The invariant                                                            *)

\* curOff bytes of line curLine are staged or written
InLine == at \in {"job", "check"} \/ (at \in {"kernel", "finish"} /\ curLine = prevLine)

LensTotal(b, n) == SumFunctionOnSet([k \in 1..n |-> b[k].len], 1..n)

\* no line is refused for which the buffer has the conservative space
SpaceOk(b, room, n) == n < Len(b) => room < 7 + 2 * LensTotal(b, n + 1)

Left(room, d) == IF Len(d) <= room THEN room - Len(d) ELSE Huge

CopyControl ==
  /\ at = "check" => \/ BatchFull
                     \/ /\ curOff = batch[curLine + 1].len /\ input # << >>
                        /\ Begun(input, strOut[curLine + 1], curLine)
  /\ at = "line" /\ input # << >> => curLine < Len(batch) /\ outOff <= CodeRoom /\ Fits(curLine)
  /\ at = "line" /\ input = << >> => outOff = 0 /\ budget = Left(size, dst)
  /\ at = "finish" => OutputOk(batch, input, output)
  /\ at = "returned" => input = << >> /\ count = curLine /\ SpaceOk(batch, size, count)

CopyInv ==
  /\ StagingInv /\ size \in Nat
  /\ CopyState(batch, input, dst, strOut, lenOut, curLine, InLine, curOff)
  /\ CopyControl

\* The invariant holds at first; the lemmas below are its steps.
LEMMA CopyInit == Init => CopyInv
<1> SUFFICES ASSUME Init PROVE CopyInv
  OBVIOUS
<1>1. /\ batch \in Seq(LineRecord) /\ size \in Nat
      /\ at = "line" /\ curLine = 0 /\ curOff = 0 /\ outOff = 0 /\ budget = size
      /\ input = << >> /\ dst = << >>
      /\ strOut = [l \in 1..Len(batch) |-> Null] /\ lenOut = [l \in 1..Len(batch) |-> 0]
  BY SimdConstants DEF Init
<1>2. InLine = FALSE
  BY <1>1 DEF InLine
<1>3. CopyState(batch, << >>, << >>, strOut, lenOut, 0, FALSE, curOff)
  BY <1>1, CopyStarts
<1>4. CopyState(batch, input, dst, strOut, lenOut, curLine, InLine, curOff)
  BY <1>1, <1>2, <1>3
<1>5. budget = Left(size, dst)
  <2>1. Len(dst) = 0
    BY <1>1
  <2> QED BY <1>1, <2>1 DEF Left
<1>6. CopyControl
  BY <1>1, <1>5 DEF CopyControl
<1> QED BY <1>1, <1>4, <1>6, StagingInit DEF CopyInv

\* StartLine opens a line.
LEMMA StartLineCopies ==
  ASSUME CopyInv, StartLine
  PROVE  CopyState(batch, input, dst, strOut, lenOut, curLine, InLine, curOff)' /\ CopyControl'
<1>1. /\ at = "line" /\ at' = "job" /\ curLine < Len(batch) /\ curOff' = 0
      /\ strOut' = [strOut EXCEPT ![curLine + 1] = Null]
      /\ lenOut' = [lenOut EXCEPT ![curLine + 1] = 0]
      /\ UNCHANGED <<batch, curLine, input, dst>>
  BY DEF StartLine, callVars
<1>2. InLine = FALSE /\ InLine' = TRUE
  BY <1>1 DEF InLine
<1>3. CopyState(batch, input, dst, strOut, lenOut, curLine, FALSE, curOff)
  BY <1>2 DEF CopyInv
<1>4. CopyState(batch, input, dst, strOut', lenOut', curLine, TRUE, 0)
  BY <1>1, <1>3, CopyOpens
<1>5. CopyState(batch, input, dst, strOut, lenOut, curLine, InLine, curOff)'
  BY <1>1, <1>2, <1>4
<1>6. CopyControl'
  BY <1>1 DEF CopyControl
<1> QED BY <1>5, <1>6

\* CodeBaseFull ends the batch, not the line.
LEMMA CodeBaseFullCopies ==
  ASSUME CopyInv, CodeBaseFull
  PROVE  CopyState(batch, input, dst, strOut, lenOut, curLine, InLine, curOff)' /\ CopyControl'
<1>1. /\ at = "job" /\ at' = "check" /\ outOff + WorstCase > CodeRoom /\ outOff' = outOff + WorstCase
      /\ UNCHANGED <<batch, curLine, curOff, input, dst, strOut, lenOut>>
  BY DEF CodeBaseFull, callVars, lineVars, outVars
<1>2. InLine = TRUE /\ InLine' = TRUE
  BY <1>1 DEF InLine
<1>3. CopyState(batch, input, dst, strOut, lenOut, curLine, InLine, curOff)'
  BY <1>1, <1>2 DEF CopyInv
<1>4. BatchFull'
  BY <1>1 DEF BatchFull
<1>5. CopyControl'
  BY <1>1, <1>4 DEF CopyControl
<1> QED BY <1>3, <1>5

\* AddJob takes the line further, at most to its end.
LEMMA AddJobCopies ==
  ASSUME CopyInv, AddJob
  PROVE  CopyState(batch, input, dst, strOut, lenOut, curLine, InLine, curOff)' /\ CopyControl'
<1>1. /\ at = "job" /\ at' = IF Len(input) + 1 # JobMax /\ curOff' < Length(curLine) THEN "job" ELSE "check"
      /\ input' = Append(input, Job) /\ curOff' = curOff + Chunk
      /\ UNCHANGED <<batch, curLine, dst, strOut, lenOut>>
  BY DEF AddJob, callVars, outVars
<1>2. at' \in {"job", "check"}
  BY <1>1
<1>3. InLine = TRUE /\ InLine' = TRUE
  BY <1>1, <1>2 DEF InLine
<1>4. StagingTypes /\ LineIsOpen
  BY <1>1 DEF CopyInv, StagingInv, StagingControl
<1>5. /\ Chunk \in 0..ChunkMax /\ curOff + Chunk <= batch[curLine + 1].len
      /\ curLine \in Nat /\ curOff \in Nat /\ inOff \in Nat /\ outOff \in Nat
      /\ input \in Seq(JobRecord)
      /\ Length(curLine) = batch[curLine + 1].len /\ Length(curLine) \in Nat
  BY <1>4, ChunkInLine, OpenLineFacts DEF StagingTypes, LineIsOpen
<1> DEFINE job == Job
           to == curOff + Chunk
<1>6. to \in Nat /\ curOff <= to
  BY <1>5, SimdConstants
<1>7. /\ job \in JobRecord /\ job.line = curLine /\ job.from = curOff /\ job.to = to
      /\ curOff <= job.to
  <2>1. job = [line |-> curLine, from |-> curOff, to |-> to, in |-> inOff, out |-> outOff]
    BY DEF Job
  <2> HIDE DEF job, to
  <2> QED BY <1>5, <1>6, <2>1 DEF JobRecord
<1> HIDE DEF job, to
<1>8. CopyState(batch, input, dst, strOut, lenOut, curLine, TRUE, curOff)
  BY <1>3 DEF CopyInv
<1>9. /\ CopyState(batch, Append(input, job), dst, strOut, lenOut, curLine, TRUE, job.to)
      /\ Begun(Append(input, job), strOut[curLine + 1], curLine)
  BY <1>7, <1>8, CopyJob
<1>10. input' = Append(input, job) /\ curOff' = job.to
  BY <1>1, <1>7 DEF job, to
<1>11. CopyState(batch, input, dst, strOut, lenOut, curLine, InLine, curOff)'
  BY <1>1, <1>3, <1>9, <1>10
<1>12. Begun(input', strOut'[curLine' + 1], curLine')
  BY <1>1, <1>9, <1>10
<1>13. input' # << >> /\ Len(input') = Len(input) + 1
  BY <1>5, <1>7, <1>10, AppendProperties
<1>14. at' = "check" => BatchFull' \/ curOff' = batch'[curLine' + 1].len
  <2>1. at' = "check" => Len(input) + 1 = JobMax \/ ~(curOff' < Length(curLine))
    BY <1>1
  <2>2. Len(input) + 1 = JobMax => BatchFull'
    BY <1>13, SimdConstants DEF BatchFull
  <2>3. curOff' \in Nat /\ curOff' <= Length(curLine)
    BY <1>5, <1>6, <1>10, <1>7 DEF to
  <2>4. ~(curOff' < Length(curLine)) => curOff' = batch'[curLine' + 1].len
    BY <1>1, <1>5, <2>3, SMTT(30)
  <2> QED BY <2>1, <2>2, <2>4
<1>15. CopyControl'
  BY <1>2, <1>12, <1>13, <1>14 DEF CopyControl
<1> QED BY <1>11, <1>15

\* Check closes the line if the batch has room: it was staged to its end.
LEMMA CheckCopies ==
  ASSUME CopyInv, Check
  PROVE  CopyState(batch, input, dst, strOut, lenOut, curLine, InLine, curOff)' /\ CopyControl'
<1>1. /\ at = "check"
      /\ UNCHANGED <<batch, prevLine, curOff, outOff, budget, input, dst, strOut, lenOut>>
      /\ curLine' = IF BatchFull THEN curLine ELSE curLine + 1
      /\ at' = IF BatchFull \/ curLine + 1 >= Len(batch) \/ ~Fits(curLine + 1) THEN "kernel" ELSE "line"
  BY DEF Check, callVars, roomVars, outVars
<1>2. InLine = TRUE
  BY <1>1 DEF InLine
<1>3. CopyState(batch, input, dst, strOut, lenOut, curLine, TRUE, curOff)
  BY <1>2 DEF CopyInv
<1>4. /\ curLine = prevLine /\ curLine \in Nat /\ outOff \in Nat
      /\ batch \in Seq(LineRecord) /\ Len(batch) \in Nat
  BY <1>1 DEF CopyInv, StagingInv, StagingControl, StagingTypes
<1>5. CASE BatchFull
  <2>1. at' = "kernel" /\ curLine' = curLine
    BY <1>1, <1>5
  <2>2. InLine' = TRUE
    BY <1>1, <1>4, <2>1 DEF InLine
  <2>3. CopyState(batch, input, dst, strOut, lenOut, curLine, InLine, curOff)'
    BY <1>1, <1>3, <2>1, <2>2
  <2>4. CopyControl'
    BY <2>1 DEF CopyControl
  <2> QED BY <2>3, <2>4
<1>6. CASE ~BatchFull
  <2>1. /\ curOff = batch[curLine + 1].len /\ input # << >>
        /\ Begun(input, strOut[curLine + 1], curLine)
    BY <1>1, <1>6 DEF CopyInv, CopyControl
  <2>2. curLine' = curLine + 1 /\ at' \in {"kernel", "line"}
    BY <1>1, <1>6
  <2>3. curLine' # prevLine'
    BY <1>1, <1>4, <2>2
  <2>4. InLine' = FALSE
    BY <2>2, <2>3 DEF InLine
  <2>5. CopyState(batch, input, dst, strOut, lenOut, curLine + 1, FALSE, curOff)
    BY <1>3, <2>1, CopyCloses
  <2>6. CopyState(batch, input, dst, strOut, lenOut, curLine, InLine, curOff)'
    BY <1>1, <2>2, <2>4, <2>5
  <2>7. at' = "line" => curLine' < Len(batch') /\ outOff' <= CodeRoom /\ Fits(curLine)'
    <3> SUFFICES ASSUME at' = "line"
                 PROVE  curLine' < Len(batch') /\ outOff' <= CodeRoom /\ Fits(curLine)'
      OBVIOUS
    <3>1. ~(curLine + 1 >= Len(batch)) /\ Fits(curLine + 1)
      BY <1>1, <1>6
    <3>2. curLine' < Len(batch')
      BY <1>1, <1>4, <2>2, <3>1
    <3>3. outOff' <= CodeRoom
      BY <1>1, <1>4, <1>6, SimdConstants DEF BatchFull
    <3>4. Fits(curLine)'
      BY <1>1, <2>2, <3>1 DEF Fits, Length
    <3> QED BY <3>2, <3>3, <3>4
  <2>8. input' # << >>
    BY <1>1, <2>1
  <2>9. CopyControl'
    BY <2>2, <2>7, <2>8 DEF CopyControl
  <2> QED BY <2>6, <2>9
<1> QED BY <1>5, <1>6

\* The kernel changes no job.
LEMMA KernelCopies ==
  ASSUME CopyInv, SIMD \/ TooLittleWork
  PROVE  CopyState(batch, input, dst, strOut, lenOut, curLine, InLine, curOff)' /\ CopyControl'
<1>1. /\ at = "kernel" /\ at' = "finish"
      /\ UNCHANGED <<batch, curLine, prevLine, curOff, input, dst, strOut, lenOut>>
  BY DEF SIMD, TooLittleWork, callVars, lineVars, outVars
<1>2. InLine' = InLine
  BY <1>1 DEF InLine
<1>3. CopyState(batch, input, dst, strOut, lenOut, curLine, InLine, curOff)'
  BY <1>1, <1>2 DEF CopyInv
<1>4. OutputOk(batch, input, output')
  BY SIMDReports, TooLittleReports DEF CopyInv
<1>5. CopyControl'
  BY <1>1, <1>4 DEF CopyControl
<1> QED BY <1>3, <1>5

\* Finish writes what was staged.
LEMMA FinishCopies ==
  ASSUME CopyInv, Finish
  PROVE  CopyState(batch, input, dst, strOut, lenOut, curLine, InLine, curOff)' /\ CopyControl'
<1> DEFINE n == Len(input)
           S(k) == IF strOut[k] = Null /\ JobsIn(input, k - 1) # {}
                   THEN Len(dst) + Len(Staged(batch, input, Min(JobsIn(input, k - 1)) - 1))
                   ELSE strOut[k]
           N(k) == lenOut[k] + LengthIn(batch, input, k - 1)
<1>1. /\ at = "finish" /\ at' = (IF curLine = prevLine THEN "job" ELSE "line")
      /\ outOff' = 0 /\ input' = << >> /\ budget' = (IF Len(dst') <= size THEN size - Len(dst') ELSE Huge)
      /\ UNCHANGED <<batch, size, curLine, prevLine, curOff>>
      /\ dst' = dst \o Results(n)
      /\ strOut' = [k \in DOMAIN strOut |->
           IF strOut[k] = Null /\ JobsOf(k - 1) # {}
           THEN Len(dst) + Len(Results(Min(JobsOf(k - 1)) - 1))
           ELSE strOut[k]]
      /\ lenOut' = [k \in DOMAIN lenOut |->
           lenOut[k] + SumFunction([i \in JobsOf(k - 1) |-> Len(Result(i))])]
  BY DEF Finish, callVars, lineVars
<1>2. /\ StagingInv /\ OutputOk(batch, input, output)
      /\ CopyState(batch, input, dst, strOut, lenOut, curLine, InLine, curOff)
  BY <1>1 DEF CopyInv, CopyControl
<1>3. /\ batch \in Seq(LineRecord) /\ JobsOfLines(batch, input) /\ n \in Nat
      /\ DOMAIN strOut = 1..Len(batch) /\ DOMAIN lenOut = 1..Len(batch)
  BY <1>2 DEF CopyState, JobsOfLines
<1>4. \A i \in 1..n : Result(i) = JobCodes(batch, input[i])
  BY <1>2, <1>3, ResultsAreCodes
<1>5. \A l : JobsOf(l) = JobsIn(input, l)
  BY DEF JobsOf, JobsIn
<1>6. \A m \in 0..n : Results(m) = Staged(batch, input, m)
  <2> SUFFICES ASSUME NEW m \in 0..n PROVE Results(m) = Staged(batch, input, m)
    OBVIOUS
  <2>1. \A i \in 1..m : Result(i) = JobCodes(batch, input[i])
    BY <1>3, <1>4
  <2>2. [i \in 1..m |-> Result(i)] = [i \in 1..m |-> JobCodes(batch, input[i])]
    BY <2>1
  <2> QED BY <2>2 DEF Results, Staged
<1>7. \A k \in 1..Len(batch) : JobsIn(input, k - 1) # {} => Min(JobsIn(input, k - 1)) - 1 \in 0..n
  <2> SUFFICES ASSUME NEW k \in 1..Len(batch), JobsIn(input, k - 1) # {}
               PROVE  Min(JobsIn(input, k - 1)) - 1 \in 0..n
    OBVIOUS
  <2> DEFINE J == JobsIn(input, k - 1)
  <2>1. J \subseteq Nat /\ J \subseteq 1..n
    BY <1>3 DEF JobsIn
  <2>2. \E x \in J : \A y \in J : x <= y
    <3> HIDE DEF J, n
    <3> QED BY <2>1, LeastNatural DEF J
  <2>3. Min(J) \in J
    <3> HIDE DEF J
    <3> QED BY <2>2 DEF Min
  <2>4. Min(J) \in 1..n
    BY <2>1, <2>3
  <2> HIDE DEF J, n
  <2>5. Min(J) - 1 \in 0..n
    BY <1>3, <2>4
  <2> QED BY <2>5 DEF J
<1>8. strOut' = [k \in 1..Len(batch) |-> S(k)]
  <2>1. ASSUME NEW k \in 1..Len(batch)
        PROVE  (IF strOut[k] = Null /\ JobsOf(k - 1) # {}
                THEN Len(dst) + Len(Results(Min(JobsOf(k - 1)) - 1)) ELSE strOut[k]) = S(k)
    <3>1. JobsOf(k - 1) = JobsIn(input, k - 1)
      BY <1>5
    <3>2. JobsIn(input, k - 1) # {} =>
            Results(Min(JobsIn(input, k - 1)) - 1) = Staged(batch, input, Min(JobsIn(input, k - 1)) - 1)
      BY <1>6, <1>7
    <3> QED BY <3>1, <3>2
  <2> HIDE DEF S
  <2> QED BY <1>1, <1>3, <2>1
<1>9. lenOut' = [k \in 1..Len(batch) |-> N(k)]
  <2>1. ASSUME NEW k \in 1..Len(batch)
        PROVE  lenOut[k] + SumFunction([i \in JobsOf(k - 1) |-> Len(Result(i))]) = N(k)
    <3> DEFINE J == JobsIn(input, k - 1)
               f == [i \in J |-> Len(Result(i))]
               g == [i \in J |-> Len(JobCodes(batch, input[i]))]
    <3>1. JobsOf(k - 1) = J
      BY <1>5
    <3>2. J \subseteq 1..n
      BY DEF JobsIn
    <3>3. f = g
      <4>1. \A i \in J : Len(Result(i)) = Len(JobCodes(batch, input[i]))
        BY <1>4, <3>2
      <4> HIDE DEF J
      <4> QED BY <4>1
    <3>4. SumFunction(f) = LengthIn(batch, input, k - 1)
      <4>1. DOMAIN f = J
        OBVIOUS
      <4>2. SumFunction(f) = SumFunctionOnSet(f, J)
        <5> HIDE DEF f, J
        <5> QED BY <4>1 DEF SumFunction
      <4>3. LengthIn(batch, input, k - 1) = SumFunctionOnSet(g, J)
        BY DEF LengthIn
      <4> HIDE DEF f, g, J
      <4> QED BY <3>3, <4>2, <4>3
    <3>5. SumFunction([i \in JobsOf(k - 1) |-> Len(Result(i))]) = SumFunction(f)
      <4> HIDE DEF J
      <4> QED BY <3>1
    <3> HIDE DEF f
    <3> QED BY <3>4, <3>5
  <2> HIDE DEF N
  <2> QED BY <1>1, <1>3, <2>1
<1>10. dst' = dst \o Staged(batch, input, n)
  <2>1. n \in 0..n
    BY <1>3
  <2> QED BY <1>1, <1>6, <2>1
<1>11. InLine' = InLine
  BY <1>1 DEF InLine
<1>12. CopyState(batch, << >>, dst', strOut', lenOut', curLine, InLine, curOff)
  <2>1. CopyState(batch, << >>, dst \o Staged(batch, input, n),
           [k \in 1..Len(batch) |-> S(k)], [k \in 1..Len(batch) |-> N(k)],
           curLine, InLine, curOff)
    BY <1>2, CopyFlushes
  <2> HIDE DEF S, N, n
  <2> QED BY <1>8, <1>9, <1>10, <2>1
<1>13. CopyState(batch, input, dst, strOut, lenOut, curLine, InLine, curOff)'
  BY <1>1, <1>11, <1>12
<1>14. budget' = Left(size', dst') /\ at' \in {"job", "line"}
  BY <1>1 DEF Left
<1>15. CopyControl'
  BY <1>1, <1>14 DEF CopyControl
<1> QED BY <1>13, <1>15


-----------------------------------------------------------------------------
(* What the call returns                                                    *)

\* One more line adds its length.
LEMMA LensGrow ==
  ASSUME NEW b \in Seq(LineRecord), NEW l \in Nat, l < Len(b)
  PROVE  /\ LensTotal(b, l) \in Nat
         /\ LensTotal(b, l + 1) = LensTotal(b, l) + b[l + 1].len
<1> DEFINE f == [k \in 1..l |-> b[k].len]
           g == [k \in 1..l + 1 |-> b[k].len]
           m == l + 1
<1>1. \A k \in 1..l + 1 : b[k].len \in Nat
  <2> SUFFICES ASSUME NEW k \in 1..l + 1 PROVE b[k].len \in Nat
    OBVIOUS
  <2>1. k \in 1..Len(b)
    OBVIOUS
  <2> QED BY <2>1, LineFacts
<1>2. IsFiniteSet(1..l) /\ 1..l + 1 = (1..l) \cup {m} /\ m \notin 1..l
  BY SizeOfRange
<1>3. \A k \in 1..l : g[k] \in Int /\ f[k] = g[k]
  BY <1>1
<1>4. g[m] \in Int /\ g[m] = b[m].len
  BY <1>1
<1>5. SumFunctionOnSet(g, (1..l) \cup {m}) = g[m] + SumFunctionOnSet(g, 1..l)
  <2> HIDE DEF g, m
  <2> QED BY <1>2, <1>3, <1>4, SumAdd
<1>6. SumFunctionOnSet(f, 1..l) = SumFunctionOnSet(g, 1..l)
  <2> HIDE DEF f, g
  <2> QED BY <1>2, <1>3, SumSame
<1>7. SumFunctionOnSet(f, 1..l) \in Nat
  <2>1. \A k \in 1..l : f[k] \in Nat
    BY <1>1
  <2> HIDE DEF f
  <2> QED BY <1>2, <2>1, SumType
<1>8. LensTotal(b, l + 1) = SumFunctionOnSet(g, (1..l) \cup {m}) /\ LensTotal(b, l) = SumFunctionOnSet(f, 1..l)
  BY <1>2 DEF LensTotal
<1> HIDE DEF f, g
<1> QED BY <1>4, <1>5, <1>6, <1>7, <1>8

\* No byte has more than two codes.
LEMMA CostBounded ==
  ASSUME NEW b \in Seq(LineRecord), NEW l \in Nat, l < Len(b)
  PROVE  LinesTotal(b, l) <= 2 * LensTotal(b, l)
<1> DEFINE P == {k \in Nat : k < Len(b) => LinesTotal(b, k) <= 2 * LensTotal(b, k)}
<1>1. 0 \in P
  <2>1. 1..0 = {}
    OBVIOUS
  <2>2. LinesTotal(b, 0) = 0 /\ LensTotal(b, 0) = 0
    BY <2>1, SumEmpty DEF LinesTotal, LensTotal
  <2> QED BY <2>2
<1>2. ASSUME NEW k \in Nat, k \in P PROVE k + 1 \in P
  <2> SUFFICES ASSUME k + 1 < Len(b) PROVE LinesTotal(b, k + 1) <= 2 * LensTotal(b, k + 1)
    OBVIOUS
  <2>1. k < Len(b) /\ LinesTotal(b, k) <= 2 * LensTotal(b, k) /\ k + 1 \in 1..Len(b)
    BY <1>2
  <2> DEFINE c == b[k + 1].cost
             n == b[k + 1].len
             t == LinesTotal(b, k)
             u == LensTotal(b, k)
  <2>2. c \in {1, 2} /\ n \in Nat
    BY <2>1, LineFacts
  <2>3. t \in Nat /\ LinesTotal(b, k + 1) = t + c * n
    BY <2>1, TotalGrows
  <2>4. u \in Nat /\ LensTotal(b, k + 1) = u + n
    BY <2>1, LensGrow
  <2> HIDE DEF c, n
  <2>5. c * n <= 2 * n /\ c * n \in Nat
    <3>1. CASE c = 1
      BY <2>2, <3>1
    <3>2. CASE c = 2
      BY <2>2, <3>2
    <3> QED BY <2>2, <3>1, <3>2
  <2> DEFINE p == c * n
  <2>6. t <= 2 * u
    BY <2>1
  <2> HIDE DEF t, u, p
  <2>7. p \in Nat /\ p <= 2 * n
    BY <2>5 DEF p
  <2>8. t + p <= 2 * (u + n)
    BY <2>2, <2>3, <2>4, <2>6, <2>7
  <2> QED BY <2>3, <2>4, <2>8 DEF p
<1>3. Nat \subseteq P
  <2> HIDE DEF P
  <2> QED BY <1>1, <1>2, Induction
<1> QED BY <1>3

\* Return happens only between batches, when the next line does not fit.
LEMMA ReturnCopies ==
  ASSUME CopyInv, Return
  PROVE  CopyState(batch, input, dst, strOut, lenOut, curLine, InLine, curOff)' /\ CopyControl'
<1>1. /\ at = "line" /\ at' = "returned" /\ count' = curLine
      /\ curLine < Len(batch) /\ outOff <= CodeRoom => ~Fits(curLine)
      /\ UNCHANGED <<batch, size, curLine, curOff, input, dst, strOut, lenOut>>
  BY DEF Return, callVars, lineVars, outVars
<1>2. InLine = FALSE /\ InLine' = FALSE
  BY <1>1 DEF InLine
<1>3. CopyState(batch, input, dst, strOut, lenOut, curLine, FALSE, curOff)
  BY <1>2 DEF CopyInv
<1>4. CopyState(batch, input, dst, strOut, lenOut, curLine, InLine, curOff)'
  BY <1>1, <1>2, <1>3
<1>5. input = << >> /\ outOff = 0 /\ budget = Left(size, dst)
  BY <1>1 DEF CopyInv, CopyControl
<1>6. SpaceOk(batch, size, curLine)
  <2> SUFFICES ASSUME curLine < Len(batch) PROVE size < 7 + 2 * LensTotal(batch, curLine + 1)
    BY DEF SpaceOk
  <2>1. /\ batch \in Seq(LineRecord) /\ curLine \in Nat /\ size \in Nat
        /\ TextInv(batch, input, dst, curLine, 0)
    BY <1>3 DEF CopyState, CopyInv
  <2>2. ~Fits(curLine)
    BY <1>1, <1>5, SimdConstants
  <2> DEFINE len == batch[curLine + 1].len
             t == LinesTotal(batch, curLine)
             u == LensTotal(batch, curLine)
  <2>3. len \in Nat /\ ~(2 * len + 7 <= budget)
    <3>1. curLine + 1 \in 1..Len(batch)
      BY <2>1
    <3>2. len \in Nat
      BY <2>1, <3>1, LineFacts
    <3> QED BY <2>2, <3>2 DEF Fits, Length
  <2>4. dst = Whole(batch, curLine) /\ Len(dst) = t /\ t \in Nat
    <3>1. Joins(UpToHere(batch, curLine, 0), dst, Staged(batch, input, Len(input))) /\ dst \in Seq(Code)
      BY <2>1 DEF TextInv
    <3>2. Staged(batch, input, Len(input)) = << >>
      <4>1. Len(input) = 0
        BY <1>5
      <4> QED BY <4>1, StagedNone
    <3>3. UpToHere(batch, curLine, 0) = Whole(batch, curLine)
      BY <2>1, FrontIsWhole
    <3>4. dst \o << >> = dst
      BY <3>1, ConcatEmptySeq
    <3>5. dst = Whole(batch, curLine)
      BY <3>1, <3>2, <3>3, <3>4 DEF Joins
    <3> QED BY <2>1, <3>5, WholeLength
  <2>5. u \in Nat /\ LensTotal(batch, curLine + 1) = u + len /\ t <= 2 * u
    BY <2>1, LensGrow, CostBounded
  <2>6. budget = IF t <= size THEN size - t ELSE Huge
    BY <1>5, <2>4 DEF Left
  <2> HIDE DEF len, t, u
  <2>7. size < 7 + 2 * (u + len)
    <3>1. CASE t <= size
      <4>1. budget = size - t
        BY <2>6, <3>1
      <4> QED BY <2>1, <2>3, <2>4, <2>5, <3>1, <4>1
    <3>2. CASE ~(t <= size)
      BY <2>1, <2>3, <2>4, <2>5, <3>2
    <3> QED BY <3>1, <3>2
  <2> QED BY <2>5, <2>7
<1>7. CopyControl'
  BY <1>1, <1>5, <1>6 DEF CopyControl
<1> QED BY <1>4, <1>7

\* Every step keeps the invariant.
LEMMA CopyStep == CopyInv /\ [Next]_vars => CopyInv'
<1> SUFFICES ASSUME CopyInv, [Next]_vars PROVE CopyInv'
  OBVIOUS
<1> DEFINE Kept == CopyState(batch, input, dst, strOut, lenOut, curLine, InLine, curOff)' /\ CopyControl'
<1>1. StagingInv'
  BY StagingStep DEF CopyInv
<1>2. size' = size
  BY DEF Next, vars, callVars, StartLine, Return, CodeBaseFull, AddJob, Check, SIMD, TooLittleWork, Finish
<1>3. Kept
  <2>1. CASE StartLine
    BY <2>1, StartLineCopies
  <2>2. CASE Return
    BY <2>2, ReturnCopies
  <2>3. CASE CodeBaseFull
    BY <2>3, CodeBaseFullCopies
  <2>4. CASE AddJob
    BY <2>4, AddJobCopies
  <2>5. CASE Check
    BY <2>5, CheckCopies
  <2>6. CASE SIMD \/ TooLittleWork
    BY <2>6, KernelCopies
  <2>7. CASE Finish
    BY <2>7, FinishCopies
  <2>8. CASE UNCHANGED vars
    <3>1. UNCHANGED <<batch, size, at, curLine, prevLine, curOff, outOff, budget, input, output, dst,
                      strOut, lenOut, count>>
      BY <2>8 DEF vars, callVars, lineVars, roomVars, outVars
    <3>2. InLine' = InLine
      BY <3>1 DEF InLine
    <3>3. CopyState(batch, input, dst, strOut, lenOut, curLine, InLine, curOff)'
      BY <3>1, <3>2 DEF CopyInv
    <3>4. CopyControl'
      BY <3>1 DEF CopyInv, CopyControl, BatchFull, Fits, Length
    <3> QED BY <3>3, <3>4
  <2> HIDE DEF Kept
  <2> QED BY <2>1, <2>2, <2>3, <2>4, <2>5, <2>6, <2>7, <2>8 DEF Next
<1> QED BY <1>1, <1>2, <1>3 DEF CopyInv

\* What the call returns, it returns whole.
LEMMA ReturnedWhole == CopyInv => LinesWhole
<1> SUFFICES ASSUME CopyInv, at = "returned" PROVE
      /\ dst = FlattenSeq([k \in 1..count |-> CodesOf(k - 1, 0, batch[k].len)])
      /\ \A k \in 1..count :
           /\ strOut[k] = Starts(k - 1)
           /\ lenOut[k] = batch[k].cost * batch[k].len
  BY DEF LinesWhole
<1>1. input = << >> /\ count = curLine /\ InLine = FALSE
  BY DEF CopyInv, CopyControl, InLine
<1>2. CopyState(batch, << >>, dst, strOut, lenOut, count, FALSE, curOff)
  BY <1>1 DEF CopyInv
<1>3. /\ batch \in Seq(LineRecord) /\ count \in Nat /\ count <= Len(batch) /\ Len(batch) \in Nat
      /\ TextInv(batch, << >>, dst, count, 0)
      /\ LinesOk(batch, << >>, strOut, lenOut, count)
      /\ lenOut \in [1..Len(batch) -> Int]
  BY <1>2 DEF CopyState
<1>4. dst = Whole(batch, count)
  <2>1. Joins(UpToHere(batch, count, 0), dst, Staged(batch, << >>, Len(<< >>))) /\ dst \in Seq(Code)
    BY <1>3 DEF TextInv
  <2>2. Len(<< >>) = 0 /\ Staged(batch, << >>, 0) = << >>
    BY StagedNone
  <2>3. UpToHere(batch, count, 0) = Whole(batch, count)
    BY <1>3, FrontIsWhole
  <2>4. dst \o << >> = dst
    BY <2>1, ConcatEmptySeq
  <2> QED BY <2>1, <2>2, <2>3, <2>4 DEF Joins
<1>5. [k \in 1..count |-> CodesOf(k - 1, 0, batch[k].len)]
        = [k \in 1..count |-> LineCodes(batch, k - 1, 0, batch[k].len)]
  BY CodesOfLine
<1>6. ASSUME NEW k \in 1..count
      PROVE  /\ strOut[k] = Starts(k - 1)
             /\ lenOut[k] = batch[k].cost * batch[k].len
  <2> DEFINE l == k - 1
  <2>1. l \in 0..Len(batch) - 1 /\ l < count /\ l + 1 = k
    BY <1>3
  <2>2. /\ LineInv(batch, << >>, strOut[k], lenOut[k], l, batch[k].len)
        /\ Begun(<< >>, strOut[k], l)
    <3>1. /\ LineInv(batch, << >>, strOut[l + 1], lenOut[l + 1], l, batch[l + 1].len)
          /\ Begun(<< >>, strOut[l + 1], l)
      <4> HIDE DEF l
      <4> QED BY <1>3, <2>1 DEF LinesOk
    <3> HIDE DEF l
    <3> QED BY <2>1, <3>1
  <2>3. JobsIn(<< >>, l) = {}
    BY DEF JobsIn
  <2>4. LengthIn(batch, << >>, l) = 0
    BY <2>3, SumEmpty DEF LengthIn
  <2>5. strOut[k] = LinesTotal(batch, l)
    <3> HIDE DEF l
    <3> QED BY <2>2, <2>3 DEF LineInv, Begun
  <2>6. LinesTotal(batch, l) = Starts(l)
    BY DEF LinesTotal, Starts, SumFunction
  <2>7. lenOut[k] + 0 = batch[k].cost * batch[k].len /\ lenOut[k] \in Nat
    <3> HIDE DEF l
    <3> QED BY <2>1, <2>2, <2>4 DEF LineInv
  <2>8. lenOut[k] = batch[k].cost * batch[k].len
    <3> DEFINE x == lenOut[k]
    <3>1. x + 0 = batch[k].cost * batch[k].len /\ x \in Nat
      BY <2>7
    <3>2. x + 0 = x
      <4> HIDE DEF x
      <4> QED BY <3>1
    <3> QED BY <3>1, <3>2
  <2> QED BY <2>5, <2>6, <2>8
<1> QED BY <1>4, <1>5, <1>6 DEF Whole

\* What the call refuses, it may refuse.
LEMMA ReturnedSpace == CopyInv => ConservativeSpace
<1> SUFFICES ASSUME CopyInv, at = "returned", count < Len(batch)
             PROVE  size < 7 + 2 * SumFunction([k \in 1..count + 1 |-> batch[k].len])
  BY DEF ConservativeSpace
<1>1. SpaceOk(batch, size, count)
  BY DEF CopyInv, CopyControl
<1>2. SumFunction([k \in 1..count + 1 |-> batch[k].len]) = LensTotal(batch, count + 1)
  BY DEF SumFunction, LensTotal
<1> QED BY <1>1, <1>2 DEF SpaceOk

\* For all lines, sizes of jobs, batches and buffers, and whatever order the
\* kernel reports its jobs in: the lines that the call counts lie one after the
\* other in the output, and strOut and lenOut say where.
THEOREM LinesComeOutWhole == Spec => []LinesWhole
BY CopyInit, CopyStep, ReturnedWhole, PTL DEF Spec

\* No line is refused for which the buffer has what fsst.h asks for.
THEOREM NoLineTurnedAway == Spec => []ConservativeSpace
BY CopyInit, CopyStep, ReturnedSpace, PTL DEF Spec

=============================================================================
