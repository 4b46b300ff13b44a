---------------------------- MODULE FsstPipeline ----------------------------
(***************************************************************************)
(* The fsst utility (fsst.cpp): main() compresses or decompresses blocks   *)
(* while a reader thread fills the other input buffer and a writer thread  *)
(* drains the other output buffer.  Eight binary semaphores hand the four  *)
(* buffers around; module BinarySemaphore shows why one may be a Boolean   *)
(* whose wait and post are single steps.                                   *)
(*                                                                         *)
(* srcBuf[i] stands for the srcLen[i] bytes in input buffer i, dstBuf[i]   *)
(* for the dstLen[i] bytes in output buffer i.                             *)
(***************************************************************************)
EXTENDS FsstFile

VARIABLES
  decompress, orig, file,   \* the mode, the original file, the input file
  pos, blksz,               \* the reader's file position, its next read's size
  srcBuf, dstBuf, dst,      \* the buffers, and the completed writes
  reads,                    \* history: what each read put into srcBuf
  sem,                      \* the semaphores
  stopThreads, readerSynced,
  pc, swap                  \* of each thread

fileVars == <<decompress, orig, file>>
readVars == <<pos, blksz, srcBuf, reads>>
stopVars == <<stopThreads, readerSynced>>
data     == <<fileVars, readVars, dstBuf, dst>>
vars     == <<data, sem, stopVars, pc, swap>>

Swap == {0, 1}
Sems == {"srcDoneIO", "dstDoneIO", "srcDoneCPU", "dstDoneCPU"}

MainEnd   == {"exit", "failed", "terminated"}
Shutdown  == {"shut1", "shut2", "shut3", "shut4", "out0", "out1", "join1", "join2", "exit"}
MainPcs   == MainEnd \cup Shutdown \cup
  {"start", "waitSrc", "waitDst", "test", "process", "postSrc", "postDst", "stop"}
ReaderPcs == {"off", "wait", "test", "read", "post", "exit"}
WriterPcs == {"off", "wait", "test", "write", "post", "drain0", "drain1", "exit"}

Go(t, from, to) == pc[t] = from /\ pc' = [pc EXCEPT ![t] = to]

\* thread t at from waits on, or posts, semaphore s[i] and goes on at to
Wait(t, from, s, i, to) ==
  /\ Go(t, from, to)
  /\ sem[s][i]
  /\ sem' = [sem EXCEPT ![s][i] = FALSE]

Post(t, from, s, i, to) ==
  /\ Go(t, from, to)
  /\ sem' = [sem EXCEPT ![s][i] = TRUE]

Flip(t) == swap' = [swap EXCEPT ![t] = 1 - swap[t]]

Init ==
  /\ decompress \in BOOLEAN
  /\ orig \in Files
  /\ file = IF decompress THEN Framed(orig) ELSE orig
  /\ pos = 0
  /\ blksz = BlkSz
  /\ srcBuf = [i \in Swap |-> <<>>]
  /\ dstBuf = [i \in Swap |-> <<>>]
  /\ dst = <<>>
  /\ reads = <<>>
  /\ sem = [s \in Sems |-> [i \in Swap |-> FALSE]]
  /\ stopThreads = FALSE
  /\ readerSynced = FALSE
  /\ pc = [main |-> "start", reader |-> "off", writer |-> "off"]
  /\ swap = [main |-> 0, reader |-> 0, writer |-> 0]

-----------------------------------------------------------------------------
(* The reader thread                                                       *)

\* has main() posted srcDoneCPU[i] after stopThreads = true?
StopPosted(i) ==
  pc.main \in Shutdown \ (IF i = 0 THEN {"shut1"} ELSE {"shut1", "shut2", "shut3"})

ReaderWait ==
  /\ Wait("reader", "wait", "srcDoneCPU", swap.reader, "test")
  /\ readerSynced' = StopPosted(swap.reader)
  /\ UNCHANGED <<data, stopThreads, swap>>

\* stopThreads is a plain bool that main() writes without holding a lock: a
\* read that the semaphore did not order after the write may return either value
ReaderTest ==
  /\ \E stop \in {stopThreads} \cup (IF readerSynced THEN {} ELSE {FALSE}) :
       Go("reader", "test", IF stop THEN "exit" ELSE "read")
  /\ UNCHANGED <<data, sem, stopVars, swap>>

Count == IF pos + blksz <= Len(file) THEN blksz ELSE Len(file) - pos  \* gcount()

\* the length field of the next block, at the end of what was read
NextBlksz == Deserialize(file[pos + blksz - 2], file[pos + blksz - 1], file[pos + blksz])

\* (mutant) srcLen[swap] -= 3 is forgotten
DeliverField(n, b) ==
  /\ srcBuf' = [srcBuf EXCEPT ![swap.reader] = SubSeq(file, pos + 1, pos + Count)]
  /\ blksz' = b

Deliver(n, b) ==
  /\ srcBuf' = [srcBuf EXCEPT ![swap.reader] = SubSeq(file, pos + 1, pos + n)]
  /\ blksz' = b

ReaderRead ==
  /\ Go("reader", "read", "post")
  /\ IF ~decompress THEN Deliver(Count, blksz)
     ELSE IF blksz # 0 /\ Count = blksz THEN Deliver(Count - LenField, NextBlksz)
     ELSE Deliver(Count, 0)
  /\ pos' = pos + Count
  /\ reads' = Append(reads, srcBuf'[swap.reader])
  /\ UNCHANGED <<fileVars, dstBuf, dst, sem, stopVars, swap>>

ReaderPost ==
  /\ Post("reader", "post", "srcDoneIO", swap.reader, "wait")
  /\ Flip("reader")
  /\ UNCHANGED <<data, stopVars>>

Reader == ReaderWait \/ ReaderTest \/ ReaderRead \/ ReaderPost

-----------------------------------------------------------------------------
(* The writer thread                                                       *)

WriterWait ==
  /\ Wait("writer", "wait", "dstDoneCPU", swap.writer, "test")
  /\ UNCHANGED <<data, stopVars, swap>>

WriterTest ==
  /\ Go("writer", "test", IF dstBuf[swap.writer] = <<>> THEN "drain0" ELSE "write")
  /\ UNCHANGED <<data, sem, stopVars, swap>>

WriterWrite ==
  /\ Go("writer", "write", "post")
  /\ dst' = Append(dst, dstBuf[swap.writer])
  /\ UNCHANGED <<fileVars, readVars, dstBuf, sem, stopVars, swap>>

\* (mutant) swap is not flipped
WriterSticks ==
  /\ Post("writer", "post", "dstDoneIO", swap.writer, "wait")
  /\ UNCHANGED <<data, stopVars, swap>>

WriterPost ==
  /\ Post("writer", "post", "dstDoneIO", swap.writer, "wait")
  /\ Flip("writer")
  /\ UNCHANGED <<data, stopVars>>

\* the loop after the break
WriterDrain ==
  /\ \/ Post("writer", "drain0", "dstDoneIO", 0, "drain1")
     \/ Post("writer", "drain1", "dstDoneIO", 1, "exit")
  /\ UNCHANGED <<data, stopVars, swap>>

Writer == WriterWait \/ WriterTest \/ WriterWrite \/ WriterPost \/ WriterDrain

-----------------------------------------------------------------------------
(* main()                                                                  *)

\* -d reads the first length field, and gives up when there is none; the
\* threads start with both input and both output buffers free
MainStart ==
  /\ pc.main = "start"
  /\ IF decompress /\ Len(file) < LenField
     THEN /\ pc' = [pc EXCEPT !["main"] = "failed"]
          /\ UNCHANGED <<pos, blksz, sem>>
     ELSE /\ pc' = [main |-> "waitSrc", reader |-> "wait", writer |-> "wait"]
          /\ pos' = IF decompress THEN LenField ELSE pos
          /\ blksz' = IF decompress THEN Deserialize(file[1], file[2], file[3]) ELSE blksz
          /\ sem' = [s \in Sems |-> [i \in Swap |-> s \in {"srcDoneCPU", "dstDoneIO"}]]
  /\ UNCHANGED <<fileVars, srcBuf, reads, dstBuf, dst, stopVars, swap>>

MainWaitSrc ==
  /\ Wait("main", "waitSrc", "srcDoneIO", swap.main, "waitDst")
  /\ UNCHANGED <<data, stopVars, swap>>

\* (mutant) main() does not wait for the output buffer
MainSkipsWaitDst ==
  /\ Go("main", "waitDst", "test")
  /\ UNCHANGED <<data, sem, stopVars, swap>>

MainWaitDst ==
  /\ Wait("main", "waitDst", "dstDoneIO", swap.main, "test")
  /\ UNCHANGED <<data, stopVars, swap>>

MainTest ==
  /\ IF srcBuf[swap.main] = <<>>
     THEN Go("main", "test", "stop") /\ dstBuf' = [dstBuf EXCEPT ![swap.main] = <<>>]
     ELSE Go("main", "test", "process") /\ UNCHANGED dstBuf
  /\ UNCHANGED <<fileVars, readVars, dst, sem, stopVars, swap>>

Output(c) == IF decompress THEN Decode(c) ELSE Frame(c)

MainProcess ==
  /\ Go("main", "process", "postSrc")
  /\ dstBuf' = [dstBuf EXCEPT ![swap.main] = Output(srcBuf[swap.main])]
  /\ UNCHANGED <<fileVars, readVars, dst, sem, stopVars, swap>>

MainPostSrc ==
  /\ Post("main", "postSrc", "srcDoneCPU", swap.main, "postDst")
  /\ UNCHANGED <<data, stopVars, swap>>

MainPostDst ==
  /\ Post("main", "postDst", "dstDoneCPU", swap.main, "waitSrc")
  /\ Flip("main")
  /\ UNCHANGED <<data, stopVars>>

MainStop ==
  /\ Go("main", "stop", "shut1")
  /\ stopThreads' = TRUE
  /\ UNCHANGED <<data, sem, readerSynced, swap>>

\* wake both threads, wait until both output buffers are free, join
MainShutdown ==
  /\ \/ Post("main", "shut1", "srcDoneCPU", 0, "shut2")
     \/ Post("main", "shut2", "dstDoneCPU", 0, "shut3")
     \/ Post("main", "shut3", "srcDoneCPU", 1, "shut4")
     \/ Post("main", "shut4", "dstDoneCPU", 1, "out0")
     \/ Wait("main", "out0", "dstDoneIO", 0, "out1")
     \/ Wait("main", "out1", "dstDoneIO", 1, "join1")
  /\ UNCHANGED <<data, stopVars, swap>>

MainJoin ==
  /\ \/ pc.reader = "exit" /\ Go("main", "join1", "join2")
     \/ pc.writer = "exit" /\ Go("main", "join2", "exit")
  /\ UNCHANGED <<data, sem, stopVars, swap>>

Main ==
  \/ MainStart \/ MainWaitSrc \/ MainWaitDst \/ MainTest \/ MainProcess
  \/ MainPostSrc \/ MainPostDst \/ MainStop \/ MainShutdown \/ MainJoin

-----------------------------------------------------------------------------
(* The process dies when a stream throws in a thread, and when main()      *)
(* returns -1 from inside its loop (Optfsst_compress(...) < 1) and so      *)
(* destroys joinable threads.  A torn write is not in dst.                 *)
Terminate ==
  /\ \/ pc.reader = "read"
     \/ pc.writer = "write"
     \/ pc.main = "process" /\ ~decompress
  /\ pc' = [pc EXCEPT !["main"] = "terminated"]
  /\ UNCHANGED <<data, sem, stopVars, swap>>

Running == pc.main \notin MainEnd

Next ==
  \/ Running /\ (Main \/ Reader \/ Writer \/ Terminate)
  \/ ~Running /\ UNCHANGED vars

\* the scheduler runs every thread that can run
Fairness ==
  /\ WF_vars(Running /\ Main)
  /\ WF_vars(Running /\ Reader)
  /\ WF_vars(Running /\ Writer)

Spec == Init /\ [][Next]_vars /\ Fairness

-----------------------------------------------------------------------------
Slices == {SubSeq(file, i, j) : i \in 1 .. Len(file) + 1, j \in -LenField .. Len(file)}
Outputs == {<<>>} \cup {Output(c) : c \in Slices}

DataOK ==
  /\ decompress \in BOOLEAN
  /\ file \in Seq(Byte)
  /\ pos \in 0 .. Len(file) /\ blksz \in Nat
  /\ decompress /\ pc.reader # "off" => LenField <= pos
  /\ srcBuf \in [Swap -> Slices] /\ reads \in Seq(Slices)
  /\ dstBuf \in [Swap -> Outputs] /\ dst \in Seq(Outputs)

ControlOK ==
  /\ sem \in [Sems -> [Swap -> BOOLEAN]]
  /\ stopThreads \in BOOLEAN /\ readerSynced \in BOOLEAN
  /\ pc \in [main : MainPcs, reader : ReaderPcs, writer : WriterPcs]
  /\ swap \in [main : Swap, reader : Swap, writer : Swap]

(* The control state is well formed, the reader stays inside the file and  *)
(* the buffers hold pieces of it and what they are processed to.          *)
TypeOK == DataOK /\ ControlOK

(* No buffer is ever touched by two threads at once: main() is not inside  *)
(* a block whose input the reader is filling or whose output (length       *)
(* included) the writer is looking at or writing out.                      *)
BuffersExclusive ==
  pc.main \in {"test", "process"} =>
    /\ ~ (pc.reader = "read" /\ swap.reader = swap.main)
    /\ ~ (pc.writer \in {"test", "write"} /\ swap.writer = swap.main)

(* The n-th block written is the n-th piece of the input, processed: no    *)
(* block is lost, written twice or overtaken, also by the extra posts that *)
(* main() makes to stop the threads.                                       *)
BlocksInOrder ==
  /\ Len(dst) <= Len(reads)
  /\ \A n \in 1 .. Len(dst) : dst[n] = Output(reads[n])

(* The utility, threads, buffers and shutdown included, emits exactly the  *)
(* blocks its input stands for and then exits: in particular it never      *)
(* hangs, and it does not exit before the last block is written.           *)
Filter == INSTANCE BlockFilter WITH
  out    <- dst,
  status <- CASE pc.main = "exit"       -> "done"
              [] pc.main = "failed"     -> "refused"
              [] pc.main = "terminated" -> "terminated"
              [] OTHER                  -> "running"

IsBlockFilter == Filter!BSpec
=============================================================================
