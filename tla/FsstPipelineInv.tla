-------------------------- MODULE FsstPipelineInv --------------------------
(***************************************************************************)
(* The inductive invariant behind BuffersExclusive and BlocksInOrder.      *)
(*                                                                         *)
(* Each buffer has one token, and the token is in one place: in one of the *)
(* buffer's two semaphores or with one of its two threads.  The buffers    *)
(* that hold a block not yet written (not yet processed) are then found by *)
(* counting from the one the writer (main) turns to next.                  *)
(***************************************************************************)
EXTENDS FsstPipeline

Loop == {"waitSrc", "waitDst", "test", "process", "postSrc", "postDst"}

ReaderHolds(i)  == pc.reader \in {"test", "read", "post"} /\ swap.reader = i
MainHoldsSrc(i) == pc.main \in {"waitDst", "test", "process", "postSrc", "stop"} /\ swap.main = i
MainHoldsDst(i) == pc.main \in {"test", "process", "postSrc", "postDst", "stop"} /\ swap.main = i
WriterHolds(i)  == pc.writer \in {"test", "write", "post"} /\ swap.writer = i

WriterAlive == pc.writer \in {"wait", "test", "write", "post"}

ExactlyOne(a, b, c, d) ==
  /\ a \/ b \/ c \/ d
  /\ ~(a /\ b) /\ ~(a /\ c) /\ ~(a /\ d) /\ ~(b /\ c) /\ ~(b /\ d) /\ ~(c /\ d)

SrcToken ==
  \A i \in Swap :
    ExactlyOne(sem.srcDoneCPU[i], ReaderHolds(i), sem.srcDoneIO[i], MainHoldsSrc(i))

DstToken ==
  \A i \in Swap :
    ExactlyOne(sem.dstDoneIO[i], MainHoldsDst(i), sem.dstDoneCPU[i], WriterHolds(i))

\* the buffer each thread turns to next, and the buffers that are full
NextRead == IF pc.reader = "post" THEN 1 - swap.reader ELSE swap.reader
NextIn   == IF pc.main \in {"postSrc", "postDst"} THEN 1 - swap.main ELSE swap.main
NextOut  == IF pc.writer = "post" THEN 1 - swap.writer ELSE swap.writer

SrcFull(i) ==
  \/ sem.srcDoneIO[i]
  \/ pc.reader = "post" /\ swap.reader = i
  \/ pc.main \in {"waitDst", "test", "process"} /\ swap.main = i

DstFull(i) ==
  \/ sem.dstDoneCPU[i]
  \/ pc.writer \in {"test", "write"} /\ swap.writer = i
  \/ pc.main \in {"postSrc", "postDst"} /\ swap.main = i

Both(a, b) == (IF a THEN 1 ELSE 0) + (IF b THEN 1 ELSE 0)
Unread     == Both(SrcFull(0), SrcFull(1))
Unwritten  == Both(DstFull(0), DstFull(1))
Processed  == Len(dst) + Unwritten

\* n full buffers between a producer that turns to p and a consumer that
\* turns to c, which is full or not
Between(n, p, c, full) ==
  /\ n = 1 => p = 1 - c /\ full
  /\ n # 1 => p = c

SrcOrder ==
  /\ Len(reads) = Processed + Unread
  /\ Between(Unread, NextRead, NextIn, SrcFull(NextIn))
  /\ \A i \in Swap :
       SrcFull(i) => srcBuf[i] = reads[Processed + (IF i = NextIn THEN 1 ELSE 2)]

DstOrder ==
  /\ Between(Unwritten, NextIn, NextOut, DstFull(NextOut))
  /\ \A i \in Swap :
       DstFull(i) => dstBuf[i] = Output(reads[Len(dst) + (IF i = NextOut THEN 1 ELSE 2)])

\* from the break on, only the other output buffer can hold a block
ShutdownOrder ==
  /\ dstBuf[swap.main] = <<>>
  /\ NextOut = swap.main => pc.writer # "write"
  /\ NextOut # swap.main => /\ pc.writer # "post"
                            /\ Len(dst) < Len(reads)
                            /\ dstBuf[NextOut] = Output(reads[Len(dst) + 1])

StartInv ==
  pc.main = "start" =>
    /\ pc.reader = "off" /\ pc.writer = "off"
    /\ swap = [main |-> 0, reader |-> 0, writer |-> 0]
    /\ dst = <<>> /\ reads = <<>>

LoopInv ==
  pc.main \in Loop =>
    /\ SrcToken
    /\ WriterAlive => DstToken /\ DstOrder /\ SrcOrder

StopInv ==
  /\ pc.main \in {"stop"} \cup Shutdown /\ WriterAlive => ShutdownOrder
  /\ stopThreads => pc.main \notin Loop \cup {"start"}

(* While the process runs, the tokens are where they should be and the     *)
(* full buffers hold consecutive blocks; what has been written is right.   *)
IInv == TypeOK /\ BlocksInOrder /\ StartInv /\ LoopInv /\ StopInv

-----------------------------------------------------------------------------
(* Why the blocks are those of the file, and none is missing at the end    *)

NBlocks == Len(Blocks(orig))
Frames  == [k \in DOMAIN Blocks(orig) |-> Frame(Blocks(orig)[k])]

\* where the k-th block ends in the compressed file
Offset(k) == Len(FlattenSeq(SubSeq(Frames, 1, k)))

\* what the k-th read should deliver: nothing behind the last block
Input(k) ==
  IF k > NBlocks THEN <<>>
  ELSE IF decompress THEN Encode(Blocks(orig)[k])
  ELSE Blocks(orig)[k]

FileInv ==
  /\ orig \in Files
  /\ file = IF decompress THEN Framed(orig) ELSE orig
  /\ pc.main \in {"stop"} \cup Loop \cup Shutdown => ~(decompress /\ orig = <<>>)

\* the reader stands before the next block; -d has read its length field
ReaderInv ==
  /\ \A k \in 1 .. Len(reads) : reads[k] = Input(k)
  /\ ~decompress =>
       /\ blksz = BlkSz
       /\ pos = IF Len(reads) * BlkSz < Len(orig) THEN Len(reads) * BlkSz ELSE Len(orig)
  /\ decompress /\ pc.reader # "off" =>
       IF Len(reads) < NBlocks
       THEN /\ pos = Offset(Len(reads)) + LenField
            /\ blksz = LenField + Len(Encode(Blocks(orig)[Len(reads) + 1]))
       ELSE pos = Len(file) /\ blksz = 0

\* main() processes blocks of the file only, and stops behind the last one
CountInv ==
  /\ pc.main \in Loop =>
       /\ WriterAlive
       /\ Processed + (IF pc.main = "process" THEN 1 ELSE 0) <= NBlocks
  /\ pc.main \in {"stop"} \cup Shutdown =>
       NBlocks = Len(dst) + (IF WriterAlive /\ NextOut # swap.main THEN 1 ELSE 0)

\* The reads deliver the blocks of the file, and all of them are written out.
CompleteInv == IInv /\ FileInv /\ ReaderInv /\ CountInv
=============================================================================
