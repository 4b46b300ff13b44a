------------------------------ MODULE RowStore -------------------------------
(***************************************************************************)
(* The row stores of the paper's experiments: the runners of filtertest.cpp*)
(* and linetest.cpp, which compress a corpus of rows and decompress some   *)
(* of them.  Three layouts: blocks of rows that LZ4 compresses, each with  *)
(* the ends of its rows; rows that LZ4 compresses one by one; and rows     *)
(* that FSST compresses in one call.  The last two share one buffer, and   *)
(* row l is what lies between the ends of the rows l - 1 and l.            *)
(*                                                                         *)
(* LZ4 and the FSST library are outside: LZ4 turns bytes into something    *)
(* that gives the bytes back, FSST a row into codes (escapes, if it has no *)
(* symbols), one row behind the other.                                     *)
(***************************************************************************)
EXTENDS Integers, Sequences, FiniteSets, FiniteSetsExt, SequencesExt

CONSTANTS
  Rows,        \* the corpora: sequences of rows
  BlockSizes,  \* the rows of a block
  Hits,        \* the row numbers to decompress, in this order
  Newline

\* rows are bytes; a block of no rows would be divided by
ASSUME RowsAssumption ==
  /\ Rows \subseteq Seq(Seq(0..255))
  /\ BlockSizes \subseteq Nat \ {0}
  /\ Hits \subseteq Seq(Nat)

VARIABLES
  layout, corpus, blockSize,   \* the runner and its arguments
  stored,      \* the next row to compress: blockStart, or the row
  blocks,      \* the compressed blocks
  compressed,  \* the shared buffer
  offsets,     \* the ends of the rows in it
  rowPtrs,     \* where fsst_compress() put the rows
  hits, hit,   \* decompressRows: the rows that are asked for, how many are done
  currentBlock, blockBuffer,   \* the block that is decompressed; its rows and ends
  target       \* what was written

rvars == <<layout, corpus, blockSize, stored, blocks, compressed, offsets, rowPtrs,
           hits, hit, currentBlock, blockBuffer, target>>

LZ4(bytes) == [lz4 |-> bytes]

\* a row without symbols
Escaped(row) == FlattenSeq([i \in 1..Len(row) |-> <<255, row[i]>>])
Unescaped(codes) == [i \in 1..Len(codes) \div 2 |-> codes[2 * i]]

InitRows ==
  /\ layout \in {"blocks", "lines", "fsst"}
  /\ corpus \in Rows
  /\ blockSize \in BlockSizes
  /\ stored = 0 /\ blocks = << >> /\ compressed = << >> /\ offsets = << >>
  /\ rowPtrs = << >>
  /\ hits = << >> /\ hit = 0
  /\ currentBlock = 0 /\ blockBuffer = << >>
  /\ target = << >>

-----------------------------------------------------------------------------
(* compressCorpus                                                          *)

\* the end of every row, as if they were one text
Ends(rows) == [i \in 1..Len(rows) |-> Len(FlattenSeq(SubSeq(rows, 1, i)))]

\* "Form a block of rows": up to blockSize of them, their ends and their bytes
FormBlock ==
  LET next == Min({stored + blockSize, Len(corpus)})
      rows == SubSeq(corpus, stored + 1, next)
  IN /\ layout = "blocks" /\ stored # Len(corpus)
     /\ blocks' = Append(blocks, LZ4([rows |-> Len(rows), offsets |-> Ends(rows),
                                      data |-> FlattenSeq(rows)]))
     /\ stored' = next
     /\ UNCHANGED <<layout, corpus, blockSize, compressed, offsets, rowPtrs, hits, hit,
                    currentBlock, blockBuffer, target>>

\* LZ4 for one row: the end is that of the buffer
StoreLine ==
  /\ layout = "lines" /\ stored # Len(corpus)
  /\ compressed' = Append(compressed, LZ4(corpus[stored + 1]))
  /\ offsets' = Append(offsets, Len(compressed'))
  /\ stored' = stored + 1
  /\ UNCHANGED <<layout, corpus, blockSize, blocks, rowPtrs, hits, hit, currentBlock, blockBuffer, target>>

\* fsst_compress() of all rows: the codes of one follow those of another
CompressRows ==
  /\ layout = "fsst" /\ stored = 0 /\ rowPtrs = << >> /\ corpus # << >>
  /\ compressed' = FlattenSeq([i \in 1..Len(corpus) |-> Escaped(corpus[i])])
  /\ rowPtrs' = [i \in 1..Len(corpus) |->
                   Len(FlattenSeq([j \in 1..i - 1 |-> Escaped(corpus[j])]))]
  /\ UNCHANGED <<layout, corpus, blockSize, stored, blocks, offsets, hits, hit, currentBlock, blockBuffer, target>>

\* (mutant) the offsets are where the rows begin
BeginsOfRows == rowPtrs

\* a row ends where the next one begins, the last one where everything ends
EndsOfRows == [i \in 1..Len(rowPtrs) |->
                 IF i < Len(rowPtrs) THEN rowPtrs[i + 1] ELSE Len(compressed)]

KeepOffsets ==
  /\ layout = "fsst" /\ rowPtrs # << >> /\ stored = 0
  /\ offsets' = EndsOfRows
  /\ stored' = Len(corpus)
  /\ UNCHANGED <<layout, corpus, blockSize, blocks, compressed, rowPtrs, hits, hit,
                 currentBlock, blockBuffer, target>>

-----------------------------------------------------------------------------
(* decompressRows, decompressRow                                           *)

Compressed == stored = Len(corpus)

\* A call begins without a block, whatever the last one had
Ask ==
  /\ Compressed /\ hit = Len(hits) /\ Len(target) = 0
  /\ hits' \in {h \in Hits : \A i \in 1..Len(h) : h[i] < Len(corpus)}
  /\ hit' = 0 /\ currentBlock' = 0 /\ blockBuffer' = << >> /\ target' = << >>
  /\ UNCHANGED <<layout, corpus, blockSize, stored, blocks, compressed, offsets, rowPtrs>>

Row == hits[hit + 1]

\* the row lies in the block that is at hand
InBlock(l) == currentBlock * blockSize <= l /\ l < (currentBlock + 1) * blockSize

Wanted == Compressed /\ hit < Len(hits)

\* "Switch block on demand"
SwitchBlock ==
  /\ Wanted /\ layout = "blocks"
  /\ blockBuffer = << >> \/ ~InBlock(Row)
  /\ currentBlock' = Row \div blockSize
  /\ blockBuffer' = <<blocks[currentBlock' + 1].lz4>>
  /\ UNCHANGED <<layout, corpus, blockSize, stored, blocks, compressed, offsets, rowPtrs, hits, hit, target>>

\* the bytes between the end of the row before and the end of the row
Piece(data, ends, l) == SubSeq(data, (IF l = 0 THEN 0 ELSE ends[l]) + 1, ends[l + 1])

Write(row) ==
  /\ target' = Append(target, Append(row, Newline))
  /\ hit' = hit + 1
  /\ UNCHANGED <<layout, corpus, blockSize, stored, blocks, compressed, offsets, rowPtrs, hits,
                 currentBlock, blockBuffer>>

UnpackRow ==
  /\ Wanted /\ layout = "blocks"
  /\ blockBuffer # << >> /\ InBlock(Row)
  /\ LET block == blockBuffer[1] IN
       Write(Piece(block.data, block.offsets, Row - currentBlock * blockSize))

DecompressLine ==
  /\ Wanted /\ layout = "lines"
  /\ Write(Piece(compressed, offsets, Row)[1].lz4)

DecompressRow ==
  /\ Wanted /\ layout = "fsst"
  /\ Write(Unescaped(Piece(compressed, offsets, Row)))

NextRows ==
  \/ FormBlock \/ StoreLine \/ CompressRows \/ KeepOffsets
  \/ Ask \/ SwitchBlock \/ UnpackRow \/ DecompressLine \/ DecompressRow

RowSpec == InitRows /\ [][NextRows]_rvars

-----------------------------------------------------------------------------
(* Property                                                                *)

\* Every row that was asked for comes back, the empty ones too, from
\* whichever block is at hand, in any order and however often.
RowsComeBack ==
  target = [i \in 1..hit |-> Append(corpus[hits[i] + 1], Newline)]

=============================================================================
