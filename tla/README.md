# A TLA+ verification of OptFSST

OptFSST compresses short strings with a table of at most 255 symbols of one to
eight bytes. It extends FSST by an encoder that finds an optimal parse by
dynamic programming and by a training that uses it. This directory models the
library (`libfsst.hpp`, `libfsst.cpp`, `fsst.h`, `fsst_avx512.cpp`), its variant with
12-bit codes (`libfsst12.*`, `fsst12.h`), the multi-threaded file utility built on the
library (`fsst.cpp`), and the prototypes and row stores of the paper (`fsst-paper/`).

`PROJECT.json` lists the components, the runs, the theorems, the hazards the
properties are aimed at, and for every definition the source lines it models.

## 1. The system

| Component | State | Operations | Talks to |
|---|---|---|---|
| Binary semaphore (`fsst.cpp` 50-69) | mutex, condition variable, flag | `wait`, `post` | all threads of the utility |
| Block pipeline (`fsst.cpp`) | two input and two output buffers, eight semaphores, `stopThreads`, `readerSynced`, an alternating index per thread | `reader`, `writer`, `main`: start, process, stop, join | the library, once per block |
| Symbol table (`libfsst.hpp` 158-603) | `symbols[]`, `byteCodes`, `shortCodes`, lossy `hashTab`, `nSymbols`, `suffixLim`, `terminator`, `lenHisto` | `add`, `hashInsert`, `clear`, `findLongestSymbol`, `finalize` | training fills it, encoders read it, export writes it out |
| Dictionary (`libfsst.cpp` 1087-1166) | header bytes, `fsst_decoder_t` | `fsst_export`, `fsst_import`, `fsst_decoder` | symbol table, decoder |
| Counters (`libfsst.hpp` 634-700) | four byte columns | `count1Set`, `count1Inc`, `count2Inc`, `count1GetNext`, `count2GetNext` | training |
| Greedy training (`libfsst.cpp` 57-245) | table in training, counters, best table with its counters | `compressCount`, `makeTable`, rounds | symbol table, counters |
| OptFSST training (`libfsst.cpp` 333-703) | the same, triple counts, a lazily updated heap | `compressCountDP`, `makeTableEx`, `insertSymbol` | symbol table, trie |
| Scalar encoder (`libfsst.cpp` 842-918) | cursor in `buf`, output pointer | `compressBulk` | symbol table |
| SIMD encoder (`libfsst.cpp` 705-840, `fsst_avx512.cpp`) | jobs, staging buffers, budget | `compressSIMD`, `fsst_compressAVX512` | symbol table, scalar code for what is left |
| DP encoder (`libfsst.cpp` 920-980, `libfsst.hpp` 228-432) | `trie`, `dpCost`, `dpChoice` in the symbol table | `rebuildTrie`, `buildDP`, `compressBulkDP` | symbol table |
| Decoder (`fsst.h` 165-249) | input and output positions | `fsst_decompress` | dictionary |
| Sampling (`libfsst.cpp` 982-1020, `libfsst12.cpp` 659-694) | `sampleBuf`, the array of lengths | `makeSample`, `makeSampleChunks` | the caller's lines, training |
| FSST12 symbol map (`libfsst12.hpp`) | `symbols[]`, `shortCodes`, a lossy `hashTab` of four bytes, `lenHisto`, a trie | `add`, `clear`, `findExpansion`, `buildDP`, `fsst_export`, `fsst_import` | training, encoders and decoder of the 12-bit library |
| FSST12 training (`libfsst12.cpp`) | map in training, counters, heap, best map | `buildSymbolMap`, `Optfsst_buildSymbolMap` | symbol map |
| FSST12 codec (`libfsst12.cpp`, `fsst12.h`) | cursor, output pointer, half-filled word of two codes | `compressBulk`, `compressBulkDP`, `fsst_decompress` | symbol map, dictionary |
| Suffix array prototype (`fsst-paper/cw.cpp`) | text, suffix array, LCP, a heap of candidates, an index by first byte | suffix array, intervals, selection, `compress`, `compressGreedy` | itself |
| Bottom-up prototype (`fsst-paper/vcw.cpp`) | map in training, best map, index by two bytes | training rounds, `finalize`, `compressAdaptive`, `compressBulk` | itself |
| Row stores (`fsst-paper/filtertest.cpp`, `linetest.cpp`) | compressed blocks or one shared buffer, offsets, the block decompressed last | compress a corpus, decompress chosen rows | LZ4, the library |

Where the difficulty lies:

* *Concurrency.* Three threads and eight semaphores, a notification outside the
  mutex, a stop flag without a lock, and a shutdown that posts semaphores that
  may be set already. Encoders that `fsst_duplicate()` made share one table.
* *Redundant representations.* A string is found by one of three indexes; the
  hash table forgets; `finalize()` renumbers all of them in place; the decoder
  gets only a histogram of lengths.
* *Buffers of an exact size.* Every encoder accepts work by an estimate of its
  worst case, and every fast path reads or writes beyond what it needs.
* *Two codes in three bytes.* The 12-bit codec writes four bytes for three, may end
  on half a pair, and decides on space before it knows which.
* *Stale memory.* The prototypes sort, index and read memory that earlier rounds
  or nobody wrote.
* *Order.* The SIMD kernel finishes jobs in any order; training carries a table
  and the counts made with another one from round to round.

What makes each component correct is stated as the properties of its module;
section 4 lists them by run.

## 2. Modules

**Utility.** `AbstractSemaphore` says what `wait` and `post` promise: one permit.
`BinarySemaphore` has every step of the two functions (lock, test, sleep, take,
unlock, set, notify) for any number of threads, with spurious wake-ups, and
implements it. That justifies the one-step `Wait` and `Post` of `FsstPipeline`,
which has one action per statement group of the three threads: `MainWaitSrc` is
line 199, `MainProcess` lines 205-237, and so on. `FsstFile` describes the file
format (a 3-byte length before each block), and `BlockFilter` says what the user
expects: blocks come out one after the other, then the program ends. The codec is
a pair of constant functions. `FsstPipelineInv` has the inductive invariants.

**Table.** `SymbolTable` has the arrays of the class as functions. `Add` is
`add()` with `hashInsert()`; its effect is `Insert`, whose callers differ in what
they check first. `Clear` resets the slots of the listed symbols only, as the code
does, and `Finalize` is the renumbering with the counters `rsum`, the place of the
terminator and the split of the two-byte symbols at `suffixLim`. `Find` is
`findLongestSymbol()`. `Dictionary` adds export and import.

**Training.** `Counters` has the split columns with their real arithmetic, widths
being constants. `Trainer` extends `SymbolTable` by the rounds: `CompressCount`,
`Rank` (the candidates of `makeTable`), `AddTop` (its loop over the queue),
`NextRound`, `Restore`, `End`. `OptTrainer` extends it to `Optfsst_create()`, which
chooses between the two trainings: `OptCompressCount` parses greedily or optimally and
counts triples, `OptRank` seeds the heap, `AddHighest` takes an entry off it and drops it,
or adds the symbol and prunes, and `InsertSymbol` may bypass the hash table. Both implement
`SymbolTable` as long as they use the indexes (`UsesTheTable`). `Sampling` is
`makeSample()`: the whole input if it is small, else chunks of random lines, with the
pointer into the buffer (`filled`) and the array that replaces the caller's lengths.

**Encoders and decoder.** `FsstCode` says what compressed bytes mean. `GreedyParser`
says what greedy compression promises: a line at a time, each piece the longest
symbol. `BulkEncoder` (on tables that `SymbolTable` builds, all of them) has the
loop of `compressBulk` one step at a time, in its three variants, with the bytes an
earlier chunk leaves in the buffer, and implements `GreedyParser`. `SimdEncoder` has the
batches of jobs. `DPEncoder` has the backward pass cell by cell, for several threads
that share a table. `Decompressor` has the unrolled blocks, their tail, and the
byte by byte loop.

**12-bit library.** `SymbolMap12` has the class `SymbolMap` as operators on a record, since
a map is used by training, by the encoders and by the decoder at different
times. `Trainer12` is the training; it uses the variables of `OptTrainer`, whose scheme it
follows with other rules (no terminator, no least count, bytes are never candidates).
`Codec12` has both encoders and the decoder, which decodes what was encoded with
a map that went through export and import.

**Prototypes.** `SubsetSelect` has the suffix array of `cw.cpp`, its
intervals and the selection of symbols; `ExpansionMap` adds the index and both encoders.
`BottomUp` is `vcw.cpp` with the contents of uninitialized symbols as part of the
state. `RowStore` has the three layouts in which the experiments keep rows.

**Composition.** `MCTables`, `MCTrainer`, `MCDecompressor` and `MCPaper` check several
programs in one run; a behaviour is of one of them and leaves the variables of the others
alone. They interact only where one extends the other (`Dictionary` reads the
table, `Trainer` drives `SymbolTable`, `BulkEncoder` uses a table that `SymbolTable` built).

**Proofs.** `UtilityProofs` (semaphore, decoder, 12-bit encoders and decoder, row stores), `FsstPipelineProofs`,
`SymbolTableProofs` (table, counters), `TrainerProofs` (training, sampling, dictionary),
`BulkEncoderProofs`, `SimdEncoderProofs` and `DPEncoderProofs` hold the theorems about the modules they extend.
`DataLemmas` has what they share and no part of the system: induction over the naturals, sums and
concatenations of a sequence, cutting a concatenation back into its pieces, and what follows in a
string of codes of which each piece is complete.

Each `MC` module gives the constants of one or more runs. Definitions marked
`(mutant)` are plausible mistakes (a guard dropped, an off-by-one); no
specification uses them. Each property is violated when one of them takes the
place of the definition after it.

### Abstractions

* Bytes, alphabets and block sizes are small; the code's values are the
  constants' intended values (`CodeBase` = 256 and the code mask are the real ones).
* The hash function is an arbitrary constant function of the first three bytes.
  A theorem about it holds for the multiplication the code uses.
* A codec block in `FsstPipeline` is opaque. It is a sequence of bytes, never empty, as
  it starts with the exported dictionary, and its length fits the 3-byte field
  (`CodecAssumption`), as `FSST_MEMBUF` ensures.
* `stopThreads` is not atomic in the code. The model reads it in one step and in
  program order, so it does not show the effects of a compiler or memory reordering.
* Which lines a training round skips depends on a hash (`rnd128`); `CompressCount`
  takes any subset of the lines, in the last round all.
* `OptTrainer`'s heap is a set. The code may push an entry twice; the second
  is refused, since its string is listed or its slot taken by then.
* `Trainer`'s counters count exactly. `Counters` shows when they do, and
  that a pair counter does not beyond 3840 occurrences.
* The AVX512 kernel may leave any job anywhere and report jobs in any order.
  Its lanes and reloads are not modelled, and neither is the encoding of a chunk in
  `SimdEncoder`: a chunk costs one or two codes per byte.
* `fsst_import` refuses an unknown version; the model's header has none.
* The decoder's output sizes start at 1; see the hazard at `fsst.h:247`.
* `Sampling` lets any non-empty line and any of its chunks come up, whatever the hash yields.
  Its inputs have at least one line: a call without any reads a length
  that is not there (`libfsst.cpp:1025`).
* Every round of 12-bit training but the last skips lines by a hash; `Trainer12`
  takes any subset. The branch for a negative `sampleParam` is left out: nothing passes one.
* The suffix sort (`sais.hxx`) and LZ4 are external. The texts of `cw.cpp` have no byte 0,
  which ends a line there, and block sizes are at least 1.
* The 16-bit counters of `vcw.cpp` do not wrap.
* `decompressRows` with an LZ4 dictionary stores rows as the runner without one does.

## 3. Fairness

`FsstPipeline` assumes weak fairness of each thread: the operating system
schedules a thread that can go on. Waiting on a semaphore can be a weakly fair
step because each semaphore has one waiter, so nobody takes its permit away.
`BinarySemaphore`, where any thread may wait, assumes strong fairness of taking
the mutex, as the implementation of a mutex that lets nobody starve, and weak fairness of
the steps inside; a spurious wake-up is never owed. A call of the SIMD encoder
or of the 8-bit decoder runs until it returns, hence `WF(Next)`, and `WF(Next8)` in
`MCDecompressor`, whose other program, the 12-bit codec, states safety only. So do
the other modules.

## 4. Runs

| Run | Bounds | Shows |
|---|---|---|
| `semaphore` | 3 threads | a set flag with a sleeper always has somebody on the way (`NoLostWakeup`); refinement of one permit, with its liveness (`IsSemaphore`) |
| `pipeline` | files of 0-3 blocks of 2 bytes, both directions | no buffer is used by two threads (`BuffersExclusive`); blocks neither lost, repeated nor swapped (`BlocksInOrder`); refinement of `BlockFilter`, so that it ends, and only after the last block (`IsBlockFilter`) |
| `tables` | 3 bytes, 9 candidate strings, 5 symbols, 2 buckets; counters: 4 codes, columns of 2, 6 and 4 values, 7 occurrences | the longest symbol is found although entries displace each other (`LongestMatch`); the layout encoders rely on (`FinalLayout`); `ClearForgets`; `FinalizeKeepsSymbols`; the decoder rebuilds every code (`DecoderKnowsEncoder`); the scans give back every count that fits its columns (`ScansAreExact`), the terminator's the highest (`TerminatorIsMostFrequent`) |
| `training` | 5 sets of options, 4 rounds, 16 samples of the 8-bit and 2 of the 12-bit library, 4 and 3 symbols of up to 4 bytes; 8 inputs for the choice of a sample | `UsesTheTable`; no symbol that the data does not contain (`SymbolsOccur`); counts are never read against another table (`CountsFitTable`); the lazy heaps yield the best candidate by current counts (`TakesTheBest`, `TakesTheBest12`); a table that DP training left without an index is still sound (`TrainedTable`, `TrainedMap`); the sample stays within its lines, its buffer and its array, and is large enough (`SampleFits`) |
| `bulk_encoder` | tables of 5 strings, lines of 0-4 bytes, chunks of 3 | each variant writes the greedy parse (`IsGreedyParser`), within the buffer (`WithinBuffer`), and stops early only for want of space (`ConservativeSpace`) |
| `simd_encoder` | 1-3 lines, up to 6 jobs each, batches of 3 jobs, or 2 of full size | lines come out whole and in order (`LinesWhole`), jobs share no byte (`StagingDisjoint`), the kernel gets all jobs but the empty ones (`KernelGetsWork`), `ConservativeSpace`, `Returns` |
| `simd_budget` | the same, a buffer of 23 bytes | violation, finding 1 |
| `dp_encoder` | 5 tables, lines of 0-6 bytes, chunks of 4 | no parse of the chunk is shorter (`IsOptimal`); the codes mean the line (`StandsForLine`) |
| `shared_encoder` | 2 threads, one table | violation, finding 2 |
| `codec` | 8-bit: words of 4 bytes, all well-formed inputs of up to 7 bytes, 5 sizes; 12-bit: 5 dictionaries, each through the indexes and past them, lines of 0-11 bytes, 11 buffer sizes, both encoders | the decoder's three paths decode the input within both buffers (`InBounds`, `ReturnsText`); 12-bit lines come back, by the DP with as few codes as possible (`LinesComeBack12`), and the encoders keep to the buffer, while the documented size is enough for the first line (`Room12`) |
| `counters_overflow` | the real widths, one pair | violation, finding 3 |
| `paper_prototypes` | `cw`: texts of 6 bytes and two longer corpora, 6 codes, symbols of up to 3 bytes; `vcw`: texts of 2-14 bytes, 5 symbols, 5 rounds; row stores: up to 5 rows, blocks of 1-3, up to 3 rows asked for | the intervals are the occurrences (`IntervalsAreOccurrences`), the lazy selection takes the best (`PicksTheBest`), the DP's cover is the shortest (`ShortestCover`); the index finds the longest symbol (`IndexFindsLongest`) and texts come back, with stale symbols and memory about (`TextComesBack`); `RowsComeBack` |

Why the bounds suffice. A pipeline has two buffers of each kind, so that with three
blocks every buffer is used, reused, and left unused at the end. Two hash
buckets make strings with equal and with different prefixes collide, and nine
candidates include for each of them a shorter and a longer string. Lines of
more than a chunk, and batches in which a long line precedes a short one, reach the
chunk boundary and the stale bytes behind the sentinel. A batch ends because it has
three jobs or because codeBase is full, which two jobs of full size do, so that a line
ends before, at and after a batch's last job. Seven code bytes are an
unrolled block and a tail of every length, with an escape at each place.
Column widths of two make carries and wraps frequent. The samples repeat
short patterns, so that symbols are joined with themselves, pairs and triples
are pruned, counts become negative, and the same string is made by several joins.
The inputs of `Sampling` lie on both sides of the target, have empty lines and last chunks
of one byte, and one of them fills the array of lengths before the buffer. The
dictionaries of the 12-bit codec have strings of two, three and four bytes that start
alike and collide; lines of up to eleven bytes end before, in and after the fast loop
(eight bytes here, sixteen in the code) with an even and with an odd number of codes;
buffer sizes end on each byte of a pair. `MCCorpora` has a text of which the greedy and the
optimal cover differ, and lines too short to count; a new map of `vcw.cpp` holds a
stale symbol or none, and the memory behind a text continues a symbol or does
not. Blocks of 1 to 3 rows and hits in any order make the buffered block be reused, left
and returned to, also when it is the short last one. `CHECK_DEADLOCK FALSE`
stands where a call returns or a table is final and nothing is left to do.

### Findings

1. *SIMD budget* (`libfsst.cpp:834`). After a flush within a line the budget is
   what is left of the buffer, without the worst case of the rest of that line.
   The next lines are accepted for space that is spoken for, and the output can be longer
   than the buffer. In the run a line of 8 bytes, all escaped, fills the worst case of 16 in a buffer of
   23; the first batch ends after two of its jobs (codeBase is full) with 8 bytes written and a budget
   of 15, the second line, of 4 bytes, needs 15 and is accepted, and 24 bytes are written. (`WithinBuffer` in run `simd_budget`.) The scalar and the DP
   encoder check chunk by chunk and are not affected.
2. *Duplicated encoders* (`libfsst.cpp:1082`). `fsst_duplicate()` is documented as
   what multi-threaded compression needs, but the duplicate shares the table and the
   DP encoder writes its costs, choices and trie into it. Two threads get lines
   wrong. (`StandsForLine` in run `shared_encoder`.)
3. *Pair counters* (`libfsst.hpp:656`). They are called 12-bit counters with a
   maximum of 4K; the early carry makes them wrap at 3841. The comment of
   the code takes chances with overflow, yet expects it at another place; the effect is a pair
   that reads as absent, so a worse table, never wrong output. (`PairCountsHave12Bits`.)

### Observations

Behaviour worth knowing that no property calls wrong:

* `makeSample()` says it returns "between [FSST_SAMPLETARGET,FSST_SAMPLEMAXSZ) string
  bytes" (`libfsst.cpp:981`). With many short chunks the array of lengths is full
  first and the sample is smaller. `SampleFits` states what holds.
* The comments of the 8-bit table disagree about `suffixLim`. The one at the field
  (`libfsst.hpp:185`) says "codes higher than this do not have a longer suffix"; those
  at 150 and 574, the code of `finalize()` and the early out of the encoder (`libfsst.cpp:855`)
  have it the other way round: codes below it have none. `FinalLayout` states the latter.
* OptFSST's training does not promote single bytes. The comment at `libfsst.cpp:534` says
  that it promotes single-byte symbols by 8, but the gain under it is length times count (535), for a
  byte its count. The greedy training has the same comment (186) and does promote them (188). `Gain`, and with it
  `TakesTheBest`, is what the code computes.
* `finalize()` of `vcw.cpp` sorts all 255 symbols, those behind `symbolCount` included, so that
  stale ones may take the place of live ones. The round trip survives (`TextComesBack`).
* The 12-bit map may miss a listed symbol of three bytes, as its slot is found by four
  (hazard at `libfsst12.hpp:222`); `TrainedMap` states that it misses nothing else.
* `filtertest.cpp` (242) measures `bareSize` on the block before its rows are copied into it,
  and would not end with a block size of 0 (225). `cw.cpp` (494) finds a symbol's length
  by its zero bytes, so that a text must not have any, and `vcw.cpp` (62) shifts by 64 for an
  empty string. The models take such inputs as excluded.

## 5. Proofs

All theorems hold for every value of the constants that satisfies the named
assumptions of the modules, each of which is evaluated by the run of its module:
`NoThreadAssumption`, `FormatAssumption`, `CodecAssumption`, `ByteAssumption`,
`SizeAssumption`, `BucketAssumption`, `CandidateAssumption`, `CountersAssumption`,
`RoundsAssumption` (no threshold above the terminator's count), `SamplesAssumption`,
`ProposalAssumption`, `SamplingAssumption`, `RowsAssumption`, `BulkAssumption`, `SimdAssumption` (a byte costs one
code byte or two), `DPAssumption` (a table is a sequence of at most 255 strings of 1 to
`MaxLen` bytes) and `DecoderAssumption`. The theorems of `DPEncoderProofs` are about one call at
a time (`OneCall`); that two calls on one table fail is finding 2.

The library's induction theorems take an operator as a parameter, which the provers
cannot instantiate. `DataLemmas` states induction about a set instead (`Induction`: a set of
naturals that has 0 and with each number the next has them all), which they can. What
recursive functions compute (a parse, the costs of the DP, a scan of the counters) is proved with it.

* `UtilityProofs`, semaphore. `NoLostWakeup` with `TypeOK` is inductive: a waiter
  sleeps only after it saw the flag reset with the mutex held, and whoever sets
  the flag owes a notification (`NoWakeupIsLost`). `ImplementsPermit` maps each
  step to a step of `AbstractSemaphore` or a stutter, for any set of threads.
* `UtilityProofs`, decoder. It stays in its buffers because each part of an unrolled
  block is what the input has at its place (`Planned`) and there is a word of room for each. That
  an escape is followed by its byte needs to know that the decoder is between two codes (`CodeAt`):
  `FsstCode` says so by the parity of the run of 255s before it, which each step keeps, and
  which at the last byte contradicts an escape. `DecoderStaysInside` follows.
* `UtilityProofs`, 12-bit encoders. A map that training makes of any strings, entered through its indexes or
  listed past them (`Entered`), leads, by pairs
  and by its hash table, only to strings it lists (`MapInv`; `FoldedMap` takes the fold of `Entered` apart by
  induction over its indexes). So what the greedy loop finds, and what the DP chooses at each
  position whatever the costs behind it are, starts the rest of the line (`FindStands`, `BuildDPStands`), and
  the cursor passes a byte at least. `RoomInv` weighs what is written of a line against the cursor: two
  bytes for each byte of text at most. From the guard of eight bytes and the documented
  7+2n follows that the first line is never given up (`EncoderStaysInBuffer12`). It assumes that
  the strings that are entered have two bytes or more (`CodecAssumption12`), as those of training have.
* `UtilityProofs`, 12-bit decoder. Bytes stand for a text when there is a set of pairs of places,
  one in the bytes and one in the text, that holds <<0, 0>>, and from each pair two codes lead to
  the next one or a last code leads to the end (`CodedBy`); so nothing has to be counted or unfolded. Each step of
  the greedy encoder adds a pair, and the plan that the DP follows gives the pairs of a whole
  line (`PlanCoded`). The decoder keeps its two cursors at one of the pairs (`CodesAt` in
  `DecodeInv`): what it unpacks are the codes packed there, and it has their strings because the
  exported histogram, of which it takes the number of codes, counts them all (`HistoInv`,
  `DecoderKnows`). A pair has three bytes, so none, two or three are left at the end. For the length
  of the DP's streams, its costs are bounded from below by the
  steps that any parse takes (`PlanFewest`) and its bytes are counted by them (`PlanLength`). `LinesComeBack`
  follows. It needs a code of 12 bits for each string (`CodecAssumption12`: at most 3840 are entered,
  as `add()` asserts) and finitely many sizes of the decoder's buffer, as its memory ends behind the largest.
* `FsstPipelineProofs`. The properties are not inductive: they say nothing of who may turn to
  a buffer next. `IInv` of `FsstPipelineInv` gives each buffer one
  token, which is in one of its two semaphores or with one of its two threads, and says which
  block of the file each full buffer holds by counting from the buffer the
  consumer turns to next; after the stop a weaker order holds for the one buffer
  that is left. `Invariance` proves it step by step; `TypeCorrect`, `Exclusion`
  and `Order` follow, for all files, codecs and block sizes. `CompleteInv` adds what each thread
  knows of the end of the file, from which a program that ended by itself wrote every block
  (`Completeness`). With both, every step is one of `BlockFilter` or a stutter
  (`ImplementsFilter`); that it ends is left to TLC.
* `SymbolTableProofs`, filling. `LongestMatch` needs to know what every slot of the three
  indexes holds. `IndexInv` says so: an entry is a listed symbol in its slot or the slot's
  pseudo code, and each listed symbol is in its slot. `ProbeFindsLongest` derives the
  longest match, its main case being two long symbols that start the
  same text: they share three bytes, hence the bucket, hence they are equal.
  `FindsLongest` and `ClearLeavesNothing` follow, and, since the histogram counts what is
  listed, that every field keeps its type and width (`TypeCorrect`).
* `SymbolTableProofs`, `finalize()`. The new code of a symbol is its rank: how many symbols are
  in an earlier group, and how many before it in its own. Ranks of different symbols differ and are
  below the number of symbols, so that `finalize()` permutes them (`Permutes`), by length,
  with the two-byte symbols on the right side of `suffixLim` (`Layout`). `FinalTables` is what the
  encoders use of it: each slot holds the code of its own string.
* `TrainerProofs`, training. That the indexes stay sound in training needs that training only
  proposes strings a table can hold, and these come from counts by code, which are read
  against the table they were made with. `TrainInv` joins `IndexInv` with both: the
  codes counted are codes of the table, and every candidate is a string without the
  terminator, or a byte. `TrainingFindsLongest`, `CountsStayWithTable` and
  `TerminatorStaysAlone` follow, the last being what the sentinel of the encoders rests on.
* `TrainerProofs`, the trainings. Why is what `SymbolTable` says of any table true of the one
  that training makes? The rounds fill it from a queue, and only the order of the queue could
  break the rules: a table made without the terminator would have none. `LeadInv` says that the
  terminator comes first. A parse takes a byte or more with each step, hence counts are bounded by
  the bytes of the sample (`CodesCounted`), and no candidate gains more than 16 times, or three times
  the length of a symbol times, that many; the terminator gains 8 times the 65279 it is marked with
  (`TerminatorLeads`), more than either by `SamplesAssumption`, which
  `makeSample` guarantees: it stops at 16384 bytes and adds fewer than 512 more. So each training step is one of `SymbolTable`
  (`TrainingFillsTable`), the finished tables are well formed (`TrainedTables`), nothing survives
  between rounds (`RoundsLeaveNothing`), and every symbol in the table is a substring of the sample or a byte
  (`AllSymbolsOccur`).
* `TrainerProofs`, OptFSST's heap. Pruning lowers counts and leaves the outdated entries where they
  are. `OptInv` says that nothing is lost by that: whatever has a count and would not be refused has
  an entry with that very count (`HeapComplete`). A step keeps it because counts only fall, and
  those that fall are the parts of the entry that is taken, each of which is pushed again
  (`PruneKeeps`, by the length of the entry and of the part), and because what is refused once is refused
  for the rest of the round (`RefusedStays`). With it the top of the heap is the best of all (`HeapFindsTheBest`). The invariant
  also holds the counts to the table that they refer to, for either parse.
* `TrainerProofs`, OptFSST's tables. `HeadInv` is `LeadInv` for the heap: the terminator's entry, 65535, gains
  more than any other. A code is counted at most as often as its string fits into the
  sample, a pair or a triple no more often than each of its codes (`OptWeighed`), so that no joined string can
  gain more than three times the bytes of the sample, which `SamplesAssumption` bounds as well; and
  pruning only starts when the terminator is in. So OptFSST's training, too, is one of `SymbolTable`
  (`OptTrainingFillsTable`), except with the DP at both ends, where long strings are not
  indexed. That nothing is listed twice even then is `OnceInv`: all that is listed
  is refused, by its slot or by its number, and what is refused stays so; `finalize()` asks no more of
  a list than that (`ListInv`), and `NoStringHasTwoCodes` follows.
* `TrainerProofs`, sampling. `SamplingInv` bounds the fill of the buffer: as long as more
  is wanted it is below the target, a chunk is no longer than the target, and the
  buffer has twice the target (`SampleStaysInside`).
* `TrainerProofs`, dictionary. The exported histogram counts the final symbols, and their
  layout is by length, so that the runs of the histogram are the lengths of the codes; hence the
  decoder's offsets are those of the concatenation, which they cut back into the symbols (`DecoderAgrees`).
* `SymbolTableProofs`, counters. The columns always hold the number: high is its quotient
  rounded up, low its remainder, and the halves of a byte do not disturb each other. A scan from
  any code meets the next counter that is not zero, by induction over the codes and words it skips
  (`CountersReadBack`, for counts below the columns' limits); the marked counter reads as 65279,
  more than a sample can count (`TerminatorFirst`).
* `BulkEncoderProofs`. `RoomInv` says that there is always room for two bytes for each byte
  of the chunk that is left, and seven more; a step takes one code for at least a
  byte, or two for one, and looks one byte ahead. With it, the types and `IndexInv` (which bounds
  how far a code moves the cursor), `StaysWithinBuffer` follows. `SpaceInv` compares what is written
  with the documented worst case, line by line (`NoLineRefused`). `GreedyParse` is the
  refinement of `GreedyParser`: on a final table each variant's choice is the longest symbol at the
  cursor, whatever an earlier chunk left behind the sentinel, as a symbol with the
  terminator has no other byte; so the pieces so far (`ParseInv`) grow as `GreedyParser` allows.
* `SimdEncoderProofs`. `StagingInv` says that each job ends where the next may begin, by
  induction over the batch, below what is used of both buffers, and that the check for
  a full batch comes before a job that would not fit; `StagingKeepsApart` follows, whatever the
  kernel does. `KernelGetsTheWork`: the counting sort gives each job one position, and
  jobs with bytes the first ones. `LinesComeOutWhole`: a job's result, kernel and scalar part
  together, is its codes, its line number survives the sort, and copying the results in
  order appends them to the right lines. `NoLineTurnedAway` is the space argument of the scalar encoder.
* `DPEncoderProofs`. After k insertions the trie knows the first k symbols and their prefixes and
  nothing else, so that a walk from a position finds the symbols that start there. The cost of each cell
  the backward pass has left behind is the one `LeastCost` defines (the least over the options
  there), and what is written plus the cost of the rest stays the cost of the chunk (`FewestCodes`).
  Each code stands for the bytes the cursor passes, and the codes of a chunk are complete, so
  that chunks can be put together (`LinesAreKept`).

* `UtilityProofs`, row stores. `RowInv` says what each layout has stored so far, block by block,
  row by row or as one string of codes, and that the block at hand is the one it is taken for; the bytes
  between two ends are a row because ends are sums of lengths (`PieceIsRow`), a row lies in the
  block that division finds (`RowInItsBlock`). `RowsAreReturned` follows.

Only model-checked: all liveness (the pipeline ends, wake-ups arrive, calls
return), which the prover cannot express; 12-bit training (`TrainedMap`, `TakesTheBest12`); what the
8-bit decoder writes in the end (`ReturnsText`, a liveness property); the prototypes (`IntervalsAreOccurrences`, `PicksTheBest`,
`ShortestCover`, `IndexFindsLongest`, `TextComesBack`).

## 6. Not modelled

The AVX512 lanes and the reloads of the four unrolled variants, which are intrinsics;
the older `makeSample` of `libfsst12.cpp`, which nothing calls;
`measureLastTrainingTrie`, whose numbers nothing reads; creation and
destruction of encoders (allocation); argument parsing and timing of the utility;
encoders that share a 12-bit map, which have the trouble of finding 2; `hcw.cpp`, a driver
for an interface that is gone; the third-party headers (`zstd.h`, `zdict.h`, `sais.hxx`,
`PerfEvent.hpp`); the benchmarks (`runner.cpp`, `function_profiler.hpp`), the reports
of the experiments and the data scripts, which have no logic of their own.

## 7. Plan

1. Done: every component of section 1 is modelled and checked. Proved: semaphore and pipeline with
   their refinements (safety); symbol table with `finalize()`; dictionary; counters; sampling;
   greedy and OptFSST's training, with its heap; the scalar, SIMD and DP encoders; the bounds of the decoder;
   the 12-bit encoders and their decoder; the row stores.
2. Left to model: the lanes of the AVX512 kernel, with its reloads, as an implementation
   of the choice `SimdEncoder` leaves open.
3. Left to prove: 12-bit training; the text the 8-bit decoder writes; the prototypes.
