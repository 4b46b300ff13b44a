---------------------------- MODULE GreedyParser ----------------------------
(***************************************************************************)
(* What compression promises, whatever the layout of its tables: a batch   *)
(* of lines is cut into pieces from left to right, each the longest string *)
(* of the dictionary that begins the rest of the line (or a single byte,   *)
(* when there is none).  A line is treated in chunks of ChunkMax bytes and *)
(* no piece crosses the end of a chunk.  The parser may stop early, for    *)
(* lack of room; it then says how many lines it has completed.             *)
(***************************************************************************)
EXTENDS FsstCode, FiniteSets

CONSTANT ChunkMax

VARIABLES
  dict,   \* the strings of the dictionary
  batch,  \* the lines to parse
  parse,  \* the pieces of each line that was started
  count   \* the number of completed lines, once it is known; -1 before

pvars == <<dict, batch, parse, count>>

\* the part of text, after its first n bytes, that the next piece may cover
Window(text, n) ==
  SubSeq(text, n + 1, Min({Len(text), ((n \div ChunkMax) + 1) * ChunkMax}))

Longest(window) ==
  LET found == {n \in 1..Len(window) : n = 1 \/ SubSeq(window, 1, n) \in dict}
      str == SubSeq(window, 1, Max(found))
  IN [str |-> str, escaped |-> str \notin dict]

Complete(l) == l \in 1..Len(parse) /\ Text(parse[l]) = batch[l]

PInit ==
  /\ dict = {}
  /\ batch = << >>
  /\ parse = << >>
  /\ count = -1

\* A dictionary and a batch are given, once.
Given ==
  /\ dict = {} /\ dict' # {}
  /\ UNCHANGED <<parse, count>>

NextLine ==
  /\ count = -1
  /\ Len(parse) < Len(batch)
  /\ parse # << >> => Complete(Len(parse))
  /\ parse' = Append(parse, << >>)
  /\ UNCHANGED <<dict, batch, count>>

NextPiece ==
  LET l == Len(parse)
      done == Len(Text(parse[l]))
  IN
  /\ count = -1
  /\ parse # << >>
  /\ ~Complete(l)
  /\ parse' = [parse EXCEPT ![l] = Append(@, Longest(Window(batch[l], done)))]
  /\ UNCHANGED <<dict, batch, count>>

Return ==
  /\ count = -1
  /\ dict # {}
  /\ count' \in {Len(parse) - 1, Len(parse)} \cap Nat
  /\ \A l \in 1..count' : Complete(l)
  /\ UNCHANGED <<dict, batch, parse>>

PNext == Given \/ NextLine \/ NextPiece \/ Return

PSpec == PInit /\ [][PNext]_pvars

=============================================================================
