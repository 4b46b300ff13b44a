------------------------------- MODULE MCTables -------------------------------
(* The symbol table: three bytes, strings of up to four, and a hash of two *)
(* buckets, so that strings with different prefixes collide as well as     *)
(* strings that share one.  The counters: small columns, so that every     *)
(* carry happens.  They are independent: a behaviour is of one of them.    *)
EXTENDS Dictionary, Counters

MCBucket == [k \in Key3 |-> (k[1] + 2 * k[3]) % 2]

MCCandidates ==
  { <<1>>, <<2>>, <<1, 2>>, <<2, 1>>, <<1, 1>>, <<1, 2, 1>>,
    <<1, 2, 2>>, <<2, 1, 1>>, <<1, 2, 1, 2>> }

MCInit == DictInit /\ CInit

\* Nothing was counted, or the table is a new one.
Uncounted == <<occurred1, occurred2, marked>> = <<Zero, Zero, NCodes>>
NewTable == DictInit /\ zeroTerminated = 1

MCNext ==
  \/ DictNext /\ Uncounted /\ UNCHANGED cvars
  \/ CNext /\ NewTable /\ UNCHANGED <<tvars, dictVars>>

MCSpec == MCInit /\ [][MCNext]_<<tvars, dictVars, cvars>>

=============================================================================
