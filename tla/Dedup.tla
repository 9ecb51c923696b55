-------------------------------- MODULE Dedup --------------------------------
(***************************************************************************)
(* What the duplicate filter of seen_lookup.c promises: a sequence number  *)
(* is accepted unless it is among the last N accepted ones.                *)
(***************************************************************************)
EXTENDS Integers, Sequences

CONSTANTS N,      \* how many accepted numbers are remembered
          Seqs    \* sequence numbers

VARIABLES log,    \* the accepted numbers, oldest first
          answer  \* the last question and its answer

vars == <<log, answer>>

NoAnswer == [seq |-> -1, added |-> FALSE]

Recent == {log[i] : i \in {j \in 1 .. Len(log) : j > Len(log) - N}}

Init == log = <<>> /\ answer = NoAnswer

Accept(s) == /\ s \notin Recent
             /\ log' = Append(log, s)
             /\ answer' = [seq |-> s, added |-> TRUE]

Refuse(s) == /\ s \in Recent
             /\ answer' = [seq |-> s, added |-> FALSE]
             /\ UNCHANGED log

Next == \E s \in Seqs : Accept(s) \/ Refuse(s)

Spec == Init /\ [][Next]_vars
=============================================================================
