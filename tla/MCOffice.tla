------------------------------ MODULE MCOffice ------------------------------
(* A small instance of Office for TLC. *)
EXTENDS Office, TLC
MCRowIds == 1..2
MCDays == 1..3
MCSpans == {<<1, 3>>}
\* Each alone is in order with the dates of a new term, both together cross.
MCPayloads == {<<2, 0>>, <<0, 2>>}
Alike == Permutations(Clerks) \cup Permutations(Codes) \cup Permutations(Readers)
=============================================================================
