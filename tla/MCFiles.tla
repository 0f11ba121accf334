------------------------------- MODULE MCFiles -------------------------------
(* A small instance of Files for TLC. *)
EXTENDS Files, TLC

CONSTANTS na, nb

MCItems == 1..2
MCRows == 1..2
New(name) == [id |-> None, name |-> name]
Old(i, name) == [id |-> i, name |-> name]
\* Nothing, one document, two, a rename, a swap, and a name taken over.
MCDtos ==
  {<<>>, <<New(na)>>, <<New(na), New(nb)>>, <<Old(1, nb)>>,
   <<Old(1, nb), Old(2, na)>>, <<Old(1, nb), New(na)>>}

Alike == Permutations(Writers) \cup Permutations(Sitters)
           \cup Permutations(SubmissionFiles) \cup Permutations(Pictures)
=============================================================================
