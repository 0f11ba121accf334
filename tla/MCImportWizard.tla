--------------------------- MODULE MCImportWizard ---------------------------
(* A small instance of ImportWizard for TLC. *)
EXTENDS ImportWizard, TLC

CONSTANTS e1, e2, c1, c2

Line(e, c) == [email |-> e, role |-> "STUDENT", code |-> c]
MCIds == 1..2
MCSessions == 1..2
MCSenders == Requests \cup Jobs
\* A roster of two, and one that takes the other's code.
MCFiles == {{Line(e1, c1), Line(e2, c2)}}

\* The two lines of the file are alike.
Swap == e1 :> e2 @@ e2 :> e1 @@ c1 :> c2 @@ c2 :> c1
Alike == Permutations(Jobs) \cup {Swap}
=============================================================================
