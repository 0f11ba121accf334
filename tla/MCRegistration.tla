--------------------------- MODULE MCRegistration ---------------------------
(* Small instances of Registration for TLC.                                 *)
EXTENDS Reports, TLC

CONSTANTS Size,      \* what every topic holds
          Reserved   \* the student every topic was written for, or None

MCMaxStudents == [t \in Topics |-> Size]
MCProposer == [t \in Topics |-> Reserved]

Everyone == Permutations(Students \ {Reserved}) \cup Permutations(Groups)
              \cup Permutations(Requests) \cup Permutations(Topics)
=============================================================================
