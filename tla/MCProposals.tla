----------------------------- MODULE MCProposals -----------------------------
(* Small instances of Proposals for TLC.                                    *)
EXTENDS Proposals, TLC

CONSTANT Ceiling  \* every lecturer's quota

MCQuota == [l \in Lecturers |-> Ceiling]

Everyone == Permutations(Students) \cup Permutations(Lecturers)
              \cup Permutations(Proposals) \cup Permutations(Topics)
              \cup Permutations(Rounds) \cup Permutations(Requests)
=============================================================================
