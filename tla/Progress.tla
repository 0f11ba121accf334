------------------------------ MODULE Progress -------------------------------
(***************************************************************************)
(* How far the groups of a round are, as the faculty report counts it from   *)
(* the work of Submissions (progressRows).  Which documents of the list are  *)
(* required is left open: the report is judged for every choice of them.     *)
(***************************************************************************)
EXTENDS Submissions

\* newestPerGroupAndRequirement.  Of two rows with one version it keeps the one
\* the database happened to return first, so there may be several candidates.
Newest(g, i) ==
  {r \in Earlier(g, i) : \A x \in Earlier(g, i) : work[x].version <= work[r].version}

Complete(required) == {g \in open : \A i \in required : Newest(g, i) # {}}
Submitted(i) == Cardinality({g \in open : Newest(g, i) # {}})

\* The groups a report surely counts as awaiting feedback, and those it may.
SurelyAwaiting ==
  {g \in open : \E i \in Listed :
     Newest(g, i) # {} /\ \A r \in Newest(g, i) : ~work[r].answered}
MaybeAwaiting ==
  {g \in open : \E i \in Listed : \E r \in Newest(g, i) : ~work[r].answered}

-----------------------------------------------------------------------------
(* Properties.                                                              *)

\* Work is filed against a document that is on the list, for good: the office
\* drops no document a group has handed in, even one handed in while the list
\* was being saved (setForRound, Submission.requirement).
WorkStaysListed ==
  \A r \in Handed : work'[r].item = work[r].item /\ list'[work[r].item] # None

\* What a report has said of a group stands as long as the group does.  It stays
\* complete in what remains required, and it leaves those awaiting feedback only
\* by an answer and rejoins them only by another version, whichever requests,
\* failures and edits of the list come between (progressRows).
ProgressStands ==
  /\ \A required \in SUBSET (Listed \cap Listed') :
       Complete(required) \cap open' \subseteq Complete(required)'
  /\ (SurelyAwaiting \cap open') \ MaybeAwaiting' # {} =>
       \E r \in Handed : ~work[r].answered /\ work'[r].answered
  /\ MaybeAwaiting' \ MaybeAwaiting # {} => Handed' # Handed
  /\ \A i \in Listed \cap Listed' :
       Submitted(i)' < Submitted(i) => open' # open

WorkKept == [][WorkStaysListed /\ ProgressStands]_submissionVars

\* A report read after its supervisor answered the last version of everything
\* shows nobody waiting.  Refuted with VersionsDistinct: of two first versions
\* one may be answered, and either may be the one it keeps.
AwaitingSettled == MaybeAwaiting = SurelyAwaiting
=============================================================================
