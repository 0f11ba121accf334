-------------------------------- MODULE Files --------------------------------
(***************************************************************************)
(* Submissions and avatars over one provider of files, and the promise both *)
(* keep: CloudinaryService as its two users use it.                         *)
(***************************************************************************)
EXTENDS Progress, Avatars

ASSUME FilesAssumption == SubmissionFiles \cap Pictures = {}

vars == <<submissionVars, avatarVars>>

Init == SubmissionsInit /\ AvatarsInit

\* The two share neither a row nor the name of a file, so that a behaviour of
\* both is one of each: a bound, of which kind the first request is.
SubmissionsOnly == pictures = {} /\ \A q \in Sitters : On(q, "idle")
AvatarsOnly == list = [i \in Items |-> None] /\ Handed = {} /\ \A p \in Writers : At(p, "idle")

Next ==
  \/ SubmissionsNext /\ SubmissionsOnly /\ UNCHANGED avatarVars
  \/ AvatarsNext /\ AvatarsOnly /\ UNCHANGED submissionVars

Spec == Init /\ [][Next]_vars

-----------------------------------------------------------------------------
(* Properties.                                                              *)

TypeOK == SubmissionsTypeOK /\ AvatarsTypeOK

Linked == ({work[r].file : r \in Rows} \ {None}) \cup ({avatar[u] : u \in Users} \ {Bare})
HeldDocuments == {f \in documents \ Linked : \E p \in Writers : desk[p].file = f}
HeldPictures == {f \in pictures \ Linked : \E q \in Sitters : f \in {sitting[q].old, sitting[q].new}}

\* The two components implement FileStore: a row never names a file that is not
\* there, and a file a row names is never deleted, whichever requests overlap,
\* fail or die (submissions.service.ts create, me.service.ts setAvatar).
Store == INSTANCE FileStore WITH
  File <- SubmissionFiles \cup Pictures,
  stored <- documents \cup pictures,
  linked <- Linked,
  held <- HeldDocuments \cup HeldPictures
StoreImplemented == Store!Spec

\* An uploaded document ends up in a row or is taken back out, unless the
\* request dies or the deletion fails: nothing is left behind quietly
\* (submissions.service.ts create, the catch).
DocumentsAccounted == documents \subseteq Linked \cup HeldDocuments \cup spilled

\* What submissions leave behind, whichever overlap, fail or die: versions
\* without a gap, documents with a row, and news only of answers there are.
WorkSound == TypeOK /\ NoVersionSkipped /\ ToldOfAnAnswer /\ DocumentsAccounted
=============================================================================
