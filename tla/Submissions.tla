---------------------------- MODULE Submissions -----------------------------
(***************************************************************************)
(* What a round hands in: the office's list of requirements, the work       *)
(* groups submit against it, version by version, and the supervisor's       *)
(* answers.  One round; which students make up a group is Registration's.   *)
(*                                                                         *)
(* A request reads, uploads, reads and writes; a transaction reads what is  *)
(* committed (READ COMMITTED), so its steps are separate actions.           *)
(***************************************************************************)
EXTENDS Integers, FiniteSets, Sequences, SequencesExt

CONSTANTS
  Groups,
  Items,        \* ids for requirements
  Names,
  Dtos,         \* bodies the office may send: sequences of [id, name]
  Rows,         \* ids for submissions, a bound
  Writers,      \* requests of this module in flight at once
  SubmissionFiles,
  None

ASSUME SubmissionsAssumption ==
  /\ Items \subseteq Nat /\ Rows \subseteq Nat /\ IsFiniteSet(Rows)
  /\ None \notin Names \cup Items \cup Groups \cup SubmissionFiles \cup Rows
  /\ \A dto \in Dtos :
       /\ dto \in Seq([id : Items \cup {None}, name : Names])
       /\ \A i, j \in DOMAIN dto : i # j => dto[i].name # dto[j].name

VARIABLES
  list,     \* submission_requirements: names by id
  open,     \* groups that are not REJECTED
  work,     \* submissions
  desk,     \* requests
  documents,\* files at the provider
  spilled   \* history: documents a dead request or a failed deletion left there

submissionVars == <<list, open, work, desk, documents, spilled>>

Work == [group : Groups \cup {None},   \* None: no such row
         item : Items \cup {None}, version : Nat,
         file : SubmissionFiles \cup {None}, answered : BOOLEAN, told : BOOLEAN]
NoWork == [group |-> None, item |-> None, version |-> 0, file |-> None,
           answered |-> FALSE, told |-> FALSE]

Request ==
  [pc : {"idle", "upload", "read", "insert", "cleanup", "edit", "answer", "tell"},
   group : Groups \cup {None}, item : Items \cup {None}, version : Nat,
   file : SubmissionFiles \cup {None},
   row : Rows \cup {None},         \* the submission answered
   dto : Dtos \cup {<<>>}, dropped : SUBSET Items]
Idle == [pc |-> "idle", group |-> None, item |-> None, version |-> 0,
         file |-> None, row |-> None, dto |-> <<>>, dropped |-> {}]

SubmissionsTypeOK ==
  /\ list \in [Items -> Names \cup {None}]
  /\ open \subseteq Groups
  /\ work \in [Rows -> Work]
  /\ desk \in [Writers -> Request]
  /\ documents \subseteq SubmissionFiles /\ spilled \subseteq SubmissionFiles

SubmissionsInit ==
  /\ list = [i \in Items |-> None]
  /\ open = Groups
  /\ work = [r \in Rows |-> NoWork]
  /\ desk = [p \in Writers |-> Idle]
  /\ documents = {} /\ spilled = {}

Listed == {i \in Items : list[i] # None}
Handed == {r \in Rows : work[r].group # None}
Against(i) == {r \in Handed : work[r].item = i}

At(p, pc) == desk[p].pc = pc
Done(p) == desk' = [desk EXCEPT ![p] = Idle]

-----------------------------------------------------------------------------
(* setForRound.                                                             *)

\* What the office means to keep exists, and what it drops has no work.
EditArrives(p, dto) ==
  LET kept == {dto[k].id : k \in DOMAIN dto} \ {None}
      dropped == Listed \ kept IN
  /\ At(p, "idle")
  /\ \A i \in dropped : Against(i) = {}
  /\ kept \subseteq Listed
  /\ desk' = [desk EXCEPT ![p] = [Idle EXCEPT !.pc = "edit", !.dto = dto,
                                              !.dropped = dropped]]
  /\ UNCHANGED <<list, open, work, documents, spilled>>

Mentioned == {desk[p].item : p \in Writers}
  \cup UNION {desk[p].dropped \cup {desk[p].dto[k].id : k \in DOMAIN desk[p].dto} : p \in Writers}

\* One entry, on the rows as the entries before it left them; the unique index
\* judges at once.
WriteEntry(rows, entry) ==
  LET fresh == {i \in Items : rows[i] = None /\ list[i] = None /\ i \notin Mentioned}
      target == IF entry.id # None THEN {entry.id} ELSE fresh IN
  IF \/ rows = <<>> \/ target = {}
     \/ entry.id # None /\ rows[entry.id] = None
     \/ \E i \in Items \ target : rows[i] = entry.name
     \/ entry.id = None /\ \E i \in Items : rows[i] = entry.name
  THEN <<>>
  ELSE [rows EXCEPT ![CHOOSE i \in target : \A j \in target : i <= j] = entry.name]

\* The list after the transaction, <<>> when a write of it fails.
Written(p) ==
  LET remaining == [i \in Items |-> IF i \in desk[p].dropped THEN None ELSE list[i]]
      dto == desk[p].dto
      after[n \in 0..Len(dto)] ==
        IF n = 0 THEN remaining ELSE WriteEntry(after[n - 1], dto[n])
  IN after[Len(dto)]

\* Mutated form: work goes with what it was handed in against.
CommitEditCascades(p) ==
  /\ At(p, "edit")
  /\ Written(p) # <<>>
  /\ list' = Written(p)
  /\ work' = [r \in Rows |->
       IF r \in Handed /\ work[r].item \in desk[p].dropped THEN NoWork ELSE work[r]]
  /\ Done(p)
  /\ UNCHANGED <<open, documents, spilled>>

\* The foreign key restricts the delete of what has work by now.
CommitEdit(p) ==
  /\ At(p, "edit")
  /\ \A i \in desk[p].dropped : Against(i) = {}
  /\ Written(p) # <<>>
  /\ list' = Written(p)
  /\ Done(p)
  /\ UNCHANGED <<open, work, documents, spilled>>

-----------------------------------------------------------------------------
(* create.                                                                  *)

\* A file, or a link and no file to upload.
CreateArrives(p, g, i) ==
  /\ At(p, "idle")
  /\ g \in open /\ i \in Listed
  /\ \E pc \in {"upload", "read"} :
       desk' = [desk EXCEPT ![p] = [Idle EXCEPT !.pc = pc, !.group = g, !.item = i]]
  /\ UNCHANGED <<list, open, work, documents, spilled>>

\* unique_filename: the provider gives each upload a name of its own.
Upload(p) ==
  /\ At(p, "upload")
  /\ \E f \in SubmissionFiles \ (documents \cup {work[r].file : r \in Rows}) :
       /\ documents' = documents \cup {f}
       /\ desk' = [desk EXCEPT ![p].pc = "read", ![p].file = f]
  /\ UNCHANGED <<list, open, work, spilled>>

Earlier(g, i) == {r \in Handed : work[r].group = g /\ work[r].item = i}

ReadLatest(p) ==
  LET versions == {work[r].version : r \in Earlier(desk[p].group, desk[p].item)} IN
  /\ At(p, "read")
  /\ desk' = [desk EXCEPT ![p].pc = "insert",
       ![p].version = 1 + (IF versions = {} THEN 0 ELSE Max(versions))]
  /\ UNCHANGED <<list, open, work, documents, spilled>>

\* Mutated form: a refused insert is not caught.
InsertUncaught(p) ==
  LET q == desk[p]
      free == Rows \ Handed IN
  /\ At(p, "insert") /\ free # {}
  /\ work' = IF q.item \in Listed
             THEN [work EXCEPT ![Min(free)] =
                    [NoWork EXCEPT !.group = q.group, !.item = q.item,
                                   !.version = q.version, !.file = q.file]]
             ELSE work
  /\ Done(p)
  /\ UNCHANGED <<list, open, documents, spilled>>

\* The requirement may be gone: then the foreign key refuses the row.
Insert(p) ==
  LET q == desk[p]
      free == Rows \ Handed IN
  /\ At(p, "insert") /\ free # {}
  /\ IF q.item \in Listed
     THEN /\ work' = [work EXCEPT ![Min(free)] =
               [NoWork EXCEPT !.group = q.group, !.item = q.item,
                              !.version = q.version, !.file = q.file]]
          /\ Done(p)
     ELSE /\ desk' = [desk EXCEPT ![p].pc = "cleanup"]
          /\ UNCHANGED work
  /\ UNCHANGED <<list, open, documents, spilled>>

\* The catch: a file nothing points at is taken back out, if that succeeds.
Cleanup(p) ==
  /\ At(p, "cleanup")
  /\ documents' = documents \ {desk[p].file}
  /\ Done(p)
  /\ UNCHANGED <<list, open, work, spilled>>

CleanupFails(p) ==
  /\ At(p, "cleanup") /\ desk[p].file # None
  /\ spilled' = spilled \cup {desk[p].file}
  /\ Done(p)
  /\ UNCHANGED <<list, open, work, documents>>

-----------------------------------------------------------------------------
(* giveFeedback.                                                            *)

AnswerArrives(p, r) ==
  /\ At(p, "idle") /\ r \in Handed
  /\ desk' = [desk EXCEPT ![p] = [Idle EXCEPT !.pc = "answer", !.row = r]]
  /\ UNCHANGED <<list, open, work, documents, spilled>>

Answer(p) ==
  /\ At(p, "answer")
  /\ work' = [work EXCEPT ![desk[p].row].answered = TRUE]
  /\ desk' = [desk EXCEPT ![p].pc = "tell"]
  /\ UNCHANGED <<list, open, documents, spilled>>

\* notify, whose failure is logged and forgotten.
Tell(p) ==
  /\ At(p, "tell")
  /\ \/ work' = [work EXCEPT ![desk[p].row].told = TRUE]
     \/ UNCHANGED work
  /\ Done(p)
  /\ UNCHANGED <<list, open, documents, spilled>>

-----------------------------------------------------------------------------
(* The rest.                                                                *)

\* Registration rejects or disbands the group; its row and its work stay.
GroupRejected(g) ==
  /\ g \in open
  /\ open' = open \ {g}
  /\ UNCHANGED <<list, work, desk, documents, spilled>>

\* Refused, timed out, or gone with the server, wherever it was.
CrashWriter(p) ==
  /\ ~At(p, "idle")
  /\ spilled' = spilled \cup ({desk[p].file} \ {None})
  /\ Done(p)
  /\ UNCHANGED <<list, open, work, documents>>

SubmissionsNext ==
  \/ \E p \in Writers :
       \/ \E dto \in Dtos : EditArrives(p, dto)
       \/ \E g \in Groups, i \in Items : CreateArrives(p, g, i)
       \/ \E r \in Rows : AnswerArrives(p, r)
       \/ CommitEdit(p) \/ Upload(p) \/ ReadLatest(p) \/ Insert(p)
       \/ Cleanup(p) \/ CleanupFails(p) \/ Answer(p) \/ Tell(p) \/ CrashWriter(p)
  \/ \E g \in Groups : GroupRejected(g)

-----------------------------------------------------------------------------
(* Properties.                                                              *)

\* A group's versions of a document have no gap, whatever overlaps: the latest
\* is as many as there have been attempts, or fewer (create).
NoVersionSkipped ==
  \A r \in Handed : work[r].version > 1 =>
    \E x \in Against(work[r].item) :
      work[x].group = work[r].group /\ work[x].version = work[r].version - 1

\* Nobody is told of an answer that is not there (giveFeedback).
ToldOfAnAnswer == \A r \in Handed : work[r].told => work[r].answered

\* As submissions.service.ts:113 has it, two members pressing submit together
\* do not both claim the same version.  Refuted.
VersionsDistinct ==
  \A r, x \in Handed :
    r # x /\ work[r].group = work[x].group /\ work[r].item = work[x].item
      => work[r].version # work[x].version

\* As requirements.service.ts:83 has it, a change that swaps two names goes
\* through, the writes being ordered.  Refuted.
SwapsSurvive ==
  \A p \in Writers :
    At(p, "edit") /\ desk[p].dropped = {} /\ {desk[p].dto[k].id : k \in DOMAIN desk[p].dto} = Listed
      => Written(p) # <<>>
=============================================================================
