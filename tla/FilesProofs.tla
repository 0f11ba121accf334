----------------------------- MODULE FilesProofs -----------------------------
(***************************************************************************)
(* Files.tla for any number of groups, documents, rows, requests, users and *)
(* pictures: submissions and avatars implement FileStore, a group's         *)
(* versions of a document have no gap, and what a report said of it stands. *)
(***************************************************************************)
EXTENDS Files, FiniteSetTheorems, WellFoundedInduction, TLAPS

-----------------------------------------------------------------------------
(* Least and greatest ids.                                                  *)

\* An id is found when one is free.
LEMMA LeastOfSome ==
  ASSUME NEW ids \in SUBSET Nat, ids # {}
  PROVE  Min(ids) \in ids /\ \A m \in ids : Min(ids) <= m
  <1> DEFINE less == OpToRel(<, Nat)
  <1>1. less = {pair \in Nat \X Nat : pair[1] < pair[2]}
    BY Zenon DEF OpToRel
  <1>2. IsWellFoundedOn(less, Nat)
    BY NatLessThanWellFounded
  <1> HIDE DEF less
  <1>3. PICK n \in ids : \A m \in ids : <<m, n>> \notin less
    BY <1>2, WFMin
  <1>4. ASSUME NEW m \in ids
        PROVE  n <= m
    <2>1. m \in Nat /\ n \in Nat
      OBVIOUS
    <2>2. m < n => <<m, n>> \in less
      BY <1>1, <2>1, Zenon
    <2>3. QED
      BY <1>3, <2>1, <2>2
  <1>5. QED
    BY <1>4 DEF Min

\* Of the finite sets without a greatest element one would be least, and taking
\* anything out of it would leave a smaller one.
LEMMA GreatestOfSome ==
  ASSUME NEW versions \in SUBSET Nat, IsFiniteSet(versions), versions # {}
  PROVE  Max(versions) \in versions /\ \A v \in versions : v <= Max(versions)
  <1> DEFINE Topped(S) == \E m \in S : \A n \in S : m >= n
             smaller == StrictSubsetOrdering(Nat)
             bad == {S \in FiniteSubsetsOf(Nat) : S # {} /\ ~Topped(S)}
  <1>1. Topped(versions)
    <2> SUFFICES ASSUME ~Topped(versions) PROVE FALSE
      OBVIOUS
    <2>1. versions \in bad
      BY DEF FiniteSubsetsOf
    <2>2. IsWellFoundedOn(smaller, FiniteSubsetsOf(Nat))
      BY FS_StrictSubsetOrderingWellFounded
    <2>3. bad \subseteq FiniteSubsetsOf(Nat) /\ bad # {}
      BY <2>1
    <2> HIDE DEF bad, smaller
    <2>4. PICK S \in bad : \A T \in bad : <<T, S>> \notin smaller
      BY <2>2, <2>3, WFMin
    <2>5. S \in SUBSET Nat /\ IsFiniteSet(S) /\ S # {} /\ ~Topped(S)
      BY <2>4 DEF bad, FiniteSubsetsOf
    <2>6. PICK x : x \in S
      BY <2>5
    <2> DEFINE T == S \ {x}
    <2>7. T \in SUBSET Nat /\ IsFiniteSet(T)
      BY <2>5, FS_Subset
    <2>8. <<T, S>> \in smaller
      <3>1. T \subseteq S /\ T # S
        BY <2>6
      <3> HIDE DEF T
      <3>2. QED
        BY <2>5, <2>7, <3>1, Zenon DEF smaller, StrictSubsetOrdering
    <2>9. T = {} \/ Topped(T)
      BY <2>4, <2>7, <2>8 DEF bad, FiniteSubsetsOf
    <2>10. CASE T = {}
      BY <2>5, <2>6, <2>10
    <2>11. CASE Topped(T)
      <3>1. PICK m \in T : \A n \in T : m >= n
        BY <2>11
      <3>2. CASE m >= x
        BY <2>5, <2>6, <3>1, <3>2
      <3>3. CASE ~(m >= x)
        BY <2>5, <2>6, <3>1, <3>3
      <3>4. QED
        BY <3>2, <3>3
    <2>12. QED
      BY <2>9, <2>10, <2>11
  <1>2. QED
    BY <1>1 DEF Max

-----------------------------------------------------------------------------
(* Submissions.                                                             *)

\* All of SubmissionsTypeOK but what ListInv says; and a request to submit is some
\* group's.
SubmissionsTyped ==
  /\ work \in [Rows -> Work]
  /\ desk \in [Writers -> Request]
  /\ \A p \in Writers : desk[p].pc \in {"upload", "read", "insert"} => desk[p].group \in Groups
  /\ documents \subseteq SubmissionFiles

\* A file in a request's hands is there, is nobody else's and in no row.
FilesInHand ==
  \A p \in Writers : desk[p].file # None =>
    /\ desk[p].pc \in {"read", "insert", "cleanup"}
    /\ desk[p].file \in documents
    /\ \A r \in Rows : work[r].file # desk[p].file
    /\ \A q \in Writers \ {p} : desk[q].file # desk[p].file

FilesInRows ==
  \A r \in Rows :
    /\ work[r].file \in documents \cup {None}
    /\ work[r].group = None => work[r].file = None

InRows == {work[r].file : r \in Rows} \ {None}
InHand == {desk[p].file : p \in Writers} \ {None}
Accounted == documents \subseteq InRows \cup InHand \cup spilled

\* A version about to be written continues what the group has handed in.
VersionInHand ==
  \A p \in Writers : At(p, "insert") /\ desk[p].version > 1 =>
    \E x \in Handed : /\ work[x].group = desk[p].group /\ work[x].item = desk[p].item
                      /\ work[x].version = desk[p].version - 1

AnswerInHand ==
  \A p \in Writers :
    /\ desk[p].pc \in {"answer", "tell"} => desk[p].row \in Handed
    /\ At(p, "tell") => work[desk[p].row].answered

AboutFiles == FilesInHand /\ FilesInRows /\ Accounted
AboutWork == NoVersionSkipped /\ VersionInHand /\ ToldOfAnAnswer /\ AnswerInHand
SubmissionsInv == SubmissionsTyped /\ AboutFiles /\ AboutWork

\* What FileStore allows, of the documents.
DocumentUploaded(f) ==
  /\ f \in SubmissionFiles \ documents
  /\ documents' = documents \cup {f} /\ InHand' = InHand \cup {f} /\ InRows' = InRows
DocumentLinked(f) ==
  /\ f \in InHand
  /\ documents' = documents /\ InHand' = InHand \ {f} /\ InRows' = InRows \cup {f}
DocumentTakenBack(f) ==
  /\ f \in InHand
  /\ documents' = documents \ {f} /\ InHand' = InHand \ {f} /\ InRows' = InRows
DocumentForgotten(f) ==
  /\ f \in InHand
  /\ documents' = documents /\ InHand' = InHand \ {f} /\ InRows' = InRows
DocumentsStand == documents' = documents /\ InHand' = InHand /\ InRows' = InRows
DocumentsStep ==
  \/ DocumentsStand
  \/ \E f \in SubmissionFiles : \/ DocumentUploaded(f) \/ DocumentLinked(f)
                                \/ DocumentTakenBack(f) \/ DocumentForgotten(f)

LEMMA NoneApart ==
  /\ None \notin SubmissionFiles /\ None \notin Groups /\ None \notin Rows
  /\ None \notin Items /\ Rows \subseteq Nat /\ IsFiniteSet(Rows)
  BY SubmissionsAssumption

LEMMA IdleTyped == Idle \in Request /\ Idle.pc = "idle" /\ Idle.file = None
  BY DEF Idle, Request

\* A request takes its next step with the file it has, and the rows stand.
LEMMA SameFile ==
  ASSUME SubmissionsTyped, AboutFiles, NEW p \in Writers, NEW q \in Request,
         desk' = [desk EXCEPT ![p] = q], q.file = desk[p].file,
         q.file # None => q.pc \in {"read", "insert", "cleanup"},
         UNCHANGED <<documents, spilled>>,
         \A r \in Rows : /\ work'[r].file = work[r].file
                         /\ work'[r].group = work[r].group
  PROVE  AboutFiles' /\ DocumentsStand
  <1>1. \A x \in Writers : /\ desk'[x].file = desk[x].file
                           /\ desk[x].file # None => desk'[x].pc \in {"read", "insert", "cleanup"}
    BY DEF SubmissionsTyped, AboutFiles, FilesInHand
  <1>2. InHand' = InHand /\ InRows' = InRows
    BY <1>1 DEF InHand, InRows
  <1>3. FilesInHand' /\ FilesInRows'
    BY <1>1 DEF AboutFiles, FilesInHand, FilesInRows
  <1>4. QED
    BY <1>2, <1>3 DEF AboutFiles, Accounted, DocumentsStand

\* A request lets go of its file, which is then spilled, in a row or deleted.
LEMMA FileGone ==
  ASSUME SubmissionsTyped, AboutFiles, NEW p \in Writers,
         desk' = [desk EXCEPT ![p] = Idle], desk[p].file # None
  PROVE  /\ InHand' = InHand \ {desk[p].file}
         /\ desk[p].file \in InHand /\ desk[p].file \in SubmissionFiles
         /\ desk[p].file \notin InRows
         /\ \A q \in Writers : desk'[q].file # None =>
              q # p /\ desk'[q] = desk[q] /\ desk[q].file # desk[p].file
  <1>1. \A q \in Writers : desk'[q] = IF q = p THEN Idle ELSE desk[q]
    BY DEF SubmissionsTyped
  <1>2. \A q \in Writers \ {p} : desk[q].file # desk[p].file
    BY DEF AboutFiles, FilesInHand
  <1>3. InHand' = InHand \ {desk[p].file}
    BY <1>1, <1>2, IdleTyped DEF InHand
  <1>4. QED
    BY <1>1, <1>2, <1>3, IdleTyped DEF InHand, InRows, AboutFiles, FilesInHand, SubmissionsTyped

\* A request takes a step that reads neither versions nor answers.
LEMMA SameWork ==
  ASSUME SubmissionsTyped, AboutWork, NEW p \in Writers, NEW q,
         desk' = [desk EXCEPT ![p] = q], work' = work,
         q.pc \notin {"insert", "answer", "tell"}
  PROVE  AboutWork'
  <1>1. Handed' = Handed /\ \A i : Against(i)' = Against(i)
    BY DEF Handed, Against
  <1>2. NoVersionSkipped' /\ ToldOfAnAnswer'
    BY <1>1 DEF AboutWork, NoVersionSkipped, ToldOfAnAnswer
  <1>3. VersionInHand' /\ AnswerInHand'
    BY <1>1 DEF AboutWork, VersionInHand, AnswerInHand, At, SubmissionsTyped
  <1>4. QED
    BY <1>2, <1>3 DEF AboutWork

\* A request ends.
LEMMA EndsTyped ==
  ASSUME SubmissionsTyped, NEW p \in Writers, Done(p)
  PROVE  /\ desk' = [desk EXCEPT ![p] = Idle] /\ desk' \in [Writers -> Request]
         /\ \A q \in Writers : desk'[q].pc \in {"upload", "read", "insert"} => desk'[q].group \in Groups
  BY IdleTyped DEF SubmissionsTyped, Done

\* setForRound, and requests that arrive.
LEMMA EditStep ==
  ASSUME SubmissionsInv, NEW p \in Writers,
         \/ \E dto \in Dtos : EditArrives(p, dto)
         \/ \E g \in Groups, i \in Items : CreateArrives(p, g, i)
         \/ CommitEdit(p)
  PROVE  SubmissionsInv' /\ DocumentsStep
  <1>1. ASSUME NEW q \in Request, desk' = [desk EXCEPT ![p] = q], q.file = None,
               q.pc \notin {"insert", "answer", "tell"}, desk[p].file = None,
               q.pc \in {"upload", "read"} => q.group \in Groups,
               UNCHANGED <<work, documents, spilled>>
        PROVE  SubmissionsInv' /\ DocumentsStep
    <2>1. SubmissionsTyped'
      <3>1. \A x \in Writers : desk'[x] = IF x = p THEN q ELSE desk[x]
        BY <1>1 DEF SubmissionsInv, SubmissionsTyped
      <3>2. QED
        BY <1>1, <3>1 DEF SubmissionsInv, SubmissionsTyped
    <2>2. AboutFiles' /\ DocumentsStand
      BY <1>1, SameFile DEF SubmissionsInv
    <2>3. AboutWork'
      BY <1>1, SameWork DEF SubmissionsInv
    <2>4. QED
      BY <2>1, <2>2, <2>3 DEF SubmissionsInv, DocumentsStep
  <1>2. At(p, "idle") \/ At(p, "edit") => desk[p].file = None
    BY DEF SubmissionsInv, AboutFiles, FilesInHand, At
  <1>3. ASSUME NEW dto \in Dtos, EditArrives(p, dto)
        PROVE  SubmissionsInv' /\ DocumentsStep
    <2> DEFINE gone == Listed \ ({dto[k].id : k \in DOMAIN dto} \ {None})
               q == [Idle EXCEPT !.pc = "edit", !.dto = dto, !.dropped = gone]
    <2>1. gone \in SUBSET Items
      BY DEF Listed
    <2>2. desk' = [desk EXCEPT ![p] = q] /\ At(p, "idle")
            /\ UNCHANGED <<work, documents, spilled>>
      BY <1>3 DEF EditArrives
    <2> HIDE DEF gone
    <2>3. q \in Request /\ q.file = None /\ q.pc = "edit"
      BY <2>1 DEF Idle, Request
    <2> HIDE DEF q
    <2>4. QED
      BY <1>1, <1>2, <2>2, <2>3
  <1>4. ASSUME NEW g \in Groups, NEW i \in Items, CreateArrives(p, g, i)
        PROVE  SubmissionsInv' /\ DocumentsStep
    <2>1. PICK pc \in {"upload", "read"} :
            desk' = [desk EXCEPT ![p] = [Idle EXCEPT !.pc = pc, !.group = g, !.item = i]]
      BY <1>4 DEF CreateArrives
    <2> DEFINE q == [Idle EXCEPT !.pc = pc, !.group = g, !.item = i]
    <2>2. q \in Request /\ q.file = None /\ q.pc \in {"upload", "read"} /\ q.group \in Groups
      BY DEF Idle, Request
    <2>3. desk' = [desk EXCEPT ![p] = q] /\ At(p, "idle")
            /\ UNCHANGED <<work, documents, spilled>>
      BY <1>4, <2>1 DEF CreateArrives
    <2> HIDE DEF q
    <2>4. QED
      BY <1>1, <1>2, <2>2, <2>3
  <1>5. CASE CommitEdit(p)
    BY <1>1, <1>2, <1>5, IdleTyped DEF CommitEdit, Done
  <1>6. QED
    BY <1>3, <1>4, <1>5

\* create, up to its row.
LEMMA CreateStep ==
  ASSUME SubmissionsInv, NEW p \in Writers, Upload(p) \/ ReadLatest(p)
  PROVE  SubmissionsInv' /\ DocumentsStep
  <1>1. CASE Upload(p)
    <2>1. PICK f \in SubmissionFiles \ (documents \cup {work[r].file : r \in Rows}) :
            /\ documents' = documents \cup {f}
            /\ desk' = [desk EXCEPT ![p].pc = "read", ![p].file = f]
      BY <1>1 DEF Upload
    <2> DEFINE q == [desk[p] EXCEPT !.pc = "read", !.file = f]
    <2>2. desk' = [desk EXCEPT ![p] = q] /\ UNCHANGED <<work, spilled>>
      BY <1>1, <2>1 DEF Upload, SubmissionsInv, SubmissionsTyped
    <2>3. q \in Request /\ q.file = f /\ q.pc = "read" /\ q.group \in Groups
      <3>1. desk[p] \in Request /\ desk[p].group \in Groups
        BY <1>1 DEF Upload, At, SubmissionsInv, SubmissionsTyped
      <3>2. QED
        BY <3>1 DEF Request
    <2> HIDE DEF q
    <2>4. \A x \in Writers : desk'[x] = IF x = p THEN q ELSE desk[x]
      BY <2>2 DEF SubmissionsInv, SubmissionsTyped
    <2>5. desk[p].file = None
      BY <1>1 DEF Upload, At, SubmissionsInv, AboutFiles, FilesInHand
    <2>6. \A x \in Writers : desk[x].file # f
      BY <2>1, NoneApart DEF SubmissionsInv, AboutFiles, FilesInHand
    <2>7. SubmissionsTyped'
      BY <2>1, <2>2, <2>3, <2>4 DEF SubmissionsInv, SubmissionsTyped
    <2>8. InRows' = InRows
      BY <2>2 DEF InRows
    <2>9. InHand' = InHand \cup {f}
      <3>1. \A x \in Writers : desk'[x].file = IF x = p THEN f ELSE desk[x].file
        BY <2>3, <2>4
      <3>2. f # None
        BY <2>1, NoneApart
      <3>3. QED
        BY <2>5, <3>1, <3>2, Zenon DEF InHand
    <2>10. FilesInHand'
      <3>3. documents' = documents \cup {f} /\ \A r \in Rows : work[r].file # f
        BY <2>1
      <3>1. ASSUME NEW x \in Writers, desk'[x].file # None
            PROVE  /\ desk'[x].pc \in {"read", "insert", "cleanup"}
                   /\ desk'[x].file \in documents'
                   /\ \A r \in Rows : work[r].file # desk'[x].file
                   /\ \A y \in Writers \ {x} : desk'[y].file # desk'[x].file
        <4>1. CASE x = p
          <5>1. desk'[x].file = f /\ desk'[x].pc = "read"
            BY <2>3, <2>4, <4>1
          <5>2. \A y \in Writers \ {x} : desk'[y].file # f
            BY <2>4, <2>6, <4>1
          <5>3. QED
            BY <3>3, <5>1, <5>2
        <4>2. CASE x # p
          <5>1. desk'[x] = desk[x]
            BY <2>4, <4>2
          <5>2. /\ desk[x].pc \in {"read", "insert", "cleanup"}
                /\ desk[x].file \in documents
                /\ \A r \in Rows : work[r].file # desk[x].file
                /\ \A y \in Writers \ {x} : desk[y].file # desk[x].file
            BY <3>1, <5>1 DEF SubmissionsInv, AboutFiles, FilesInHand
          <5>3. \A y \in Writers \ {x} : desk'[y].file # desk[x].file
            BY <2>3, <2>4, <2>6, <5>2
          <5>4. QED
            BY <3>3, <5>1, <5>2, <5>3
        <4>3. QED
          BY <4>1, <4>2
      <3>2. QED
        BY <2>2, <3>1 DEF FilesInHand
    <2>11. FilesInRows' /\ Accounted'
      BY <2>1, <2>2, <2>8, <2>9 DEF SubmissionsInv, AboutFiles, FilesInRows, Accounted
    <2>12. AboutWork'
      BY <2>2, <2>3, SameWork DEF SubmissionsInv
    <2>13. DocumentUploaded(f)
      BY <2>1, <2>8, <2>9 DEF DocumentUploaded
    <2>14. QED
      BY <2>7, <2>10, <2>11, <2>12, <2>13 DEF SubmissionsInv, AboutFiles, DocumentsStep
  <1>2. CASE ReadLatest(p)
    <2> DEFINE earlier == Earlier(desk[p].group, desk[p].item)
               versions == {work[r].version : r \in earlier}
               v == 1 + (IF versions = {} THEN 0 ELSE Max(versions))
               q == [desk[p] EXCEPT !.pc = "insert", !.version = v]
    <2>1. desk' = [desk EXCEPT ![p] = q] /\ UNCHANGED <<work, documents, spilled>>
      BY <1>2 DEF ReadLatest, SubmissionsInv, SubmissionsTyped
    <2>2. earlier \subseteq Handed /\ earlier \subseteq Rows
      BY DEF Earlier, Handed
    <2>3. versions \in SUBSET Nat
      BY <2>2 DEF SubmissionsInv, SubmissionsTyped, Work
    <2>4. IsFiniteSet(versions)
      <3>1. IsFiniteSet(earlier)
        BY <2>2, NoneApart, FS_Subset
      <3> DEFINE version == [r \in earlier |-> work[r].version]
      <3>2. version \in Surjection(earlier, versions)
        BY DEF Surjection
      <3>3. QED
        BY <3>1, <3>2, FS_Surjection DEF ExistsSurjection
    <2>5. v \in Nat /\ (v > 1 => \E x \in earlier : work[x].version = v - 1)
      <3>1. CASE versions = {}
        BY <3>1
      <3>2. CASE versions # {}
        <4>1. Max(versions) \in versions
          BY <2>3, <2>4, <3>2, GreatestOfSome
        <4>2. PICK x \in earlier : work[x].version = Max(versions)
          BY <4>1
        <4>3. Max(versions) \in Nat
          BY <2>3, <4>1
        <4> HIDE DEF versions
        <4>4. QED
          BY <3>2, <4>2, <4>3
      <3>3. QED
        BY <3>1, <3>2
    <2> HIDE DEF v
    <2>6. q \in Request /\ q.file = desk[p].file /\ q.pc = "insert" /\ q.version = v
            /\ q.group = desk[p].group /\ q.item = desk[p].item /\ q.group \in Groups
      BY <1>2, <2>5 DEF ReadLatest, At, Request, SubmissionsInv, SubmissionsTyped
    <2>7. \A x \in earlier : /\ x \in Handed
                             /\ work[x].group = q.group /\ work[x].item = q.item
      BY <2>6 DEF Earlier
    <2> HIDE DEF q, earlier
    <2>8. SubmissionsTyped'
      <3>1. \A x \in Writers : desk'[x] = IF x = p THEN q ELSE desk[x]
        BY <2>1 DEF SubmissionsInv, SubmissionsTyped
      <3>2. QED
        BY <2>1, <2>6, <3>1 DEF SubmissionsInv, SubmissionsTyped
    <2>9. AboutFiles' /\ DocumentsStand
      BY <2>1, <2>6, SameFile DEF SubmissionsInv
    <2>10. Handed' = Handed /\ \A i : Against(i)' = Against(i)
      BY <2>1 DEF Handed, Against
    <2>11. NoVersionSkipped' /\ ToldOfAnAnswer'
      BY <2>1, <2>10 DEF SubmissionsInv, AboutWork, NoVersionSkipped, ToldOfAnAnswer
    <2>12. VersionInHand'
      <3>1. ASSUME NEW x \in Writers, desk'[x].pc = "insert", desk'[x].version > 1
            PROVE  \E y \in Handed : /\ work[y].group = desk'[x].group
                                     /\ work[y].item = desk'[x].item
                                     /\ work[y].version = desk'[x].version - 1
        <4>1. CASE x = p
          <5>1. desk'[x] = q
            BY <2>1, <4>1 DEF SubmissionsInv, SubmissionsTyped
          <5>2. QED
            BY <2>5, <2>6, <2>7, <3>1, <5>1
        <4>2. CASE x # p
          <5>1. desk'[x] = desk[x]
            BY <2>1, <4>2 DEF SubmissionsInv, SubmissionsTyped
          <5>2. QED
            BY <3>1, <5>1 DEF SubmissionsInv, AboutWork, VersionInHand, At
        <4>3. QED
          BY <4>1, <4>2
      <3>2. QED
        BY <2>1, <2>10, <3>1 DEF VersionInHand, At
    <2>13. AnswerInHand'
      BY <2>1, <2>6, <2>10 DEF SubmissionsInv, AboutWork, AnswerInHand, At, SubmissionsTyped
    <2>14. QED
      BY <2>8, <2>9, <2>11, <2>12, <2>13 DEF SubmissionsInv, AboutWork, DocumentsStep
  <1>3. QED
    BY <1>1, <1>2

\* create, its row written or refused.
LEMMA InsertStep ==
  ASSUME SubmissionsInv, NEW p \in Writers, Insert(p)
  PROVE  SubmissionsInv' /\ DocumentsStep
  <1> DEFINE free == Rows \ Handed
             r == Min(free)
             row == [NoWork EXCEPT !.group = desk[p].group, !.item = desk[p].item,
                                   !.version = desk[p].version, !.file = desk[p].file]
  <1>1. SubmissionsTyped /\ AboutFiles /\ AboutWork
    BY DEF SubmissionsInv
  <1>2. r \in Rows /\ r \notin Handed
    BY LeastOfSome, NoneApart DEF Insert
  <1>3. work[r].group = None /\ work[r].file = None
    BY <1>1, <1>2 DEF Handed, AboutFiles, FilesInRows
  <1>4. CASE desk[p].item \in Listed
    <2>1. work' = [work EXCEPT ![r] = row] /\ Done(p) /\ UNCHANGED <<documents, spilled>>
      BY <1>4 DEF Insert
    <2>2. row \in Work /\ row.group = desk[p].group /\ row.item = desk[p].item
            /\ row.version = desk[p].version /\ row.file = desk[p].file
            /\ row.group # None /\ row.answered = FALSE /\ row.told = FALSE
      BY <1>1, NoneApart DEF NoWork, Work, SubmissionsTyped, Request, Insert, At
    <2> HIDE DEF row, r
    <2>3. /\ desk' = [desk EXCEPT ![p] = Idle] /\ desk' \in [Writers -> Request]
          /\ \A q \in Writers : desk'[q].pc \in {"upload", "read", "insert"} => desk'[q].group \in Groups
      BY <1>1, <2>1, EndsTyped
    <2>4. \A x \in Writers : desk'[x] = IF x = p THEN Idle ELSE desk[x]
      BY <1>1, <2>3 DEF SubmissionsTyped
    <2>5. \A x \in Rows : work'[x] = IF x = r THEN row ELSE work[x]
      BY <1>1, <2>1 DEF SubmissionsTyped
    <2>6. SubmissionsTyped'
      BY <1>1, <2>1, <2>2, <2>3 DEF SubmissionsTyped
    <2>7. AboutFiles' /\ DocumentsStep
      <3>1. CASE desk[p].file = None
        <4>1. (\A x \in Rows : work'[x].file = work[x].file) /\ InRows' = InRows
          BY <1>3, <2>2, <2>5, <3>1 DEF InRows
        <4>2. (\A x \in Writers : desk'[x].file = desk[x].file) /\ InHand' = InHand
          BY <2>4, <3>1, IdleTyped DEF InHand
        <4>3. FilesInRows'
          BY <1>1, <1>2, <2>1, <2>2, <2>5, <3>1, <4>1 DEF AboutFiles, FilesInRows
        <4>4. FilesInHand'
          BY <1>1, <2>1, <2>4, <4>1, <4>2, <3>1 DEF AboutFiles, FilesInHand
        <4>5. Accounted'
          BY <1>1, <2>1, <4>1, <4>2 DEF AboutFiles, Accounted
        <4>6. QED
          BY <2>1, <4>1, <4>2, <4>3, <4>4, <4>5 DEF AboutFiles, DocumentsStep, DocumentsStand
      <3>2. CASE desk[p].file # None
        <4> DEFINE f == desk[p].file
        <4>1. /\ InHand' = InHand \ {f} /\ f \in InHand /\ f \in SubmissionFiles
              /\ \A q \in Writers : desk'[q].file # None =>
                   q # p /\ desk'[q] = desk[q] /\ desk[q].file # f
          BY <1>1, <2>3, <3>2, FileGone
        <4> HIDE DEF f
        <4>2. \A x \in Rows : work'[x].file = IF x = r THEN f ELSE work[x].file
          BY <2>2, <2>5 DEF f
        <4>3. InRows' = InRows \cup {f}
          <5>1. f # None
            BY <3>2 DEF f
          <5>2. QED
            BY <1>2, <1>3, <4>2, <5>1, Zenon DEF InRows
        <4>4. f \in documents
          BY <1>1, <3>2 DEF AboutFiles, FilesInHand, f
        <4>5. FilesInRows'
          BY <1>1, <2>1, <2>2, <2>5, <4>2, <4>4 DEF AboutFiles, FilesInRows
        <4>6. FilesInHand'
          BY <1>1, <2>1, <4>1, <4>2 DEF AboutFiles, FilesInHand
        <4>7. Accounted'
          BY <1>1, <2>1, <4>1, <4>3 DEF AboutFiles, Accounted
        <4>8. QED
          BY <2>1, <4>1, <4>3, <4>5, <4>6, <4>7 DEF AboutFiles, DocumentsStep, DocumentLinked
      <3>3. QED
        BY <3>1, <3>2
    <2>8. AboutWork'
      <3>1. Handed' = Handed \cup {r}
        BY <1>2, <2>2, <2>5 DEF Handed
      <3>2. \A x \in Handed : x # r /\ x \in Rows /\ x \in Handed' /\ work'[x] = work[x]
        BY <1>2, <2>5, <3>1 DEF Handed
      <3>3. \A x \in Writers : desk'[x].pc # "idle" => desk'[x] = desk[x]
        BY <2>4, IdleTyped
      <3>4. NoVersionSkipped'
        <4> SUFFICES ASSUME NEW x \in Handed', work'[x].version > 1
                     PROVE  \E y \in Handed' : /\ work'[y].item = work'[x].item
                                               /\ work'[y].group = work'[x].group
                                               /\ work'[y].version = work'[x].version - 1
          BY DEF NoVersionSkipped, Against
        <4>1. CASE x = r
          <5>1. work'[x] = row
            BY <1>2, <2>5, <4>1
          <5>2. PICK y \in Handed : /\ work[y].group = row.group /\ work[y].item = row.item
                                    /\ work[y].version = row.version - 1
            BY <1>1, <2>2, <5>1 DEF AboutWork, VersionInHand, Insert
          <5>3. QED
            BY <3>2, <5>1, <5>2
        <4>2. CASE x # r
          <5>1. x \in Handed /\ work'[x] = work[x]
            BY <3>1, <3>2, <4>2
          <5>2. PICK y \in Handed : /\ work[y].item = work[x].item
                                    /\ work[y].group = work[x].group
                                    /\ work[y].version = work[x].version - 1
            BY <1>1, <5>1 DEF AboutWork, NoVersionSkipped, Against
          <5>3. QED
            BY <3>2, <5>1, <5>2
        <4>3. QED
          BY <4>1, <4>2
      <3>5. ToldOfAnAnswer'
        BY <1>1, <1>2, <2>2, <2>5, <3>1, <3>2 DEF AboutWork, ToldOfAnAnswer
      <3>6. VersionInHand'
        <4> SUFFICES ASSUME NEW x \in Writers, desk'[x].pc = "insert", desk'[x].version > 1
                     PROVE  \E y \in Handed' : /\ work'[y].group = desk'[x].group
                                               /\ work'[y].item = desk'[x].item
                                               /\ work'[y].version = desk'[x].version - 1
          BY DEF VersionInHand, At
        <4>1. desk'[x] = desk[x]
          BY <3>3
        <4>2. PICK y \in Handed : /\ work[y].group = desk[x].group /\ work[y].item = desk[x].item
                                  /\ work[y].version = desk[x].version - 1
          BY <1>1, <4>1 DEF AboutWork, VersionInHand, At
        <4>3. QED
          BY <3>2, <4>1, <4>2
      <3>7. AnswerInHand'
        BY <1>1, <3>2, <3>3 DEF AboutWork, AnswerInHand, At
      <3>8. QED
        BY <3>4, <3>5, <3>6, <3>7 DEF AboutWork
    <2>9. QED
      BY <2>6, <2>7, <2>8 DEF SubmissionsInv
  <1>5. CASE desk[p].item \notin Listed
    <2> DEFINE q == [desk[p] EXCEPT !.pc = "cleanup"]
    <2>1. desk' = [desk EXCEPT ![p] = q] /\ UNCHANGED <<work, documents, spilled>>
      BY <1>1, <1>5 DEF Insert, SubmissionsTyped
    <2>2. q \in Request /\ q.file = desk[p].file /\ q.pc = "cleanup"
      BY <1>1 DEF Request, SubmissionsTyped
    <2> HIDE DEF q
    <2>3. SubmissionsTyped'
      <3>1. \A x \in Writers : desk'[x] = IF x = p THEN q ELSE desk[x]
        BY <1>1, <2>1 DEF SubmissionsTyped
      <3>2. QED
        BY <1>1, <2>1, <2>2, <3>1 DEF SubmissionsTyped
    <2>4. AboutFiles' /\ DocumentsStand
      BY <1>1, <2>1, <2>2, SameFile
    <2>5. AboutWork'
      BY <1>1, <2>1, <2>2, SameWork
    <2>6. QED
      BY <2>3, <2>4, <2>5 DEF SubmissionsInv, DocumentsStep
  <1>6. QED
    BY <1>4, <1>5

\* create ends without a row: the file is deleted, or spilled.
LEMMA EndStep ==
  ASSUME SubmissionsInv, NEW p \in Writers,
         Cleanup(p) \/ CleanupFails(p) \/ CrashWriter(p)
  PROVE  SubmissionsInv' /\ DocumentsStep
  <1> DEFINE f == desk[p].file
  <1>1. SubmissionsTyped /\ AboutFiles /\ AboutWork
    BY DEF SubmissionsInv
  <1>2. /\ desk' = [desk EXCEPT ![p] = Idle] /\ desk' \in [Writers -> Request]
        /\ \A q \in Writers : desk'[q].pc \in {"upload", "read", "insert"} => desk'[q].group \in Groups
        /\ Done(p) /\ work' = work
    BY <1>1, EndsTyped DEF Cleanup, CleanupFails, CrashWriter
  <1>3. documents' \in {documents, documents \ {f}} /\ None \notin SubmissionFiles
    BY NoneApart DEF Cleanup, CleanupFails, CrashWriter
  <1>4. SubmissionsTyped'
    BY <1>1, <1>2, <1>3 DEF SubmissionsTyped
  <1>5. AboutWork'
    BY <1>1, <1>2, SameWork, IdleTyped
  <1>6. InRows' = InRows
    BY <1>2 DEF InRows
  <1>7. CASE f = None
    <2>1. UNCHANGED <<documents, spilled>>
      BY <1>1, <1>7, NoneApart DEF Cleanup, CleanupFails, CrashWriter, SubmissionsTyped
    <2>2. AboutFiles' /\ DocumentsStand
      BY <1>1, <1>2, <1>7, <2>1, SameFile, IdleTyped
    <2>3. QED
      BY <1>1, <1>4, <1>5, <2>2 DEF SubmissionsInv, DocumentsStep
  <1>8. CASE f # None
    <2>1. /\ InHand' = InHand \ {f} /\ f \in InHand /\ f \in SubmissionFiles /\ f \notin InRows
          /\ \A q \in Writers : desk'[q].file # None =>
               q # p /\ desk'[q] = desk[q] /\ desk[q].file # f
      BY <1>1, <1>2, <1>8, FileGone
    <2>2. \/ documents' = documents \ {f} /\ spilled' = spilled
          \/ documents' = documents /\ spilled' = spilled \cup {f}
      BY <1>8 DEF Cleanup, CleanupFails, CrashWriter
    <2>3. f \notin {work[r].file : r \in Rows}
      BY <1>8, <2>1 DEF InRows
    <2> HIDE DEF f
    <2>4. \A g : g \in documents /\ g # f => g \in documents'
      BY <2>2
    <2>5. FilesInHand'
      BY <1>1, <1>2, <2>1, <2>4 DEF AboutFiles, FilesInHand
    <2>6. FilesInRows'
      BY <1>1, <1>2, <2>3, <2>4 DEF AboutFiles, FilesInRows
    <2>7. Accounted'
      BY <1>1, <1>6, <2>1, <2>2 DEF AboutFiles, Accounted
    <2>8. DocumentTakenBack(f) \/ DocumentForgotten(f)
      BY <1>6, <2>1, <2>2 DEF DocumentTakenBack, DocumentForgotten
    <2>9. QED
      BY <1>4, <1>5, <2>1, <2>5, <2>6, <2>7, <2>8 DEF SubmissionsInv, AboutFiles, DocumentsStep
  <1>9. QED
    BY <1>7, <1>8

\* giveFeedback.
LEMMA AnswerStep ==
  ASSUME SubmissionsInv, NEW p \in Writers,
         (\E r \in Rows : AnswerArrives(p, r)) \/ Answer(p) \/ Tell(p)
  PROVE  SubmissionsInv' /\ DocumentsStep
  <1> DEFINE r == desk[p].row
  <1>1. SubmissionsTyped /\ AboutFiles /\ AboutWork
    BY DEF SubmissionsInv
  <1>2. desk[p].file = None
    BY <1>1 DEF AnswerArrives, Answer, Tell, At, AboutFiles, FilesInHand
  \* Whatever the step, a row keeps all but answered and told, which only rises.
  <1>3. ASSUME NEW q \in Request, desk' = [desk EXCEPT ![p] = q], q.file = None,
               q.pc \in {"idle", "answer", "tell"}, UNCHANGED <<documents, spilled>>,
               work' \in [Rows -> Work],
               \A x \in Rows : /\ work'[x].group = work[x].group /\ work'[x].item = work[x].item
                               /\ work'[x].version = work[x].version
                               /\ work'[x].file = work[x].file,
               \A x \in Rows : work[x].answered => work'[x].answered,
               \A x \in Rows : work'[x].told => work'[x].answered \/ work[x].told,
               q.pc \in {"answer", "tell"} => q.row \in Handed,
               q.pc = "tell" => work'[q.row].answered
        PROVE  SubmissionsInv' /\ DocumentsStep
    <2>1. \A x \in Writers : desk'[x] = IF x = p THEN q ELSE desk[x]
      BY <1>1, <1>3 DEF SubmissionsTyped
    <2>2. UNCHANGED <<documents, spilled>> /\ work' \in [Rows -> Work]
      BY <1>3
    <2>3. \A x \in Rows : /\ work'[x].group = work[x].group /\ work'[x].item = work[x].item
                          /\ work'[x].version = work[x].version /\ work'[x].file = work[x].file
      BY <1>3
    <2>4. /\ \A x \in Rows : work[x].answered => work'[x].answered
          /\ \A x \in Rows : work'[x].told => work'[x].answered \/ work[x].told
      BY <1>3, Zenon
    <2>5. Handed' = Handed /\ Handed \subseteq Rows
      BY <2>3 DEF Handed
    <2>6. \A i : Against(i)' = Against(i) /\ Against(i) \subseteq Rows
      BY <2>3, <2>5 DEF Against
    <2>7. q \in Request /\ q.pc \notin {"upload", "read", "insert"}
      BY <1>3
    <2>8. (q.pc = "answer" \/ q.pc = "tell") => q.row \in Handed
      BY <1>3
    <2>9. q.pc = "tell" => work'[q.row].answered
      BY <1>3, Zenon
    <2>10. SubmissionsTyped'
      <3>1. desk' \in [Writers -> Request]
        BY <1>1, <1>3, <2>7 DEF SubmissionsTyped
      <3>2. QED
        BY <1>1, <2>1, <2>2, <2>7, <3>1 DEF SubmissionsTyped
    <2>11. AboutFiles' /\ DocumentsStand
      BY <1>1, <1>2, <1>3, SameFile
    <2>12. NoVersionSkipped'
      BY <1>1, <2>3, <2>5, <2>6 DEF AboutWork, NoVersionSkipped
    <2>13. ToldOfAnAnswer'
      BY <1>1, <2>4, <2>5 DEF AboutWork, ToldOfAnAnswer
    <2>14. VersionInHand'
      BY <1>1, <2>1, <2>3, <2>5, <2>7 DEF AboutWork, VersionInHand, At
    <2>15. AnswerInHand'
      BY <1>1, <2>1, <2>4, <2>5, <2>8, <2>9 DEF AboutWork, AnswerInHand, At
    <2>16. QED
      BY <2>10, <2>11, <2>12, <2>13, <2>14, <2>15 DEF SubmissionsInv, AboutWork, DocumentsStep
  <1>4. ASSUME NEW x \in Rows, AnswerArrives(p, x)
        PROVE  SubmissionsInv' /\ DocumentsStep
    <2> DEFINE q == [Idle EXCEPT !.pc = "answer", !.row = x]
    <2>1. q \in Request /\ q.file = None /\ q.pc = "answer" /\ q.row = x
      BY DEF Idle, Request
    <2>2. /\ desk' = [desk EXCEPT ![p] = q] /\ x \in Handed
          /\ UNCHANGED <<work, documents, spilled>>
      BY <1>4 DEF AnswerArrives
    <2> HIDE DEF q
    <2>3. QED
      BY <1>1, <1>3, <2>1, <2>2 DEF SubmissionsTyped
  <1>5. CASE Answer(p)
    <2> DEFINE q == [desk[p] EXCEPT !.pc = "tell"]
    <2>1. q \in Request /\ q.file = None /\ q.pc = "tell" /\ q.row = r
      BY <1>1, <1>2 DEF SubmissionsTyped, Request
    <2>2. r \in Handed /\ r \in Rows
      BY <1>1, <1>5 DEF AboutWork, AnswerInHand, Answer, At, Handed
    <2>3. /\ desk' = [desk EXCEPT ![p] = q] /\ UNCHANGED <<documents, spilled>>
          /\ work' = [work EXCEPT ![r].answered = TRUE]
      BY <1>1, <1>5 DEF Answer, SubmissionsTyped
    <2> HIDE DEF q, r
    <2>4. work' \in [Rows -> Work]
      <3>1. work \in [Rows -> Work]
        BY <1>1 DEF SubmissionsTyped
      <3>2. [work[r] EXCEPT !.answered = TRUE] \in Work
        BY <2>2, <3>1, Zenon DEF Work
      <3>3. QED
        BY <2>2, <2>3, <3>1, <3>2, Zenon
    <2>5. \A x \in Rows : work'[x] = IF x = r THEN [work[r] EXCEPT !.answered = TRUE] ELSE work[x]
      BY <1>1, <2>3 DEF SubmissionsTyped
    <2>6. \A x \in Rows : /\ work'[x].group = work[x].group /\ work'[x].item = work[x].item
                          /\ work'[x].version = work[x].version /\ work'[x].file = work[x].file
      BY <1>1, <2>5 DEF SubmissionsTyped, Work
    <2>7. /\ \A x \in Rows : work[x].answered => work'[x].answered
          /\ \A x \in Rows : work'[x].told => work'[x].answered \/ work[x].told
          /\ work'[r].answered
      BY <1>1, <2>2, <2>5 DEF SubmissionsTyped, Work
    <2>8. QED
      BY <1>3, <2>1, <2>2, <2>3, <2>4, <2>6, <2>7
  <1>6. CASE Tell(p)
    <2>1. r \in Handed /\ r \in Rows /\ work[r].answered
      BY <1>1, <1>6 DEF AboutWork, AnswerInHand, Tell, At, Handed
    <2>2. /\ desk' = [desk EXCEPT ![p] = Idle] /\ UNCHANGED <<documents, spilled>>
          /\ work' = [work EXCEPT ![r].told = TRUE] \/ work' = work
      BY <1>6 DEF Tell, Done
    <2> HIDE DEF r
    <2>3. work' \in [Rows -> Work]
      <3>1. work \in [Rows -> Work]
        BY <1>1 DEF SubmissionsTyped
      <3>2. [work[r] EXCEPT !.told = TRUE] \in Work
        BY <2>1, <3>1, Zenon DEF Work
      <3>3. QED
        BY <2>1, <2>2, <3>1, <3>2, Zenon
    <2>4. \A x \in Rows : \/ work'[x] = work[x]
                          \/ x = r /\ work'[x] = [work[r] EXCEPT !.told = TRUE]
      BY <1>1, <2>2 DEF SubmissionsTyped
    <2>5. \A x \in Rows : /\ work'[x].group = work[x].group /\ work'[x].item = work[x].item
                          /\ work'[x].version = work[x].version /\ work'[x].file = work[x].file
      BY <1>1, <2>4 DEF SubmissionsTyped, Work
    <2>6. /\ \A x \in Rows : work[x].answered => work'[x].answered
          /\ \A x \in Rows : work'[x].told => work'[x].answered \/ work[x].told
      BY <1>1, <2>1, <2>4 DEF SubmissionsTyped, Work
    <2>7. QED
      BY <1>3, <2>2, <2>3, <2>5, <2>6, IdleTyped
  <1>7. QED
    BY <1>4, <1>5, <1>6

\* Every step of a submission, and every step of others.
LEMMA SubmissionsStep ==
  ASSUME SubmissionsInv, SubmissionsNext \/ UNCHANGED submissionVars
  PROVE  SubmissionsInv' /\ DocumentsStep
  <1>1. ASSUME UNCHANGED <<work, desk, documents, spilled>>
        PROVE  SubmissionsInv' /\ DocumentsStep
    <2>1. InHand' = InHand /\ InRows' = InRows /\ Handed' = Handed
            /\ \A i : Against(i)' = Against(i)
      BY <1>1 DEF InHand, InRows, Handed, Against
    <2>2. SubmissionsTyped' /\ AboutFiles'
      BY <1>1, <2>1 DEF SubmissionsInv, SubmissionsTyped, AboutFiles, FilesInHand, FilesInRows, Accounted
    <2>3. AboutWork'
      BY <1>1, <2>1 DEF SubmissionsInv, AboutWork, NoVersionSkipped, ToldOfAnAnswer, VersionInHand, AnswerInHand, At
    <2>4. QED
      BY <1>1, <2>1, <2>2, <2>3 DEF SubmissionsInv, DocumentsStep, DocumentsStand
  <1>2. CASE UNCHANGED submissionVars
    BY <1>1, <1>2 DEF submissionVars
  <1>3. CASE \E g \in Groups : GroupRejected(g)
    BY <1>1, <1>3 DEF GroupRejected
  <1>4. ASSUME NEW p \in Writers,
               \/ \E dto \in Dtos : EditArrives(p, dto)
               \/ \E g \in Groups, i \in Items : CreateArrives(p, g, i)
               \/ \E r \in Rows : AnswerArrives(p, r)
               \/ CommitEdit(p) \/ Upload(p) \/ ReadLatest(p) \/ Insert(p)
               \/ Cleanup(p) \/ CleanupFails(p) \/ Answer(p) \/ Tell(p) \/ CrashWriter(p)
        PROVE  SubmissionsInv' /\ DocumentsStep
    BY <1>4, EditStep, CreateStep, InsertStep, EndStep, AnswerStep
  <1>5. QED
    BY <1>2, <1>3, <1>4 DEF SubmissionsNext

-----------------------------------------------------------------------------
(* Avatars.                                                                 *)

PicturesInUse ==
  /\ \A u \in Users : avatar[u] \in pictures \cup {Bare}
  /\ \A u, v \in Users : u # v /\ avatar[u] # Bare => avatar[u] # avatar[v]

SittersKnow ==
  \A q \in Sitters :
    /\ On(q, "idle") => sitting[q] = Standing
    /\ ~On(q, "idle") => sitting[q].of \in Users
    /\ ~On(q, "write") => sitting[q].new = Bare
    /\ On(q, "write") => sitting[q].new # Bare

\* A picture just uploaded is there, and nobody else has heard of it.
NewIsPrivate ==
  \A q \in Sitters : sitting[q].new # Bare =>
    /\ sitting[q].new \in pictures
    /\ \A u \in Users : avatar[u] # sitting[q].new
    /\ \A z \in Sitters : sitting[z].old # sitting[q].new
    /\ \A z \in Sitters \ {q} : sitting[z].new # sitting[q].new

\* An old picture, if still in use, is used by whom it was read of; and what is
\* to be deleted is not in use.
OldIsOwn ==
  \A q \in Sitters, u \in Users :
    sitting[q].old # Bare /\ avatar[u] = sitting[q].old =>
      sitting[q].of = u /\ ~On(q, "destroy")

AvatarsInv == AvatarsTypeOK /\ PicturesInUse /\ SittersKnow /\ NewIsPrivate /\ OldIsOwn

Worn == {avatar[u] : u \in Users} \ {Bare}
Known == UNION {{sitting[q].old, sitting[q].new} : q \in Sitters}
Held == (pictures \cap Known) \ Worn

\* What FileStore allows, of the pictures.
PicturesStand == pictures' = pictures /\ Worn' = Worn /\ Held' = Held
PictureUploaded(f) ==
  /\ f \in Pictures \ pictures
  /\ pictures' = pictures \cup {f} /\ Held' = Held \cup {f} /\ Worn' = Worn
PictureLinked(f, old) ==
  /\ f \in Held /\ old \subseteq Worn
  /\ pictures' = pictures /\ Worn' = (Worn \ old) \cup {f}
  /\ Held \ {f} \subseteq Held' /\ Held' \subseteq (Held \ {f}) \cup old
PictureUnlinked(old) ==
  /\ old \subseteq Worn
  /\ pictures' = pictures /\ Worn' = Worn \ old
  /\ Held \subseteq Held' /\ Held' \subseteq Held \cup old
PictureDestroyed(f) ==
  /\ f \in Held
  /\ pictures' = pictures \ {f} /\ Held' = Held \ {f} /\ Worn' = Worn
PicturesForgotten == pictures' = pictures /\ Worn' = Worn /\ Held' \subseteq Held
PicturesStep ==
  \/ PicturesStand
  \/ PicturesForgotten
  \/ \E f \in Pictures : PictureUploaded(f) \/ PictureDestroyed(f)
  \/ \E f \in Pictures, old \in SUBSET Pictures : PictureLinked(f, old)
  \/ \E old \in SUBSET Pictures : PictureUnlinked(old)

LEMMA BareApart == Bare \notin Pictures /\ Bare \notin Users
  BY AvatarsAssumption

LEMMA StandingTyped ==
  /\ Standing \in Sitting /\ Standing.step = "idle"
  /\ Standing.old = Bare /\ Standing.new = Bare
  BY DEF Standing, Sitting

\* A request that reads: it knows one more picture, one in use or none.
LEMMA AvatarRead ==
  ASSUME AvatarsInv, NEW q \in Sitters, NEW u \in Users,
         SetArrives(q, u) \/ RemoveArrives(q, u)
  PROVE  AvatarsInv' /\ PicturesStep
  <1>1. /\ AvatarsTypeOK /\ PicturesInUse /\ SittersKnow /\ NewIsPrivate /\ OldIsOwn
        /\ On(q, "idle")
    BY DEF AvatarsInv, SetArrives, RemoveArrives
  <1>2. PICK step \in {"upload", "clear"} :
          sitting' = [sitting EXCEPT ![q] = [Standing EXCEPT !.step = step, !.of = u, !.old = avatar[u]]]
    BY DEF SetArrives, RemoveArrives
  <1> DEFINE s == [Standing EXCEPT !.step = step, !.of = u, !.old = avatar[u]]
  <1>3. /\ s \in Sitting /\ s.step = step /\ s.step \in {"upload", "clear"}
        /\ s.of = u /\ s.old = avatar[u] /\ s.new = Bare
    BY <1>1 DEF Standing, Sitting, AvatarsTypeOK
  <1> HIDE DEF s
  <1>4. \A z \in Sitters : sitting'[z] = IF z = q THEN s ELSE sitting[z]
    BY <1>1, <1>2 DEF AvatarsTypeOK, s
  <1>5. avatar' = avatar /\ pictures' = pictures
    BY DEF SetArrives, RemoveArrives
  <1>6. AvatarsTypeOK'
    <2>1. sitting' \in [Sitters -> Sitting]
      BY <1>1, <1>2, <1>3 DEF AvatarsTypeOK, s
    <2>2. QED
      BY <1>1, <1>5, <2>1 DEF AvatarsTypeOK
  <1>7. PicturesInUse' /\ Worn' = Worn
    BY <1>1, <1>5 DEF PicturesInUse, Worn
  <1>8. SittersKnow'
    BY <1>1, <1>3, <1>4 DEF SittersKnow, On
  <1>9. NewIsPrivate'
    BY <1>1, <1>3, <1>4, <1>5 DEF NewIsPrivate
  <1>10. OldIsOwn'
    BY <1>1, <1>3, <1>4, <1>5 DEF OldIsOwn, On, PicturesInUse
  <1>11. sitting[q].old = Bare /\ sitting[q].new = Bare
    BY <1>1, StandingTyped DEF SittersKnow
  <1>12. \A f : f # Bare => (f \in Known' <=> f \in Known \/ f = avatar[u])
    BY <1>3, <1>4, <1>11 DEF Known
  <1>13. Held' = Held
    BY <1>1, <1>5, <1>7, <1>12, BareApart DEF Held, Worn, AvatarsTypeOK
  <1>14. QED
    BY <1>5, <1>6, <1>7, <1>8, <1>9, <1>10, <1>13 DEF AvatarsInv, PicturesStep, PicturesStand

\* A request that uploads.
LEMMA AvatarUploaded ==
  ASSUME AvatarsInv, NEW q \in Sitters, UploadAvatar(q)
  PROVE  AvatarsInv' /\ PicturesStep
  <1>1. AvatarsTypeOK /\ PicturesInUse /\ SittersKnow /\ NewIsPrivate /\ OldIsOwn
    BY DEF AvatarsInv
  <1>2. PICK f \in Pictures :
          /\ f \notin pictures /\ \A z \in Sitters : f \notin {sitting[z].old, sitting[z].new}
          /\ pictures' = pictures \cup {f}
          /\ sitting' = [sitting EXCEPT ![q].step = "write", ![q].new = f]
    BY DEF UploadAvatar
  <1> DEFINE s == [sitting[q] EXCEPT !.step = "write", !.new = f]
  <1>3. /\ s \in Sitting /\ s.step = "write" /\ s.new = f
        /\ s.of = sitting[q].of /\ s.of \in Users /\ s.old = sitting[q].old
        /\ sitting[q].new = Bare
    BY <1>1 DEF Sitting, AvatarsTypeOK, SittersKnow, UploadAvatar, On
  <1>4. \A z \in Sitters : sitting'[z] = IF z = q THEN s ELSE sitting[z]
    BY <1>1, <1>2 DEF AvatarsTypeOK
  <1>5. AvatarsTypeOK'
    <2>1. sitting' \in [Sitters -> Sitting]
      BY <1>1, <1>2, <1>3, <1>4 DEF AvatarsTypeOK
    <2>2. QED
      BY <1>1, <1>2, <2>1 DEF AvatarsTypeOK, UploadAvatar
  <1> HIDE DEF s
  <1>6. avatar' = avatar /\ pictures' = pictures \cup {f} /\ f \notin pictures /\ f # Bare
    BY <1>2, BareApart DEF UploadAvatar
  <1>7. \A z \in Sitters : sitting[z].old # f /\ sitting[z].new # f
    BY <1>2
  <1>8. \A u \in Users : avatar[u] # f
    BY <1>1, <1>6 DEF PicturesInUse
  <1>9. PicturesInUse' /\ Worn' = Worn
    BY <1>1, <1>6 DEF PicturesInUse, Worn
  <1>10. SittersKnow'
    BY <1>1, <1>3, <1>4, <1>6 DEF SittersKnow, On
  <1>11. NewIsPrivate'
    BY <1>1, <1>3, <1>4, <1>6, <1>7, <1>8 DEF NewIsPrivate
  <1>12. OldIsOwn'
    BY <1>1, <1>3, <1>4, <1>6 DEF OldIsOwn, On
  <1>13. \A g : g # Bare => (g \in Known' <=> g \in Known \/ g = f)
    BY <1>3, <1>4 DEF Known
  <1>14. Held' = Held \cup {f}
    BY <1>1, <1>6, <1>8, <1>9, <1>13, BareApart DEF Held, Worn, AvatarsTypeOK
  <1>15. PictureUploaded(f)
    BY <1>6, <1>9, <1>14 DEF PictureUploaded
  <1>16. QED
    BY <1>5, <1>9, <1>10, <1>11, <1>12, <1>15 DEF AvatarsInv, PicturesStep

\* A request that writes what it has, the new name or none.
LEMMA AvatarWritten ==
  ASSUME AvatarsInv, NEW q \in Sitters, WriteAvatar(q)
  PROVE  AvatarsInv' /\ PicturesStep
  <1> DEFINE u == sitting[q].of
             f == sitting[q].new
             was == {avatar[u]} \ {Bare}
             s == IF sitting[q].old = Bare THEN Standing
                  ELSE [sitting[q] EXCEPT !.step = "destroy", !.new = Bare]
  <1>1. AvatarsTypeOK /\ PicturesInUse /\ SittersKnow /\ NewIsPrivate /\ OldIsOwn
    BY DEF AvatarsInv
  <1>2. u \in Users /\ f \in Pictures \cup {Bare}
    BY <1>1 DEF WriteAvatar, SittersKnow, On, AvatarsTypeOK, Sitting
  <1>3. /\ s \in Sitting /\ s.step \in {"idle", "destroy"} /\ s.new = Bare
        /\ s.old = sitting[q].old
        /\ s.step = "idle" => s = Standing
        /\ s.step = "destroy" => s.of = u
    BY <1>1, StandingTyped DEF AvatarsTypeOK, Sitting
  <1>4. avatar' = [avatar EXCEPT ![u] = f] /\ pictures' = pictures
    BY DEF WriteAvatar
  <1>5. \A v \in Users : avatar'[v] = IF v = u THEN f ELSE avatar[v]
    BY <1>1, <1>4 DEF AvatarsTypeOK
  <1>6. \A z \in Sitters : sitting'[z] = IF z = q THEN s ELSE sitting[z]
    BY <1>1 DEF AvatarsTypeOK, WriteAvatar, Rise
  <1>7. AvatarsTypeOK'
    <2>1. sitting' \in [Sitters -> Sitting]
      BY <1>1, <1>3 DEF AvatarsTypeOK, WriteAvatar, Rise
    <2>2. avatar' \in [Users -> Pictures \cup {Bare}]
      BY <1>1, <1>2, <1>4 DEF AvatarsTypeOK
    <2>3. QED
      BY <1>1, <1>4, <2>1, <2>2 DEF AvatarsTypeOK
  <1>8. f # Bare =>
          /\ f \in pictures
          /\ \A v \in Users : avatar[v] # f
          /\ \A z \in Sitters : sitting[z].old # f
          /\ \A z \in Sitters \ {q} : sitting[z].new # f
    BY <1>1 DEF NewIsPrivate
  <1> HIDE DEF s
  <1>9. PicturesInUse'
    BY <1>1, <1>4, <1>5, <1>8 DEF PicturesInUse
  <1>10. SittersKnow'
    BY <1>1, <1>2, <1>3, <1>6 DEF SittersKnow, On
  <1>11. NewIsPrivate'
    BY <1>1, <1>3, <1>4, <1>5, <1>6, <1>8 DEF NewIsPrivate
  <1>12. OldIsOwn'
    <2> SUFFICES ASSUME NEW z \in Sitters, NEW v \in Users,
                        sitting'[z].old # Bare, avatar'[v] = sitting'[z].old
                 PROVE  sitting'[z].of = v /\ sitting'[z].step # "destroy"
      BY DEF OldIsOwn, On
    <2>1. sitting'[z].old = sitting[z].old
      BY <1>3, <1>6
    <2>2. v # u
      BY <1>5, <1>8, <2>1
    <2>3. avatar[v] = sitting[z].old /\ sitting[z].old # Bare
      BY <1>5, <2>1, <2>2
    <2>4. sitting[z].of = v /\ sitting[z].step # "destroy"
      BY <1>1, <2>3 DEF OldIsOwn, On
    <2>5. z # q
      BY <2>2, <2>4
    <2>6. QED
      BY <1>6, <2>4, <2>5
  <1>13. \A g : g # Bare => (g \in Known <=> g \in Known' \/ g = f)
    BY <1>3, <1>6 DEF Known
  <1>14. was \subseteq Worn /\ was \subseteq Pictures /\ Worn \subseteq Pictures
    BY <1>1, <1>2 DEF Worn, AvatarsTypeOK
  <1>15. \A v \in Users \ {u} : avatar[v] = avatar[u] => avatar[v] = Bare
    BY <1>1, <1>2 DEF PicturesInUse
  <1>16. Worn' = (Worn \ was) \cup ({f} \ {Bare})
    BY <1>2, <1>5, <1>15 DEF Worn
  <1>17. CASE f = Bare
    <2>1. Worn' = Worn \ was
      BY <1>16, <1>17
    <2>2. \A g \in Pictures : g \in Known' <=> g \in Known
      BY <1>13, <1>17, BareApart
    <2>3. Held \subseteq Held' /\ Held' \subseteq Held \cup was
      BY <1>1, <1>4, <2>1, <2>2 DEF Held, AvatarsTypeOK
    <2>4. PictureUnlinked(was)
      BY <1>4, <1>14, <2>1, <2>3 DEF PictureUnlinked
    <2>5. QED
      BY <1>7, <1>9, <1>10, <1>11, <1>12, <1>14, <2>4 DEF AvatarsInv, PicturesStep
  <1>18. CASE f # Bare
    <2>1. Worn' = (Worn \ was) \cup {f} /\ f \in Pictures
      BY <1>2, <1>16, <1>18
    <2>2. f \in Held
      <3>1. f \in Known /\ f \in pictures
        BY <1>8, <1>18 DEF Known
      <3>2. f \notin Worn
        BY <1>8, <1>18 DEF Worn
      <3>3. QED
        BY <3>1, <3>2 DEF Held
    <2>3. \A g \in Pictures \ {f} : g \in Known' <=> g \in Known
      BY <1>13, BareApart
    <2>4. Held \ {f} \subseteq Held' /\ Held' \subseteq (Held \ {f}) \cup was
      BY <1>1, <1>4, <2>1, <2>3 DEF Held, AvatarsTypeOK
    <2>5. PictureLinked(f, was)
      BY <1>4, <1>14, <2>1, <2>2, <2>4 DEF PictureLinked
    <2>6. QED
      BY <1>7, <1>9, <1>10, <1>11, <1>12, <1>14, <2>1, <2>5 DEF AvatarsInv, PicturesStep
  <1>19. QED
    BY <1>17, <1>18

\* A request that ends, the old picture deleted or not.
LEMMA AvatarEnds ==
  ASSUME AvatarsInv, NEW q \in Sitters, DestroyOld(q) \/ CrashSitter(q)
  PROVE  AvatarsInv' /\ PicturesStep
  <1>1. AvatarsTypeOK /\ PicturesInUse /\ SittersKnow /\ NewIsPrivate /\ OldIsOwn
    BY DEF AvatarsInv
  <1>2. sitting' = [sitting EXCEPT ![q] = Standing] /\ avatar' = avatar
    BY DEF DestroyOld, CrashSitter, Rise
  <1>3. \A z \in Sitters : sitting'[z] = IF z = q THEN Standing ELSE sitting[z]
    BY <1>1, <1>2 DEF AvatarsTypeOK
  <1>4. pictures' = pictures \/ (On(q, "destroy") /\ pictures' = pictures \ {sitting[q].old})
    BY DEF DestroyOld, CrashSitter
  <1>5. \A u \in Users : avatar[u] \in pictures' \cup {Bare}
    BY <1>1, <1>4 DEF PicturesInUse, OldIsOwn
  <1>6. PicturesInUse' /\ Worn' = Worn
    BY <1>1, <1>2, <1>5 DEF PicturesInUse, Worn
  <1>7. AvatarsTypeOK'
    BY <1>1, <1>2, <1>4, StandingTyped DEF AvatarsTypeOK
  <1>8. SittersKnow'
    BY <1>1, <1>3, StandingTyped DEF SittersKnow, On
  <1>9. \A z \in Sitters : sitting[z].new # Bare /\ z # q => sitting[z].new \in pictures'
    BY <1>1, <1>4 DEF NewIsPrivate
  <1>10. NewIsPrivate'
    BY <1>1, <1>2, <1>3, <1>9, StandingTyped DEF NewIsPrivate
  <1>11. OldIsOwn'
    BY <1>1, <1>2, <1>3, StandingTyped DEF OldIsOwn, On
  <1>12. \A g : g # Bare => (g \in Known' => g \in Known)
    BY <1>3, StandingTyped DEF Known
  <1>13. CASE pictures' = pictures
    <2>1. Held' \subseteq Held
      BY <1>1, <1>6, <1>12, <1>13, BareApart DEF Held, AvatarsTypeOK
    <2>2. QED
      BY <1>6, <1>7, <1>8, <1>10, <1>11, <1>13, <2>1 DEF AvatarsInv, PicturesStep, PicturesForgotten
  <1>14. CASE On(q, "destroy") /\ pictures' = pictures \ {sitting[q].old} /\ pictures' # pictures
    <2> DEFINE f == sitting[q].old
    <2>1. f \in pictures /\ f \in Pictures /\ f # Bare
      BY <1>1, <1>14, BareApart DEF AvatarsTypeOK
    <2>2. f \notin Worn
      BY <1>1, <1>14, <2>1 DEF Worn, OldIsOwn
    <2>3. f \in Held
      BY <2>1, <2>2 DEF Held, Known
    <2>4. sitting[q].new = Bare
      BY <1>1, <1>14 DEF SittersKnow, On
    <2>5. \A g : g # Bare => (g \in Known <=> g \in Known' \/ g = f)
      BY <1>3, <2>4, StandingTyped DEF Known
    <2> HIDE DEF f
    <2>6. pictures' = pictures \ {f}
      BY <1>14 DEF f
    <2>7. Held' = Held \ {f}
      BY <1>1, <1>6, <2>5, <2>6, BareApart DEF Held, AvatarsTypeOK
    <2>8. PictureDestroyed(f)
      BY <1>6, <2>3, <2>6, <2>7 DEF PictureDestroyed
    <2>9. QED
      BY <1>6, <1>7, <1>8, <1>10, <1>11, <2>1, <2>8 DEF AvatarsInv, PicturesStep
  <1>15. QED
    BY <1>4, <1>13, <1>14

\* Every step of a request about an avatar, and every step of others.
LEMMA AvatarsStep ==
  ASSUME AvatarsInv, AvatarsNext \/ UNCHANGED avatarVars
  PROVE  AvatarsInv' /\ PicturesStep
  <1>1. CASE AvatarsNext
    BY <1>1, AvatarRead, AvatarUploaded, AvatarWritten, AvatarEnds DEF AvatarsNext
  <1>2. CASE UNCHANGED avatarVars
    <2>1. Worn' = Worn /\ Held' = Held /\ pictures' = pictures
      BY <1>2 DEF Worn, Held, Known, avatarVars
    <2>2. AvatarsInv'
      BY <1>2 DEF avatarVars, AvatarsInv, AvatarsTypeOK, PicturesInUse, SittersKnow, NewIsPrivate, OldIsOwn, On
    <2>3. QED
      BY <2>1, <2>2 DEF PicturesStep, PicturesStand
  <1>3. QED
    BY <1>1, <1>2

-----------------------------------------------------------------------------
(* The list.                                                                *)

\* What can be got to from 0 one by one covers a span.
LEMMA OneByOne ==
  ASSUME NEW S \in SUBSET Nat, NEW length \in Nat, 0 \in S,
         \A n \in S : n < length => n + 1 \in S
  PROVE  0..length \subseteq S
  <1> DEFINE missed == (0..length) \ S
  <1>1. SUFFICES ASSUME missed # {} PROVE FALSE
    OBVIOUS
  <1>2. missed \in SUBSET Nat
    OBVIOUS
  <1>3. PICK n \in missed : \A m \in missed : n <= m
    BY <1>1, <1>2, LeastOfSome
  <1>4. n \in Nat /\ n # 0 /\ n <= length /\ n \notin S
    BY <1>3
  <1>5. n - 1 \in S
    <2>1. n - 1 \in 0..length
      BY <1>4
    <2>2. QED
      BY <1>3, <1>4, <2>1
  <1>6. QED
    BY <1>4, <1>5

\* The entries of a body, written one after the other.
Writing(dto, start, g, n) ==
  g = [m \in 0..n |-> IF m = 0 THEN start ELSE WriteEntry(g[m - 1], dto[m])]

LEMMA WritingIsDone ==
  ASSUME NEW dto, NEW start, NEW length \in Nat
  PROVE  \E g : Writing(dto, start, g, length)
  <1> DEFINE S == {n \in Nat : \E g : Writing(dto, start, g, n)}
  <1>1. 0 \in S
    <2> DEFINE g == [m \in 0..0 |-> start]
    <2>1. g = [m \in 0..0 |-> IF m = 0 THEN start ELSE WriteEntry(g[m - 1], dto[m])]
      OBVIOUS
    <2> HIDE DEF g
    <2>2. QED
      BY <2>1 DEF Writing
  <1>2. ASSUME NEW n \in S
        PROVE  n + 1 \in S
    <2>1. PICK g : Writing(dto, start, g, n)
      OBVIOUS
    <2>2. n \in Nat
      OBVIOUS
    <2> DEFINE next == WriteEntry(g[n], dto[n + 1])
               h == [m \in 0..(n + 1) |-> IF m = n + 1 THEN next ELSE g[m]]
    <2>3. \A m \in 0..n : g[m] = IF m = 0 THEN start ELSE WriteEntry(g[m - 1], dto[m])
      BY <2>1, Zenon DEF Writing
    <2> HIDE DEF next
    <2>4. ASSUME NEW m \in 0..(n + 1)
          PROVE  h[m] = IF m = 0 THEN start ELSE WriteEntry(h[m - 1], dto[m])
      <3>1. CASE m = n + 1
        <4>1. h[m] = next /\ m # 0 /\ m - 1 = n /\ h[m - 1] = g[n]
          BY <2>2, <3>1
        <4> HIDE DEF h
        <4>2. QED
          BY <3>1, <4>1 DEF next
      <3>2. CASE m # n + 1
        <4>1. m \in 0..n
          BY <2>2, <3>2
        <4>2. h[m] = g[m] /\ (m # 0 => h[m - 1] = g[m - 1])
          BY <2>2, <4>1, <3>2
        <4> HIDE DEF h
        <4>3. QED
          BY <2>3, <4>1, <4>2
      <3>3. QED
        BY <3>1, <3>2
    <2>5. h = [m \in 0..(n + 1) |-> h[m]]
      OBVIOUS
    <2> HIDE DEF h
    <2>6. Writing(dto, start, h, n + 1)
      BY <2>4, <2>5, Zenon DEF Writing
    <2>7. QED
      BY <2>2, <2>6
  <1> HIDE DEF S
  <1>3. S \in SUBSET Nat
    BY DEF S
  <1>4. 0..length \subseteq S
    BY <1>1, <1>2, <1>3, OneByOne
  <1>5. QED
    BY <1>4 DEF S

\* What writing may make of a list: no name is lost, or the write fails.
Rewritten(start) ==
  {rows \in [Items -> Names \cup {None}] : \A i \in Items : start[i] # None => rows[i] # None}

LEMMA EntryWritten ==
  ASSUME NEW start, NEW rows \in Rewritten(start) \cup {<<>>},
         NEW entry, entry.name \in Names
  PROVE  WriteEntry(rows, entry) \in Rewritten(start) \cup {<<>>}
  <1> DEFINE name == entry.name
  <1>1. \/ WriteEntry(rows, entry) = <<>>
        \/ rows # <<>> /\ \E k : WriteEntry(rows, entry) = [rows EXCEPT ![k] = name]
    BY Zenon DEF WriteEntry
  <1>2. name # None
    BY SubmissionsAssumption
  <1>3. ASSUME NEW k, rows # <<>>
        PROVE  [rows EXCEPT ![k] = name] \in Rewritten(start)
    <2>1. rows \in [Items -> Names \cup {None}] /\ \A i \in Items : start[i] # None => rows[i] # None
      BY <1>3 DEF Rewritten
    <2> HIDE DEF name
    <2>2. \A i \in Items : [rows EXCEPT ![k] = name][i] = IF i = k THEN name ELSE rows[i]
      BY <2>1
    <2>3. name \in Names
      BY DEF name
    <2>4. [rows EXCEPT ![k] = name] \in [Items -> Names \cup {None}]
      BY <2>1, <2>3
    <2>5. QED
      BY <1>2, <2>1, <2>2, <2>4, Zenon DEF Rewritten
  <1>4. QED
    BY <1>1, <1>3

\* The transaction of a change, as a whole.
LEMMA ListWritten ==
  ASSUME SubmissionsTypeOK, NEW p \in Writers, Written(p) # <<>>
  PROVE  /\ Written(p) \in [Items -> Names \cup {None}]
         /\ \A i \in Items \ desk[p].dropped : list[i] # None => Written(p)[i] # None
  <1> DEFINE dto == desk[p].dto
             remaining == [i \in Items |-> IF i \in desk[p].dropped THEN None ELSE list[i]]
             length == Len(dto)
             chosen == CHOOSE g : Writing(dto, remaining, g, length)
  <1>1. dto \in Dtos \cup {<<>>}
    BY DEF SubmissionsTypeOK, Request
  <1>2. length \in Nat /\ \A n \in 1..length : dto[n].name \in Names
    <2> HIDE DEF dto
    <2>1. CASE dto = <<>>
      <3>1. length = 0
        BY <2>1
      <3>2. QED
        BY <3>1
    <2>2. CASE dto \in Dtos
      <3> DEFINE Entry == [id : Items \cup {None}, name : Names]
      <3>1. dto \in Seq(Entry)
        BY <2>2, SubmissionsAssumption
      <3>2. length \in Nat /\ \A n \in 1..length : dto[n] \in Entry
        <4> HIDE DEF Entry
        <4>1. QED
          BY <3>1
      <3>3. ASSUME NEW n \in 1..length
            PROVE  dto[n].name \in Names
        <4>1. dto[n] \in Entry
          BY <3>2
        <4>2. QED
          BY <4>1
      <3>4. QED
        BY <3>2, <3>3
    <2>3. QED
      BY <1>1, <2>1, <2>2
  <1>3. remaining \in Rewritten(remaining)
    BY DEF SubmissionsTypeOK, Rewritten
  <1>4. \A i \in Items : remaining[i] = IF i \in desk[p].dropped THEN None ELSE list[i]
    OBVIOUS
  <1>5. Written(p) = chosen[length]
    BY Zenon DEF Written, Writing
  <1> HIDE DEF remaining, length, dto
  <1>6. Writing(dto, remaining, chosen, length)
    BY <1>2, WritingIsDone
  <1> HIDE DEF chosen
  <1>7. \A m \in 0..length :
          chosen[m] = IF m = 0 THEN remaining ELSE WriteEntry(chosen[m - 1], dto[m])
    BY <1>6, Zenon DEF Writing
  <1> DEFINE S == {n \in 0..length : chosen[n] \in Rewritten(remaining) \cup {<<>>}}
  <1>8. 0 \in S
    BY <1>2, <1>3, <1>7
  <1>9. ASSUME NEW n \in S, n < length
        PROVE  n + 1 \in S
    <2>1. n + 1 \in 1..length /\ n + 1 \in 0..length /\ (n + 1) - 1 = n /\ n + 1 # 0
      BY <1>2, <1>9
    <2>2. chosen[n + 1] = WriteEntry(chosen[n], dto[n + 1])
      BY <1>7, <2>1
    <2>3. chosen[n] \in Rewritten(remaining) \cup {<<>>} /\ dto[n + 1].name \in Names
      BY <1>2, <2>1
    <2>4. WriteEntry(chosen[n], dto[n + 1]) \in Rewritten(remaining) \cup {<<>>}
      <3> DEFINE before == chosen[n]
                 entry == dto[n + 1]
      <3>1. before \in Rewritten(remaining) \cup {<<>>} /\ entry.name \in Names
        BY <2>3
      <3> HIDE DEF before, entry
      <3>2. WriteEntry(before, entry) \in Rewritten(remaining) \cup {<<>>}
        BY <3>1, EntryWritten
      <3>3. QED
        BY <3>2 DEF before, entry
    <2>5. QED
      BY <2>1, <2>2, <2>4
  <1> HIDE DEF S
  <1>10. S \in SUBSET Nat
    BY <1>2 DEF S
  <1>11. length \in S
    <2>1. 0..length \subseteq S
      BY <1>2, <1>8, <1>9, <1>10, OneByOne
    <2>2. QED
      BY <1>2, <2>1
  <1>12. Written(p) \in Rewritten(remaining)
    BY <1>5, <1>11 DEF S
  <1>13. QED
    BY <1>4, <1>12 DEF Rewritten

\* What is on the list, and that all work is.
ListInv ==
  /\ list \in [Items -> Names \cup {None}]
  /\ open \subseteq Groups /\ spilled \subseteq SubmissionFiles
  /\ \A r \in Handed : work[r].item \in Listed

LEMMA SubmissionsTypes == SubmissionsInv /\ ListInv => SubmissionsTypeOK
  BY DEF SubmissionsInv, SubmissionsTyped, ListInv, SubmissionsTypeOK

\* Work is added to and answered, and stays what it was and on the list; groups
\* only close.
Stays(r) ==
  /\ r \in Handed' /\ work'[r].item \in Listed'
  /\ work'[r].group = work[r].group /\ work'[r].item = work[r].item
  /\ work'[r].version = work[r].version
  /\ work[r].answered => work'[r].answered
WorkGrows ==
  /\ open' \subseteq open
  /\ \A r \in Handed : Stays(r)
  /\ \A r \in Handed' \ Handed : ~work'[r].answered

\* The list and the work stand.
LEMMA ListStands ==
  ASSUME ListInv, UNCHANGED <<list, work>>, open' \subseteq open,
         spilled' \subseteq SubmissionFiles
  PROVE  ListInv' /\ WorkGrows
  <1>1. Listed' = Listed /\ Handed' = Handed
    BY DEF Listed, Handed
  <1>2. QED
    BY <1>1 DEF ListInv, WorkGrows, Stays

\* setForRound.
LEMMA ListCommitted ==
  ASSUME SubmissionsInv, ListInv, NEW p \in Writers, CommitEdit(p)
  PROVE  ListInv' /\ WorkGrows
  <1>1. SubmissionsTypeOK
    BY SubmissionsTypes
  <1>2. /\ list' \in [Items -> Names \cup {None}]
        /\ \A i \in Items \ desk[p].dropped : list[i] # None => list'[i] # None
    BY <1>1, ListWritten DEF CommitEdit
  <1>3. UNCHANGED <<open, work, spilled>> /\ Handed' = Handed
    BY DEF CommitEdit, Handed
  <1>4. \A r \in Handed : work[r].item \in Listed'
    <2> SUFFICES ASSUME NEW r \in Handed PROVE work[r].item \in Listed'
      OBVIOUS
    <2>1. work[r].item \in Items /\ list[work[r].item] # None
      BY DEF ListInv, Listed
    <2>2. work[r].item \notin desk[p].dropped
      BY DEF CommitEdit, Against
    <2>3. QED
      BY <1>2, <2>1, <2>2 DEF Listed
  <1>5. QED
    BY <1>2, <1>3, <1>4 DEF ListInv, WorkGrows, Stays

\* create.
LEMMA ListInserted ==
  ASSUME SubmissionsInv, ListInv, NEW p \in Writers, Insert(p)
  PROVE  ListInv' /\ WorkGrows
  <1> DEFINE r == Min(Rows \ Handed)
             row == [NoWork EXCEPT !.group = desk[p].group, !.item = desk[p].item,
                                   !.version = desk[p].version, !.file = desk[p].file]
  <1>1. r \in Rows \ Handed
    BY LeastOfSome, NoneApart DEF Insert
  <1>2. UNCHANGED <<list, open, spilled>> /\ Listed' = Listed
    BY DEF Insert, Listed
  <1>3. CASE desk[p].item \in Listed
    <2>1. row.item = desk[p].item /\ row.answered = FALSE
      BY DEF NoWork
    <2>2. work' = [work EXCEPT ![r] = row]
      BY <1>3 DEF Insert
    <2> HIDE DEF r, row
    <2>3. \A x \in Rows : work'[x] = IF x = r THEN row ELSE work[x]
      BY <2>2 DEF SubmissionsInv, SubmissionsTyped
    <2>4. \A x \in Handed : x \in Rows /\ x # r /\ x \in Handed' /\ work'[x] = work[x]
      BY <1>1, <2>3 DEF Handed
    <2>5. \A x \in Handed' : x \in Handed \/ (x = r /\ work'[x] = row)
      BY <2>3 DEF Handed
    <2>6. QED
      BY <1>2, <1>3, <2>1, <2>4, <2>5 DEF ListInv, WorkGrows, Stays
  <1>4. CASE desk[p].item \notin Listed
    BY <1>2, <1>4, ListStands DEF Insert, ListInv
  <1>5. QED
    BY <1>3, <1>4

\* giveFeedback: one row is answered, or told of.
LEMMA ListAnswered ==
  ASSUME SubmissionsInv, ListInv, NEW p \in Writers, Answer(p) \/ Tell(p)
  PROVE  ListInv' /\ WorkGrows
  <1>1. desk[p].row \in Handed /\ work \in [Rows -> Work]
    BY DEF Answer, Tell, At, SubmissionsInv, AboutWork, AnswerInHand, SubmissionsTyped
  <1>2. UNCHANGED <<list, open, spilled>> /\ Listed' = Listed
    BY DEF Answer, Tell, Listed
  <1>3. \A x \in Rows :
          /\ work'[x].group = work[x].group /\ work'[x].item = work[x].item
          /\ work'[x].version = work[x].version
          /\ work[x].answered => work'[x].answered
    <2> SUFFICES ASSUME NEW x \in Rows
                 PROVE  /\ work'[x].group = work[x].group /\ work'[x].item = work[x].item
                        /\ work'[x].version = work[x].version
                        /\ work[x].answered => work'[x].answered
      OBVIOUS
    <2>1. \/ work'[x] = work[x]
          \/ work'[x] = [work[x] EXCEPT !.answered = TRUE]
          \/ work'[x] = [work[x] EXCEPT !.told = TRUE]
      BY <1>1 DEF Answer, Tell
    <2>2. work[x] \in Work
      BY <1>1
    <2>3. QED
      BY <2>1, <2>2, Zenon DEF Work
  <1>4. Handed' = Handed /\ Handed \subseteq Rows
    BY <1>3 DEF Handed
  <1>5. QED
    BY <1>2, <1>3, <1>4 DEF ListInv, WorkGrows, Stays

LEMMA ListStep ==
  ASSUME SubmissionsInv, ListInv, SubmissionsNext \/ UNCHANGED submissionVars
  PROVE  ListInv' /\ WorkGrows
  <1>1. CASE UNCHANGED submissionVars
    BY <1>1, ListStands DEF submissionVars, ListInv
  <1>2. CASE \E g \in Groups : GroupRejected(g)
    BY <1>2, ListStands DEF GroupRejected, ListInv
  <1>3. ASSUME NEW p \in Writers,
               \/ \E dto \in Dtos : EditArrives(p, dto)
               \/ \E g \in Groups, i \in Items : CreateArrives(p, g, i)
               \/ \E r \in Rows : AnswerArrives(p, r)
               \/ Upload(p) \/ ReadLatest(p) \/ Cleanup(p) \/ CleanupFails(p) \/ CrashWriter(p)
        PROVE  ListInv' /\ WorkGrows
    <2>1. UNCHANGED <<list, open, work>> /\ spilled' \subseteq spilled \cup ({desk[p].file} \ {None})
      BY <1>3 DEF EditArrives, CreateArrives, AnswerArrives, Upload, ReadLatest,
                  Cleanup, CleanupFails, CrashWriter
    <2>2. desk[p].file \in SubmissionFiles \cup {None}
      BY DEF SubmissionsInv, SubmissionsTyped, Request
    <2>3. QED
      BY <2>1, <2>2, ListStands DEF ListInv
  <1>4. ASSUME NEW p \in Writers, CommitEdit(p) \/ Insert(p) \/ Answer(p) \/ Tell(p)
        PROVE  ListInv' /\ WorkGrows
    BY <1>4, ListCommitted, ListInserted, ListAnswered
  <1>5. QED
    BY <1>1, <1>2, <1>3, <1>4 DEF SubmissionsNext

-----------------------------------------------------------------------------
(* The report.                                                              *)

\* Who has handed in anything has handed in a newest version, and the groups
\* that have are no more than the rows.
SomeAreNewest == \A g, i : Earlier(g, i) # {} => Newest(g, i) # {}
FewSubmit == \A i : IsFiniteSet({g \in open : Newest(g, i) # {}})

LEMMA NewestOfSome == SubmissionsTyped => SomeAreNewest
  <1> SUFFICES ASSUME SubmissionsTyped, NEW g, NEW i, Earlier(g, i) # {}
               PROVE  Newest(g, i) # {}
    BY DEF SomeAreNewest
  <1> DEFINE versions == {work[r].version : r \in Earlier(g, i)}
  <1>1. Earlier(g, i) \subseteq Rows
    BY DEF Earlier, Handed
  <1>2. versions \in SUBSET Nat /\ versions # {}
    BY <1>1 DEF SubmissionsTyped, Work
  <1>3. IsFiniteSet(versions)
    <2>1. IsFiniteSet(Earlier(g, i))
      BY <1>1, NoneApart, FS_Subset
    <2> DEFINE version == [r \in Earlier(g, i) |-> work[r].version]
    <2>2. version \in Surjection(Earlier(g, i), versions)
      BY DEF Surjection
    <2>3. QED
      BY <2>1, <2>2, FS_Surjection DEF ExistsSurjection
  <1>4. Max(versions) \in versions /\ \A v \in versions : v <= Max(versions)
    BY <1>2, <1>3, GreatestOfSome
  <1>5. PICK r \in Earlier(g, i) : work[r].version = Max(versions)
    BY <1>4
  <1>6. \A x \in Earlier(g, i) : work[x].version <= work[r].version
    BY <1>4, <1>5
  <1>7. r \in Newest(g, i)
    BY <1>6 DEF Newest
  <1>8. QED
    BY <1>7

LEMMA FewEver == FewSubmit
  <1> SUFFICES ASSUME NEW i
               PROVE  IsFiniteSet({g \in open : Newest(g, i) # {}})
    BY DEF FewSubmit
  <1> DEFINE groups == {work[r].group : r \in Handed}
             named == [r \in Handed |-> work[r].group]
  <1>1. IsFiniteSet(Handed)
    BY NoneApart, FS_Subset DEF Handed
  <1>2. named \in Surjection(Handed, groups)
    BY DEF Surjection
  <1>3. IsFiniteSet(groups)
    BY <1>1, <1>2, FS_Surjection DEF ExistsSurjection
  <1>4. {g \in open : Newest(g, i) # {}} \subseteq groups
    BY DEF Newest, Earlier
  <1>5. QED
    BY <1>3, <1>4, FS_Subset

\* A report's figures move as work does.
LEMMA ReportMoves ==
  ASSUME SubmissionsTyped, SubmissionsTyped', ListInv, WorkGrows
  PROVE  WorkStaysListed /\ ProgressStands
  <1>1. WorkStaysListed
    BY DEF WorkGrows, Stays, WorkStaysListed, Listed
  <1>2. ASSUME NEW g, NEW i, Newest(g, i) # {}
        PROVE  Newest(g, i)' # {} /\ i \in Listed'
    <2>1. PICK r \in Earlier(g, i) : TRUE
      BY <1>2 DEF Newest
    <2>2. r \in Handed /\ work[r].group = g /\ work[r].item = i
      BY <2>1 DEF Earlier
    <2>3. r \in Handed' /\ work'[r].group = g /\ work'[r].item = i /\ i \in Listed'
      BY <2>2 DEF WorkGrows, Stays
    <2>4. Earlier(g, i)' # {}
      BY <2>3 DEF Earlier
    <2>5. SubmissionsTyped' => SomeAreNewest'
      BY NewestOfSome, PTL
    <2>6. QED
      BY <2>3, <2>4, <2>5 DEF SomeAreNewest
  <1>3. ASSUME NEW g, NEW i, NEW r \in Newest(g, i)', r \in Handed
        PROVE  r \in Newest(g, i)
    <2>1. r \in Earlier(g, i)
      BY <1>3 DEF Newest, Earlier, WorkGrows, Stays
    <2>2. ASSUME NEW x \in Earlier(g, i)
          PROVE  work[x].version <= work[r].version
      <3>1. x \in Handed /\ work[x].group = g /\ work[x].item = i
        BY DEF Earlier
      <3>2. x \in Earlier(g, i)'
        BY <3>1 DEF WorkGrows, Stays, Earlier
      <3>3. work'[x].version <= work'[r].version
        BY <1>3, <3>2 DEF Newest
      <3>4. work'[x].version = work[x].version /\ work'[r].version = work[r].version
        BY <1>3, <3>1 DEF WorkGrows, Stays
      <3>5. QED
        BY <3>3, <3>4
    <2>3. QED
      BY <2>1, <2>2 DEF Newest
  <1>4. \A required \in SUBSET (Listed \cap Listed') :
          Complete(required) \cap open' \subseteq Complete(required)'
    BY <1>2 DEF Complete
  <1>5. ASSUME NEW g \in (SurelyAwaiting \cap open') \ MaybeAwaiting'
        PROVE  \E r \in Handed : ~work[r].answered /\ work'[r].answered
    <2>1. PICK i \in Listed : Newest(g, i) # {} /\ \A r \in Newest(g, i) : ~work[r].answered
      BY DEF SurelyAwaiting
    <2>2. Newest(g, i)' # {} /\ i \in Listed'
      BY <1>2, <2>1
    <2>3. PICK r \in Newest(g, i)' : TRUE
      BY <2>2
    <2>4. work'[r].answered /\ r \in Handed'
      BY <2>2, <2>3 DEF MaybeAwaiting, Newest, Earlier
    <2>5. r \in Handed
      BY <2>4 DEF WorkGrows
    <2>6. QED
      BY <1>3, <2>1, <2>3, <2>4, <2>5
  <1>6. ASSUME Handed' = Handed
        PROVE  MaybeAwaiting' \subseteq MaybeAwaiting
    <2> SUFFICES ASSUME NEW g \in MaybeAwaiting' PROVE g \in MaybeAwaiting
      OBVIOUS
    <2>1. PICK i \in Listed' : \E r \in Newest(g, i)' : ~work'[r].answered
      BY DEF MaybeAwaiting
    <2>2. PICK r \in Newest(g, i)' : ~work'[r].answered
      BY <2>1
    <2>3. r \in Handed
      BY <1>6, <2>2 DEF Newest, Earlier
    <2>4. r \in Newest(g, i) /\ ~work[r].answered
      BY <1>3, <2>2, <2>3 DEF WorkGrows, Stays
    <2>5. i \in Listed
      BY <2>3, <2>4 DEF Newest, Earlier, ListInv
    <2>6. g \in open
      BY DEF MaybeAwaiting, WorkGrows
    <2>7. QED
      BY <2>4, <2>5, <2>6 DEF MaybeAwaiting
  <1>7. ASSUME NEW i \in Listed \cap Listed', open' = open
        PROVE  ~(Submitted(i)' < Submitted(i))
    <2> DEFINE before == {g \in open : Newest(g, i) # {}}
               after == {g \in open' : Newest(g, i)' # {}}
    <2>1. before \subseteq after
      BY <1>2, <1>7
    <2>2. IsFiniteSet(after)
      <3>1. FewSubmit'
        BY FewEver, PTL
      <3>2. QED
        BY <3>1 DEF FewSubmit
    <2>3. Submitted(i) = Cardinality(before) /\ Submitted(i)' = Cardinality(after)
      BY DEF Submitted
    <2> HIDE DEF before, after
    <2>4. IsFiniteSet(before) /\ Cardinality(before) <= Cardinality(after)
      BY <2>1, <2>2, FS_Subset
    <2>5. Cardinality(before) \in Nat /\ Cardinality(after) \in Nat
      BY <2>2, <2>4, FS_CardinalityType
    <2>6. QED
      BY <2>3, <2>4, <2>5
  <1>8. QED
    BY <1>1, <1>4, <1>5, <1>6, <1>7 DEF ProgressStands

-----------------------------------------------------------------------------
(* Both.                                                                    *)

FilesInv == SubmissionsInv /\ ListInv /\ AvatarsInv

LEMMA InitFiles == Init => FilesInv /\ Store!Init
  <1> SUFFICES ASSUME Init PROVE FilesInv /\ Store!Init
    OBVIOUS
  <1>1. SubmissionsInit /\ AvatarsInit
    BY DEF Init
  <1>2. \A r \in Rows : work[r] = NoWork /\ NoWork.group = None /\ NoWork.file = None
    BY <1>1 DEF SubmissionsInit, NoWork
  <1>3. \A p \in Writers : desk[p] = Idle /\ Idle.pc = "idle" /\ Idle.file = None
    BY <1>1, IdleTyped DEF SubmissionsInit
  <1>4. SubmissionsTyped
    <2>1. NoWork \in Work
      BY DEF NoWork, Work
    <2>2. QED
      BY <1>1, <1>3, <2>1, IdleTyped DEF SubmissionsInit, SubmissionsTyped
  <1>5. Handed = {} /\ documents = {}
    BY <1>1, <1>2 DEF Handed, SubmissionsInit
  <1>6. AboutFiles
    BY <1>2, <1>3, <1>5 DEF AboutFiles, FilesInHand, FilesInRows, Accounted
  <1>7. AboutWork
    BY <1>3, <1>5 DEF AboutWork, NoVersionSkipped, VersionInHand, ToldOfAnAnswer, AnswerInHand, At
  <1>8. \A q \in Sitters : sitting[q] = Standing
    BY <1>1 DEF AvatarsInit
  <1>9. \A u \in Users : avatar[u] = Bare
    BY <1>1 DEF AvatarsInit
  <1>10. AvatarsInv
    <2>1. AvatarsTypeOK /\ PicturesInUse /\ pictures = {}
      BY <1>1, <1>9, StandingTyped DEF AvatarsInit, AvatarsTypeOK, PicturesInUse
    <2>2. SittersKnow /\ NewIsPrivate /\ OldIsOwn
      BY <1>8, StandingTyped DEF SittersKnow, NewIsPrivate, OldIsOwn, On
    <2>3. QED
      BY <2>1, <2>2 DEF AvatarsInv
  <1>11. Linked = {}
    BY <1>2, <1>9 DEF Linked
  <1>12. HeldDocuments = {} /\ HeldPictures = {} /\ pictures = {}
    BY <1>1, <1>5 DEF HeldDocuments, HeldPictures, AvatarsInit
  <1>13. ListInv
    BY <1>1, <1>5 DEF SubmissionsInit, ListInv
  <1>14. QED
    BY <1>4, <1>5, <1>6, <1>7, <1>10, <1>11, <1>12, <1>13 DEF FilesInv, SubmissionsInv, Store!Init

\* The store's three sets, seen from each side.
LEMMA TwoSides ==
  ASSUME FilesInv
  PROVE  /\ documents \subseteq SubmissionFiles /\ pictures \subseteq Pictures
         /\ InRows \subseteq documents /\ InHand \subseteq documents \ InRows
         /\ Worn \subseteq pictures /\ Held \subseteq pictures \ Worn
         /\ SubmissionFiles \cap Pictures = {}
         /\ Linked = InRows \cup Worn
         /\ HeldDocuments \cup HeldPictures = InHand \cup Held
  <1>1. /\ SubmissionsTyped /\ FilesInHand /\ FilesInRows
        /\ AvatarsTypeOK /\ PicturesInUse
    BY DEF FilesInv, SubmissionsInv, AboutFiles, AvatarsInv
  <1>2. /\ documents \subseteq SubmissionFiles /\ pictures \subseteq Pictures
        /\ SubmissionFiles \cap Pictures = {}
    BY <1>1, FilesAssumption DEF SubmissionsTyped, AvatarsTypeOK
  <1>3. InRows \subseteq documents
    BY <1>1 DEF InRows, FilesInRows
  <1>4. InHand \subseteq documents \ InRows
    BY <1>1 DEF InHand, InRows, FilesInHand
  <1>5. Worn \subseteq pictures /\ Held \subseteq pictures \ Worn
    BY <1>1 DEF Worn, Held, PicturesInUse
  <1>6. Linked = InRows \cup Worn
    BY DEF Linked, InRows, Worn
  <1>7. HeldDocuments = InHand
    <2>1. HeldDocuments = (documents \ Linked) \cap {desk[p].file : p \in Writers}
      BY DEF HeldDocuments
    <2>2. QED
      BY <1>2, <1>4, <1>5, <1>6, <2>1, NoneApart DEF InHand
  <1>8. HeldPictures = Held
    <2>1. HeldPictures = (pictures \ Linked) \cap Known
      BY DEF HeldPictures, Known
    <2>2. QED
      BY <1>2, <1>3, <1>6, <2>1 DEF Held
  <1>9. QED
    BY <1>2, <1>3, <1>4, <1>5, <1>6, <1>7, <1>8

\* A step of one side, the other standing still, is a step of the store.
LEMMA StoreStep ==
  ASSUME FilesInv, FilesInv',
         \/ DocumentsStep /\ PicturesStand
         \/ PicturesStep /\ DocumentsStand
  PROVE  Store!Next \/ UNCHANGED Store!vars
  <1> DEFINE stored == documents \cup pictures
             linked == InRows \cup Worn
             held == InHand \cup Held
             Files == SubmissionFiles \cup Pictures
  <1>1. /\ documents \subseteq SubmissionFiles /\ pictures \subseteq Pictures
        /\ InRows \subseteq documents /\ InHand \subseteq documents \ InRows
        /\ Worn \subseteq pictures /\ Held \subseteq pictures \ Worn
        /\ SubmissionFiles \cap Pictures = {}
    BY TwoSides
  <1>2. Linked = linked /\ HeldDocuments \cup HeldPictures = held
    BY TwoSides
  <1>3. Linked' = linked' /\ (HeldDocuments \cup HeldPictures)' = held'
    <2>1. FilesInv' => (Linked = InRows \cup Worn /\ HeldDocuments \cup HeldPictures = InHand \cup Held)'
      BY TwoSides, PTL
    <2>2. QED
      BY <2>1
  \* What each step of the store asks, said of the two sides.
  <1>4. ASSUME NEW f \in Files, f \notin stored, stored' = stored \cup {f},
               linked' = linked, held' = held \cup {f}
        PROVE  Store!Next
    <2>1. Store!Upload(f)
      BY <1>2, <1>3, <1>4, Zenon DEF Store!Upload
    <2>2. QED
      BY <2>1 DEF Store!Next
  <1>5. ASSUME NEW f \in Files, f \in held, stored' = stored \ {f},
               linked' = linked, held' = held \ {f}
        PROVE  Store!Next
    <2>1. Store!Destroy(f)
      BY <1>2, <1>3, <1>5, Zenon DEF Store!Destroy
    <2>2. QED
      BY <2>1 DEF Store!Next
  <1>6. ASSUME NEW f \in Files, NEW old \in SUBSET Files, f \in held, old \subseteq linked,
               stored' = stored, linked' = (linked \ old) \cup {f},
               held \ {f} \subseteq held', held' \subseteq (held \ {f}) \cup old
        PROVE  Store!Next
    <2> DEFINE kept == held' \cap old
    <2>1. held' = (held \ {f}) \cup kept /\ kept \in SUBSET old
      BY <1>6
    <2> HIDE DEF kept, stored, linked, held
    <2>2. held' \in {(held \ {f}) \cup k : k \in SUBSET old}
      BY <2>1
    <2>3. Store!Link(f, old)
      BY <1>2, <1>3, <1>6, <2>2, Zenon DEF Store!Link, stored
    <2>4. QED
      BY <2>3 DEF Store!Next
  <1>7. ASSUME NEW old \in SUBSET Files, old \subseteq linked,
               stored' = stored, linked' = linked \ old,
               held \subseteq held', held' \subseteq held \cup old
        PROVE  Store!Next
    <2> DEFINE kept == held' \cap old
    <2>1. held' = held \cup kept /\ kept \in SUBSET old
      BY <1>7
    <2> HIDE DEF kept, stored, linked, held
    <2>2. held' \in {held \cup k : k \in SUBSET old}
      BY <2>1
    <2>3. Store!Unlink(old)
      BY <1>2, <1>3, <1>7, <2>2, Zenon DEF Store!Unlink, stored
    <2>4. QED
      BY <2>3 DEF Store!Next
  <1>8. ASSUME stored' = stored, linked' = linked, held' \subseteq held
        PROVE  Store!Next
    <2> DEFINE gone == held \ held'
    <2>1. held' = held \ gone /\ gone \subseteq held /\ gone \in SUBSET Files
      BY <1>1, <1>8
    <2> HIDE DEF gone, stored, linked, held
    <2>2. Store!Forget(gone)
      BY <1>2, <1>3, <1>8, <2>1, Zenon DEF Store!Forget, stored
    <2>3. QED
      BY <2>1, <2>2 DEF Store!Next
  <1>9. ASSUME stored' = stored, linked' = linked, held' = held
        PROVE  UNCHANGED Store!vars
    BY <1>2, <1>3, <1>9, Zenon DEF Store!vars
  <1>10. CASE DocumentsStep /\ PicturesStand
    <2>1. pictures' = pictures /\ Worn' = Worn /\ Held' = Held
      BY <1>10 DEF PicturesStand
    <2>2. CASE DocumentsStand
      BY <1>9, <2>1, <2>2 DEF DocumentsStand
    <2>3. ASSUME NEW f \in SubmissionFiles, DocumentUploaded(f)
          PROVE  Store!Next
      <3>1. f \notin stored /\ stored' = stored \cup {f} /\ linked' = linked /\ held' = held \cup {f}
        BY <1>1, <2>1, <2>3 DEF DocumentUploaded
      <3>2. QED
        BY <1>4, <3>1
    <2>4. ASSUME NEW f \in SubmissionFiles, DocumentLinked(f)
          PROVE  Store!Next
      <3>1. /\ f \in held /\ stored' = stored /\ linked' = (linked \ {}) \cup {f}
            /\ held \ {f} \subseteq held' /\ held' \subseteq (held \ {f}) \cup {}
        BY <1>1, <2>1, <2>4 DEF DocumentLinked
      <3>2. f \in Files /\ {} \in SUBSET Files /\ {} \subseteq linked
        OBVIOUS
      <3> HIDE DEF stored, linked, held, Files
      <3>3. QED
        BY <1>6, <3>1, <3>2, Zenon
    <2>5. ASSUME NEW f \in SubmissionFiles, DocumentTakenBack(f)
          PROVE  Store!Next
      <3>1. f \in held /\ stored' = stored \ {f} /\ linked' = linked /\ held' = held \ {f}
        BY <1>1, <2>1, <2>5 DEF DocumentTakenBack
      <3>2. QED
        BY <1>5, <3>1
    <2>6. ASSUME NEW f \in SubmissionFiles, DocumentForgotten(f)
          PROVE  Store!Next
      <3>1. stored' = stored /\ linked' = linked /\ held' \subseteq held
        BY <1>1, <2>1, <2>6 DEF DocumentForgotten
      <3>2. QED
        BY <1>8, <3>1
    <2>7. QED
      BY <1>10, <2>2, <2>3, <2>4, <2>5, <2>6 DEF DocumentsStep
  <1>11. CASE PicturesStep /\ DocumentsStand
    <2>1. documents' = documents /\ InRows' = InRows /\ InHand' = InHand
      BY <1>11 DEF DocumentsStand
    <2>2. CASE PicturesStand
      BY <1>9, <2>1, <2>2 DEF PicturesStand
    <2>3. CASE PicturesForgotten
      <3>1. stored' = stored /\ linked' = linked /\ held' \subseteq held
        BY <2>1, <2>3 DEF PicturesForgotten
      <3>2. QED
        BY <1>8, <3>1
    <2>4. ASSUME NEW f \in Pictures, PictureUploaded(f)
          PROVE  Store!Next
      <3>1. f \notin stored /\ stored' = stored \cup {f} /\ linked' = linked /\ held' = held \cup {f}
        BY <1>1, <2>1, <2>4 DEF PictureUploaded
      <3>2. QED
        BY <1>4, <3>1
    <2>5. ASSUME NEW f \in Pictures, PictureDestroyed(f)
          PROVE  Store!Next
      <3>1. f \in held /\ stored' = stored \ {f} /\ linked' = linked /\ held' = held \ {f}
        BY <1>1, <2>1, <2>5 DEF PictureDestroyed
      <3>2. QED
        BY <1>5, <3>1
    <2>6. ASSUME NEW f \in Pictures, NEW old \in SUBSET Pictures, PictureLinked(f, old)
          PROVE  Store!Next
      <3>1. /\ f \in held /\ old \subseteq linked
            /\ stored' = stored /\ linked' = (linked \ old) \cup {f}
            /\ held \ {f} \subseteq held' /\ held' \subseteq (held \ {f}) \cup old
        BY <1>1, <2>1, <2>6 DEF PictureLinked
      <3> HIDE DEF stored, linked, held
      <3>2. QED
        BY <1>6, <3>1
    <2>7. ASSUME NEW old \in SUBSET Pictures, PictureUnlinked(old)
          PROVE  Store!Next
      <3>1. /\ old \subseteq linked /\ stored' = stored /\ linked' = linked \ old
            /\ held \subseteq held' /\ held' \subseteq held \cup old
        BY <1>1, <2>1, <2>7 DEF PictureUnlinked
      <3> HIDE DEF stored, linked, held
      <3>2. QED
        BY <1>7, <3>1
    <2>8. QED
      BY <1>11, <2>2, <2>3, <2>4, <2>5, <2>6, <2>7 DEF PicturesStep
  <1>12. QED
    BY <1>10, <1>11

LEMMA FilesStep ==
  FilesInv /\ [Next]_vars => FilesInv' /\ WorkGrows /\ [Store!Next]_(Store!vars)
  <1> SUFFICES ASSUME FilesInv, [Next]_vars
               PROVE  FilesInv' /\ WorkGrows /\ (Store!Next \/ UNCHANGED Store!vars)
    OBVIOUS
  <1>1. SubmissionsInv /\ ListInv /\ AvatarsInv
    BY DEF FilesInv
  <1>2. CASE SubmissionsNext /\ UNCHANGED avatarVars
    <2>1. SubmissionsInv' /\ DocumentsStep
      BY <1>1, <1>2, SubmissionsStep
    <2>2. AvatarsInv' /\ PicturesStand
      <3>1. AvatarsInv'
        BY <1>1, <1>2, AvatarsStep
      <3>2. PicturesStand
        BY <1>2 DEF avatarVars, PicturesStand, Worn, Held, Known
      <3>3. QED
        BY <3>1, <3>2
    <2>3. ListInv' /\ WorkGrows
      BY <1>1, <1>2, ListStep
    <2>4. QED
      BY <2>1, <2>2, <2>3, StoreStep DEF FilesInv
  <1>3. CASE (AvatarsNext \/ UNCHANGED avatarVars) /\ UNCHANGED submissionVars
    <2>1. AvatarsInv' /\ PicturesStep
      BY <1>1, <1>3, AvatarsStep
    <2>2. SubmissionsInv'
      BY <1>1, <1>3, SubmissionsStep
    <2>3. DocumentsStand
      BY <1>3 DEF submissionVars, DocumentsStand, InRows, InHand
    <2>4. ListInv' /\ WorkGrows
      BY <1>1, <1>3, ListStep
    <2>5. QED
      BY <2>1, <2>2, <2>3, <2>4, StoreStep DEF FilesInv
  <1>4. QED
    BY <1>2, <1>3 DEF Next, vars

\* What every overlap of create, giveFeedback, setForRound, setAvatar and
\* removeAvatar keeps, dying requests included.
THEOREM FilesInvariant == Spec => []FilesInv
  BY InitFiles, FilesStep, PTL DEF Spec

-----------------------------------------------------------------------------
(* Theorems.                                                                *)

\* Submissions and avatars keep the store's promise, for any number of groups,
\* users, requests and files: a row names only what is there, and what a row
\* names is not deleted (submissions.service.ts create, me.service.ts setAvatar).
THEOREM StoreImplementedHolds == Spec => StoreImplemented
  <1>1. Spec => Store!Spec
    BY InitFiles, FilesStep, PTL DEF Spec, Store!Spec
  <1>2. QED
    BY <1>1 DEF StoreImplemented

\* Versions have no gap, nobody is told of an answer that is not there, no
\* document is left behind quietly, and whatever the office writes leaves a list
\* (submissions.service.ts create, giveFeedback; requirements.service.ts
\* setForRound).
THEOREM WorkSoundHolds == Spec => []WorkSound
  <1>1. FilesInv => NoVersionSkipped /\ ToldOfAnAnswer
    BY DEF FilesInv, SubmissionsInv, AboutWork
  <1>2. FilesInv => TypeOK
    BY SubmissionsTypes DEF FilesInv, AvatarsInv, TypeOK
  <1>3. FilesInv => DocumentsAccounted
    <2> SUFFICES ASSUME FilesInv PROVE DocumentsAccounted
      OBVIOUS
    <2>1. Accounted
      BY DEF FilesInv, SubmissionsInv, AboutFiles
    <2>2. InHand \subseteq documents /\ documents \cap Worn = {} /\ Linked = InRows \cup Worn
      BY TwoSides
    <2>3. InHand \ Linked \subseteq HeldDocuments
      BY <2>2 DEF HeldDocuments, InHand
    <2>4. QED
      BY <2>1, <2>2, <2>3 DEF Accounted, DocumentsAccounted
  <1>4. FilesInv => WorkSound
    BY <1>1, <1>2, <1>3 DEF WorkSound
  <1>5. QED
    BY <1>4, FilesInvariant, PTL

\* Work stays against a document that is on the list, and what a report has said
\* of a group stands but for an answer, another version or the group's end
\* (setForRound against create; reports.service.ts progressRows).
THEOREM WorkKeptHolds == Spec => WorkKept
  <1>1. FilesInv /\ FilesInv' /\ [Next]_vars => [WorkStaysListed /\ ProgressStands]_submissionVars
    <2> SUFFICES ASSUME FilesInv, FilesInv', [Next]_vars
                 PROVE  WorkStaysListed /\ ProgressStands
      OBVIOUS
    <2>1. SubmissionsTyped /\ SubmissionsTyped' /\ ListInv
      BY DEF FilesInv, SubmissionsInv
    <2>2. WorkGrows
      BY FilesStep
    <2>3. QED
      BY <2>1, <2>2, ReportMoves
  <1>2. QED
    BY <1>1, FilesInvariant, PTL DEF Spec, WorkKept
=============================================================================
