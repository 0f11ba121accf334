--------------------------- MODULE ProposalsProofs ---------------------------
(***************************************************************************)
(* What Proposals keeps for any number of students, lecturers, proposals,  *)
(* topics, rounds and requests in flight, whatever overlaps.                *)
(*                                                                         *)
(* Sound is the inductive invariant: types, what a request in flight        *)
(* addresses, that a held topic stands, and SourceAnswered itself.          *)
(***************************************************************************)
EXTENDS Proposals, TLAPS, FiniteSetTheorems

OnProposal == {"withdraw", "count", "accept", "reject"}
OnTopic == {"register", "approve", "open", "close", "move", "remove"}

\* The check of a request named rows by ids that exist.
Addresses(q) ==
  /\ q.op = "propose" => q.s \in Students /\ q.l \in Lecturers /\ q.k \in Rounds
  /\ q.op \in OnProposal => q.p \in Proposals
  /\ q.op \in OnTopic => q.t \in Topics
  /\ q.op = "register" => q.s \in Students
  /\ q.op = "move" => q.k \in Rounds
RequestsAddress == \A r \in Requests : Addresses(req[r])

HeldStands == \A t \in Topics : topic[t].held # None => Stands(t)

Sound == TypeOK /\ RequestsAddress /\ HeldStands /\ SourceAnswered

-----------------------------------------------------------------------------
(* Small facts.                                                             *)

\* None names no row.
LEMMA NoneIsNoRow ==
  None \notin Students /\ None \notin Lecturers /\ None \notin Proposals
    /\ None \notin Topics /\ None \notin Rounds /\ None \notin Nat
BY ProposalsAssumption

\* The empty request is one, and addresses nothing.
LEMMA IdleType == Idle \in Request /\ Addresses(Idle)
BY DEF Idle, Request, Ops, Addresses, OnProposal, OnTopic

LEMMA EmptyRowTypes == NoTopic \in TopicRow /\ NoProposal \in ProposalRow
BY DEF NoTopic, TopicRow, NoProposal, ProposalRow, Answers

\* Both halves of a load are numbers.
LEMMA CountsAreNumbers ==
  ASSUME NEW l
  PROVE Cardinality(Mentored(l)) \in Nat /\ Cardinality(Promised(l)) \in Nat
<1>1. Mentored(l) \subseteq Topics /\ Promised(l) \subseteq Topics
  BY DEF Mentored, Promised
<1>2. QED BY <1>1, ProposalsAssumption, FS_Subset, FS_CardinalityType

\* A request that arrives with a row it may name leaves req sound.
LEMMA Enters ==
  ASSUME NEW r \in Requests, NEW q \in Request, TypeOK, RequestsAddress,
         Addresses(q), req' = [req EXCEPT ![r] = q]
  PROVE req' \in [Requests -> Request] /\ RequestsAddress'
BY DEF TypeOK, RequestsAddress

LEMMA Leaves ==
  ASSUME NEW r \in Requests, TypeOK, RequestsAddress, Finish(r)
  PROVE req' \in [Requests -> Request] /\ RequestsAddress'
BY Enters, IdleType DEF Finish

\* A step that leaves the rows alone and req sound keeps everything.
LEMMA RowsAlone ==
  ASSUME Sound, UNCHANGED <<phase, proposal, topic>>,
         req' \in [Requests -> Request], RequestsAddress'
  PROVE Sound'
BY DEF Sound, TypeOK, HeldStands, Stands, SourceAnswered

\* A request that begins with q keeps everything.
LEMMA Begins ==
  ASSUME NEW r \in Requests, NEW q \in Request, Sound, Addresses(q), Begin(r, q)
  PROVE Sound'
<1>1. req' \in [Requests -> Request] /\ RequestsAddress'
  BY Enters DEF Begin, Sound
<1>2. QED BY <1>1, RowsAlone DEF Begin

-----------------------------------------------------------------------------
(* Steps that only arrive, count or give up.                                *)

LEMMA ArriveKeeps ==
  ASSUME Sound, NEW r \in Requests, Arrive(r) PROVE Sound'
<1> USE DEF Request, Ops, Addresses, OnProposal, OnTopic, Idle
<1>1. CASE StudentArrives(r)
  <2>1. ASSUME NEW s \in Students, NEW l \in Lecturers, NEW k \in Rounds,
               CheckPropose(r, s, l, k)
        PROVE Sound'
    <3> DEFINE q == [Idle EXCEPT !.op = "propose", !.s = s, !.l = l, !.k = k]
    <3>1. q \in Request /\ Addresses(q) OBVIOUS
    <3>2. Begin(r, q) BY <2>1 DEF CheckPropose
    <3> HIDE DEF q
    <3>3. QED BY <3>1, <3>2, Begins
  <2>2. ASSUME NEW s \in Students, NEW t \in Topics, CheckRegister(r, s, t)
        PROVE Sound'
    <3> DEFINE q == [Idle EXCEPT !.op = "register", !.s = s, !.t = t]
    <3>1. q \in Request /\ Addresses(q) OBVIOUS
    <3>2. Begin(r, q) BY <2>2 DEF CheckRegister
    <3> HIDE DEF q
    <3>3. QED BY <3>1, <3>2, Begins
  <2>3. QED BY <1>1, <2>1, <2>2 DEF StudentArrives
<1>2. CASE ProposalArrives(r)
  <2>1. PICK p \in Proposals :
          CheckWithdraw(r, p) \/ CheckAccept(r, p) \/ CheckReject(r, p)
    BY <1>2 DEF ProposalArrives
  <2> DEFINE q(op) == [Idle EXCEPT !.op = op, !.p = p]
  <2>2. \A op \in OnProposal : q(op) \in Request /\ Addresses(q(op)) OBVIOUS
  <2>3. \E op \in OnProposal : Begin(r, q(op))
    BY <2>1 DEF CheckWithdraw, CheckAccept, CheckReject
  <2> HIDE DEF q
  <2>4. QED BY <2>2, <2>3, Begins
<1>3. CASE TopicArrives(r)
  <2>1. PICK t \in Topics :
          \/ CheckApprove(r, t) \/ CheckOpen(r, t) \/ CheckClose(r, t)
          \/ CheckDelete(r, t)
          \/ \E k \in Rounds : CheckMove(r, t, k)
    BY <1>3 DEF TopicArrives
  <2>2. CASE \E k \in Rounds : CheckMove(r, t, k)
    <3>1. PICK k \in Rounds : CheckMove(r, t, k) BY <2>2
    <3> DEFINE q == [Idle EXCEPT !.op = "move", !.t = t, !.k = k]
    <3>2. q \in Request /\ Addresses(q) OBVIOUS
    <3>3. Begin(r, q) BY <3>1 DEF CheckMove
    <3> HIDE DEF q
    <3>4. QED BY <3>2, <3>3, Begins
  <2>3. CASE \/ CheckApprove(r, t) \/ CheckOpen(r, t) \/ CheckClose(r, t)
             \/ CheckDelete(r, t)
    <3> DEFINE Named == {"approve", "open", "close", "remove"}
    <3> DEFINE q(op) == [Idle EXCEPT !.op = op, !.t = t]
    <3>1. \A op \in Named : q(op) \in Request /\ Addresses(q(op)) OBVIOUS
    <3>2. \E op \in Named : Begin(r, q(op))
      BY <2>3 DEF CheckApprove, CheckOpen, CheckClose, CheckDelete, CheckStatus
    <3> HIDE DEF q
    <3>3. QED BY <3>1, <3>2, Begins
  <2>4. QED BY <2>1, <2>2, <2>3
<1>4. QED BY <1>1, <1>2, <1>3 DEF Arrive

LEMMA CountingKeeps ==
  ASSUME Sound, NEW r \in Requests,
         CountGroups(r) \/ CountReserved(r) \/ CheckRoom(r)
  PROVE Sound'
<1>1. req[r] \in Request /\ req[r].op = "count" /\ req[r].p \in Proposals
  BY DEF Sound, TypeOK, RequestsAddress, Addresses, OnProposal, CountGroups,
         CountReserved, CheckRoom, Doing
<1>2. PICK q \in Request :
        Addresses(q) /\ req' = [req EXCEPT ![r] = q]
  <2>1. CASE CountGroups(r)
    <3> DEFINE n == Cardinality(Mentored(proposal[req[r].p].lecturer))
    <3>1. n \in Nat BY CountsAreNumbers
    <3>2. req' = [req EXCEPT ![r] = [req[r] EXCEPT !.groups = n]]
      BY <2>1 DEF CountGroups, Sound, TypeOK
    <3> HIDE DEF n
    <3>3. [req[r] EXCEPT !.groups = n] \in Request
            /\ Addresses([req[r] EXCEPT !.groups = n])
      BY <1>1, <3>1 DEF Request, Addresses, OnProposal, OnTopic
    <3>4. QED BY <3>2, <3>3
  <2>2. CASE CountReserved(r)
    <3> DEFINE n == Cardinality(Promised(proposal[req[r].p].lecturer))
    <3>1. n \in Nat BY CountsAreNumbers
    <3>2. req' = [req EXCEPT ![r] = [req[r] EXCEPT !.reserved = n]]
      BY <2>2 DEF CountReserved, Sound, TypeOK
    <3> HIDE DEF n
    <3>3. [req[r] EXCEPT !.reserved = n] \in Request
            /\ Addresses([req[r] EXCEPT !.reserved = n])
      BY <1>1, <3>1 DEF Request, Addresses, OnProposal, OnTopic
    <3>4. QED BY <3>2, <3>3
  <2>3. CASE CheckRoom(r)
    <3> DEFINE q == [Idle EXCEPT !.op = "accept", !.p = req[r].p]
    <3>1. q \in Request /\ Addresses(q)
      BY <1>1 DEF Idle, Request, Ops, Addresses, OnProposal, OnTopic
    <3>2. req' = [req EXCEPT ![r] = q] BY <2>3 DEF CheckRoom
    <3>3. QED BY <3>1, <3>2
  <2>4. QED BY <2>1, <2>2, <2>3
<1>3. req' \in [Requests -> Request] /\ RequestsAddress'
  BY <1>2, Enters DEF Sound
<1>4. QED BY <1>3, RowsAlone DEF CountGroups, CountReserved, CheckRoom

LEMMA RefusedKeeps ==
  ASSUME Sound, NEW r \in Requests, Refused(r) PROVE Sound'
BY Leaves, RowsAlone DEF Refused, Sound

-----------------------------------------------------------------------------
(* Steps on the topics.                                                     *)

\* Sources are never written but by an acceptance: a step that keeps or clears
\* them, and answers nothing, keeps what they say.
LEMMA SourcesKept ==
  ASSUME Sound, phase' \in [Rounds -> Phases], UNCHANGED proposal,
         req' \in [Requests -> Request], RequestsAddress',
         topic' \in [Topics -> TopicRow],
         \A t \in Topics :
           /\ topic'[t].held # None => topic'[t].status \notin {"NONE", "GONE"}
           /\ topic'[t].source # None =>
                topic'[t].source = topic[t].source
                  /\ topic'[t].lecturer = topic[t].lecturer
  PROVE Sound'
BY DEF Sound, TypeOK, HeldStands, Stands, SourceAnswered

\* The same for a step that rewrites one row.
LEMMA OneRowKept ==
  ASSUME Sound, UNCHANGED <<phase, proposal>>,
         req' \in [Requests -> Request], RequestsAddress',
         NEW t \in Topics, NEW row \in TopicRow,
         topic' = [topic EXCEPT ![t] = row],
         row.held # None => row.status \notin {"NONE", "GONE"},
         row.source # None =>
           row.source = topic[t].source /\ row.lecturer = topic[t].lecturer
  PROVE Sound'
<1>1. topic' \in [Topics -> TopicRow]
        /\ \A u \in Topics : topic'[u] = IF u = t THEN row ELSE topic[u]
  BY DEF Sound, TypeOK
<1>2. QED BY <1>1, SourcesKept DEF Sound, TypeOK, HeldStands, Stands

LEMMA CreateKeeps ==
  ASSUME Sound, NEW l \in Lecturers, NEW k \in Rounds, Create(l, k) PROVE Sound'
<1>1. PICK t \in Topics :
        topic' = [topic EXCEPT ![t] =
          [NoTopic EXCEPT !.status = "PENDING", !.lecturer = l, !.round = k]]
  BY DEF Create
<1> DEFINE row ==
      [NoTopic EXCEPT !.status = "PENDING", !.lecturer = l, !.round = k]
<1>2. row \in TopicRow /\ row.held = None /\ row.source = None
  BY DEF NoTopic, TopicRow
<1>3. topic' = [topic EXCEPT ![t] = row] BY <1>1
<1>4. req' \in [Requests -> Request] /\ RequestsAddress'
  BY DEF Create, Sound, TypeOK, RequestsAddress
<1> HIDE DEF row
<1>5. QED BY <1>2, <1>3, <1>4, OneRowKept DEF Create

LEMMA SetStatusKeeps ==
  ASSUME Sound, NEW r \in Requests, CommitSetStatus(r) PROVE Sound'
<1>1. PICK t \in Topics : t = req[r].t
  BY DEF Sound, RequestsAddress, Addresses, OnTopic, CommitSetStatus
<1>2. PICK status \in {"OPEN", "APPROVED"} :
        topic' = [topic EXCEPT ![t] = [topic[t] EXCEPT !.status = status]]
  BY <1>1 DEF CommitSetStatus, Sound, TypeOK
<1> DEFINE row == [topic[t] EXCEPT !.status = status]
<1>3. row \in TopicRow /\ row.source = topic[t].source
        /\ row.lecturer = topic[t].lecturer /\ row.status = status
  BY DEF Sound, TypeOK, TopicRow
<1>4. topic' = [topic EXCEPT ![t] = row] BY <1>2
<1> HIDE DEF row
<1>5. QED BY <1>3, <1>4, OneRowKept, Leaves DEF CommitSetStatus, Sound

LEMMA MoveKeeps ==
  ASSUME Sound, NEW r \in Requests, CommitMove(r) PROVE Sound'
<1>1. PICK t \in Topics, k \in Rounds : t = req[r].t /\ k = req[r].k
  BY DEF Sound, RequestsAddress, Addresses, OnTopic, CommitMove, Doing
<1> DEFINE row == [topic[t] EXCEPT !.round = k]
<1>2. topic' = [topic EXCEPT ![t] = row]
  BY <1>1 DEF CommitMove, Sound, TypeOK
<1>3. row \in TopicRow /\ row.source = topic[t].source
        /\ row.lecturer = topic[t].lecturer /\ row.status = topic[t].status
  BY DEF Sound, TypeOK, TopicRow
<1>4. row.status \notin {"NONE", "GONE"} BY <1>1, <1>3 DEF CommitMove, Stands
<1> HIDE DEF row
<1>5. QED BY <1>2, <1>3, <1>4, OneRowKept, Leaves DEF CommitMove, Sound

LEMMA DeleteKeeps ==
  ASSUME Sound, NEW r \in Requests, CommitDelete(r) PROVE Sound'
<1>1. PICK t \in Topics : t = req[r].t
  BY DEF Sound, RequestsAddress, Addresses, OnTopic, CommitDelete, Doing
<1> DEFINE row == [topic[t] EXCEPT !.status = "GONE", !.source = None]
<1>2. topic' = [topic EXCEPT ![t] = row]
  BY <1>1 DEF CommitDelete, Sound, TypeOK
<1>3. topic[t].held = None BY <1>1 DEF CommitDelete, Deletable
<1>4. row \in TopicRow /\ row.source = None /\ row.held = topic[t].held
  BY DEF Sound, TypeOK, TopicRow
<1> HIDE DEF row
<1>5. QED BY <1>2, <1>3, <1>4, OneRowKept, Leaves DEF CommitDelete, Sound

LEMMA TakeKeeps ==
  ASSUME Sound, NEW s \in Students, NEW t \in Topics, Take(s, t),
         UNCHANGED <<phase, proposal>>,
         req' \in [Requests -> Request], RequestsAddress'
  PROVE Sound'
<1> DEFINE row == [topic[t] EXCEPT !.held = s]
<1>1. topic' = [topic EXCEPT ![t] = row] BY DEF Take, Sound, TypeOK
<1>2. row \in TopicRow /\ row.source = topic[t].source
        /\ row.lecturer = topic[t].lecturer /\ row.status = topic[t].status
  BY DEF Sound, TypeOK, TopicRow
<1>3. row.status \notin {"NONE", "GONE"} BY <1>2 DEF Take, Stands
<1> HIDE DEF row
<1>4. QED BY <1>1, <1>2, <1>3, OneRowKept

LEMMA ReleaseKeeps ==
  ASSUME Sound, NEW t \in Topics, Release(t), UNCHANGED <<phase, proposal, req>>
  PROVE Sound'
<1> DEFINE row == [topic[t] EXCEPT !.held = None, !.past = TRUE]
<1>1. topic' = [topic EXCEPT ![t] = row] BY DEF Release, Sound, TypeOK
<1>2. row \in TopicRow /\ row.source = topic[t].source
        /\ row.lecturer = topic[t].lecturer /\ row.held = None
  BY DEF Sound, TypeOK, TopicRow
<1>3. req' \in [Requests -> Request] /\ RequestsAddress'
  BY DEF Sound, TypeOK, RequestsAddress
<1> HIDE DEF row
<1>4. QED BY <1>1, <1>2, <1>3, OneRowKept

\* bulkOpen, finalize and unlock rewrite the status of topics that stand.
LEMMA StatusesKeep ==
  ASSUME Sound, UNCHANGED <<proposal, req>>, phase' \in [Rounds -> Phases],
         NEW S \in SUBSET Topics, NEW status \in {"OPEN", "IN_PROGRESS"},
         topic' = [t \in Topics |->
           IF t \in S THEN [topic[t] EXCEPT !.status = status] ELSE topic[t]]
  PROVE Sound'
<1>1. topic' \in [Topics -> TopicRow]
  BY DEF Sound, TypeOK, TopicRow
<1>2. \A t \in Topics :
        /\ topic'[t].held # None => topic'[t].status \notin {"NONE", "GONE"}
        /\ topic'[t].source = topic[t].source
        /\ topic'[t].lecturer = topic[t].lecturer
  BY DEF Sound, TypeOK, TopicRow, HeldStands, Stands
<1>3. req' \in [Requests -> Request] /\ RequestsAddress'
  BY DEF Sound, TypeOK, RequestsAddress
<1>4. QED BY <1>1, <1>2, <1>3, SourcesKept

LEMMA PhaseTypes ==
  ASSUME Sound, NEW k \in Rounds, NEW from, NEW to \in Phases,
         MovePhase(k, from, to)
  PROVE phase' \in [Rounds -> Phases] /\ UNCHANGED <<proposal, req>>
BY DEF Sound, TypeOK, MovePhase

LEMMA RoundKeeps ==
  ASSUME Sound, NEW k \in Rounds, GateMoves(k) \/ Finalize(k) \/ Unlock(k)
  PROVE Sound'
<1>1. CASE GateMoves(k)
  <2>1. phase' \in [Rounds -> Phases] /\ UNCHANGED <<proposal, req, topic>>
    BY <1>1, PhaseTypes DEF GateMoves, Phases
  <2>2. QED BY <2>1 DEF Sound, TypeOK, RequestsAddress, HeldStands, Stands,
                         SourceAnswered
<1>2. CASE Finalize(k)
  <2>1. phase' \in [Rounds -> Phases] /\ UNCHANGED <<proposal, req>>
    BY <1>2, PhaseTypes DEF Finalize, Phases
  <2>2. Underway(k) \in SUBSET Topics BY DEF Underway
  <2>3. QED BY <1>2, <2>1, <2>2, StatusesKeep DEF Finalize
<1>3. CASE Unlock(k)
  <2>1. phase' \in [Rounds -> Phases] /\ UNCHANGED <<proposal, req>>
    BY <1>3, PhaseTypes DEF Unlock, Phases
  <2> DEFINE S == {t \in Topics :
                     topic[t].round = k /\ topic[t].status = "IN_PROGRESS"}
  <2>2. S \in SUBSET Topics OBVIOUS
  <2>3. topic' = [t \in Topics |->
          IF t \in S THEN [topic[t] EXCEPT !.status = "OPEN"] ELSE topic[t]]
    BY <1>3 DEF Unlock
  <2> HIDE DEF S
  <2>4. QED BY <2>1, <2>2, <2>3, StatusesKeep
<1>4. QED BY <1>1, <1>2, <1>3

LEMMA BulkOpenKeeps ==
  ASSUME Sound, BulkOpen PROVE Sound'
<1> DEFINE S == {t \in Topics : topic[t].status = "APPROVED"}
<1>1. topic' = [t \in Topics |->
        IF t \in S THEN [topic[t] EXCEPT !.status = "OPEN"] ELSE topic[t]]
  BY DEF BulkOpen
<1>2. phase' \in [Rounds -> Phases] /\ UNCHANGED <<proposal, req>>
  BY DEF BulkOpen, Sound, TypeOK
<1>3. S \in SUBSET Topics OBVIOUS
<1> HIDE DEF S
<1>4. QED BY <1>1, <1>2, <1>3, StatusesKeep

-----------------------------------------------------------------------------
(* Steps on the proposals.                                                  *)

\* What one row of the proposals becomes, while no topic names it or it goes on
\* being accepted, changes nothing for the topics.
LEMMA OneProposalKept ==
  ASSUME Sound, UNCHANGED <<phase, topic>>,
         req' \in [Requests -> Request], RequestsAddress',
         NEW p \in Proposals, NEW row \in ProposalRow,
         proposal' = [proposal EXCEPT ![p] = row],
         proposal[p].status # "ACCEPTED"
  PROVE Sound'
<1>1. \A t \in Topics : topic[t].source # p
  BY NoneIsNoRow DEF Sound, SourceAnswered
<1>2. \A q \in Proposals \ {p} : proposal'[q] = proposal[q]
  BY DEF Sound, TypeOK
<1>3. proposal' \in [Proposals -> ProposalRow] BY DEF Sound, TypeOK
<1>4. TypeOK' BY <1>3 DEF Sound, TypeOK
<1>5. HeldStands' BY DEF Sound, HeldStands, Stands
<1>6. ASSUME NEW t \in Topics, topic[t].source # None
      PROVE topic[t].source \in Proposals \ {p}
  BY <1>1, <1>6 DEF Sound, TypeOK, TopicRow
<1>7. SourceAnswered' BY <1>2, <1>6 DEF Sound, SourceAnswered
<1>8. QED BY <1>4, <1>5, <1>7 DEF Sound

LEMMA ProposeKeeps ==
  ASSUME Sound, NEW r \in Requests, CommitPropose(r) PROVE Sound'
<1>1. req[r].s \in Students /\ req[r].l \in Lecturers /\ req[r].k \in Rounds
  BY DEF Sound, RequestsAddress, Addresses, CommitPropose, Doing
<1>2. PICK s \in Students, l \in Lecturers, k \in Rounds :
        s = req[r].s /\ l = req[r].l /\ k = req[r].k
  BY <1>1
<1> DEFINE row == [status |-> "PENDING", student |-> s, lecturer |-> l, round |-> k]
<1>3. PICK p \in Proposals :
        proposal[p].status = "NONE" /\ proposal' = [proposal EXCEPT ![p] = row]
  BY <1>2 DEF CommitPropose
<1>4. row \in ProposalRow BY DEF ProposalRow
<1> HIDE DEF row
<1>5. QED BY <1>3, <1>4, OneProposalKept, Leaves DEF CommitPropose, Sound

LEMMA RejectKeeps ==
  ASSUME Sound, NEW r \in Requests, CommitReject(r) PROVE Sound'
<1>1. PICK p \in Proposals : p = req[r].p
  BY DEF Sound, RequestsAddress, Addresses, OnProposal, CommitReject, Doing
<1> DEFINE row == [proposal[p] EXCEPT !.status = "REJECTED"]
<1>2. proposal[p].status = "PENDING" /\ proposal' = [proposal EXCEPT ![p] = row]
  BY <1>1 DEF CommitReject, Sound, TypeOK
<1>3. row \in ProposalRow BY DEF Sound, TypeOK, ProposalRow, Answers
<1> HIDE DEF row
<1>4. QED BY <1>2, <1>3, OneProposalKept, Leaves DEF CommitReject, Sound

\* The withdrawn row is named by nobody afterwards.
LEMMA WithdrawKeeps ==
  ASSUME Sound, NEW r \in Requests, CommitWithdraw(r) PROVE Sound'
<1>1. PICK p \in Proposals : p = req[r].p
  BY DEF Sound, RequestsAddress, Addresses, OnProposal, CommitWithdraw, Doing
<1>2. \A q \in Proposals \ {p} : proposal'[q] = proposal[q]
  BY <1>1 DEF CommitWithdraw, Sound, TypeOK
<1>3. proposal' \in [Proposals -> ProposalRow]
  <2>1. [proposal[p] EXCEPT !.status = "GONE"] \in ProposalRow
    BY DEF Sound, TypeOK, ProposalRow
  <2>2. proposal' = [proposal EXCEPT ![p] = [proposal[p] EXCEPT !.status = "GONE"]]
    BY <1>1 DEF CommitWithdraw, Sound, TypeOK
  <2>3. QED BY <2>1, <2>2 DEF Sound, TypeOK
<1>4. \A t \in Topics :
        topic'[t] = IF topic[t].source = p THEN [topic[t] EXCEPT !.source = None]
                                           ELSE topic[t]
  BY <1>1 DEF CommitWithdraw
<1>5. topic' \in [Topics -> TopicRow]
  <2>1. \A t \in Topics : [topic[t] EXCEPT !.source = None] \in TopicRow
    BY DEF Sound, TypeOK, TopicRow
  <2>2. QED BY <1>1, <2>1 DEF CommitWithdraw, Sound, TypeOK
<1>6. \A t \in Topics :
        /\ topic'[t].held = topic[t].held /\ topic'[t].status = topic[t].status
        /\ topic'[t].lecturer = topic[t].lecturer
        /\ topic'[t].source # None =>
             topic'[t].source = topic[t].source /\ topic[t].source \in Proposals \ {p}
  BY <1>4 DEF Sound, TypeOK, TopicRow
<1>7. req' \in [Requests -> Request] /\ RequestsAddress'
  BY Leaves DEF CommitWithdraw, Sound
<1>8. TypeOK' BY <1>3, <1>5, <1>7 DEF CommitWithdraw, Sound, TypeOK
<1>9. HeldStands' BY <1>6 DEF Sound, HeldStands, Stands
<1>10. SourceAnswered' BY <1>2, <1>6 DEF Sound, SourceAnswered
<1>11. QED BY <1>7, <1>8, <1>9, <1>10 DEF Sound

\* The new topic names a proposal no other topic names, since it was PENDING.
LEMMA AcceptKeeps ==
  ASSUME Sound, NEW r \in Requests, CommitAccept(r) PROVE Sound'
<1>1. PICK p \in Proposals : p = req[r].p
  BY DEF Sound, RequestsAddress, Addresses, OnProposal, CommitAccept, Doing
<1>2. PICK t \in Topics :
        topic' = [topic EXCEPT ![t] =
          [NoTopic EXCEPT !.status = "PENDING", !.source = p,
             !.lecturer = proposal[p].lecturer, !.round = proposal[p].round]]
  BY <1>1 DEF CommitAccept, TopicFrom
<1> DEFINE row ==
      [NoTopic EXCEPT !.status = "PENDING", !.source = p,
         !.lecturer = proposal[p].lecturer, !.round = proposal[p].round]
<1>3. row \in TopicRow /\ row.held = None /\ row.source = p
        /\ row.lecturer = proposal[p].lecturer
  BY DEF Sound, TypeOK, ProposalRow, TopicRow, NoTopic
<1>4. topic' = [topic EXCEPT ![t] = row] BY <1>2
<1> HIDE DEF row
<1>5. topic' \in [Topics -> TopicRow]
        /\ \A u \in Topics : topic'[u] = IF u = t THEN row ELSE topic[u]
  BY <1>3, <1>4 DEF Sound, TypeOK
<1>6. proposal[p].status = "PENDING"
        /\ \A u \in Topics : topic[u].source # p
  BY <1>1 DEF CommitAccept
<1> DEFINE accepted == [proposal[p] EXCEPT !.status = "ACCEPTED"]
<1>7. proposal' = [proposal EXCEPT ![p] = accepted]
  BY <1>1 DEF CommitAccept, Sound, TypeOK
<1>8. accepted \in ProposalRow /\ accepted.status = "ACCEPTED"
        /\ accepted.lecturer = proposal[p].lecturer
  BY DEF Sound, TypeOK, ProposalRow, Answers
<1> HIDE DEF accepted
<1>9. proposal' \in [Proposals -> ProposalRow]
        /\ \A q \in Proposals :
             proposal'[q] = IF q = p THEN accepted ELSE proposal[q]
  BY <1>7, <1>8 DEF Sound, TypeOK
<1>10. req' \in [Requests -> Request] /\ RequestsAddress'
  BY Leaves DEF CommitAccept, Sound
<1>11. TypeOK' BY <1>5, <1>9, <1>10 DEF CommitAccept, Sound, TypeOK
<1>12. HeldStands' BY <1>3, <1>5 DEF Sound, HeldStands, Stands
<1>13. \A u \in Topics : topic[u].source # None => topic[u].source \in Proposals \ {p}
  BY <1>6 DEF Sound, TypeOK, TopicRow
<1>14. SourceAnswered'
  BY <1>3, <1>5, <1>6, <1>8, <1>9, <1>13 DEF Sound, SourceAnswered
<1>15. QED BY <1>10, <1>11, <1>12, <1>14 DEF Sound

-----------------------------------------------------------------------------
(* Theorems.                                                                *)

LEMMA SoundInit == Init => Sound
BY IdleType, EmptyRowTypes
DEF Init, Sound, TypeOK, Phases, RequestsAddress, HeldStands, Stands,
    SourceAnswered, NoTopic

LEMMA StepKeeps == Sound /\ [Next]_vars => Sound'
<1> SUFFICES ASSUME Sound, [Next]_vars PROVE Sound' OBVIOUS
<1>1. CASE UNCHANGED vars
  BY <1>1 DEF vars, Sound, TypeOK, RequestsAddress, HeldStands, Stands,
              SourceAnswered
<1>2. CASE \E r \in Requests : Arrive(r) \/ Commit(r) \/ Refused(r)
  <2>1. PICK r \in Requests : Arrive(r) \/ Commit(r) \/ Refused(r) BY <1>2
  <2>2. CASE Arrive(r) BY <2>2, ArriveKeeps
  <2>3. CASE Refused(r) BY <2>3, RefusedKeeps
  <2>4. CASE CommitRegister(r)
    <3>1. req[r].s \in Students /\ req[r].t \in Topics
      BY <2>4 DEF Sound, RequestsAddress, Addresses, OnTopic, CommitRegister, Doing
    <3>2. PICK s \in Students, t \in Topics : s = req[r].s /\ t = req[r].t
      BY <3>1
    <3>3. Take(s, t) BY <2>4, <3>2 DEF CommitRegister
    <3>4. req' \in [Requests -> Request] /\ RequestsAddress'
      BY <2>4, Leaves DEF CommitRegister, Sound
    <3>5. QED BY <2>4, <3>3, <3>4, TakeKeeps DEF CommitRegister
  <2>5. CASE Commit(r) /\ ~CommitRegister(r)
    BY <2>5, ProposeKeeps, WithdrawKeeps, CountingKeeps, AcceptKeeps, RejectKeeps,
       SetStatusKeeps, MoveKeeps, DeleteKeeps DEF Commit
  <2>6. QED BY <2>1, <2>2, <2>3, <2>4, <2>5
<1>3. CASE \E l \in Lecturers, k \in Rounds : Create(l, k) BY <1>3, CreateKeeps
<1>4. CASE BulkOpen BY <1>4, BulkOpenKeeps
<1>5. CASE \E t \in Topics : \/ Disband(t) \/ Unplace(t)
                             \/ \E s \in Students : Place(s, t)
  <2>1. PICK t \in Topics :
          Disband(t) \/ Unplace(t) \/ \E s \in Students : Place(s, t)
    BY <1>5
  <2>2. CASE Disband(t) \/ Unplace(t)
    BY <2>2, ReleaseKeeps DEF Disband, Unplace
  <2>3. CASE \E s \in Students : Place(s, t)
    <3>1. req' \in [Requests -> Request] /\ RequestsAddress'
      BY <2>3 DEF Place, Sound, TypeOK, RequestsAddress
    <3>2. QED BY <2>3, <3>1, TakeKeeps DEF Place
  <2>4. QED BY <2>1, <2>2, <2>3
<1>6. CASE \E k \in Rounds : GateMoves(k) \/ Finalize(k) \/ Unlock(k)
  BY <1>6, RoundKeeps
<1>7. QED BY <1>1, <1>2, <1>3, <1>4, <1>5, <1>6 DEF Next

THEOREM SoundAlways == Spec => []Sound
BY SoundInit, StepKeeps, PTL DEF Spec

\* Proposals, topics and requests keep their types.
THEOREM ProposalsTypeCorrect == Spec => []TypeOK
<1>1. Sound => TypeOK BY DEF Sound
<1>2. QED BY <1>1, SoundAlways, PTL

\* A topic that names its proposal names an accepted one, and is the only one
\* to do so.
THEOREM SourceAnsweredHolds == Spec => []SourceAnswered
<1>1. Sound => SourceAnswered BY DEF Sound
<1>2. QED BY <1>1, SoundAlways, PTL

\* Four steps write proposals.
LEMMA WhoWritesProposals ==
  ASSUME [Next]_vars
  PROVE \/ UNCHANGED proposal
        \/ \E r \in Requests : \/ CommitPropose(r) \/ CommitWithdraw(r)
                               \/ CommitAccept(r) \/ CommitReject(r)
<1>1. ASSUME NEW r \in Requests, Arrive(r) \/ Refused(r)
      PROVE UNCHANGED proposal
  BY <1>1 DEF Arrive, StudentArrives, ProposalArrives, TopicArrives, CheckPropose,
              CheckRegister, CheckWithdraw, CheckAccept, CheckReject, CheckApprove,
              CheckOpen, CheckClose, CheckStatus, CheckDelete, CheckMove, Begin,
              Refused
<1>2. ASSUME NEW r \in Requests, Commit(r)
      PROVE \/ UNCHANGED proposal
            \/ CommitPropose(r) \/ CommitWithdraw(r)
            \/ CommitAccept(r) \/ CommitReject(r)
  BY <1>2 DEF Commit, CountGroups, CountReserved, CheckRoom, CommitSetStatus,
              CommitMove, CommitDelete, CommitRegister
<1>3. CASE Next
  BY <1>1, <1>2, <1>3 DEF Next, Create, BulkOpen, Disband, Unplace, Place,
                          GateMoves, Finalize, Unlock, MovePhase
<1>4. QED BY <1>3 DEF vars

\* An answer that was given is never changed, only withdrawn with its proposal.
LEMMA AnswersKept ==
  ASSUME Sound, [Next]_vars, NEW p \in Proposals, proposal[p].status \in Answers
  PROVE proposal'[p].status \in {proposal[p].status, "GONE"}
<1>1. CASE UNCHANGED proposal BY <1>1
<1>2. ASSUME NEW r \in Requests, CommitPropose(r)
      PROVE proposal'[p] = proposal[p]
  BY <1>2 DEF CommitPropose, Sound, TypeOK, Answers
<1>3. ASSUME NEW r \in Requests, CommitAccept(r) \/ CommitReject(r)
      PROVE proposal'[p] = proposal[p]
  BY <1>3 DEF CommitAccept, CommitReject, Sound, TypeOK, Answers
<1>4. ASSUME NEW r \in Requests, CommitWithdraw(r)
      PROVE proposal'[p].status \in {proposal[p].status, "GONE"}
  BY <1>4 DEF CommitWithdraw, Sound, TypeOK, ProposalRow
<1>5. QED BY WhoWritesProposals, <1>1, <1>2, <1>3, <1>4

\* Of two answers to one proposal the first stands.
THEOREM AnswersStandHolds == Spec => AnswersStand
<1>1. Sound /\ [Next]_vars =>
        [\A p \in Proposals :
           proposal[p].status \in Answers
             => proposal'[p].status \in {proposal[p].status, "GONE"}]_vars
  BY AnswersKept
<1>2. QED BY <1>1, SoundAlways, PTL DEF Spec, AnswersStand

\* Nothing but a delete makes a topic go, and a delete finds no group on it.
LEMMA HeldTopicStays ==
  ASSUME Sound, [Next]_vars, NEW t \in Topics, topic[t].held # None
  PROVE topic'[t].status # "GONE"
<1>1. topic[t] \in TopicRow /\ topic[t].status \notin {"NONE", "GONE"}
  BY DEF Sound, TypeOK, HeldStands, Stands
<1>2. ASSUME NEW r \in Requests, CommitDelete(r) PROVE topic'[t] = topic[t]
  BY <1>2 DEF CommitDelete, Deletable, Sound, TypeOK
<1>3. ASSUME NEW r \in Requests, Arrive(r) \/ Refused(r) PROVE topic' = topic
  BY <1>3 DEF Arrive, StudentArrives, ProposalArrives, TopicArrives, CheckPropose,
              CheckRegister, CheckWithdraw, CheckAccept, CheckReject, CheckApprove,
              CheckOpen, CheckClose, CheckStatus, CheckDelete, CheckMove, Begin,
              Refused
<1>4. ASSUME NEW r \in Requests, Commit(r), ~CommitDelete(r)
      PROVE topic'[t].status # "GONE"
  <2>1. CASE CommitAccept(r)
    BY <1>1, <2>1 DEF CommitAccept, TopicFrom, Sound, TypeOK
  <2>2. CASE CommitSetStatus(r)
    BY <1>1, <2>2 DEF CommitSetStatus, Sound, TypeOK, TopicRow
  <2>3. CASE CommitMove(r) \/ CommitRegister(r)
    BY <1>1, <2>3 DEF CommitMove, CommitRegister, Take, Sound, TypeOK, TopicRow
  <2>4. CASE CommitWithdraw(r)
    BY <1>1, <2>4 DEF CommitWithdraw, TopicRow
  <2>5. CASE \/ CommitPropose(r) \/ CommitReject(r)
             \/ CountGroups(r) \/ CountReserved(r) \/ CheckRoom(r)
    BY <1>1, <2>5 DEF CommitPropose, CommitReject, CountGroups, CountReserved,
                      CheckRoom
  <2>6. QED BY <1>4, <2>1, <2>2, <2>3, <2>4, <2>5 DEF Commit
<1>5. ASSUME NEW k \in Rounds, GateMoves(k) \/ Finalize(k) \/ Unlock(k)
      PROVE topic'[t].status # "GONE"
  BY <1>1, <1>5 DEF GateMoves, Finalize, Unlock, TopicRow
<1>6. ASSUME BulkOpen PROVE topic'[t].status # "GONE"
  BY <1>1, <1>6 DEF BulkOpen, TopicRow
<1>7. ASSUME NEW l \in Lecturers, NEW k \in Rounds, Create(l, k)
      PROVE topic'[t].status # "GONE"
  BY <1>1, <1>7 DEF Create, Sound, TypeOK
<1>8. ASSUME NEW u \in Topics, NEW s \in Students, Place(s, u)
      PROVE topic'[t].status # "GONE"
  BY <1>1, <1>8 DEF Place, Take, Sound, TypeOK, TopicRow
<1>9. ASSUME NEW u \in Topics, Disband(u) \/ Unplace(u)
      PROVE topic'[t].status # "GONE"
  BY <1>1, <1>9 DEF Disband, Unplace, Release, Sound, TypeOK, TopicRow
<1>10. CASE UNCHANGED vars BY <1>1, <1>10 DEF vars
<1>11. QED
  BY <1>1, <1>2, <1>3, <1>4, <1>5, <1>6, <1>7, <1>8, <1>9, <1>10 DEF Next

\* A registered topic is never deleted under its group.
THEOREM RegisteredTopicStaysHolds == Spec => RegisteredTopicStays
<1>1. Sound /\ [Next]_vars =>
        [\A t \in Topics :
           topic[t].held # None => topic'[t].status # "GONE"]_vars
  BY HeldTopicStays
<1>2. QED BY <1>1, SoundAlways, PTL DEF Spec, RegisteredTopicStays

-----------------------------------------------------------------------------
(***************************************************************************)
(* What Proposals keeps when requests take turns (Interleave = FALSE), for  *)
(* any number of rows: what a check found is still so when its commit runs, *)
(* so the rules the services only check before they write do hold.         *)
(***************************************************************************)

\* One request at a time.
Alone ==
  \A r, q \in Requests : r # q => Doing(r, "idle") \/ Doing(q, "idle")

\* What the checks of the request in flight found.
CountsHold(q) ==
  \A l \in Lecturers \cup {None} :
    /\ q.op = "count" /\ proposal[q.p].lecturer = l =>
         /\ q.groups # None => q.groups = Cardinality(Mentored(l))
         /\ q.reserved # None => q.reserved = Cardinality(Promised(l))
    /\ q.op = "accept" /\ proposal[q.p].lecturer = l => ~AtQuota(l, Load(l))
NobodyWaits(q) ==
  q.op = "propose" =>
    \A p \in Proposals : proposal[p].student = q.s => proposal[p].status # "PENDING"
NotUnderway(q) ==
  q.op = "move" => topic[q.t].status # "IN_PROGRESS"
StillSo(q) == CountsHold(q) /\ NobodyWaits(q) /\ NotUnderway(q)

OnePending ==
  \A p, q \in Proposals :
    /\ proposal[p].status = "PENDING" /\ proposal[q].status = "PENDING"
    /\ proposal[p].student = proposal[q].student
    => p = q

UnderwayInRound ==
  \A t \in Topics : topic[t].status = "IN_PROGRESS" => topic[t].round \in Rounds

InTurn == /\ Sound /\ Alone /\ OnePending
          /\ UnderwayOnlyWhenFinal /\ UnderwayInRound
          /\ \A r \in Requests : StillSo(req[r])

-----------------------------------------------------------------------------
(* One request at a time.                                                   *)

\* Once a request ends nothing is in flight, so nothing can be stale.
LEMMA IdleIsStill == StillSo(Idle) /\ Idle.op = "idle"
BY DEF StillSo, CountsHold, NobodyWaits, NotUnderway, Idle

LEMMA EndsAlone ==
  ASSUME Sound, Alone, NEW r \in Requests, ~Doing(r, "idle"), Finish(r)
  PROVE Alone' /\ \A q \in Requests : req'[q].op = "idle"
BY IdleIsStill DEF Alone, Doing, Finish, Sound, TypeOK

LEMMA NoneInFlight ==
  ASSUME \A q \in Requests : req'[q].op = "idle"
  PROVE Alone' /\ \A q \in Requests : StillSo(req[q])'
BY DEF Alone, Doing, StillSo, CountsHold, NobodyWaits, NotUnderway

LEMMA QuietSteps ==
  ASSUME ~Interleave, Quiet, UNCHANGED req
  PROVE Alone' /\ \A q \in Requests : StillSo(req[q])'
BY NoneInFlight DEF Quiet, Doing

\* A request that begins when nothing is in flight.
LEMMA BeginsAlone ==
  ASSUME ~Interleave, Quiet, InTurn, NEW r \in Requests, NEW q,
         Begin(r, q), StillSo(q)
  PROVE Alone' /\ \A x \in Requests : StillSo(req[x])'
<1>1. req'[r] = q /\ \A x \in Requests \ {r} : req'[x].op = "idle"
  BY DEF Quiet, Doing, Begin, InTurn, Sound, TypeOK
<1>2. Alone' BY <1>1 DEF Alone, Doing
<1>3. StillSo(q)'
  BY DEF Begin, StillSo, CountsHold, NobodyWaits, NotUnderway, Mentored, Promised,
         Stands, Load, AtQuota
<1>4. \A x \in Requests : StillSo(req[x])'
  BY <1>1, <1>3 DEF StillSo, CountsHold, NobodyWaits, NotUnderway
<1>5. QED BY <1>2, <1>4

LEMMA ArriveInTurn ==
  ASSUME ~Interleave, InTurn, NEW r \in Requests, Arrive(r)
  PROVE Alone' /\ \A x \in Requests : StillSo(req[x])'
<1> USE DEF StillSo, CountsHold, NobodyWaits, NotUnderway, Idle
<1>1. PICK q : Begin(r, q) /\ StillSo(q)
  <2>1. CASE StudentArrives(r)
    <3>1. ASSUME NEW s \in Students, NEW l \in Lecturers, NEW k \in Rounds,
                 CheckPropose(r, s, l, k)
          PROVE \E q : Begin(r, q) /\ StillSo(q)
      <4> DEFINE q == [Idle EXCEPT !.op = "propose", !.s = s, !.l = l, !.k = k]
      <4>1. StillSo(q) BY <3>1 DEF CheckPropose, Waiting
      <4>2. Begin(r, q) BY <3>1 DEF CheckPropose
      <4>3. QED BY <4>1, <4>2
    <3>2. ASSUME NEW s \in Students, NEW t \in Topics, CheckRegister(r, s, t)
          PROVE \E q : Begin(r, q) /\ StillSo(q)
      <4> DEFINE q == [Idle EXCEPT !.op = "register", !.s = s, !.t = t]
      <4>1. StillSo(q) OBVIOUS
      <4>2. Begin(r, q) BY <3>2 DEF CheckRegister
      <4>3. QED BY <4>1, <4>2
    <3>3. QED BY <2>1, <3>1, <3>2 DEF StudentArrives
  <2>2. CASE ProposalArrives(r)
    <3>1. PICK p \in Proposals :
            CheckWithdraw(r, p) \/ CheckAccept(r, p) \/ CheckReject(r, p)
      BY <2>2 DEF ProposalArrives
    <3> DEFINE q(op) == [Idle EXCEPT !.op = op, !.p = p]
    <3>2. StillSo(q("withdraw")) /\ StillSo(q("count")) /\ StillSo(q("reject"))
      OBVIOUS
    <3>3. \/ Begin(r, q("withdraw")) \/ Begin(r, q("count"))
          \/ Begin(r, q("reject"))
      BY <3>1 DEF CheckWithdraw, CheckAccept, CheckReject
    <3> HIDE DEF q
    <3>4. QED BY <3>2, <3>3
  <2>3. CASE TopicArrives(r)
    <3>1. PICK t \in Topics :
            \/ CheckApprove(r, t) \/ CheckOpen(r, t) \/ CheckClose(r, t)
            \/ CheckDelete(r, t)
            \/ \E k \in Rounds : CheckMove(r, t, k)
      BY <2>3 DEF TopicArrives
    <3>2. CASE \E k \in Rounds : CheckMove(r, t, k)
      <4>1. PICK k \in Rounds : CheckMove(r, t, k) BY <3>2
      <4> DEFINE q == [Idle EXCEPT !.op = "move", !.t = t, !.k = k]
      <4>2. StillSo(q) BY <4>1 DEF CheckMove
      <4>3. Begin(r, q) BY <4>1 DEF CheckMove
      <4>4. QED BY <4>2, <4>3
    <3>3. CASE \/ CheckApprove(r, t) \/ CheckOpen(r, t) \/ CheckClose(r, t)
               \/ CheckDelete(r, t)
      <4> DEFINE Named == {"approve", "open", "close", "remove"}
      <4> DEFINE q(op) == [Idle EXCEPT !.op = op, !.t = t]
      <4>1. \A op \in Named : StillSo(q(op)) OBVIOUS
      <4>2. \E op \in Named : Begin(r, q(op))
        BY <3>3 DEF CheckApprove, CheckOpen, CheckClose, CheckDelete, CheckStatus
      <4> HIDE DEF q
      <4>3. QED BY <4>1, <4>2
    <3>4. QED BY <3>1, <3>2, <3>3
  <2>4. QED BY <2>1, <2>2, <2>3 DEF Arrive
<1>2. QED BY <1>1, BeginsAlone DEF Arrive

-----------------------------------------------------------------------------
(* Counting a load: nothing moves between the two counts.                   *)

LEMMA CountingInTurn ==
  ASSUME InTurn, NEW r \in Requests,
         CountGroups(r) \/ CountReserved(r) \/ CheckRoom(r)
  PROVE Alone' /\ \A x \in Requests : StillSo(req[x])'
<1>1. UNCHANGED <<phase, proposal, topic>> /\ req[r].op = "count"
  BY DEF CountGroups, CountReserved, CheckRoom, Doing
<1>2. \A x \in Requests \ {r} : req[x].op = "idle" /\ req'[x] = req[x]
  BY <1>1 DEF InTurn, Alone, Doing, Sound, TypeOK, CountGroups, CountReserved,
             CheckRoom
<1>3. Alone' BY <1>2 DEF Alone, Doing
<1>4. PICK l \in Lecturers \cup {None} : proposal[req[r].p].lecturer = l
  <2>1. req[r].p \in Proposals
    BY <1>1 DEF InTurn, Sound, RequestsAddress, Addresses, OnProposal
  <2>2. QED BY <2>1 DEF InTurn, Sound, TypeOK, ProposalRow
<1>5. /\ Mentored(l)' = Mentored(l) /\ Promised(l)' = Promised(l)
      /\ Load(l)' = Load(l)
  BY <1>1 DEF Mentored, Promised, Load, Stands
<1>6. req[r] \in Request BY DEF InTurn, Sound, TypeOK
<1>7. /\ req[r].groups # None => req[r].groups = Cardinality(Mentored(l))
      /\ req[r].reserved # None => req[r].reserved = Cardinality(Promised(l))
  BY <1>1, <1>4 DEF InTurn, StillSo, CountsHold
<1>8. CountsHold(req[r])'
  <2>1. CASE CountGroups(r)
    <3>1. req'[r] = [req[r] EXCEPT !.groups = Cardinality(Mentored(l))]
      BY <1>4, <2>1 DEF CountGroups, InTurn, Sound, TypeOK
    <3>2. req'[r].op = "count" /\ req'[r].p = req[r].p
            /\ req'[r].groups = Cardinality(Mentored(l))
            /\ req'[r].reserved = req[r].reserved
      BY <1>1, <1>6, <3>1 DEF Request
    <3>3. QED BY <1>1, <1>4, <1>5, <1>7, <3>2 DEF CountsHold
  <2>2. CASE CountReserved(r)
    <3>1. req'[r] = [req[r] EXCEPT !.reserved = Cardinality(Promised(l))]
      BY <1>4, <2>2 DEF CountReserved, InTurn, Sound, TypeOK
    <3>2. req'[r].op = "count" /\ req'[r].p = req[r].p
            /\ req'[r].reserved = Cardinality(Promised(l))
            /\ req'[r].groups = req[r].groups
      BY <1>1, <1>6, <3>1 DEF Request
    <3>3. QED BY <1>1, <1>4, <1>5, <1>7, <3>2 DEF CountsHold
  <2>3. CASE CheckRoom(r)
    <3>1. req'[r] = [Idle EXCEPT !.op = "accept", !.p = req[r].p]
      BY <2>3 DEF CheckRoom, InTurn, Sound, TypeOK
    <3>2. req'[r].op = "accept" /\ req'[r].p = req[r].p
      BY <3>1 DEF Idle
    <3>3. ~AtQuota(l, Load(l)) BY <1>4, <1>7, <2>3 DEF CheckRoom, Load
    <3>4. AtQuota(l, Load(l))' <=> AtQuota(l, Load(l)) BY <1>5 DEF AtQuota
    <3>5. QED BY <1>1, <1>4, <3>2, <3>3, <3>4 DEF CountsHold
  <2>4. QED BY <2>1, <2>2, <2>3
<1>9. req'[r].op \in {"count", "accept"}
  BY <1>1, <1>6 DEF CountGroups, CountReserved, CheckRoom, Idle, InTurn, Sound,
                    TypeOK, Request
<1>10. StillSo(req[r])' BY <1>8, <1>9 DEF StillSo, NobodyWaits, NotUnderway
<1>11. \A x \in Requests \ {r} : StillSo(req[x])'
  BY <1>2 DEF StillSo, CountsHold, NobodyWaits, NotUnderway
<1>12. QED BY <1>3, <1>10, <1>11

-----------------------------------------------------------------------------
(* Commits and the steps that take no request.                              *)

\* A proposal is added only for a student who was waiting for no answer.
LEMMA OnePendingKept ==
  ASSUME InTurn, [Next]_vars PROVE OnePending'
<1>1. CASE UNCHANGED proposal BY <1>1 DEF InTurn, OnePending
<1>2. ASSUME NEW r \in Requests, CommitPropose(r) PROVE OnePending'
  <2>1. PICK n \in Proposals :
          /\ proposal[n].status = "NONE"
          /\ proposal' = [proposal EXCEPT ![n] =
               [status |-> "PENDING", student |-> req[r].s,
                lecturer |-> req[r].l, round |-> req[r].k]]
    BY <1>2 DEF CommitPropose
  <2>2. \A p \in Proposals :
          proposal[p].student = req[r].s => proposal[p].status # "PENDING"
    BY <1>2 DEF InTurn, StillSo, NobodyWaits, CommitPropose, Doing
  <2>3. /\ proposal'[n].student = req[r].s
        /\ \A p \in Proposals \ {n} : proposal'[p] = proposal[p]
    BY <2>1 DEF InTurn, Sound, TypeOK
  <2>4. QED BY <2>2, <2>3 DEF InTurn, OnePending
<1>3. ASSUME NEW r \in Requests,
             CommitWithdraw(r) \/ CommitAccept(r) \/ CommitReject(r)
      PROVE OnePending'
  <2>1. \A p \in Proposals :
          /\ proposal'[p].student = proposal[p].student
          /\ proposal'[p].status = "PENDING" => proposal[p].status = "PENDING"
    BY <1>3 DEF CommitWithdraw, CommitAccept, CommitReject, InTurn, Sound, TypeOK,
                ProposalRow
  <2>2. QED BY <2>1 DEF InTurn, OnePending
<1>4. QED BY WhoWritesProposals, <1>1, <1>2, <1>3

LEMMA UnderwayKept ==
  ASSUME InTurn, [Next]_vars PROVE UnderwayOnlyWhenFinal' /\ UnderwayInRound'
<1> DEFINE Fine(t) == /\ phase'[topic'[t].round] = "FINALIZED"
                      /\ topic'[t].held # None /\ topic'[t].round \in Rounds
<1> SUFFICES ASSUME NEW t \in Topics, topic'[t].status = "IN_PROGRESS"
             PROVE Fine(t)
  BY DEF UnderwayOnlyWhenFinal, UnderwayInRound
<1>1. /\ topic[t] \in TopicRow /\ topic \in [Topics -> TopicRow]
      /\ phase \in [Rounds -> Phases]
      /\ topic[t].status = "IN_PROGRESS" =>
           /\ phase[topic[t].round] = "FINALIZED" /\ topic[t].held # None
           /\ topic[t].round \in Rounds
  BY DEF InTurn, Sound, TypeOK, UnderwayOnlyWhenFinal, UnderwayInRound
<1>2. CASE topic' = topic /\ phase' = phase BY <1>1, <1>2
<1>3. ASSUME NEW r \in Requests, Arrive(r) \/ Refused(r)
      PROVE topic' = topic /\ phase' = phase
  BY <1>3 DEF Arrive, StudentArrives, ProposalArrives, TopicArrives, CheckPropose,
              CheckRegister, CheckWithdraw, CheckAccept, CheckReject, CheckApprove,
              CheckOpen, CheckClose, CheckStatus, CheckDelete, CheckMove, Begin,
              Refused
<1>4. ASSUME NEW r \in Requests, Commit(r)
      PROVE Fine(t)
  <2>1. CASE CommitAccept(r) BY <1>1, <2>1 DEF CommitAccept, TopicFrom, NoTopic
  <2>2. CASE CommitSetStatus(r)
    <3>1. t # req[r].t
      BY <1>1, <2>2 DEF CommitSetStatus, TopicRow
    <3>2. QED BY <1>1, <2>2, <3>1 DEF CommitSetStatus
  <2>3. CASE CommitMove(r)
    <3>1. topic[req[r].t].status # "IN_PROGRESS"
      BY <2>3 DEF InTurn, StillSo, NotUnderway, CommitMove, Doing
    <3>2. QED BY <1>1, <2>3, <3>1 DEF CommitMove, TopicRow
  <2>4. CASE CommitRegister(r)
    <3>1. req[r].s # None
      BY <2>4, NoneIsNoRow DEF InTurn, Sound, RequestsAddress, Addresses,
                               CommitRegister, Doing
    <3>2. QED BY <1>1, <2>4, <3>1 DEF CommitRegister, Take, TopicRow
  <2>5. CASE CommitWithdraw(r)
    BY <1>1, <2>5 DEF CommitWithdraw, TopicRow
  <2>6. CASE CommitDelete(r)
    BY <1>1, <2>6 DEF CommitDelete, Deletable, TopicRow
  <2>7. CASE \/ CommitPropose(r) \/ CommitReject(r)
             \/ CountGroups(r) \/ CountReserved(r) \/ CheckRoom(r)
    BY <1>1, <2>7 DEF CommitPropose, CommitReject, CountGroups, CountReserved,
                      CheckRoom
  <2>8. QED BY <1>4, <2>1, <2>2, <2>3, <2>4, <2>5, <2>6, <2>7 DEF Commit
<1>5. ASSUME NEW k \in Rounds, GateMoves(k) \/ Finalize(k) \/ Unlock(k)
      PROVE Fine(t)
  <2>1. CASE GateMoves(k) BY <1>1, <2>1 DEF GateMoves, MovePhase
  <2>2. CASE Finalize(k)
    BY <1>1, <2>2 DEF Finalize, MovePhase, Underway, TopicRow
  <2>3. CASE Unlock(k) BY <1>1, <2>3 DEF Unlock, MovePhase, TopicRow
  <2>4. QED BY <1>5, <2>1, <2>2, <2>3
<1>6. ASSUME BulkOpen
      PROVE Fine(t)
  BY <1>1, <1>6 DEF BulkOpen, TopicRow
<1>7. ASSUME NEW l \in Lecturers, NEW k \in Rounds, Create(l, k)
      PROVE Fine(t)
  BY <1>1, <1>7 DEF Create, NoTopic
<1>8. ASSUME NEW u \in Topics, NEW s \in Students, Place(s, u)
      PROVE Fine(t)
  BY <1>1, <1>8, NoneIsNoRow DEF Place, Take, TopicRow
<1>9. ASSUME NEW u \in Topics, Disband(u) \/ Unplace(u)
      PROVE Fine(t)
  BY <1>1, <1>9 DEF Disband, Unplace, Release, TopicRow
<1>10. CASE UNCHANGED vars BY <1>2, <1>10 DEF vars
<1>11. QED
  BY <1>2, <1>3, <1>4, <1>5, <1>6, <1>7, <1>8, <1>9, <1>10 DEF Next

-----------------------------------------------------------------------------
(* The invariant, and what it is for.                                       *)

LEMMA InTurnInit == Init => InTurn
<1> SUFFICES ASSUME Init PROVE InTurn OBVIOUS
<1>1. Sound BY SoundInit
<1>2. Alone /\ \A r \in Requests : StillSo(req[r])
  BY IdleIsStill DEF Init, Alone, Doing
<1>3. OnePending /\ UnderwayOnlyWhenFinal /\ UnderwayInRound
  BY DEF Init, OnePending, UnderwayOnlyWhenFinal, UnderwayInRound, NoProposal,
         NoTopic
<1>4. QED BY <1>1, <1>2, <1>3 DEF InTurn

LEMMA InTurnStep ==
  ASSUME ~Interleave, InTurn, [Next]_vars PROVE InTurn'
<1>1. Sound' BY StepKeeps DEF InTurn
<1>2. OnePending' /\ UnderwayOnlyWhenFinal' /\ UnderwayInRound'
  BY OnePendingKept, UnderwayKept
<1>3. ASSUME NEW r \in Requests, Arrive(r) \/ Commit(r) \/ Refused(r)
      PROVE Alone' /\ \A x \in Requests : StillSo(req[x])'
  <2>1. CASE Arrive(r) BY <2>1, ArriveInTurn
  <2>2. CASE CountGroups(r) \/ CountReserved(r) \/ CheckRoom(r)
    BY <2>2, CountingInTurn
  <2>3. CASE /\ Commit(r) \/ Refused(r)
             /\ ~(CountGroups(r) \/ CountReserved(r) \/ CheckRoom(r))
    <3>1. ~Doing(r, "idle") /\ Finish(r)
      BY <2>3 DEF Commit, Refused, Doing, CommitPropose, CommitWithdraw,
                  CommitAccept, CommitReject, CommitSetStatus, CommitMove,
                  CommitDelete, CommitRegister
    <3>2. QED BY <3>1, EndsAlone, NoneInFlight DEF InTurn
  <2>4. QED BY <1>3, <2>1, <2>2, <2>3
<1>4. ASSUME Quiet, UNCHANGED req
      PROVE Alone' /\ \A x \in Requests : StillSo(req[x])'
  BY <1>4, QuietSteps
<1>5. ASSUME UNCHANGED vars
      PROVE Alone' /\ \A x \in Requests : StillSo(req[x])'
  <2>1. \A l \in Lecturers \cup {None} :
          /\ Mentored(l)' = Mentored(l) /\ Promised(l)' = Promised(l)
          /\ AtQuota(l, Load(l))' <=> AtQuota(l, Load(l))
    BY <1>5 DEF vars, Mentored, Promised, Stands, Load, AtQuota
  <2>2. \A x \in Requests : CountsHold(req[x])'
    BY <1>5, <2>1 DEF vars, InTurn, StillSo, CountsHold
  <2>3. QED
    BY <1>5, <2>2 DEF vars, InTurn, Alone, Doing, StillSo, NobodyWaits, NotUnderway
<1>6. \/ UNCHANGED vars
      \/ \E r \in Requests : Arrive(r) \/ Commit(r) \/ Refused(r)
      \/ Quiet /\ UNCHANGED req
  BY DEF Next, Create, BulkOpen, Disband, Unplace, Place, GateMoves, Finalize,
         Unlock, MovePhase
<1>7. Alone' /\ \A x \in Requests : StillSo(req[x])'
  BY <1>3, <1>4, <1>5, <1>6
<1>8. QED BY <1>1, <1>2, <1>7 DEF InTurn

THEOREM InTurnAlways == ASSUME ~Interleave PROVE Spec => []InTurn
<1>1. InTurn /\ [Next]_vars => InTurn' BY InTurnStep
<1>2. QED BY <1>1, InTurnInit, PTL DEF Spec

\* Taken one at a time, a student waits for one answer at most.
THEOREM OnePendingPerStudentHolds ==
  ASSUME ~Interleave PROVE Spec => []OnePendingPerStudent
<1>1. ASSUME InTurn, NEW s \in Students PROVE Cardinality(Waiting(s)) <= 1
  <2>1. CASE Waiting(s) = {} BY <2>1, FS_EmptySet
  <2>2. CASE Waiting(s) # {}
    <3>1. PICK p : p \in Waiting(s) BY <2>2
    <3>2. Waiting(s) = {p} BY <1>1, <3>1 DEF InTurn, OnePending, Waiting
    <3>3. QED BY <3>2, FS_Singleton
  <2>3. QED BY <2>1, <2>2
<1>2. InTurn => OnePendingPerStudent BY <1>1 DEF OnePendingPerStudent
<1>3. QED BY <1>2, InTurnAlways, PTL

\* Taken one at a time, work is under way only in rounds that are final.
THEOREM UnderwayOnlyWhenFinalHolds ==
  ASSUME ~Interleave PROVE Spec => []UnderwayOnlyWhenFinal
<1>1. InTurn => UnderwayOnlyWhenFinal BY DEF InTurn
<1>2. QED BY <1>1, InTurnAlways, PTL

\* An acceptance adds one promised topic to a load that was below the ceiling.
LEMMA AcceptanceWithinQuota ==
  ASSUME InTurn, [Next]_vars, NEW p \in Proposals, NEW l \in Lecturers,
         proposal[p].status = "PENDING", proposal'[p].status = "ACCEPTED",
         proposal[p].lecturer = l, Quota[l] # None
  PROVE Load(l)' <= Quota[l]
<1>1. PICK r \in Requests : CommitAccept(r) /\ req[r].p = p
  <2>1. ASSUME NEW r \in Requests,
               CommitPropose(r) \/ CommitWithdraw(r) \/ CommitReject(r)
        PROVE proposal'[p].status # "ACCEPTED"
    BY <2>1 DEF CommitPropose, CommitWithdraw, CommitReject, InTurn, Sound, TypeOK,
                ProposalRow
  <2>2. ASSUME NEW r \in Requests, CommitAccept(r), req[r].p # p
        PROVE proposal'[p] = proposal[p]
    BY <2>2 DEF CommitAccept
  <2>3. QED BY WhoWritesProposals, <2>1, <2>2
<1>2. Load(l) < Quota[l]
  <2>1. ~AtQuota(l, Load(l))
    BY <1>1 DEF InTurn, StillSo, CountsHold, CommitAccept, Doing
  <2>2. Load(l) \in Nat BY CountsAreNumbers DEF Load
  <2>3. Quota[l] \in Nat BY ProposalsAssumption
  <2>4. QED BY <2>1, <2>2, <2>3 DEF AtQuota
<1>3. PICK t \in Topics :
        /\ \A u \in Topics \ {t} : topic'[u] = topic[u]
        /\ topic'[t].held = None
  BY <1>1 DEF CommitAccept, TopicFrom, NoTopic, InTurn, Sound, TypeOK
<1>4. phase' = phase BY <1>1 DEF CommitAccept
<1>5. Mentored(l)' \subseteq Mentored(l) BY <1>3 DEF Mentored
<1>6. Promised(l)' \subseteq Promised(l) \cup {t}
  BY <1>3, <1>4 DEF Promised, Stands
<1>7. IsFiniteSet(Mentored(l)) /\ IsFiniteSet(Promised(l))
  <2>1. Mentored(l) \subseteq Topics /\ Promised(l) \subseteq Topics
    BY DEF Mentored, Promised
  <2>2. QED BY <2>1, ProposalsAssumption, FS_Subset
<1>8. Cardinality(Mentored(l)') <= Cardinality(Mentored(l)) BY <1>5, <1>7, FS_Subset
<1>9. Cardinality(Promised(l)') <= Cardinality(Promised(l)) + 1
  <2> DEFINE S == Promised(l) \cup {t}
  <2>1. /\ IsFiniteSet(S)
        /\ Cardinality(S) = Cardinality(Promised(l))
             \/ Cardinality(S) = Cardinality(Promised(l)) + 1
    BY <1>7, FS_AddElement
  <2>2. IsFiniteSet(Promised(l)') /\ Cardinality(Promised(l)') <= Cardinality(S)
    BY <1>6, <2>1, FS_Subset
  <2> HIDE DEF S
  <2>3. Cardinality(S) \in Nat /\ Cardinality(Promised(l)') \in Nat
          /\ Cardinality(Promised(l)) \in Nat
    BY <1>7, <2>1, <2>2, FS_CardinalityType
  <2>4. QED BY <2>1, <2>2, <2>3
<1>10. /\ Cardinality(Mentored(l)) \in Nat /\ Cardinality(Promised(l)) \in Nat
       /\ Cardinality(Mentored(l)') \in Nat /\ Cardinality(Promised(l)') \in Nat
       /\ Quota[l] \in Nat
  <2>1. IsFiniteSet(Mentored(l)') /\ IsFiniteSet(Promised(l)')
    BY <1>5, <1>6, <1>7, FS_Subset, FS_AddElement
  <2>2. QED BY <1>7, <2>1, FS_CardinalityType, ProposalsAssumption
<1>11. Load(l)' = Cardinality(Mentored(l)') + Cardinality(Promised(l)')
  BY DEF Load
<1>12. QED BY <1>2, <1>8, <1>9, <1>10, <1>11 DEF Load

\* Taken one at a time, no acceptance takes a lecturer past the quota.
THEOREM QuotaRespectedHolds == ASSUME ~Interleave PROVE Spec => QuotaRespected
<1>1. InTurn /\ [Next]_vars =>
        [\A p \in Proposals, l \in Lecturers :
           proposal[p].lecturer = l /\ Quota[l] # None
             /\ proposal[p].status = "PENDING" /\ proposal'[p].status = "ACCEPTED"
             => Load(l)' <= Quota[l]]_vars
  BY AcceptanceWithinQuota
<1>2. QED BY <1>1, InTurnAlways, PTL DEF Spec, QuotaRespected
=============================================================================
