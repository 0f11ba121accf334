------------------------------ MODULE Proposals ------------------------------
(***************************************************************************)
(* Topics and the proposals some of them come from: ProposalsService,       *)
(* TopicsService and the lecturer's load MentoringLoadService counts.       *)
(*                                                                         *)
(* A request checks its rules on committed rows and then runs one statement *)
(* or one transaction.  Of a topic's groups only what these services look   *)
(* at is kept: who leads the live one, and whether rejected rows remain.    *)
(* Registration has the rest.                                               *)
(***************************************************************************)
EXTENDS Integers, FiniteSets

CONSTANTS
  Students, Lecturers,
  Proposals, Topics,  \* row ids; the model stops creating rows when they run out
  Rounds,             \* the rounds of the active semester
  Requests,           \* how many requests may be in flight at once
  Quota,              \* lecturer_profiles.maxMentoringQuota, None for no limit
  Interleave,         \* may anything else commit inside a request?
  None

ASSUME ProposalsAssumption ==
  /\ IsFiniteSet(Topics)
  /\ Quota \in [Lecturers -> Nat \cup {None}]
  /\ Interleave \in BOOLEAN
  /\ None \notin Students \cup Lecturers \cup Proposals \cup Topics
                   \cup Rounds \cup Nat

VARIABLES
  phase,     \* per round, as resolve would report it now
  proposal,  \* topic_proposals
  topic,     \* topics, each with its live group and the trace of dead ones
  req        \* what each request in flight has read

vars == <<phase, proposal, topic, req>>

Phases == {"PREP", "OPEN", "RECONCILING", "EXTENDED", "FINALIZED"}
Answers == {"ACCEPTED", "REJECTED"}
\* GONE is a row that was deleted.
ProposalRow ==
  [status : {"NONE", "PENDING", "GONE"} \cup Answers,
   student : Students \cup {None}, lecturer : Lecturers \cup {None},
   round : Rounds \cup {None}]
TopicRow ==
  [status : {"NONE", "PENDING", "APPROVED", "OPEN", "IN_PROGRESS", "GONE"},
   lecturer : Lecturers \cup {None}, round : Rounds \cup {None},
   source : Proposals \cup {None},  \* sourceProposalId
   held : Students \cup {None},     \* the leader of its live group
   past : BOOLEAN]                  \* a REJECTED group row points at it
NoProposal ==
  [status |-> "NONE", student |-> None, lecturer |-> None, round |-> None]
NoTopic == [status |-> "NONE", lecturer |-> None, round |-> None,
            source |-> None, held |-> None, past |-> FALSE]

Ops == {"idle", "propose", "withdraw", "count", "accept", "reject", "register",
        "approve", "open", "close", "move", "remove"}
Request == [op : Ops, s : Students \cup {None}, l : Lecturers \cup {None},
            p : Proposals \cup {None}, t : Topics \cup {None},
            k : Rounds \cup {None},
            groups : Nat \cup {None},    \* the two counts of a load,
            reserved : Nat \cup {None}]  \* None until it has been read
Idle == [op |-> "idle", s |-> None, l |-> None, p |-> None, t |-> None,
         k |-> None, groups |-> None, reserved |-> None]

TypeOK ==
  /\ phase \in [Rounds -> Phases]
  /\ proposal \in [Proposals -> ProposalRow]
  /\ topic \in [Topics -> TopicRow]
  /\ req \in [Requests -> Request]

Init ==
  /\ phase = [k \in Rounds |-> "PREP"]
  /\ proposal = [p \in Proposals |-> NoProposal]
  /\ topic = [t \in Topics |-> NoTopic]
  /\ req = [r \in Requests |-> Idle]

Doing(r, op) == req[r].op = op
Begin(r, q) ==
  /\ Doing(r, "idle")
  /\ req' = [req EXCEPT ![r] = q]
  /\ UNCHANGED <<phase, proposal, topic>>
Finish(r) == req' = [req EXCEPT ![r] = Idle]

Stands(t) == topic[t].status \notin {"NONE", "GONE"}
HasGroup(s) == \E t \in Topics : topic[t].held = s
Quiet == Interleave \/ \A r \in Requests : Doing(r, "idle")

-----------------------------------------------------------------------------
(* The load of a lecturer.                                                  *)

Mentored(l) == {t \in Topics : topic[t].lecturer = l /\ topic[t].held # None}

\* Topics made of a proposal whose student has not registered yet, while the
\* stored phase of their round still lets them.
Promised(l) ==
  {t \in Topics :
     /\ Stands(t)
     /\ topic[t].lecturer = l
     /\ topic[t].source # None
     /\ phase[topic[t].round] \in {"PREP", "OPEN", "EXTENDED"}
     /\ topic[t].held = None}

Load(l) == Cardinality(Mentored(l)) + Cardinality(Promised(l))

\* Mutated form: full only when the ceiling has been passed.
AboveQuota(l, load) == Quota[l] # None /\ load > Quota[l]

\* A lecturer may stand above the ceiling: own topics are taken regardless.
AtQuota(l, load) == Quota[l] # None /\ load >= Quota[l]

-----------------------------------------------------------------------------
(* Students: propose and withdraw.                                          *)

\* requireCanPropose with requireNoGroup; requireNoPendingProposal.
CanPropose(s, k) ==
  /\ phase[k] \in {"PREP", "OPEN", "EXTENDED"}
  /\ ~HasGroup(s)
Waiting(s) ==
  {p \in Proposals : proposal[p].student = s /\ proposal[p].status = "PENDING"}

\* Mutated form: a student may have several proposals waiting.
CheckProposeAgain(r, s, l, k) ==
  /\ CanPropose(s, k)
  /\ Begin(r, [Idle EXCEPT !.op = "propose", !.s = s, !.l = l, !.k = k])

CheckPropose(r, s, l, k) ==
  /\ CanPropose(s, k)
  /\ Waiting(s) = {}
  /\ Begin(r, [Idle EXCEPT !.op = "propose", !.s = s, !.l = l, !.k = k])

CommitPropose(r) ==
  LET q == req[r] IN
  /\ Doing(r, "propose")
  /\ \E p \in Proposals :
       /\ proposal[p].status = "NONE"
       /\ proposal' = [proposal EXCEPT ![p] =
            [status |-> "PENDING", student |-> q.s, lecturer |-> q.l,
             round |-> q.k]]
  /\ Finish(r)
  /\ UNCHANGED <<phase, topic>>

CheckWithdraw(r, p) ==
  /\ proposal[p].status = "PENDING"
  /\ Begin(r, [Idle EXCEPT !.op = "withdraw", !.p = p])

\* The delete does not ask for PENDING again; a topic made of the proposal in
\* the meantime loses its source (ON DELETE SET NULL).
CommitWithdraw(r) ==
  LET p == req[r].p IN
  /\ Doing(r, "withdraw")
  /\ proposal[p].status # "GONE"
  /\ proposal' = [proposal EXCEPT ![p].status = "GONE"]
  /\ topic' = [t \in Topics |->
       IF topic[t].source = p THEN [topic[t] EXCEPT !.source = None]
                              ELSE topic[t]]
  /\ Finish(r)
  /\ UNCHANGED phase

-----------------------------------------------------------------------------
(* Lecturers answer.                                                        *)

\* requireAnswerable with requireCanAcceptProposal.
CheckAccept(r, p) ==
  /\ proposal[p].status = "PENDING"
  /\ phase[proposal[p].round] \in {"PREP", "OPEN", "EXTENDED"}
  /\ Begin(r, [Idle EXCEPT !.op = "count", !.p = p])

\* countGroups and countReserved: two queries side by side, no snapshot.
CountGroups(r) ==
  LET l == proposal[req[r].p].lecturer IN
  /\ Doing(r, "count") /\ req[r].groups = None
  /\ req' = [req EXCEPT ![r].groups = Cardinality(Mentored(l))]
  /\ UNCHANGED <<phase, proposal, topic>>
CountReserved(r) ==
  LET l == proposal[req[r].p].lecturer IN
  /\ Doing(r, "count") /\ req[r].reserved = None
  /\ req' = [req EXCEPT ![r].reserved = Cardinality(Promised(l))]
  /\ UNCHANGED <<phase, proposal, topic>>

\* requireRoomForOneMore.
CheckRoom(r) ==
  /\ Doing(r, "count") /\ req[r].groups # None /\ req[r].reserved # None
  /\ ~AtQuota(proposal[req[r].p].lecturer, req[r].groups + req[r].reserved)
  /\ req' = [req EXCEPT ![r] = [Idle EXCEPT !.op = "accept", !.p = req[r].p]]
  /\ UNCHANGED <<phase, proposal, topic>>

\* What accept writes to the topics: a PENDING one, the proposal its source.
TopicFrom(p) ==
  \E t \in Topics :
    /\ topic[t].status = "NONE"
    /\ topic' = [topic EXCEPT ![t] =
         [NoTopic EXCEPT !.status = "PENDING", !.source = p,
            !.lecturer = proposal[p].lecturer, !.round = proposal[p].round]]

\* Mutated form: the update does not ask for PENDING again.
CommitAcceptUnguarded(r) ==
  LET p == req[r].p IN
  /\ Doing(r, "accept")
  /\ proposal[p].status # "GONE"
  /\ \A t \in Topics : topic[t].source # p
  /\ TopicFrom(p)
  /\ proposal' = [proposal EXCEPT ![p].status = "ACCEPTED"]
  /\ Finish(r)
  /\ UNCHANGED phase

CommitAccept(r) ==
  LET p == req[r].p IN
  /\ Doing(r, "accept")
  /\ \A t \in Topics : topic[t].source # p  \* unique sourceProposalId
  /\ TopicFrom(p)
  /\ proposal[p].status = "PENDING"
  /\ proposal' = [proposal EXCEPT ![p].status = "ACCEPTED"]
  /\ Finish(r)
  /\ UNCHANGED phase

CheckReject(r, p) ==
  /\ proposal[p].status = "PENDING"
  /\ Begin(r, [Idle EXCEPT !.op = "reject", !.p = p])

\* Mutated form: the update does not ask for PENDING again.
CommitRejectUnguarded(r) ==
  /\ Doing(r, "reject")
  /\ proposal[req[r].p].status # "GONE"
  /\ proposal' = [proposal EXCEPT ![req[r].p].status = "REJECTED"]
  /\ Finish(r)
  /\ UNCHANGED <<phase, topic>>

CommitReject(r) ==
  /\ Doing(r, "reject")
  /\ proposal[req[r].p].status = "PENDING"
  /\ proposal' = [proposal EXCEPT ![req[r].p].status = "REJECTED"]
  /\ Finish(r)
  /\ UNCHANGED <<phase, topic>>

-----------------------------------------------------------------------------
(* Topics: create, approve, open, close, update, remove.                    *)

Create(l, k) ==
  /\ Quiet
  /\ \E t \in Topics :
       /\ topic[t].status = "NONE"
       /\ topic' = [topic EXCEPT ![t] =
            [NoTopic EXCEPT !.status = "PENDING", !.lecturer = l, !.round = k]]
  /\ UNCHANGED <<phase, proposal, req>>

CheckStatus(r, op, t, status) ==
  /\ topic[t].status = status
  /\ Begin(r, [Idle EXCEPT !.op = op, !.t = t])
CheckApprove(r, t) == CheckStatus(r, "approve", t, "PENDING")
CheckOpen(r, t) == CheckStatus(r, "open", t, "APPROVED")
CheckClose(r, t) == CheckStatus(r, "close", t, "OPEN")

\* setStatus writes whatever the check has led to.
CommitSetStatus(r) ==
  LET t == req[r].t IN
  /\ req[r].op \in {"approve", "open", "close"}
  /\ Stands(t)
  /\ topic' = [topic EXCEPT ![t].status =
                 IF Doing(r, "open") THEN "OPEN" ELSE "APPROVED"]
  /\ Finish(r)
  /\ UNCHANGED <<phase, proposal>>

BulkOpen ==
  /\ Quiet
  /\ \E t \in Topics : topic[t].status = "APPROVED"
  /\ topic' = [t \in Topics |->
       IF topic[t].status = "APPROVED" THEN [topic[t] EXCEPT !.status = "OPEN"]
                                       ELSE topic[t]]
  /\ UNCHANGED <<phase, proposal, req>>

\* Mutated form: a topic under way may be moved as well.
CheckMoveAny(r, t, k) ==
  /\ Stands(t)
  /\ Begin(r, [Idle EXCEPT !.op = "move", !.t = t, !.k = k])

\* update with another projectTypeId: the topic changes rounds.
CheckMove(r, t, k) ==
  /\ Stands(t) /\ topic[t].status # "IN_PROGRESS"
  /\ Begin(r, [Idle EXCEPT !.op = "move", !.t = t, !.k = k])

CommitMove(r) ==
  /\ Doing(r, "move")
  /\ Stands(req[r].t)
  /\ topic' = [topic EXCEPT ![req[r].t].round = req[r].k]
  /\ Finish(r)
  /\ UNCHANGED <<phase, proposal>>

CheckDelete(r, t) ==
  /\ Stands(t) /\ topic[t].held = None
  /\ Begin(r, [Idle EXCEPT !.op = "remove", !.t = t])

\* Mutated form: no foreign key restricts it, the check alone decides.
DeletableUnchecked(t) == TRUE

\* registration_groups.topicId is ON DELETE RESTRICT, for dead groups as well.
Deletable(t) == topic[t].held = None /\ ~topic[t].past

CommitDelete(r) ==
  LET t == req[r].t IN
  /\ Doing(r, "remove")
  /\ Stands(t) /\ Deletable(t)
  /\ topic' = [topic EXCEPT ![t].status = "GONE", ![t].source = None]
  /\ Finish(r)
  /\ UNCHANGED <<phase, proposal>>

-----------------------------------------------------------------------------
(* A topic's group comes and goes.                                          *)

\* requireProposerOrFree.
ProposerOrFree(s, t) ==
  topic[t].source # None => proposal[topic[t].source].student = s

CheckRegister(r, s, t) ==
  /\ topic[t].status = "OPEN"
  /\ phase[topic[t].round] \in {"OPEN", "EXTENDED"}
  /\ ProposerOrFree(s, t)
  /\ ~HasGroup(s)
  /\ Begin(r, [Idle EXCEPT !.op = "register", !.s = s, !.t = t])

Take(s, t) ==
  /\ Stands(t)
  /\ topic[t].held = None        \* one_live_per_topic
  /\ ~HasGroup(s)                \* one_accepted_per_semester
  /\ topic' = [topic EXCEPT ![t].held = s]
CommitRegister(r) ==
  /\ Doing(r, "register")
  /\ Take(req[r].s, req[r].t)
  /\ Finish(r)
  /\ UNCHANGED <<phase, proposal>>

Release(t) == topic' = [topic EXCEPT ![t].held = None, ![t].past = TRUE]
Disband(t) ==
  /\ Quiet
  /\ topic[t].held # None /\ phase[topic[t].round] = "OPEN"
  /\ Release(t)
  /\ UNCHANGED <<phase, proposal, req>>

\* place into a topic without a group, unplace of its last member.
Place(s, t) ==
  /\ Quiet
  /\ topic[t].status = "OPEN" /\ phase[topic[t].round] = "RECONCILING"
  /\ Take(s, t)
  /\ UNCHANGED <<phase, proposal, req>>
Unplace(t) ==
  /\ Quiet
  /\ topic[t].held # None /\ phase[topic[t].round] = "RECONCILING"
  /\ Release(t)
  /\ UNCHANGED <<phase, proposal, req>>

-----------------------------------------------------------------------------
(* The rounds.                                                              *)

MovePhase(k, from, to) ==
  /\ Quiet
  /\ phase[k] \in from
  /\ phase' = [phase EXCEPT ![k] = to]
  /\ UNCHANGED <<proposal, req>>

GateMoves(k) ==
  /\ \/ MovePhase(k, {"PREP"}, "OPEN")
     \/ MovePhase(k, {"PREP", "OPEN", "EXTENDED"}, "RECONCILING")
     \/ MovePhase(k, {"RECONCILING"}, "EXTENDED")
  /\ UNCHANGED topic

\* markTopicsUnderway.
Underway(k) ==
  {t \in Topics : topic[t].round = k /\ topic[t].status \in {"OPEN", "APPROVED"}
                    /\ topic[t].held # None}
\* Mutated form: the topics take the word the round uses.
FinalizeSealsTopics(k) ==
  /\ MovePhase(k, {"RECONCILING"}, "FINALIZED")
  /\ topic' = [t \in Topics |->
       IF t \in Underway(k) THEN [topic[t] EXCEPT !.status = "FINALIZED"]
                            ELSE topic[t]]

Finalize(k) ==
  /\ MovePhase(k, {"RECONCILING"}, "FINALIZED")
  /\ topic' = [t \in Topics |->
       IF t \in Underway(k) THEN [topic[t] EXCEPT !.status = "IN_PROGRESS"]
                            ELSE topic[t]]

\* unlock with markTopicsBackOnOffer.
Unlock(k) ==
  /\ MovePhase(k, {"FINALIZED"}, "RECONCILING")
  /\ topic' = [t \in Topics |->
       IF topic[t].round = k /\ topic[t].status = "IN_PROGRESS"
         THEN [topic[t] EXCEPT !.status = "OPEN"] ELSE topic[t]]

-----------------------------------------------------------------------------
\* A request ends without effect: refused, or its transaction rolls back.
Refused(r) ==
  /\ ~Doing(r, "idle")
  /\ Finish(r)
  /\ UNCHANGED <<phase, proposal, topic>>

StudentArrives(r) ==
  \E s \in Students :
    \/ \E l \in Lecturers, k \in Rounds : CheckPropose(r, s, l, k)
    \/ \E t \in Topics : CheckRegister(r, s, t)

ProposalArrives(r) ==
  \E p \in Proposals : CheckWithdraw(r, p) \/ CheckAccept(r, p) \/ CheckReject(r, p)

TopicArrives(r) ==
  \E t \in Topics :
    \/ CheckApprove(r, t) \/ CheckOpen(r, t) \/ CheckClose(r, t)
    \/ CheckDelete(r, t)
    \/ \E k \in Rounds \ {topic[t].round} : CheckMove(r, t, k)

Arrive(r) ==
  /\ Quiet
  /\ StudentArrives(r) \/ ProposalArrives(r) \/ TopicArrives(r)

Commit(r) ==
  \/ CommitPropose(r) \/ CommitWithdraw(r)
  \/ CountGroups(r) \/ CountReserved(r) \/ CheckRoom(r)
  \/ CommitAccept(r) \/ CommitReject(r)
  \/ CommitSetStatus(r) \/ CommitMove(r) \/ CommitDelete(r)
  \/ CommitRegister(r)

Next ==
  \/ \E r \in Requests : Arrive(r) \/ Commit(r) \/ Refused(r)
  \/ \E l \in Lecturers, k \in Rounds : Create(l, k)
  \/ BulkOpen
  \/ \E t \in Topics :
       \/ Disband(t) \/ Unplace(t)
       \/ \E s \in Students : Place(s, t)
  \/ \E k \in Rounds : GateMoves(k) \/ Finalize(k) \/ Unlock(k)

Spec == Init /\ [][Next]_vars

-----------------------------------------------------------------------------
(* Properties.                                                              *)

\* Two answers, a withdrawal and a deletion may race: a topic that names a
\* proposal as its source names one that was accepted, and no other topic
\* names the same.
SourceAnswered ==
  \A t \in Topics :
    topic[t].source # None =>
      /\ proposal[topic[t].source].status = "ACCEPTED"
      /\ topic[t].lecturer = proposal[topic[t].source].lecturer
      /\ \A u \in Topics \ {t} : topic[u].source # topic[t].source

\* "This proposal has already been answered": accept and reject guard their
\* update on PENDING, so of two answers only the first stands.
AnswersStand ==
  [][\A p \in Proposals :
       proposal[p].status \in Answers
         => proposal'[p].status \in {proposal[p].status, "GONE"}]_vars

\* A topic somebody has registered is not deleted under them, however late the
\* delete runs after remove has looked.
RegisteredTopicStays ==
  [][\A t \in Topics : topic[t].held # None => topic'[t].status # "GONE"]_vars

\* Taken one at a time, acceptances stop at the ceiling the faculty set
\* (requireRoomForOneMore), whatever moved topics between the two counts.
QuotaRespected ==
  [][\A p \in Proposals, l \in Lecturers :
       proposal[p].lecturer = l /\ Quota[l] # None
         /\ proposal[p].status = "PENDING" /\ proposal'[p].status = "ACCEPTED"
         => Load(l)' <= Quota[l]]_vars

\* Taken one at a time, a student waits for one answer at a time.
OnePendingPerStudent ==
  \A s \in Students : Cardinality(Waiting(s)) <= 1

\* Taken one at a time, work is under way only in rounds that are final: an
\* edit cannot carry it into another round, and unlock leaves none behind.
UnderwayOnlyWhenFinal ==
  \A t \in Topics :
    topic[t].status = "IN_PROGRESS"
      => phase[topic[t].round] = "FINALIZED" /\ topic[t].held # None

\* "The proposal has been answered, so it can no longer be edited or
\* withdrawn" (requireOwnPending).
AnsweredNotWithdrawn ==
  [][\A p \in Proposals :
       proposal[p].status \in Answers => proposal'[p].status # "GONE"]_vars

\* "REJECTED rows are kept for the record, and counting them would leave a
\* topic that everyone walked away from permanently undeletable": a topic
\* without a live group can be deleted (the comment in remove).
AbandonedTopicDeletable ==
  \A t \in Topics : Stands(t) /\ topic[t].held = None => Deletable(t)

-----------------------------------------------------------------------------
(* Refuted reading, kept for the record: no run checks it, see the README.   *)

\* maxMentoringQuota is the largest number of groups a lecturer mentors in a
\* semester (doc/database_analysis.md).
QuotaIsCeiling ==
  \A l \in Lecturers : Quota[l] # None => Cardinality(Mentored(l)) <= Quota[l]
=============================================================================
