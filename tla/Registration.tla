---------------------------- MODULE Registration ----------------------------
(***************************************************************************)
(* The seats of one registration round: students registering, joining,     *)
(* leaving and disbanding (RegistrationGroupsService) and the faculty       *)
(* office placing, unplacing and finalising (AllocationService).            *)
(*                                                                         *)
(* A request checks its rules on committed rows, then runs a transaction    *)
(* at READ COMMITTED.  A transaction is cut where another one can act       *)
(* inside it: between the row it deletes or the topic it locks and its      *)
(* last write.  Its own writes show at its last step; until then it holds   *)
(* the row locks PostgreSQL would hold.  All students here are of the       *)
(* round's cohorts and have active accounts.                                *)
(***************************************************************************)
EXTENDS Integers, FiniteSets

CONSTANTS
  Students, Topics,
  Groups,        \* group ids; the model stops creating groups when they run out
  Requests,      \* how many requests may be in flight at once
  MaxStudents,   \* topics.maxStudents
  Proposer,      \* the student a topic was written for, or None
  Kinds,         \* the kinds of requests that arrive in this instance
  StraddleGate,  \* may a phase change find a request between check and commit?
  None

ASSUME SeatsAssumption ==
  /\ IsFiniteSet(Students)
  /\ MaxStudents \in [Topics -> Nat \ {0}]
  /\ Kinds \subseteq
       {"student", "removal", "disband", "settings", "office", "lecturer"}
  /\ StraddleGate \in BOOLEAN
  /\ None \notin Students \cup Topics \cup Groups

VARIABLES
  phase,         \* the round's phase as resolve would report it now
  topicStatus,
  group,         \* registration_groups
  accepted,      \* per group: the students with an ACCEPTED member row
  assigned,      \* ... those of them whose joinSource is ASSIGNED
  declined,      \* ... the students with a DECLINED row, left by disband
  sealedWithGaps,\* the last finalize acknowledged unplaced students
  req            \* what each request in flight has read, locked and will write

memberVars == <<accepted, assigned, declined>>
vars == <<phase, topicStatus, group, memberVars, sealedWithGaps, req>>

Statuses == {"NONE", "FORMING", "SUBMITTED", "APPROVED", "REJECTED"}
TopicStatuses == {"APPROVED", "OPEN", "IN_PROGRESS"}
Phases == {"PREP", "OPEN", "RECONCILING", "EXTENDED", "FINALIZED"}

GroupRow == [status : Statuses, topic : Topics \cup {None},
             leader : Students \cup {None}, open : BOOLEAN,
             declared : Nat, held : BOOLEAN]
NoRow == [status |-> "NONE", topic |-> None, leader |-> None, open |-> FALSE,
          declared |-> 0, held |-> FALSE]

-----------------------------------------------------------------------------
(* Seats.                                                                   *)

StatusForSeats(occupied, capacity) ==
  IF occupied >= capacity THEN "SUBMITTED" ELSE "FORMING"

Live(g) == group[g].status \notin {"NONE", "REJECTED"}
LiveOn(t) == {g \in Groups : Live(g) /\ group[g].topic = t}
Capacity(g) == MaxStudents[group[g].topic]
Occupied(g) == Cardinality(accepted[g])

\* Seats the leader declared, while the hold lasts and nobody sits on them.
HeldSeats(g) ==
  LET promised == IF group[g].declared < Capacity(g)
                    THEN group[g].declared ELSE Capacity(g)
  IN IF group[g].held /\ group[g].declared # 0 /\ promised > Occupied(g)
       THEN promised - Occupied(g) ELSE 0
FreeToAnyone(g) == Occupied(g) + HeldSeats(g) < Capacity(g)

HasGroup(s) == \E g \in Groups : Live(g) /\ s \in accepted[g]

\* Mutated form: the index looks at leaders only.
LeadsSomewhere(s) == \E g \in Groups : s \in accepted[g] /\ group[g].leader = s

\* The index one_accepted_per_semester looks at members only, live group or not.
AcceptedSomewhere(s) == \E g \in Groups : s \in accepted[g]

-----------------------------------------------------------------------------
(* Requests.                                                                *)

Ops == {"idle", "register", "join", "handOver", "setOpen", "declare", "release",
        "drop", "sync", "disband", "dissolve", "place", "seat", "unplace",
        "unseat", "finalize", "offer", "takeBack"}

Request == [op : Ops,
            s : Students \cup {None}, g : Groups \cup {None},
            t : Topics \cup {None},
            n : Nat,                \* a declared size, or a count that was read
            rows : SUBSET Students, \* member rows of g it has locked
            seen : SUBSET Students, \* members it read
            row : BOOLEAN,          \* the member row it addresses still exists
            flag : BOOLEAN]         \* link, open, was leader, acknowledged

Idle == [op |-> "idle", s |-> None, g |-> None, t |-> None, n |-> 0,
         rows |-> {}, seen |-> {}, row |-> FALSE, flag |-> FALSE]

TypeOK ==
  /\ phase \in Phases
  /\ topicStatus \in [Topics -> TopicStatuses]
  /\ group \in [Groups -> GroupRow]
  /\ accepted \in [Groups -> SUBSET Students]
  /\ assigned \in [Groups -> SUBSET Students]
  /\ declined \in [Groups -> SUBSET Students]
  /\ sealedWithGaps \in BOOLEAN
  /\ req \in [Requests -> Request]

Init ==
  /\ phase = "PREP"
  /\ topicStatus \in [Topics -> {"APPROVED", "OPEN"}]
  /\ group = [g \in Groups |-> NoRow]
  /\ accepted = [g \in Groups |-> {}]
  /\ assigned = [g \in Groups |-> {}]
  /\ declined = [g \in Groups |-> {}]
  /\ sealedWithGaps = FALSE
  /\ req = [r \in Requests |-> Idle]

Doing(r, op) == req[r].op = op
Begin(r, q) ==
  /\ Doing(r, "idle")
  /\ req' = [req EXCEPT ![r] = q]
  /\ UNCHANGED <<phase, topicStatus, group, memberVars, sealedWithGaps>>
Finish(r) == req' = [req EXCEPT ![r] = Idle]

\* The member row of s in g is deleted: a request that read its id misses it.
FinishDeleting(r, g, s) ==
  req' = [q \in Requests |->
            IF q = r THEN Idle
            ELSE IF /\ req[q].op \in {"drop", "unplace"}
                    /\ req[q].g = g /\ req[q].s = s
              THEN [req[q] EXCEPT !.row = FALSE]
            ELSE req[q]]

\* Row locks another transaction holds.
RowsFree(r, g, S) ==
  \A q \in Requests \ {r} : req[q].g = g => req[q].rows \cap S = {}
TopicFree(r, t) ==
  \A q \in Requests \ {r} :
    ~(req[q].op \in {"seat", "unseat"} /\ req[q].t = t)

\* The index one_live_per_topic, for a write that leaves g live on its topic.
IndexAllowsLive(g) == LiveOn(group[g].topic) \subseteq {g}

\* A request ends without effect: a rule refuses it, a unique index rejects it,
\* the row it addresses is gone, or the server dies and PostgreSQL rolls back.
Refused(r) ==
  /\ ~Doing(r, "idle")
  /\ Finish(r)
  /\ UNCHANGED <<phase, topicStatus, group, memberVars, sealedWithGaps>>

-----------------------------------------------------------------------------
(* Students: register and join.                                             *)

\* requireCanJoin.
CanJoin(s) == phase = "OPEN" \/ (phase = "EXTENDED" /\ ~HasGroup(s))

\* The rules each request is checked against are named apart from it: the
\* pages of Screens promise that they hold.
MayRegister(s, t) ==
  /\ topicStatus[t] = "OPEN"
  /\ CanJoin(s)
  /\ Proposer[t] \in {None, s}
  /\ ~HasGroup(s)

CheckRegister(r, s, t, n) ==
  /\ MayRegister(s, t)
  /\ n = 0 \/ n \in 2..MaxStudents[t]
  /\ Begin(r, [Idle EXCEPT !.op = "register", !.s = s, !.t = t, !.n = n])

\* Mutated form: without the index one_live_per_topic behind it.
CommitRegisterUnindexed(r) ==
  LET s == req[r].s  t == req[r].t  n == req[r].n IN
  /\ Doing(r, "register")
  /\ TopicFree(r, t)
  /\ ~AcceptedSomewhere(s)
  /\ \E g \in Groups :
       /\ group[g].status = "NONE"
       /\ group' = [group EXCEPT ![g] =
                      [status |-> StatusForSeats(1, MaxStudents[t]),
                       topic |-> t, leader |-> s, open |-> TRUE,
                       declared |-> n, held |-> n # 0]]
       /\ accepted' = [accepted EXCEPT ![g] = {s}]
  /\ Finish(r)
  /\ UNCHANGED <<phase, topicStatus, assigned, declined, sealedWithGaps>>

\* Group and leader's row in one transaction; both indexes decide here.
CommitRegister(r) ==
  LET s == req[r].s  t == req[r].t  n == req[r].n IN
  /\ Doing(r, "register")
  /\ TopicFree(r, t)             \* the foreign key's lock on the topic
  /\ LiveOn(t) = {}              \* one_live_per_topic
  /\ ~AcceptedSomewhere(s)       \* one_accepted_per_semester
  /\ \E g \in Groups :
       /\ group[g].status = "NONE"
       /\ group' = [group EXCEPT ![g] =
                      [status |-> StatusForSeats(1, MaxStudents[t]),
                       topic |-> t, leader |-> s, open |-> TRUE,
                       declared |-> n, held |-> n # 0]]
       /\ accepted' = [accepted EXCEPT ![g] = {s}]
  /\ Finish(r)
  /\ UNCHANGED <<phase, topicStatus, assigned, declined, sealedWithGaps>>

\* The rules assertJoinable and addMember share; link is allowHeldSeats.
Joinable(s, g, link) ==
  /\ Live(g)
  /\ group[g].open
  /\ Occupied(g) < Capacity(g)
  /\ link \/ FreeToAnyone(g)

\* joinTopic and joinByCode up to the transaction.
MayJoin(s, g, link) ==
  /\ Joinable(s, g, link)
  /\ CanJoin(s)
  /\ topicStatus[group[g].topic] = "OPEN"
  /\ ~HasGroup(s)

CheckJoin(r, s, g, link) ==
  /\ MayJoin(s, g, link)
  /\ Begin(r, [Idle EXCEPT !.op = "join", !.s = s, !.g = g, !.flag = link])

\* Mutated form: addMember trusts the counts read before the lock.
CommitJoinUnchecked(r) ==
  LET s == req[r].s  g == req[r].g IN
  /\ Doing(r, "join")
  /\ Live(g)
  /\ ~AcceptedSomewhere(s) /\ s \notin declined[g]
  /\ accepted' = [accepted EXCEPT ![g] = @ \cup {s}]
  /\ group' = [group EXCEPT ![g].status =
                 StatusForSeats(Occupied(g) + 1, Capacity(g))]
  /\ Finish(r)
  /\ UNCHANGED <<phase, topicStatus, assigned, declined, sealedWithGaps>>

\* addMember: everything is read again under the group's row lock, except the
\* round's phase and the topic's status.
CommitJoin(r) ==
  LET s == req[r].s  g == req[r].g IN
  /\ Doing(r, "join")
  /\ Joinable(s, g, req[r].flag)
  /\ ~AcceptedSomewhere(s)       \* one_accepted_per_semester
  /\ s \notin declined[g]        \* unique (groupId, studentId)
  /\ accepted' = [accepted EXCEPT ![g] = @ \cup {s}]
  /\ group' = [group EXCEPT ![g].status =
                 StatusForSeats(Occupied(g) + 1, Capacity(g))]
  /\ Finish(r)
  /\ UNCHANGED <<phase, topicStatus, assigned, declined, sealedWithGaps>>

-----------------------------------------------------------------------------
(* Leaders: update, which writes one field per request here.                *)

\* requireLeadership and requireCanLeave.
Leads(s, g) == Live(g) /\ group[g].leader = s /\ phase = "OPEN"

CheckHandOver(r, s, g) ==
  /\ Leads(s, g)
  /\ \E heir \in accepted[g] :
       Begin(r, [Idle EXCEPT !.op = "handOver", !.g = g, !.s = heir])

CheckSetOpen(r, s, g) ==
  /\ Leads(s, g)
  /\ \E open \in BOOLEAN \ {group[g].open} :
       Begin(r, [Idle EXCEPT !.op = "setOpen", !.g = g, !.flag = open])

\* declaredSize 0 stands for null.
CheckDeclare(r, s, g) ==
  /\ Leads(s, g)
  /\ \E n \in {0} \cup ((2..Capacity(g)) \ {group[g].declared}) :
       /\ n = 0 \/ n >= Occupied(g)
       /\ Begin(r, [Idle EXCEPT !.op = "declare", !.g = g, !.n = n])

CheckRelease(r, s, g) ==
  /\ Leads(s, g) /\ group[g].held
  /\ Begin(r, [Idle EXCEPT !.op = "release", !.g = g])

CheckUpdate(r, s, g) ==
  \/ CheckHandOver(r, s, g) \/ CheckSetOpen(r, s, g)
  \/ CheckDeclare(r, s, g) \/ CheckRelease(r, s, g)

\* One statement, whatever has happened to the group since it was loaded.
CommitUpdate(r) ==
  LET q == req[r] IN
  /\ q.op \in {"handOver", "setOpen", "declare", "release"}
  /\ group' = [group EXCEPT ![q.g] =
       CASE q.op = "handOver" -> [@ EXCEPT !.leader = q.s]
         [] q.op = "setOpen" -> [@ EXCEPT !.open = q.flag]
         [] q.op = "declare" -> [@ EXCEPT !.declared = q.n]
         [] q.op = "release" -> [@ EXCEPT !.held = FALSE]]
  /\ Finish(r)
  /\ UNCHANGED <<phase, topicStatus, memberVars, sealedWithGaps>>

-----------------------------------------------------------------------------
(* Leaving, removing, disbanding.                                           *)

DropRequest(s, g) ==
  [Idle EXCEPT !.op = "drop", !.s = s, !.g = g, !.row = TRUE]

\* Mutated form: members may still leave during an extension.
CheckLeaveExtended(r, s, g) ==
  /\ phase \in {"OPEN", "EXTENDED"}
  /\ s \in accepted[g] /\ group[g].leader # s
  /\ Begin(r, DropRequest(s, g))

CheckLeave(r, s, g) ==
  /\ phase = "OPEN"
  /\ s \in accepted[g] /\ group[g].leader # s
  /\ Begin(r, DropRequest(s, g))

CheckRemove(r, leader, s, g) ==
  /\ Leads(leader, g)
  /\ s \in accepted[g] \ {leader}
  /\ Begin(r, DropRequest(s, g))

\* leave and removeMember: the row goes and the rest is counted ...
DeleteRow(r) ==
  LET s == req[r].s  g == req[r].g IN
  /\ Doing(r, "drop")
  /\ req[r].row /\ RowsFree(r, g, {s})
  /\ req' = [req EXCEPT ![r].op = "sync", ![r].rows = {s},
                        ![r].n = Cardinality(accepted[g] \ {s})]
  /\ UNCHANGED <<phase, topicStatus, group, memberVars, sealedWithGaps>>

\* ... and syncStatus writes what that count says, even on a group that has
\* been disbanded meanwhile.
CommitDrop(r) ==
  LET s == req[r].s  g == req[r].g IN
  /\ Doing(r, "sync")
  /\ IndexAllowsLive(g)
  /\ accepted' = [accepted EXCEPT ![g] = @ \ {s}]
  /\ assigned' = [assigned EXCEPT ![g] = @ \ {s}]
  /\ declined' = [declined EXCEPT ![g] = @ \ {s}]
  /\ group' = [group EXCEPT ![g].status =
                 StatusForSeats(req[r].n, Capacity(g))]
  /\ FinishDeleting(r, g, s)
  /\ UNCHANGED <<phase, topicStatus, sealedWithGaps>>

\* disband, by the leader or by an administrator.
CheckDisband(r, g) ==
  /\ Live(g) /\ phase = "OPEN"
  /\ Begin(r, [Idle EXCEPT !.op = "disband", !.g = g])

\* Its updateMany takes the members accepted when it runs ...
DeclineMembers(r) ==
  LET g == req[r].g IN
  /\ Doing(r, "disband")
  /\ RowsFree(r, g, accepted[g])
  /\ req' = [req EXCEPT ![r].op = "dissolve", ![r].rows = accepted[g]]
  /\ UNCHANGED <<phase, topicStatus, group, memberVars, sealedWithGaps>>

\* Mutated form: the group is rejected over the heads of its members.
CommitDisbandKeepsMembers(r) ==
  LET g == req[r].g IN
  /\ Doing(r, "dissolve")
  /\ group' = [group EXCEPT ![g].status = "REJECTED"]
  /\ Finish(r)
  /\ UNCHANGED <<phase, topicStatus, memberVars, sealedWithGaps>>

\* ... and its second statement rejects the group.
CommitDisband(r) ==
  LET g == req[r].g  rows == req[r].rows IN
  /\ Doing(r, "dissolve")
  /\ accepted' = [accepted EXCEPT ![g] = @ \ rows]
  /\ assigned' = [assigned EXCEPT ![g] = @ \ rows]
  /\ declined' = [declined EXCEPT ![g] = @ \cup rows]
  /\ group' = [group EXCEPT ![g].status = "REJECTED"]
  /\ Finish(r)
  /\ UNCHANGED <<phase, topicStatus, sealedWithGaps>>

-----------------------------------------------------------------------------
(* The faculty office: place and unplace.                                   *)

MayPlace(s, t) == phase = "RECONCILING" /\ ~HasGroup(s) /\ topicStatus[t] = "OPEN"

CheckPlace(r, s, t) ==
  /\ MayPlace(s, t)
  /\ Begin(r, [Idle EXCEPT !.op = "place", !.s = s, !.t = t])

\* Mutated form: the topic is read without its lock.
LockTopicFree(r) ==
  LET t == req[r].t IN
  /\ Doing(r, "place")
  /\ \E g \in (IF LiveOn(t) = {} THEN {None} ELSE LiveOn(t)) :
       LET n == IF g = None THEN 0 ELSE Occupied(g) IN
       /\ n < MaxStudents[t]
       /\ req' = [req EXCEPT ![r].op = "seat", ![r].g = g, ![r].n = n]
  /\ UNCHANGED <<phase, topicStatus, group, memberVars, sealedWithGaps>>

\* The topic's row is locked, its live group read and its seats counted.
LockTopic(r) ==
  LET t == req[r].t IN
  /\ Doing(r, "place")
  /\ TopicFree(r, t)
  /\ \E g \in (IF LiveOn(t) = {} THEN {None} ELSE LiveOn(t)) :
       LET n == IF g = None THEN 0 ELSE Occupied(g) IN
       /\ n < MaxStudents[t]
       /\ req' = [req EXCEPT ![r].op = "seat", ![r].g = g, ![r].n = n]
  /\ UNCHANGED <<phase, topicStatus, group, memberVars, sealedWithGaps>>

Seat(s, g) ==
  /\ ~AcceptedSomewhere(s)       \* one_accepted_per_semester
  /\ s \notin declined[g]        \* unique (groupId, studentId)
  /\ accepted' = [accepted EXCEPT ![g] = @ \cup {s}]
  /\ assigned' = [assigned EXCEPT ![g] = @ \cup {s}]

\* openGroupFor, when the topic had no group under the lock.
CommitPlaceInNew(r) ==
  LET s == req[r].s  t == req[r].t IN
  /\ Doing(r, "seat") /\ req[r].g = None
  /\ LiveOn(t) = {}              \* one_live_per_topic
  /\ \E g \in Groups :
       /\ group[g].status = "NONE"
       /\ Seat(s, g)
       /\ group' = [group EXCEPT ![g] =
                      [status |-> StatusForSeats(1, MaxStudents[t]),
                       topic |-> t, leader |-> s, open |-> FALSE,
                       declared |-> 0, held |-> FALSE]]
  /\ Finish(r)
  /\ UNCHANGED <<phase, topicStatus, declined, sealedWithGaps>>

\* The group is not locked: students who passed their check while the gate was
\* open may have joined or disbanded it since it was counted.
CommitPlace(r) ==
  LET s == req[r].s  g == req[r].g IN
  /\ Doing(r, "seat") /\ g # None
  /\ IndexAllowsLive(g)
  /\ Seat(s, g)
  /\ group' = [group EXCEPT ![g].status =
                 StatusForSeats(req[r].n + 1, Capacity(g))]
  /\ Finish(r)
  /\ UNCHANGED <<phase, topicStatus, declined, sealedWithGaps>>

\* Mutated form: any seat is taken back, self-registered ones included.
CheckUnplaceAnyone(r, s, g) ==
  /\ phase = "RECONCILING"
  /\ Live(g) /\ s \in accepted[g]
  /\ Begin(r, [Idle EXCEPT !.op = "unplace", !.s = s, !.g = g,
                 !.t = group[g].topic, !.row = TRUE,
                 !.flag = (group[g].leader = s)])

\* requireOwnPlacement: only a seat the office gave is taken back.  Whether the
\* student leads the group is read here, before the lock.
MayUnplace(s, g) == phase = "RECONCILING" /\ Live(g) /\ s \in assigned[g]

CheckUnplace(r, s, g) ==
  /\ MayUnplace(s, g)
  /\ Begin(r, [Idle EXCEPT !.op = "unplace", !.s = s, !.g = g,
                 !.t = group[g].topic, !.row = TRUE,
                 !.flag = (group[g].leader = s)])

LockUnplace(r) ==
  LET s == req[r].s  g == req[r].g IN
  /\ Doing(r, "unplace")
  /\ TopicFree(r, req[r].t)
  /\ req[r].row /\ RowsFree(r, g, {s})
  /\ req' = [req EXCEPT ![r].op = "unseat", ![r].rows = {s},
                        ![r].seen = accepted[g] \ {s}]
  /\ UNCHANGED <<phase, topicStatus, group, memberVars, sealedWithGaps>>

Unseat(r) ==
  LET s == req[r].s  g == req[r].g IN
  /\ Doing(r, "unseat")
  /\ accepted' = [accepted EXCEPT ![g] = @ \ {s}]
  /\ assigned' = [assigned EXCEPT ![g] = @ \ {s}]
  /\ declined' = [declined EXCEPT ![g] = @ \ {s}]
  /\ FinishDeleting(r, g, s)
  /\ UNCHANGED <<phase, topicStatus, sealedWithGaps>>

\* Nobody was left: the group is rejected, not deleted.
CommitUnplaceLast(r) ==
  /\ req[r].seen = {}
  /\ Unseat(r)
  /\ group' = [group EXCEPT ![req[r].g].status = "REJECTED"]

\* Mutated form: the group keeps the leader who was taken out of it.
CommitUnplaceKeepsLeader(r) ==
  /\ req[r].seen # {}
  /\ IndexAllowsLive(req[r].g)
  /\ Unseat(r)
  /\ group' = [group EXCEPT ![req[r].g].status =
                 StatusForSeats(Cardinality(req[r].seen), Capacity(req[r].g))]

\* The longest-standing of those left takes the group over.
CommitUnplace(r) ==
  LET g == req[r].g  left == req[r].seen IN
  /\ left # {}
  /\ IndexAllowsLive(g)
  /\ Unseat(r)
  /\ \E heir \in left :
       group' = [group EXCEPT
         ![g].status = StatusForSeats(Cardinality(left), Capacity(g)),
         ![g].leader = IF req[r].flag THEN heir ELSE @]

-----------------------------------------------------------------------------
(* The round: finalize, unlock, and the gate.                               *)

EveryoneSeated == \A s \in Students : HasGroup(s)

\* The list of unplaced students is read before the transaction.
CheckFinalize(r, acknowledged) ==
  /\ phase = "RECONCILING"
  /\ EveryoneSeated \/ acknowledged
  /\ Begin(r, [Idle EXCEPT !.op = "finalize",
                 !.flag = acknowledged /\ ~EveryoneSeated])

\* markTopicsUnderway.
Underway ==
  {t \in Topics : topicStatus[t] \in {"OPEN", "APPROVED"} /\ LiveOn(t) # {}}

\* Mutated form: only topics still on offer are marked.
CommitFinalizeOpenOnly(r) ==
  /\ Doing(r, "finalize")
  /\ phase = "RECONCILING"
  /\ phase' = "FINALIZED"
  /\ topicStatus' = [t \in Topics |->
       IF t \in Underway /\ topicStatus[t] = "OPEN" THEN "IN_PROGRESS"
                                                    ELSE topicStatus[t]]
  /\ sealedWithGaps' = req[r].flag
  /\ Finish(r)
  /\ UNCHANGED <<group, memberVars>>

CommitFinalize(r) ==
  /\ Doing(r, "finalize")
  /\ phase = "RECONCILING"
  /\ \A t \in Underway : TopicFree(r, t)
  /\ phase' = "FINALIZED"
  /\ topicStatus' = [t \in Topics |->
       IF t \in Underway THEN "IN_PROGRESS" ELSE topicStatus[t]]
  /\ sealedWithGaps' = req[r].flag
  /\ Finish(r)
  /\ UNCHANGED <<group, memberVars>>

\* With StraddleGate FALSE a phase change waits until nothing is in flight.
PhaseMay == StraddleGate \/ \A r \in Requests : Doing(r, "idle")

MovePhase(from, to) ==
  /\ PhaseMay
  /\ phase \in from
  /\ phase' = to
  /\ UNCHANGED <<group, memberVars, req>>

GateOpens == MovePhase({"PREP"}, "OPEN") /\ UNCHANGED <<topicStatus, sealedWithGaps>>
GateCloses ==
  MovePhase({"PREP", "OPEN", "EXTENDED"}, "RECONCILING")
    /\ UNCHANGED <<topicStatus, sealedWithGaps>>
Extend ==
  MovePhase({"RECONCILING"}, "EXTENDED")
    /\ UNCHANGED <<topicStatus, sealedWithGaps>>

\* RoundsService.unlock with markTopicsBackOnOffer.
Unlock ==
  /\ MovePhase({"FINALIZED"}, "RECONCILING")
  /\ \A t \in Topics :
       topicStatus[t] = "IN_PROGRESS" => \A r \in Requests : TopicFree(r, t)
  /\ topicStatus' = [t \in Topics |->
       IF topicStatus[t] = "IN_PROGRESS" THEN "OPEN" ELSE topicStatus[t]]
  /\ sealedWithGaps' = FALSE

-----------------------------------------------------------------------------
(* Topics on and off the desk, and the clock of a hold.                     *)

\* TopicsService.open and close: check, then an unconditional setStatus.
CheckOffer(r, t) ==
  /\ topicStatus[t] = "APPROVED"
  /\ Begin(r, [Idle EXCEPT !.op = "offer", !.t = t])
CheckTakeBack(r, t) ==
  /\ topicStatus[t] = "OPEN"
  /\ Begin(r, [Idle EXCEPT !.op = "takeBack", !.t = t])

\* Mutated form: close sends the topic back to moderation.
CommitSetStatusPending(r) ==
  /\ req[r].op \in {"offer", "takeBack"}
  /\ topicStatus' = [topicStatus EXCEPT ![req[r].t] =
                       IF Doing(r, "offer") THEN "OPEN" ELSE "PENDING"]
  /\ Finish(r)
  /\ UNCHANGED <<phase, group, memberVars, sealedWithGaps>>

CommitSetStatus(r) ==
  /\ req[r].op \in {"offer", "takeBack"}
  /\ TopicFree(r, req[r].t)
  /\ topicStatus' = [topicStatus EXCEPT ![req[r].t] =
                       IF Doing(r, "offer") THEN "OPEN" ELSE "APPROVED"]
  /\ Finish(r)
  /\ UNCHANGED <<phase, group, memberVars, sealedWithGaps>>

\* One guarded statement over the semester.
BulkOpen ==
  /\ \E t \in Topics : topicStatus[t] = "APPROVED"
  /\ \A t \in Topics, r \in Requests :
       topicStatus[t] = "APPROVED" => TopicFree(r, t)
  /\ topicStatus' = [t \in Topics |->
       IF topicStatus[t] = "APPROVED" THEN "OPEN" ELSE topicStatus[t]]
  /\ UNCHANGED <<phase, group, memberVars, sealedWithGaps, req>>

HoldLapses(g) ==
  /\ group[g].held
  /\ group' = [group EXCEPT ![g].held = FALSE]
  /\ UNCHANGED <<phase, topicStatus, memberVars, sealedWithGaps, req>>

-----------------------------------------------------------------------------
StudentArrives(r) ==
  \E s \in Students :
    \/ \E t \in Topics : \E n \in 0..MaxStudents[t] : CheckRegister(r, s, t, n)
    \/ \E g \in Groups :
         \/ \E link \in BOOLEAN : CheckJoin(r, s, g, link)
         \/ CheckLeave(r, s, g)

RemovalArrives(r) ==
  \E s, member \in Students, g \in Groups : CheckRemove(r, s, member, g)

DisbandArrives(r) == \E g \in Groups : CheckDisband(r, g)

SettingsArrive(r) ==
  \E s \in Students, g \in Groups : CheckUpdate(r, s, g)

OfficeArrives(r) ==
  \/ \E s \in Students :
       \/ \E t \in Topics : CheckPlace(r, s, t)
       \/ \E g \in Groups : CheckUnplace(r, s, g)
  \/ \E acknowledged \in BOOLEAN : CheckFinalize(r, acknowledged)

LecturerArrives(r) == \E t \in Topics : CheckOffer(r, t) \/ CheckTakeBack(r, t)

Arrive(r) ==
  \/ "student" \in Kinds /\ StudentArrives(r)
  \/ "removal" \in Kinds /\ RemovalArrives(r)
  \/ "disband" \in Kinds /\ DisbandArrives(r)
  \/ "settings" \in Kinds /\ SettingsArrive(r)
  \/ "office" \in Kinds /\ OfficeArrives(r)
  \/ "lecturer" \in Kinds /\ LecturerArrives(r)

Commit(r) ==
  \/ CommitRegister(r) \/ CommitJoin(r) \/ CommitUpdate(r)
  \/ DeleteRow(r) \/ CommitDrop(r)
  \/ DeclineMembers(r) \/ CommitDisband(r)
  \/ LockTopic(r) \/ CommitPlaceInNew(r) \/ CommitPlace(r)
  \/ LockUnplace(r) \/ CommitUnplaceLast(r) \/ CommitUnplace(r)
  \/ CommitFinalize(r) \/ CommitSetStatus(r)

Next ==
  \/ \E r \in Requests : Arrive(r) \/ Commit(r) \/ Refused(r)
  \/ GateOpens \/ GateCloses \/ Extend \/ Unlock
  \/ "lecturer" \in Kinds /\ BulkOpen
  \/ \E g \in Groups : HoldLapses(g)

Spec == Init /\ [][Next]_vars

-----------------------------------------------------------------------------
(* Properties.                                                              *)

\* Two students who take one free topic at the same moment, a placement racing
\* a registration, a stale syncStatus: one live group per topic comes of it.
OneLiveGroupPerTopic ==
  \A g, h \in Groups :
    Live(g) /\ Live(h) /\ group[g].topic = group[h].topic => g = h

\* However register, join and place interleave, a student holds one seat in the
\* semester at most.
OneTopicPerStudent ==
  \A g, h \in Groups : g # h => accepted[g] \cap accepted[h] = {}

\* The worst the two unrelated locks can do (addMember locks the group, place
\* the topic): one student more than the topic holds, never two.
OvershootAtMostOne ==
  \A g \in Groups :
    group[g].status # "NONE" => Occupied(g) <= Capacity(g) + 1

\* Without a placement by the office there is no overshoot at all: the recount
\* under the group's lock in addMember suffices among students.
SelfServeWithinCapacity ==
  \A g \in Groups :
    group[g].status # "NONE" /\ assigned[g] = {} => Occupied(g) <= Capacity(g)

\* place and addMember together never seat more students than a topic holds
\* (the comment on the lock in place).
SeatsWithinCapacity ==
  \A g \in Groups : group[g].status # "NONE" => Occupied(g) <= Capacity(g)

\* A live group shows itself full exactly when it is, although syncStatus and
\* place write statuses computed from counts that may have moved since.  It
\* takes a disbanded group's rows to break it, see the README.
StatusMatchesSeats ==
  \A g \in Groups :
    Live(g) => (group[g].status = "SUBMITTED" <=> Occupied(g) >= Capacity(g))

\* Somebody answers for every group: its leader is one of its members (the
\* comments in leave and in unplace).
LeaderIsMember ==
 \A g \in Groups : Live(g) => group[g].leader \in accepted[g]

\* A disbanded group keeps no ACCEPTED member: disband steps them all down (the
\* comment on GROUP_SELECT and doc/database_analysis.md on one_accepted), or
\* the index would bar them from every other topic of the semester.
MembersOnlyInLiveGroups ==
  \A g \in Groups : group[g].status = "REJECTED" => accepted[g] = {}

\* The leader a group has and the members it keeps agree with its status,
\* whoever registers, joins, leaves, is removed, hands over, disbands, is placed
\* or taken back, one at a time.
GroupsWellFormed == LeaderIsMember /\ MembersOnlyInLiveGroups

\* Work starts on exactly the topics somebody holds when the round is final,
\* a topic its lecturer had taken back included, and unlock undoes all of it.
UnderwayWhenFinal ==
  \A t \in Topics :
    topicStatus[t] = "IN_PROGRESS" <=> phase = "FINALIZED" /\ LiveOn(t) # {}

\* A round sealed without acknowledged gaps has a topic for everybody.
GapsAcknowledged == phase = "FINALIZED" /\ ~sealedWithGaps => EveryoneSeated

\* What finalize promises of the topics and of the students, and unlock undoes.
SettlementComplete == UnderwayWhenFinal /\ GapsAcknowledged

\* What a phase lets happen to seats, over every step.  During an extension a
\* group that exists only gains members, and none of them came from another one;
\* while a round is FINALIZED nobody gains or loses a seat ("Allocation for this
\* round is final and can no longer be changed").
SeatsFollowPhase ==
  [][/\ phase = "EXTENDED" =>
          \A g \in Groups :
            /\ accepted[g] \subseteq accepted'[g]
            /\ \A s \in accepted'[g] \ accepted[g] : ~AcceptedSomewhere(s)
     /\ phase = "FINALIZED" /\ phase' = "FINALIZED" => UNCHANGED memberVars]_vars

\* The seats as SeatAllocation sees them.
SeatOf(s) ==
  IF HasGroup(s)
    THEN group[CHOOSE g \in Groups : Live(g) /\ s \in accepted[g]].topic
    ELSE None
Seats ==
  INSTANCE SeatAllocation
    WITH seat <- [s \in Students |-> SeatOf(s)],
         placed <- {s \in Students : \E g \in Groups : Live(g) /\ s \in assigned[g]}

\* Taken one at a time, the requests do to the seats only what SeatAllocation
\* allows in each phase.
SeatsRefined == Seats!Spec
-----------------------------------------------------------------------------
(* Refuted readings, kept for the record: no run checks them, the README     *)
(* says which steps refute each.                                            *)

\* "This group has already been disbanded": it never comes back to life.  True of
\* one request at a time; a syncStatus under way when a group is disbanded
\* writes the status it had computed.
RejectedIsFinal ==
  [][\A g \in Groups : group[g].status = "REJECTED"
                         => group'[g].status = "REJECTED"]_vars

\* While a declared group's hold runs only students with its link join it
\* (doc/database_analysis.md: a stranger may join once hold_until is over).
StrangersWaitOutHold ==
  [][\A g \in Groups :
       group[g].held /\ group[g].declared # 0 /\ accepted'[g] # accepted[g]
         => ~\E r \in Requests :
              Doing(r, "join") /\ ~req[r].flag /\ req'[r] # req[r]]_vars

\* Finalising a round turns its live groups APPROVED (the table of statuses in
\* doc/fr_nfr_analysis.md).
SettledGroupsApproved ==
  phase = "FINALIZED" =>
    \A g \in Groups : Live(g) => group[g].status = "APPROVED"
=============================================================================
