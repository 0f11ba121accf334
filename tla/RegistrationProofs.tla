-------------------------- MODULE RegistrationProofs --------------------------
(***************************************************************************)
(* What a registration round keeps, from its rows to its pages, under fewer *)
(* and fewer interleavings:                                                 *)
(*                                                                         *)
(*  1. any number of requests in flight, phase changes between check and    *)
(*     commit included: types, and what the indexes and locks guarantee;    *)
(*  2. requests that overlap but do not straddle a phase change: capacity;  *)
(*  3. requests one at a time: groups, settlement, the refinement of        *)
(*     SeatAllocation, and the report;                                      *)
(*  4. overlapping requests again, of which none disbands a group: what the *)
(*     pages of Screens promise.                                            *)
(*                                                                         *)
(* Base is the inductive invariant the other proofs start from: types, what *)
(* a request in flight may address, and what the rows of a group look like. *)
(***************************************************************************)
EXTENDS Reports, TLAPS, FiniteSetTheorems, FunctionTheorems

GroupOps == {"join", "handOver", "setOpen", "declare", "release", "drop", "sync",
             "disband", "dissolve", "unplace", "unseat"}
TopicOps == {"register", "place", "seat", "unplace", "unseat", "offer", "takeBack"}
StudentOps == {"register", "join", "handOver", "drop", "sync", "place", "seat",
               "unplace", "unseat"}

Stands(g) == g \in Groups /\ group[g].status # "NONE"

\* What the check of a request left in it still names rows that exist.
Addresses(q) ==
  /\ q.op \in GroupOps => Stands(q.g)
  /\ q.op \in TopicOps => q.t \in Topics
  /\ q.op \in StudentOps => q.s \in Students
  /\ q.op = "seat" /\ q.g # None => Stands(q.g) /\ group[q.g].topic = q.t
RequestsAddress == \A r \in Requests : Addresses(req[r])

GroupsStand ==
  \A g \in Groups :
    /\ group[g].status # "NONE" => group[g].topic \in Topics
    /\ group[g].status = "NONE" => accepted[g] = {} /\ declined[g] = {}
    /\ assigned[g] \subseteq accepted[g]

Base == TypeOK /\ RequestsAddress /\ GroupsStand

-----------------------------------------------------------------------------
(* Small facts.                                                             *)

\* A status computed from seats is one of the two it may be.
LEMMA StatusForSeatsType ==
  \A n, c : StatusForSeats(n, c) \in {"FORMING", "SUBMITTED"}
  BY DEF StatusForSeats

\* Counting seats gives natural numbers: there are finitely many students.
LEMMA CountsAreNat ==
  ASSUME NEW S \in SUBSET Students
  PROVE  IsFiniteSet(S) /\ Cardinality(S) \in Nat
  BY SeatsAssumption, FS_Subset, FS_CardinalityType

\* None names neither a student nor a topic nor a group.
LEMMA NoneIsNone == None \notin Students /\ None \notin Topics /\ None \notin Groups
  BY SeatsAssumption

\* The empty request is well formed.
LEMMA IdleType == Idle \in Request /\ Addresses(Idle)
  BY DEF Idle, Request, Ops, Addresses, GroupOps, TopicOps, StudentOps

\* A check that leaves a well-formed request behind keeps Base.
LEMMA BeginKeepsBase ==
  ASSUME Base, NEW r \in Requests, NEW q \in Request, Addresses(q), Begin(r, q)
  PROVE  Base'
<1>1. TypeOK'
  BY DEF Base, TypeOK, Begin, memberVars
<1>2. RequestsAddress'
  BY DEF Base, TypeOK, RequestsAddress, Addresses, Stands, Begin, memberVars
<1>3. GroupsStand'
  BY DEF Base, GroupsStand, Begin, memberVars
<1>. QED BY <1>1, <1>2, <1>3 DEF Base

\* The rows of the groups, of their members and of the topics stay well formed
\* and what stood keeps standing on its topic.
RowsKept ==
  /\ (phase' \in Phases /\ topicStatus' \in [Topics -> TopicStatuses]
        /\ sealedWithGaps' \in BOOLEAN)
  /\ group' \in [Groups -> GroupRow]
  /\ accepted' \in [Groups -> SUBSET Students]
  /\ assigned' \in [Groups -> SUBSET Students]
  /\ declined' \in [Groups -> SUBSET Students]
  /\ GroupsStand'
  /\ \A g \in Groups : Stands(g) => group'[g].status # "NONE"
                                      /\ group'[g].topic = group[g].topic

\* A commit that keeps the rows well formed and ends its request keeps Base.
LEMMA FinishKeepsBase ==
  ASSUME Base, NEW r \in Requests, RowsKept, Finish(r)
  PROVE  Base'
<1>1. TypeOK'
  BY IdleType DEF Base, TypeOK, RowsKept, Finish
<1>2. RequestsAddress'
  BY DEF Base, TypeOK, RequestsAddress, Addresses, Stands, Finish, RowsKept,
         Idle, GroupOps, TopicOps, StudentOps
<1>. QED BY <1>1, <1>2 DEF Base, RowsKept

LEMMA FinishDeletingKeepsBase ==
  ASSUME Base, NEW r \in Requests, NEW g, NEW s, RowsKept,
         FinishDeleting(r, g, s)
  PROVE  Base'
<1>1. TypeOK'
  <2>1. \A q \in Requests : [req[q] EXCEPT !.row = FALSE] \in Request
    BY DEF Base, TypeOK, Request
  <2>. QED BY <2>1, IdleType DEF Base, TypeOK, RowsKept, FinishDeleting
<1>2. RequestsAddress'
  <2>1. SUFFICES ASSUME NEW q \in Requests PROVE Addresses(req[q])'
    BY DEF RequestsAddress
  <2>2. \/ req'[q] = Idle
        \/ /\ req'[q].op = req[q].op /\ req'[q].g = req[q].g
           /\ req'[q].s = req[q].s /\ req'[q].t = req[q].t
    BY DEF FinishDeleting, Base, TypeOK, Request
  <2>. QED BY <2>2 DEF Base, RequestsAddress, Addresses, Stands, RowsKept,
                       Idle, GroupOps, TopicOps, StudentOps
<1>. QED BY <1>1, <1>2 DEF Base, RowsKept

\* A request that goes on to its next statement keeps Base.
LEMMA StepKeepsBase ==
  ASSUME Base, NEW r \in Requests, NEW q \in Request, Addresses(q),
         req' = [req EXCEPT ![r] = q],
         UNCHANGED <<phase, topicStatus, group, memberVars, sealedWithGaps>>
  PROVE  Base'
<1>1. TypeOK'
  BY DEF Base, TypeOK, memberVars
<1>2. RequestsAddress'
  BY DEF Base, TypeOK, RequestsAddress, Addresses, Stands, memberVars
<1>3. GroupsStand'
  BY DEF Base, GroupsStand, memberVars
<1>. QED BY <1>1, <1>2, <1>3 DEF Base

-----------------------------------------------------------------------------
(* The checks: each leaves a well-formed request behind.                    *)

LEMMA StudentArrivesKeepsBase ==
  ASSUME Base, NEW r \in Requests, StudentArrives(r)
  PROVE  Base'
<1>. USE DEF Addresses, Stands, Idle, Request, Ops, GroupOps, TopicOps, StudentOps
<1>1. PICK s \in Students :
        \/ \E t \in Topics : \E n \in 0..MaxStudents[t] : CheckRegister(r, s, t, n)
        \/ \E g \in Groups :
             \/ \E link \in BOOLEAN : CheckJoin(r, s, g, link)
             \/ CheckLeave(r, s, g)
  BY DEF StudentArrives
<1>2. CASE \E t \in Topics : \E n \in 0..MaxStudents[t] : CheckRegister(r, s, t, n)
  <2>0. PICK t \in Topics : \E n \in 0..MaxStudents[t] : CheckRegister(r, s, t, n)
    BY <1>2
  <2>1. PICK n \in 0..MaxStudents[t] : CheckRegister(r, s, t, n)
    BY <2>0
  <2>. DEFINE q == [Idle EXCEPT !.op = "register", !.s = s, !.t = t, !.n = n]
  <2>2. n \in Nat
    BY SeatsAssumption
  <2>3. q \in Request /\ Addresses(q)
    BY <2>2
  <2>. QED BY <2>1, <2>3, BeginKeepsBase DEF CheckRegister
<1>3. ASSUME NEW g \in Groups, NEW link \in BOOLEAN, CheckJoin(r, s, g, link)
      PROVE  Base'
  <2>. DEFINE q == [Idle EXCEPT !.op = "join", !.s = s, !.g = g, !.flag = link]
  <2>1. q \in Request /\ Addresses(q)
    BY <1>3 DEF CheckJoin, MayJoin, Joinable, Live
  <2>. QED BY <1>3, <2>1, BeginKeepsBase DEF CheckJoin
<1>4. ASSUME NEW g \in Groups, CheckLeave(r, s, g)
      PROVE  Base'
  <2>1. DropRequest(s, g) \in Request /\ Addresses(DropRequest(s, g))
    BY <1>4 DEF CheckLeave, DropRequest, Base, GroupsStand
  <2>. QED BY <1>4, <2>1, BeginKeepsBase DEF CheckLeave
<1>. QED BY <1>1, <1>2, <1>3, <1>4

LEMMA LeaderArrivesKeepsBase ==
  ASSUME Base, NEW r \in Requests,
         SettingsArrive(r) \/ RemovalArrives(r) \/ DisbandArrives(r)
  PROVE  Base'
<1>. USE DEF Addresses, Stands, Idle, Request, Ops, GroupOps, TopicOps, StudentOps
<1>1. ASSUME NEW s \in Students, NEW g \in Groups, CheckHandOver(r, s, g)
      PROVE  Base'
  <2>1. PICK heir \in accepted[g] :
          Begin(r, [Idle EXCEPT !.op = "handOver", !.g = g, !.s = heir])
    BY <1>1 DEF CheckHandOver
  <2>2. heir \in Students
    BY DEF Base, TypeOK
  <2>. DEFINE q == [Idle EXCEPT !.op = "handOver", !.g = g, !.s = heir]
  <2>3. q \in Request /\ Addresses(q)
    BY <1>1, <2>2 DEF CheckHandOver, Leads, Live
  <2>. QED BY <2>1, <2>3, BeginKeepsBase
<1>2. ASSUME NEW s \in Students, NEW g \in Groups, CheckSetOpen(r, s, g)
      PROVE  Base'
  <2>1. PICK open \in BOOLEAN :
          Begin(r, [Idle EXCEPT !.op = "setOpen", !.g = g, !.flag = open])
    BY <1>2 DEF CheckSetOpen
  <2>. DEFINE q == [Idle EXCEPT !.op = "setOpen", !.g = g, !.flag = open]
  <2>2. q \in Request /\ Addresses(q)
    BY <1>2 DEF CheckSetOpen, Leads, Live
  <2>. QED BY <2>1, <2>2, BeginKeepsBase
<1>3. ASSUME NEW s \in Students, NEW g \in Groups, CheckDeclare(r, s, g)
      PROVE  Base'
  <2>1. PICK n \in {0} \cup ((2..Capacity(g)) \ {group[g].declared}) :
          Begin(r, [Idle EXCEPT !.op = "declare", !.g = g, !.n = n])
    BY <1>3 DEF CheckDeclare
  <2>2. Capacity(g) \in Nat
    BY <1>3, SeatsAssumption
       DEF CheckDeclare, Leads, Live, Capacity, Base, GroupsStand
  <2>3. n \in Nat
    BY <2>2
  <2>. DEFINE q == [Idle EXCEPT !.op = "declare", !.g = g, !.n = n]
  <2>4. q \in Request /\ Addresses(q)
    BY <1>3, <2>3 DEF CheckDeclare, Leads, Live
  <2>. QED BY <2>1, <2>4, BeginKeepsBase
<1>4. ASSUME NEW s \in Students, NEW g \in Groups, CheckRelease(r, s, g)
      PROVE  Base'
  <2>. DEFINE q == [Idle EXCEPT !.op = "release", !.g = g]
  <2>1. q \in Request /\ Addresses(q)
    BY <1>4 DEF CheckRelease, Leads, Live
  <2>. QED BY <1>4, <2>1, BeginKeepsBase DEF CheckRelease
<1>5. ASSUME NEW leader \in Students, NEW s \in Students, NEW g \in Groups,
             CheckRemove(r, leader, s, g)
      PROVE  Base'
  <2>1. DropRequest(s, g) \in Request /\ Addresses(DropRequest(s, g))
    BY <1>5 DEF CheckRemove, Leads, Live, DropRequest
  <2>. QED BY <1>5, <2>1, BeginKeepsBase DEF CheckRemove
<1>6. ASSUME NEW g \in Groups, CheckDisband(r, g)
      PROVE  Base'
  <2>. DEFINE q == [Idle EXCEPT !.op = "disband", !.g = g]
  <2>1. q \in Request /\ Addresses(q)
    BY <1>6 DEF CheckDisband, Live
  <2>. QED BY <1>6, <2>1, BeginKeepsBase DEF CheckDisband
<1>. QED
  BY <1>1, <1>2, <1>3, <1>4, <1>5, <1>6
     DEF SettingsArrive, CheckUpdate, RemovalArrives, DisbandArrives

LEMMA OfficeArrivesKeepsBase ==
  ASSUME Base, NEW r \in Requests, OfficeArrives(r) \/ LecturerArrives(r)
  PROVE  Base'
<1>. USE DEF Addresses, Stands, Idle, Request, Ops, GroupOps, TopicOps, StudentOps
<1>1. ASSUME NEW s \in Students, NEW t \in Topics, CheckPlace(r, s, t)
      PROVE  Base'
  <2>. DEFINE q == [Idle EXCEPT !.op = "place", !.s = s, !.t = t]
  <2>1. q \in Request /\ Addresses(q)
    OBVIOUS
  <2>. QED BY <1>1, <2>1, BeginKeepsBase DEF CheckPlace
<1>2. ASSUME NEW s \in Students, NEW g \in Groups, CheckUnplace(r, s, g)
      PROVE  Base'
  <2>. DEFINE q == [Idle EXCEPT !.op = "unplace", !.s = s, !.g = g,
                      !.t = group[g].topic, !.row = TRUE,
                      !.flag = (group[g].leader = s)]
  <2>1. Stands(g) /\ group[g].topic \in Topics
    BY <1>2 DEF CheckUnplace, MayUnplace, Live, Base, GroupsStand
  <2>2. (group[g].leader = s) \in BOOLEAN
    OBVIOUS
  <2>3. q \in Request /\ Addresses(q)
    BY <2>1, <2>2
  <2>4. Begin(r, q)
    BY <1>2, Zenon DEF CheckUnplace
  <2>. HIDE DEF q
  <2>. QED BY <2>3, <2>4, BeginKeepsBase
<1>3. ASSUME NEW acknowledged \in BOOLEAN, CheckFinalize(r, acknowledged)
      PROVE  Base'
  <2>. DEFINE flag == acknowledged /\ ~EveryoneSeated
              q == [Idle EXCEPT !.op = "finalize", !.flag = flag]
  <2>1. flag \in BOOLEAN
    OBVIOUS
  <2>2. q \in Request /\ Addresses(q)
    BY <2>1
  <2>. QED BY <1>3, <2>2, BeginKeepsBase DEF CheckFinalize
<1>4. ASSUME NEW t \in Topics, CheckOffer(r, t) \/ CheckTakeBack(r, t)
      PROVE  Base'
  <2>1. /\ [Idle EXCEPT !.op = "offer", !.t = t] \in Request
        /\ Addresses([Idle EXCEPT !.op = "offer", !.t = t])
        /\ [Idle EXCEPT !.op = "takeBack", !.t = t] \in Request
        /\ Addresses([Idle EXCEPT !.op = "takeBack", !.t = t])
    OBVIOUS
  <2>. QED BY <1>4, <2>1, BeginKeepsBase DEF CheckOffer, CheckTakeBack
<1>. QED
  BY <1>1, <1>2, <1>3, <1>4 DEF OfficeArrives, LecturerArrives

-----------------------------------------------------------------------------
(* The steps inside a transaction: locks, deletes and counts.               *)

LEMMA InnerStepsKeepBase ==
  ASSUME Base, NEW r \in Requests,
         DeleteRow(r) \/ DeclineMembers(r) \/ LockTopic(r) \/ LockUnplace(r)
  PROVE  Base'
<1>. USE DEF Addresses, Request, Ops, GroupOps, TopicOps, StudentOps
<1>0. req[r] \in Request /\ Addresses(req[r])
  BY DEF Base, TypeOK, RequestsAddress
<1>1. CASE DeleteRow(r)
  <2>. DEFINE s == req[r].s  g == req[r].g
              q == [req[r] EXCEPT !.op = "sync", !.rows = {s},
                                  !.n = Cardinality(accepted[g] \ {s})]
  <2>1. s \in Students /\ Stands(g)
    BY <1>0, <1>1 DEF DeleteRow, Doing
  <2>2. accepted[g] \ {s} \in SUBSET Students
    BY <2>1 DEF Base, TypeOK, Stands
  <2>3. Cardinality(accepted[g] \ {s}) \in Nat
    BY <2>2, CountsAreNat
  <2>4. q \in Request /\ Addresses(q)
    BY <1>0, <2>1, <2>3
  <2>5. req' = [req EXCEPT ![r] = q]
    BY <1>1 DEF DeleteRow, Base, TypeOK
  <2>. QED BY <1>1, <2>4, <2>5, StepKeepsBase DEF DeleteRow
<1>2. CASE DeclineMembers(r)
  <2>. DEFINE g == req[r].g
              q == [req[r] EXCEPT !.op = "dissolve", !.rows = accepted[g]]
  <2>1. Stands(g)
    BY <1>0, <1>2 DEF DeclineMembers, Doing
  <2>2. accepted[g] \in SUBSET Students
    BY <2>1 DEF Base, TypeOK, Stands
  <2>3. q \in Request /\ Addresses(q)
    BY <1>0, <2>1, <2>2
  <2>4. req' = [req EXCEPT ![r] = q]
    BY <1>2 DEF DeclineMembers, Base, TypeOK
  <2>. QED BY <1>2, <2>3, <2>4, StepKeepsBase DEF DeclineMembers
<1>3. CASE LockTopic(r)
  <2>. DEFINE t == req[r].t
              Count(g) == IF g = None THEN 0 ELSE Occupied(g)
              q(g) == [req[r] EXCEPT !.op = "seat", !.g = g, !.n = Count(g)]
  <2>1. t \in Topics /\ req[r].s \in Students
    BY <1>0, <1>3 DEF LockTopic, Doing
  <2>2. PICK g \in (IF LiveOn(t) = {} THEN {None} ELSE LiveOn(t)) :
          req' = [req EXCEPT ![r].op = "seat", ![r].g = g, ![r].n = Count(g)]
    BY <1>3 DEF LockTopic
  <2>3. g # None => Stands(g) /\ group[g].topic = t
    BY <2>2 DEF LiveOn, Live, Stands
  <2>4. Count(g) \in Nat
    BY <2>3, CountsAreNat DEF Occupied, Base, TypeOK, Stands
  <2>5. g \in Groups \cup {None}
    BY <2>3 DEF Stands
  <2>6. q(g) \in Request /\ Addresses(q(g))
    BY <1>0, <2>1, <2>3, <2>4, <2>5
  <2>7. req' = [req EXCEPT ![r] = q(g)]
    BY <2>2 DEF Base, TypeOK
  <2>. QED BY <1>3, <2>6, <2>7, StepKeepsBase DEF LockTopic
<1>4. CASE LockUnplace(r)
  <2>. DEFINE s == req[r].s  g == req[r].g
              q == [req[r] EXCEPT !.op = "unseat", !.rows = {s},
                                  !.seen = accepted[g] \ {s}]
  <2>1. s \in Students /\ Stands(g) /\ req[r].t \in Topics
    BY <1>0, <1>4 DEF LockUnplace, Doing
  <2>2. accepted[g] \ {s} \in SUBSET Students
    BY <2>1 DEF Base, TypeOK, Stands
  <2>3. q \in Request /\ Addresses(q)
    BY <1>0, <2>1, <2>2
  <2>4. req' = [req EXCEPT ![r] = q]
    BY <1>4 DEF LockUnplace, Base, TypeOK
  <2>. QED BY <1>4, <2>3, <2>4, StepKeepsBase DEF LockUnplace
<1>. QED BY <1>1, <1>2, <1>3, <1>4

-----------------------------------------------------------------------------
(* The commits: each keeps the rows well formed.                            *)

\* What a founding transaction writes is a group row.
LEMMA FoundedRow ==
  ASSUME NEW t \in Topics, NEW s \in Students, NEW st \in {"FORMING", "SUBMITTED"},
         NEW n \in Nat, NEW open \in BOOLEAN, NEW held \in BOOLEAN
  PROVE  [status |-> st, topic |-> t, leader |-> s, open |-> open,
          declared |-> n, held |-> held] \in GroupRow
  BY DEF GroupRow, Statuses

LEMMA FoundingKeepsRows ==
  ASSUME Base, NEW r \in Requests,
         CommitRegister(r) \/ CommitPlaceInNew(r)
  PROVE  RowsKept /\ Finish(r)
<1>0. req[r] \in Request /\ Addresses(req[r])
  BY DEF Base, TypeOK, RequestsAddress
<1>. DEFINE s == req[r].s  t == req[r].t
<1>1. s \in Students /\ t \in Topics /\ req[r].n \in Nat
  BY <1>0 DEF Addresses, CommitRegister, CommitPlaceInNew, Doing, TopicOps,
              StudentOps, Request
<1>2. PICK g \in Groups, row \in GroupRow :
        /\ group[g].status = "NONE"
        /\ group' = [group EXCEPT ![g] = row]
        /\ row.topic = t /\ row.status \in {"FORMING", "SUBMITTED"}
        /\ accepted' = [accepted EXCEPT ![g] = accepted'[g]]
        /\ accepted'[g] = {s}
        /\ \/ assigned' = assigned
           \/ assigned' = [assigned EXCEPT ![g] = @ \cup {s}]
        /\ UNCHANGED <<phase, topicStatus, declined, sealedWithGaps>>
        /\ Finish(r)
  <2>1. CASE CommitRegister(r)
    <3>. DEFINE row == [status |-> StatusForSeats(1, MaxStudents[t]),
                        topic |-> t, leader |-> s, open |-> TRUE,
                        declared |-> req[r].n, held |-> req[r].n # 0]
    <3>1. (req[r].n # 0) \in BOOLEAN
      OBVIOUS
    <3>2. row \in GroupRow
      BY <1>1, <3>1, StatusForSeatsType, FoundedRow
    <3>3. PICK g \in Groups :
            /\ group[g].status = "NONE"
            /\ group' = [group EXCEPT ![g] = row]
            /\ accepted' = [accepted EXCEPT ![g] = {s}]
      BY <2>1 DEF CommitRegister
    <3>4. accepted'[g] = {s} /\ accepted' = [accepted EXCEPT ![g] = accepted'[g]]
      BY <3>3 DEF Base, TypeOK
    <3>5. row.topic = t /\ row.status \in {"FORMING", "SUBMITTED"}
      BY StatusForSeatsType
    <3>. HIDE DEF row
    <3>. QED BY <2>1, <3>2, <3>3, <3>4, <3>5 DEF CommitRegister
  <2>2. CASE CommitPlaceInNew(r)
    <3>. DEFINE row == [status |-> StatusForSeats(1, MaxStudents[t]), topic |-> t,
                        leader |-> s, open |-> FALSE, declared |-> 0,
                        held |-> FALSE]
    <3>2. row \in GroupRow
      BY <1>1, StatusForSeatsType, FoundedRow
    <3>3. PICK g \in Groups :
            /\ group[g].status = "NONE"
            /\ group' = [group EXCEPT ![g] = row]
            /\ Seat(s, g)
      BY <2>2 DEF CommitPlaceInNew
    <3>4. accepted'[g] = {s} /\ accepted' = [accepted EXCEPT ![g] = accepted'[g]]
      BY <3>3 DEF Base, TypeOK, GroupsStand, Seat
    <3>5. row.topic = t /\ row.status \in {"FORMING", "SUBMITTED"}
      BY StatusForSeatsType
    <3>. HIDE DEF row
    <3>. QED BY <2>2, <3>2, <3>3, <3>4, <3>5 DEF CommitPlaceInNew, Seat
  <2>. QED BY <2>1, <2>2
<1>3. /\ group' \in [Groups -> GroupRow]
      /\ accepted' \in [Groups -> SUBSET Students]
      /\ assigned' \in [Groups -> SUBSET Students]
      /\ UNCHANGED <<phase, topicStatus, declined, sealedWithGaps>>
  BY <1>1, <1>2 DEF Base, TypeOK
<1>4. \A h \in Groups : h # g => /\ group'[h] = group[h]
                                 /\ accepted'[h] = accepted[h]
                                 /\ assigned'[h] = assigned[h]
  BY <1>2 DEF Base, TypeOK
<1>5. /\ group'[g].topic = t /\ group'[g].status \in {"FORMING", "SUBMITTED"}
      /\ accepted'[g] = {s} /\ assigned'[g] \subseteq {s}
  BY <1>2 DEF Base, TypeOK, GroupsStand
<1>6. GroupsStand'
  BY <1>1, <1>3, <1>4, <1>5 DEF GroupsStand, Base
<1>7. \A h \in Groups : Stands(h) => group'[h].status # "NONE"
                                      /\ group'[h].topic = group[h].topic
  BY <1>2, <1>4 DEF Stands
<1>. QED BY <1>2, <1>3, <1>6, <1>7 DEF RowsKept, Base, TypeOK

\* A write to one standing group and to its member rows.
LEMMA GroupWriteKeepsRows ==
  ASSUME Base, NEW g, Stands(g),
         NEW row \in GroupRow, row.status # "NONE", row.topic = group[g].topic,
         NEW A \in SUBSET Students, NEW B \in SUBSET A, NEW D \in SUBSET Students,
         group' = [group EXCEPT ![g] = row],
         accepted' = [accepted EXCEPT ![g] = A],
         assigned' = [assigned EXCEPT ![g] = B],
         declined' = [declined EXCEPT ![g] = D],
         UNCHANGED <<phase, topicStatus, sealedWithGaps>>
  PROVE  RowsKept
<1>1. /\ group' \in [Groups -> GroupRow]
      /\ accepted' \in [Groups -> SUBSET Students]
      /\ assigned' \in [Groups -> SUBSET Students]
      /\ declined' \in [Groups -> SUBSET Students]
  BY DEF Base, TypeOK, Stands
<1>2. \A h \in Groups : h # g => /\ group'[h] = group[h]
                                 /\ accepted'[h] = accepted[h]
                                 /\ assigned'[h] = assigned[h]
                                 /\ declined'[h] = declined[h]
  BY DEF Base, TypeOK
<1>3. group'[g] = row /\ accepted'[g] = A /\ assigned'[g] = B
  BY DEF Base, TypeOK, Stands
<1>4. group[g].topic \in Topics
  BY DEF Base, GroupsStand, Stands
<1>5. GroupsStand'
  <2>1. SUFFICES ASSUME NEW h \in Groups
        PROVE  /\ group'[h].status # "NONE" => group'[h].topic \in Topics
               /\ group'[h].status = "NONE" => accepted'[h] = {} /\ declined'[h] = {}
               /\ assigned'[h] \subseteq accepted'[h]
    BY DEF GroupsStand
  <2>2. CASE h = g
    BY <1>3, <1>4, <2>2
  <2>3. CASE h # g
    BY <1>2, <2>3 DEF Base, GroupsStand
  <2>. QED BY <2>2, <2>3
<1>6. \A h \in Groups : Stands(h) => group'[h].status # "NONE"
                                      /\ group'[h].topic = group[h].topic
  BY <1>2, <1>3 DEF Stands
<1>. QED BY <1>1, <1>5, <1>6 DEF RowsKept, Base, TypeOK

\* The same for a write of the status alone.
LEMMA StatusWriteKeepsRows ==
  ASSUME Base, NEW g, Stands(g), NEW st \in Statuses \ {"NONE"},
         NEW A \in SUBSET Students, NEW B \in SUBSET A, NEW D \in SUBSET Students,
         group' = [group EXCEPT ![g].status = st],
         accepted' = [accepted EXCEPT ![g] = A],
         assigned' = [assigned EXCEPT ![g] = B],
         declined' = [declined EXCEPT ![g] = D],
         UNCHANGED <<phase, topicStatus, sealedWithGaps>>
  PROVE  RowsKept
<1>. DEFINE row == [group[g] EXCEPT !.status = st]
<1>1. row \in GroupRow /\ row.status # "NONE" /\ row.topic = group[g].topic
  BY DEF Base, TypeOK, Stands, GroupRow
<1>2. group' = [group EXCEPT ![g] = row]
  BY DEF Base, TypeOK, Stands
<1>. HIDE DEF row
<1>. QED BY <1>1, <1>2, GroupWriteKeepsRows

\* Writing back what is there.
LEMMA SameMembers ==
  ASSUME Base, NEW g, Stands(g)
  PROVE  /\ accepted = [accepted EXCEPT ![g] = accepted[g]]
         /\ assigned = [assigned EXCEPT ![g] = assigned[g]]
         /\ declined = [declined EXCEPT ![g] = declined[g]]
         /\ accepted[g] \in SUBSET Students /\ declined[g] \in SUBSET Students
         /\ assigned[g] \in SUBSET accepted[g]
  BY DEF Base, TypeOK, GroupsStand, Stands

LEMMA SeatingKeepsRows ==
  ASSUME Base, NEW r \in Requests, CommitJoin(r) \/ CommitPlace(r)
  PROVE  RowsKept /\ Finish(r)
<1>. DEFINE s == req[r].s  g == req[r].g
<1>1. s \in Students /\ Stands(g)
  BY DEF Base, TypeOK, RequestsAddress, Addresses, CommitJoin, CommitPlace, Doing,
         GroupOps, StudentOps
<1>2. PICK st \in {"FORMING", "SUBMITTED"} : group' = [group EXCEPT ![g].status = st]
  BY StatusForSeatsType DEF CommitJoin, CommitPlace
<1>3. accepted' = [accepted EXCEPT ![g] = accepted[g] \cup {s}]
  BY DEF CommitJoin, CommitPlace, Seat
<1>4. PICK B \in SUBSET (accepted[g] \cup {s}) : assigned' = [assigned EXCEPT ![g] = B]
  <2>1. CASE CommitJoin(r)
    BY <1>1, <2>1, SameMembers DEF CommitJoin
  <2>2. CASE CommitPlace(r)
    BY <1>1, <2>2, SameMembers DEF CommitPlace, Seat
  <2>. QED BY <2>1, <2>2
<1>5. declined' = [declined EXCEPT ![g] = declined[g]]
  BY <1>1, SameMembers DEF CommitJoin, CommitPlace
<1>6. UNCHANGED <<phase, topicStatus, sealedWithGaps>> /\ Finish(r)
  BY DEF CommitJoin, CommitPlace
<1>7. /\ accepted[g] \cup {s} \in SUBSET Students
      /\ declined[g] \in SUBSET Students
      /\ st \in Statuses \ {"NONE"}
  BY <1>1, SameMembers DEF Statuses
<1>. QED BY <1>1, <1>2, <1>3, <1>4, <1>5, <1>6, <1>7, StatusWriteKeepsRows

LEMMA DropKeepsRows ==
  ASSUME Base, NEW r \in Requests,
         CommitDrop(r) \/ CommitUnplaceLast(r) \/ CommitUnplace(r)
  PROVE  RowsKept /\ FinishDeleting(r, req[r].g, req[r].s)
<1>. DEFINE s == req[r].s  g == req[r].g
<1>1. s \in Students /\ Stands(g) /\ req[r].seen \in SUBSET Students
  BY DEF Base, TypeOK, RequestsAddress, Addresses, CommitDrop, CommitUnplaceLast,
         CommitUnplace, Unseat, Doing, GroupOps, StudentOps, Request
<1>2. /\ accepted' = [accepted EXCEPT ![g] = accepted[g] \ {s}]
      /\ assigned' = [assigned EXCEPT ![g] = assigned[g] \ {s}]
      /\ declined' = [declined EXCEPT ![g] = declined[g] \ {s}]
      /\ UNCHANGED <<phase, topicStatus, sealedWithGaps>>
      /\ FinishDeleting(r, g, s)
  BY DEF CommitDrop, CommitUnplaceLast, CommitUnplace, Unseat
<1>3. /\ accepted[g] \ {s} \in SUBSET Students
      /\ declined[g] \ {s} \in SUBSET Students
      /\ assigned[g] \ {s} \in SUBSET (accepted[g] \ {s})
  BY <1>1, SameMembers
<1>4. PICK row \in GroupRow :
        /\ group' = [group EXCEPT ![g] = row]
        /\ row.status # "NONE" /\ row.topic = group[g].topic
  <2>0. group[g] \in GroupRow
    BY <1>1 DEF Stands, Base, TypeOK
  <2>1. CASE CommitDrop(r) \/ CommitUnplaceLast(r)
    <3>1. PICK st \in {"FORMING", "SUBMITTED", "REJECTED"} :
            group' = [group EXCEPT ![g].status = st]
      BY <2>1, StatusForSeatsType DEF CommitDrop, CommitUnplaceLast
    <3>. DEFINE row == [group[g] EXCEPT !.status = st]
    <3>2. row \in GroupRow /\ row.status # "NONE" /\ row.topic = group[g].topic
      BY <2>0 DEF GroupRow, Statuses
    <3>3. group' = [group EXCEPT ![g] = row]
      BY <1>1, <3>1 DEF Stands, Base, TypeOK
    <3>. HIDE DEF row
    <3>. QED BY <3>2, <3>3
  <2>2. CASE CommitUnplace(r)
    <3>1. PICK heir \in Students, st \in {"FORMING", "SUBMITTED"} :
            group' = [group EXCEPT ![g].status = st,
                                   ![g].leader = IF req[r].flag THEN heir ELSE @]
      BY <1>1, <2>2, StatusForSeatsType DEF CommitUnplace
    <3>. DEFINE to == IF req[r].flag THEN heir ELSE group[g].leader
                row == [group[g] EXCEPT !.status = st, !.leader = to]
    <3>2. to \in Students \cup {None}
      BY <2>0 DEF GroupRow
    <3>3. row \in GroupRow /\ row.status # "NONE" /\ row.topic = group[g].topic
      BY <2>0, <3>2 DEF GroupRow, Statuses
    <3>4. group' = [group EXCEPT ![g] = row]
      BY <1>1, <3>1 DEF Stands, Base, TypeOK
    <3>. HIDE DEF row
    <3>. QED BY <3>3, <3>4
  <2>. QED BY <2>1, <2>2
<1>. QED BY <1>1, <1>2, <1>3, <1>4, GroupWriteKeepsRows

LEMMA DisbandKeepsRows ==
  ASSUME Base, NEW r \in Requests, CommitDisband(r)
  PROVE  RowsKept /\ Finish(r)
<1>. DEFINE g == req[r].g  rows == req[r].rows
<1>1. Stands(g) /\ rows \in SUBSET Students
  BY DEF Base, TypeOK, RequestsAddress, Addresses, CommitDisband, Doing,
         GroupOps, Request
<1>2. /\ accepted[g] \ rows \in SUBSET Students
      /\ declined[g] \cup rows \in SUBSET Students
      /\ assigned[g] \ rows \in SUBSET (accepted[g] \ rows)
  BY <1>1, SameMembers
<1>3. "REJECTED" \in Statuses \ {"NONE"}
  BY DEF Statuses
<1>. QED BY <1>1, <1>2, <1>3, StatusWriteKeepsRows DEF CommitDisband

LEMMA UpdateKeepsRows ==
  ASSUME Base, NEW r \in Requests, CommitUpdate(r)
  PROVE  RowsKept /\ Finish(r)
<1>. DEFINE q == req[r]
<1>1. q \in Request /\ Addresses(q)
  BY DEF Base, TypeOK, RequestsAddress
<1>2. Stands(q.g)
  BY <1>1 DEF Addresses, CommitUpdate, GroupOps
<1>3. group[q.g] \in GroupRow
  BY <1>2 DEF Stands, Base, TypeOK
<1>4. PICK row \in GroupRow :
        /\ group' = [group EXCEPT ![q.g] = row]
        /\ row.status # "NONE" /\ row.topic = group[q.g].topic
  <2>1. CASE q.op = "handOver"
    <3>. DEFINE row == [group[q.g] EXCEPT !.leader = q.s]
    <3>1. group' = [group EXCEPT ![q.g] = [group[q.g] EXCEPT !.leader = q.s]]
      BY <2>1 DEF CommitUpdate
    <3>2. q.s \in Students
      BY <1>1, <2>1 DEF Addresses, StudentOps
    <3>3. row \in GroupRow /\ row.status = group[q.g].status
            /\ row.topic = group[q.g].topic
      BY <1>1, <1>3, <3>2 DEF GroupRow, Request
    <3>4. group' = [group EXCEPT ![q.g] = row]
      BY <3>1
    <3>. HIDE DEF row
    <3>. QED BY <1>2, <3>3, <3>4 DEF Stands
  <2>2. CASE q.op = "setOpen"
    <3>. DEFINE row == [group[q.g] EXCEPT !.open = q.flag]
    <3>1. group' = [group EXCEPT ![q.g] = [group[q.g] EXCEPT !.open = q.flag]]
      BY <2>2 DEF CommitUpdate
    <3>3. row \in GroupRow /\ row.status = group[q.g].status
            /\ row.topic = group[q.g].topic
      BY <1>1, <1>3 DEF GroupRow, Request
    <3>4. group' = [group EXCEPT ![q.g] = row]
      BY <3>1
    <3>. HIDE DEF row
    <3>. QED BY <1>2, <3>3, <3>4 DEF Stands
  <2>3. CASE q.op = "declare"
    <3>. DEFINE row == [group[q.g] EXCEPT !.declared = q.n]
    <3>1. group' = [group EXCEPT ![q.g] = [group[q.g] EXCEPT !.declared = q.n]]
      BY <2>3 DEF CommitUpdate
    <3>3. row \in GroupRow /\ row.status = group[q.g].status
            /\ row.topic = group[q.g].topic
      BY <1>1, <1>3 DEF GroupRow, Request
    <3>4. group' = [group EXCEPT ![q.g] = row]
      BY <3>1
    <3>. HIDE DEF row
    <3>. QED BY <1>2, <3>3, <3>4 DEF Stands
  <2>4. CASE q.op = "release"
    <3>. DEFINE row == [group[q.g] EXCEPT !.held = FALSE]
    <3>1. group' = [group EXCEPT ![q.g] = [group[q.g] EXCEPT !.held = FALSE]]
      BY <2>4 DEF CommitUpdate
    <3>3. row \in GroupRow /\ row.status = group[q.g].status
            /\ row.topic = group[q.g].topic
      BY <1>1, <1>3 DEF GroupRow, Request
    <3>4. group' = [group EXCEPT ![q.g] = row]
      BY <3>1
    <3>. HIDE DEF row
    <3>. QED BY <1>2, <3>3, <3>4 DEF Stands
  <2>. QED BY <2>1, <2>2, <2>3, <2>4 DEF CommitUpdate
<1>5. UNCHANGED <<phase, topicStatus, sealedWithGaps>> /\ Finish(r)
      /\ UNCHANGED memberVars
  BY DEF CommitUpdate
<1>6. /\ accepted' = [accepted EXCEPT ![q.g] = accepted[q.g]]
      /\ assigned' = [assigned EXCEPT ![q.g] = assigned[q.g]]
      /\ declined' = [declined EXCEPT ![q.g] = declined[q.g]]
  BY <1>2, <1>5, SameMembers DEF memberVars
<1>7. /\ accepted[q.g] \in SUBSET Students /\ declined[q.g] \in SUBSET Students
      /\ assigned[q.g] \in SUBSET accepted[q.g]
  BY <1>2, SameMembers
<1>8. RowsKept
  BY <1>2, <1>4, <1>5, <1>6, <1>7, GroupWriteKeepsRows
<1>. QED BY <1>5, <1>8

\* Writes to the round and to its topics alone.
LEMMA RoundWriteKeepsRows ==
  ASSUME Base, phase' \in Phases, topicStatus' \in [Topics -> TopicStatuses],
         sealedWithGaps' \in BOOLEAN, UNCHANGED <<group, memberVars>>
  PROVE  RowsKept
  BY DEF Base, TypeOK, RowsKept, GroupsStand, memberVars, Stands

LEMMA RowsKeepBase ==
  ASSUME Base, RowsKept, UNCHANGED req
  PROVE  Base'
<1>1. TypeOK'
  BY DEF Base, TypeOK, RowsKept
<1>2. RequestsAddress'
  BY DEF Base, RequestsAddress, Addresses, Stands, RowsKept
<1>. QED BY <1>1, <1>2 DEF Base, RowsKept

LEMMA RoundMovesKeepBase ==
  ASSUME Base, GateOpens \/ GateCloses \/ Extend \/ Unlock \/ BulkOpen
  PROVE  Base'
<1>1. phase' \in Phases
  BY DEF GateOpens, GateCloses, Extend, Unlock, BulkOpen, MovePhase, Phases,
         Base, TypeOK
<1>2. topicStatus' \in [Topics -> TopicStatuses]
  BY DEF GateOpens, GateCloses, Extend, Unlock, BulkOpen, MovePhase, TopicStatuses,
         Base, TypeOK
<1>3. sealedWithGaps' \in BOOLEAN
  BY DEF GateOpens, GateCloses, Extend, Unlock, BulkOpen, MovePhase, Base, TypeOK
<1>4. UNCHANGED <<group, memberVars>> /\ UNCHANGED req
  BY DEF GateOpens, GateCloses, Extend, Unlock, BulkOpen, MovePhase
<1>. QED BY <1>1, <1>2, <1>3, <1>4, RoundWriteKeepsRows, RowsKeepBase

LEMMA HoldLapsesKeepsBase ==
  ASSUME Base, NEW g \in Groups, HoldLapses(g)
  PROVE  Base'
<1>1. Stands(g) \/ group[g].status = "NONE"
  BY DEF Stands
<1>. DEFINE row == [group[g] EXCEPT !.held = FALSE]
<1>2. row \in GroupRow /\ row.status = group[g].status /\ row.topic = group[g].topic
  BY DEF Base, TypeOK, GroupRow
<1>3. group' = [group EXCEPT ![g] = row] /\ UNCHANGED req
      /\ UNCHANGED <<phase, topicStatus, memberVars, sealedWithGaps>>
  BY DEF HoldLapses
<1>. HIDE DEF row
<1>4. group' \in [Groups -> GroupRow]
      /\ \A h \in Groups : /\ group'[h].status = group[h].status
                           /\ group'[h].topic = group[h].topic
  BY <1>2, <1>3 DEF Base, TypeOK
<1>5. RowsKept
  BY <1>3, <1>4 DEF Base, TypeOK, RowsKept, GroupsStand, memberVars, Stands
<1>. QED BY <1>3, <1>5, RowsKeepBase

LEMMA CommitKeepsBase ==
  ASSUME Base, NEW r \in Requests, Commit(r) \/ Refused(r)
  PROVE  Base'
<1>1. CASE CommitFinalize(r) \/ CommitSetStatus(r) \/ Refused(r)
  <2>1. phase' \in Phases
    BY <1>1 DEF CommitFinalize, CommitSetStatus, Refused, Base, TypeOK, Phases
  <2>2. topicStatus' \in [Topics -> TopicStatuses]
    BY <1>1 DEF CommitFinalize, CommitSetStatus, Refused, Base, TypeOK, TopicStatuses
  <2>3. sealedWithGaps' \in BOOLEAN
    <3>1. req[r] \in Request
      BY DEF Base, TypeOK
    <3>. QED BY <1>1, <3>1 DEF CommitFinalize, CommitSetStatus, Refused, Base,
                               TypeOK, Request
  <2>4. UNCHANGED <<group, memberVars>> /\ Finish(r)
    BY <1>1 DEF CommitFinalize, CommitSetStatus, Refused
  <2>. QED BY <2>1, <2>2, <2>3, <2>4, RoundWriteKeepsRows, FinishKeepsBase
<1>2. CASE CommitRegister(r) \/ CommitPlaceInNew(r)
  BY <1>2, FoundingKeepsRows, FinishKeepsBase
<1>3. CASE CommitJoin(r) \/ CommitPlace(r)
  BY <1>3, SeatingKeepsRows, FinishKeepsBase
<1>4. CASE CommitDrop(r) \/ CommitUnplaceLast(r) \/ CommitUnplace(r)
  BY <1>4, DropKeepsRows, FinishDeletingKeepsBase
<1>5. CASE CommitDisband(r)
  BY <1>5, DisbandKeepsRows, FinishKeepsBase
<1>6. CASE CommitUpdate(r)
  BY <1>6, UpdateKeepsRows, FinishKeepsBase
<1>7. CASE DeleteRow(r) \/ DeclineMembers(r) \/ LockTopic(r) \/ LockUnplace(r)
  BY <1>7, InnerStepsKeepBase
<1>. QED
  BY <1>1, <1>2, <1>3, <1>4, <1>5, <1>6, <1>7 DEF Commit

\* Every step keeps types, addressed rows and the shape of the groups.
THEOREM BaseInductive == Base /\ [Next]_vars => Base'
<1>. SUFFICES ASSUME Base, [Next]_vars PROVE Base'
  OBVIOUS
<1>1. ASSUME NEW r \in Requests, Arrive(r) PROVE Base'
  BY <1>1, StudentArrivesKeepsBase, LeaderArrivesKeepsBase, OfficeArrivesKeepsBase
     DEF Arrive
<1>2. ASSUME NEW r \in Requests, Commit(r) \/ Refused(r) PROVE Base'
  BY <1>2, CommitKeepsBase
<1>3. CASE GateOpens \/ GateCloses \/ Extend \/ Unlock \/ BulkOpen
  BY <1>3, RoundMovesKeepBase
<1>4. ASSUME NEW g \in Groups, HoldLapses(g) PROVE Base'
  BY <1>4, HoldLapsesKeepsBase
<1>5. CASE UNCHANGED vars
  <2>1. UNCHANGED <<phase, topicStatus, group, memberVars, sealedWithGaps, req>>
    BY <1>5 DEF vars
  <2>. QED BY <2>1 DEF Base, TypeOK, RequestsAddress, Addresses, Stands,
                       GroupsStand, memberVars
<1>. QED BY <1>1, <1>2, <1>3, <1>4, <1>5 DEF Next

LEMMA BaseInitially == Init => Base
<1>. SUFFICES ASSUME Init PROVE Base
  OBVIOUS
<1>1. TypeOK
  <2>1. NoRow \in GroupRow
    BY DEF NoRow, GroupRow, Statuses
  <2>2. topicStatus \in [Topics -> TopicStatuses]
    BY DEF Init, TopicStatuses
  <2>. QED BY <2>1, <2>2, IdleType DEF Init, TypeOK, Phases
<1>2. RequestsAddress
  BY DEF Init, RequestsAddress, Addresses, Idle, GroupOps, TopicOps, StudentOps
<1>3. GroupsStand
  BY DEF Init, GroupsStand, NoRow
<1>. QED BY <1>1, <1>2, <1>3 DEF Base

\* Type correctness of every reachable state of Registration.
THEOREM RegistrationTypeCorrect == Spec => []TypeOK
<1>1. Base => TypeOK
  BY DEF Base
<1>. QED BY <1>1, BaseInitially, BaseInductive, PTL DEF Spec

-----------------------------------------------------------------------------
(***************************************************************************)
(* The safety of the seats, on top of Base: the two unique indexes keep a   *)
(* student on one topic and a topic to one live group, and the two locks    *)
(* that do not know of each other oversell a topic by one seat at most.     *)
(*                                                                         *)
(* Seated strengthens the bound to be inductive.  A placement between its   *)
(* count and its commit needs to know that its group is still within        *)
(* capacity, which students joining meanwhile respect, and that no other    *)
(* placement is in that position on the same topic, which is the lock.      *)
(***************************************************************************)


Held(r) == req[r].op \in {"seat", "unseat"}

WithinBound(g) ==
  /\ Occupied(g) <= Capacity(g) + 1
  /\ assigned[g] = {} => Occupied(g) <= Capacity(g)

RoomLeft == \A r \in Requests :
  req[r].op = "seat" /\ req[r].g # None => Occupied(req[r].g) <= Capacity(req[r].g)

OneHolder == \A r, q \in Requests :
  r # q /\ Held(r) /\ Held(q) => req[r].t # req[q].t

Seated ==
  /\ \A g \in Groups : Stands(g) => WithinBound(g)
  /\ RoomLeft
  /\ OneHolder

-----------------------------------------------------------------------------
(* What the steps do to members, statuses and locks.                        *)

Founds(r) == CommitRegister(r) \/ CommitPlaceInNew(r)
Enters(r) == CommitJoin(r) \/ CommitPlace(r)

\* The steps of a request that write neither groups nor members.
Quiet(r) ==
  \/ Arrive(r)
  \/ DeleteRow(r) \/ DeclineMembers(r) \/ LockTopic(r) \/ LockUnplace(r)
  \/ CommitFinalize(r) \/ CommitSetStatus(r) \/ Refused(r)

LEMMA QuietWritesNothing ==
  ASSUME NEW r \in Requests, Quiet(r)
  PROVE  UNCHANGED <<group, memberVars>>
<1>1. CASE Arrive(r)
  BY <1>1 DEF Arrive, StudentArrives, RemovalArrives, DisbandArrives,
       SettingsArrive, OfficeArrives, LecturerArrives, CheckRegister, CheckJoin,
       CheckLeave, CheckRemove, CheckDisband, CheckUpdate, CheckHandOver,
       CheckSetOpen, CheckDeclare, CheckRelease, CheckPlace, CheckUnplace,
       CheckFinalize, CheckOffer, CheckTakeBack, Begin
<1>2. CASE ~Arrive(r)
  BY <1>2 DEF Quiet, DeleteRow, DeclineMembers, LockTopic, LockUnplace,
              CommitFinalize, CommitSetStatus, Refused
<1>. QED BY <1>1, <1>2

\* What a step that seats nobody does to the members of the groups.
OnlyShrinks ==
  \A h \in Groups :
    /\ group'[h].status # "NONE" => Stands(h)
    /\ accepted'[h] \subseteq accepted[h]
    /\ assigned'[h] = {} => assigned[h] = {} \/ accepted'[h] # accepted[h]

LEMMA OthersOnlyShrink ==
  ASSUME Base, [Next]_vars, \A r \in Requests : ~Founds(r) /\ ~Enters(r)
  PROVE  OnlyShrinks
<1>1. CASE UNCHANGED <<group, memberVars>>
  BY <1>1 DEF OnlyShrinks, Stands, memberVars
<1>2. ASSUME NEW r \in Requests,
             CommitDrop(r) \/ CommitUnplaceLast(r) \/ CommitUnplace(r)
      PROVE  OnlyShrinks
  <2>. DEFINE s == req[r].s  g == req[r].g
  <2>1. Stands(g)
    BY <1>2 DEF Base, RequestsAddress, Addresses, CommitDrop, CommitUnplaceLast,
                CommitUnplace, Unseat, Doing, GroupOps
  <2>2. /\ accepted' = [accepted EXCEPT ![g] = @ \ {s}]
        /\ assigned' = [assigned EXCEPT ![g] = @ \ {s}]
    BY <1>2 DEF CommitDrop, CommitUnplaceLast, CommitUnplace, Unseat
  <2>3. \A h \in Groups : h # g => group'[h] = group[h]
    BY <1>2 DEF CommitDrop, CommitUnplaceLast, CommitUnplace, Base, TypeOK
  <2>. QED BY <2>1, <2>2, <2>3 DEF OnlyShrinks, Stands, Base, TypeOK, GroupsStand
<1>3. ASSUME NEW r \in Requests, CommitDisband(r)
      PROVE  OnlyShrinks
  <2>. DEFINE g == req[r].g  rows == req[r].rows
  <2>1. Stands(g)
    BY <1>3 DEF Base, RequestsAddress, Addresses, CommitDisband, Doing, GroupOps
  <2>2. /\ accepted' = [accepted EXCEPT ![g] = @ \ rows]
        /\ assigned' = [assigned EXCEPT ![g] = @ \ rows]
        /\ \A h \in Groups : h # g => group'[h] = group[h]
    BY <1>3 DEF CommitDisband, Base, TypeOK
  <2>. QED BY <2>1, <2>2 DEF OnlyShrinks, Stands, Base, TypeOK, GroupsStand
<1>4. ASSUME NEW r \in Requests, CommitUpdate(r)
      PROVE  OnlyShrinks
  <2>. DEFINE g == req[r].g
  <2>1. Stands(g)
    BY <1>4 DEF Base, RequestsAddress, Addresses, CommitUpdate, GroupOps
  <2>2. UNCHANGED memberVars /\ \A h \in Groups : h # g => group'[h] = group[h]
    BY <1>4 DEF CommitUpdate, Base, TypeOK
  <2>. QED BY <2>1, <2>2 DEF OnlyShrinks, Stands, memberVars
<1>5. ASSUME NEW g \in Groups, HoldLapses(g)
      PROVE  OnlyShrinks
  <2>1. UNCHANGED memberVars
        /\ \A h \in Groups : group'[h].status = group[h].status
    BY <1>5 DEF HoldLapses, Base, TypeOK, GroupRow
  <2>. QED BY <2>1 DEF OnlyShrinks, Stands, memberVars
<1>6. ASSUME NEW r \in Requests, Quiet(r) PROVE OnlyShrinks
  BY <1>1, <1>6, QuietWritesNothing
<1>8. CASE GateOpens \/ GateCloses \/ Extend \/ Unlock \/ BulkOpen
  BY <1>1, <1>8 DEF GateOpens, GateCloses, Extend, Unlock, BulkOpen, MovePhase
<1>9. CASE UNCHANGED vars
  BY <1>1, <1>9 DEF vars
<1>. QED
  BY <1>2, <1>3, <1>4, <1>5, <1>6, <1>8, <1>9
     DEF Next, Commit, Founds, Enters, Quiet

\* A student who is seated was on no other group, accepted or left behind.
LEMMA SeatingIsFresh ==
  ASSUME Base, NEW r \in Requests, Founds(r) \/ Enters(r)
  PROVE  \E g \in Groups, s \in Students :
           /\ ~AcceptedSomewhere(s)
           /\ accepted' = [accepted EXCEPT ![g] = accepted[g] \cup {s}]
<1>. DEFINE s == req[r].s
<1>1. s \in Students /\ (Enters(r) => Stands(req[r].g))
  BY DEF Base, RequestsAddress, Addresses, Founds, Enters, CommitRegister,
         CommitPlaceInNew, CommitJoin, CommitPlace, Doing, GroupOps, StudentOps
<1>2. ~AcceptedSomewhere(s)
  BY DEF Founds, Enters, CommitRegister, CommitPlaceInNew, CommitJoin, CommitPlace,
         Seat
<1>3. CASE Enters(r)
  BY <1>1, <1>2, <1>3 DEF Enters, CommitJoin, CommitPlace, Seat, Stands
<1>4. CASE CommitRegister(r)
  <2>1. PICK g \in Groups : group[g].status = "NONE"
                              /\ accepted' = [accepted EXCEPT ![g] = {s}]
    BY <1>4 DEF CommitRegister
  <2>2. accepted[g] \cup {s} = {s}
    BY <2>1 DEF Base, GroupsStand
  <2>. QED BY <1>1, <1>2, <2>1, <2>2
<1>5. CASE CommitPlaceInNew(r)
  BY <1>1, <1>2, <1>5 DEF CommitPlaceInNew, Seat
<1>. QED BY <1>3, <1>4, <1>5 DEF Founds

-----------------------------------------------------------------------------
(* One topic per student.                                                   *)

\* The index over members keeps it in every step.
LEMMA OneTopicInductive ==
  Base /\ OneTopicPerStudent /\ [Next]_vars => OneTopicPerStudent'
<1>. SUFFICES ASSUME Base, OneTopicPerStudent, [Next]_vars
              PROVE  OneTopicPerStudent'
  OBVIOUS
<1>1. CASE \A r \in Requests : ~Founds(r) /\ ~Enters(r)
  <2>1. OnlyShrinks
    BY <1>1, OthersOnlyShrink
  <2>. QED BY <2>1 DEF OnlyShrinks, OneTopicPerStudent
<1>2. CASE \E r \in Requests : Founds(r) \/ Enters(r)
  <2>1. PICK g \in Groups, s \in Students :
          /\ ~AcceptedSomewhere(s)
          /\ accepted' = [accepted EXCEPT ![g] = accepted[g] \cup {s}]
    BY <1>2, SeatingIsFresh
  <2>. QED BY <2>1 DEF OneTopicPerStudent, AcceptedSomewhere, Base, TypeOK
<1>. QED BY <1>1, <1>2

\* However the requests interleave, no student is ever on two topics.
THEOREM OneTopicPerStudentHolds == Spec => []OneTopicPerStudent
<1>1. Init => OneTopicPerStudent
  BY DEF Init, OneTopicPerStudent
<1>. QED BY <1>1, BaseInitially, BaseInductive, OneTopicInductive, PTL DEF Spec

-----------------------------------------------------------------------------
(* One live group per topic.                                                *)

\* What stands keeps standing, on the same topic.
LEMMA TopicsKept ==
  ASSUME Base, [Next]_vars
  PROVE  \A h \in Groups : Stands(h) => /\ group'[h].status # "NONE"
                                        /\ group'[h].topic = group[h].topic
<1>1. CASE UNCHANGED group
  BY <1>1 DEF Stands
<1>2. ASSUME NEW r \in Requests, Commit(r), ~Quiet(r) PROVE RowsKept
  BY <1>2, FoundingKeepsRows, SeatingKeepsRows, DropKeepsRows, DisbandKeepsRows,
     UpdateKeepsRows DEF Commit, Quiet
<1>3. ASSUME NEW r \in Requests, Quiet(r) PROVE UNCHANGED group
  BY <1>3, QuietWritesNothing
<1>4. CASE GateOpens \/ GateCloses \/ Extend \/ Unlock \/ BulkOpen \/ UNCHANGED vars
  BY <1>1, <1>4 DEF GateOpens, GateCloses, Extend, Unlock, BulkOpen, MovePhase, vars
<1>5. ASSUME NEW g \in Groups, HoldLapses(g)
      PROVE  \A h \in Groups : group'[h].status = group[h].status
                                /\ group'[h].topic = group[h].topic
  BY <1>5 DEF HoldLapses, Base, TypeOK, GroupRow
<1>. QED BY <1>1, <1>2, <1>3, <1>4, <1>5 DEF Next, Quiet, RowsKept, Stands

\* A group is live after a step if it was before, or if the index
\* one_live_per_topic let the step write it.
LEMMA IndexGuardsLiveness ==
  ASSUME Base, [Next]_vars, NEW g \in Groups, Live(g)', ~Live(g)
  PROVE  \A h \in Groups \ {g} :
           Live(h)' => Live(h) /\ group'[h].topic # group'[g].topic
<1>1. CASE UNCHANGED group
  BY <1>1 DEF Live
<1>2. ASSUME NEW r \in Requests, Founds(r)
      PROVE  \E f \in Groups : /\ group' = [group EXCEPT ![f] = group'[f]]
                               /\ LiveOn(group'[f].topic) = {}
  <2>. DEFINE s == req[r].s  t == req[r].t  n == req[r].n
  <2>1. LiveOn(t) = {}
    BY <1>2 DEF Founds, CommitRegister, CommitPlaceInNew
  <2>2. \E f \in Groups : \E row \in [status : Statuses, topic : {t}, leader : {s},
                                     open : BOOLEAN, declared : {n, 0},
                                     held : BOOLEAN] :
          group' = [group EXCEPT ![f] = row]
    <3>1. CASE CommitRegister(r)
      <4>. DEFINE row == [status |-> StatusForSeats(1, MaxStudents[t]),
                          topic |-> t, leader |-> s, open |-> TRUE,
                          declared |-> n, held |-> n # 0]
      <4>1. PICK f \in Groups : group' = [group EXCEPT ![f] = row]
        BY <3>1 DEF CommitRegister
      <4>2. (n # 0) \in BOOLEAN /\ StatusForSeats(1, MaxStudents[t]) \in Statuses
        BY StatusForSeatsType DEF Statuses
      <4>. QED BY <4>1, <4>2
    <3>2. CASE CommitPlaceInNew(r)
      <4>. DEFINE row == [status |-> StatusForSeats(1, MaxStudents[t]),
                          topic |-> t, leader |-> s, open |-> FALSE,
                          declared |-> 0, held |-> FALSE]
      <4>1. PICK f \in Groups : group' = [group EXCEPT ![f] = row]
        BY <3>2 DEF CommitPlaceInNew
      <4>2. StatusForSeats(1, MaxStudents[t]) \in Statuses
        BY StatusForSeatsType DEF Statuses
      <4>. QED BY <4>1, <4>2
    <3>. QED BY <1>2, <3>1, <3>2 DEF Founds
  <2>3. PICK f \in Groups,
             row \in [status : Statuses, topic : {t}, leader : {s},
                      open : BOOLEAN, declared : {n, 0}, held : BOOLEAN] :
          group' = [group EXCEPT ![f] = row]
    BY <2>2
  <2>4. group'[f] = row /\ row.topic = t
    BY <2>3 DEF Base, TypeOK
  <2>. QED BY <2>1, <2>3, <2>4
<1>3. CASE \E r \in Requests : Founds(r)
  BY <1>2, <1>3 DEF Live, LiveOn, Base, TypeOK
<1>4. ASSUME NEW r \in Requests,
             CommitDrop(r) \/ CommitUnplace(r) \/ CommitPlace(r)
      PROVE  /\ IndexAllowsLive(req[r].g)
             /\ \A h \in Groups : h # req[r].g => group'[h] = group[h]
  BY <1>4 DEF CommitDrop, CommitUnplace, CommitPlace, Base, TypeOK
<1>5. CASE \E r \in Requests : CommitDrop(r) \/ CommitUnplace(r) \/ CommitPlace(r)
  <2>1. PICK r \in Requests : CommitDrop(r) \/ CommitUnplace(r) \/ CommitPlace(r)
    BY <1>5
  <2>2. Stands(req[r].g)
    BY <2>1 DEF Base, RequestsAddress, Addresses, CommitDrop, CommitUnplace,
                CommitPlace, Unseat, Doing, GroupOps
  <2>3. group'[req[r].g].topic = group[req[r].g].topic
    BY <2>2, TopicsKept DEF Stands
  <2>4. g = req[r].g
    BY <1>4, <2>1 DEF Live
  <2>. QED BY <1>4, <2>1, <2>3, <2>4 DEF IndexAllowsLive, LiveOn, Live
<1>6. ASSUME NEW r \in Requests,
             \/ CommitJoin(r) \/ CommitUpdate(r) \/ CommitDisband(r)
             \/ CommitUnplaceLast(r)
      PROVE  \A h \in Groups : Live(h)' => Live(h)
  <2>1. CASE CommitJoin(r)
    BY <2>1 DEF CommitJoin, Joinable, Live, Base, TypeOK
  <2>2. CASE CommitDisband(r) \/ CommitUnplaceLast(r)
    BY <2>2 DEF CommitDisband, CommitUnplaceLast, Live, Base, TypeOK, GroupRow
  <2>3. CASE CommitUpdate(r)
    BY <2>3 DEF CommitUpdate, Live, Base, TypeOK, GroupRow
  <2>. QED BY <1>6, <2>1, <2>2, <2>3
<1>7. ASSUME NEW f \in Groups, HoldLapses(f)
      PROVE  \A h \in Groups : Live(h)' => Live(h)
  BY <1>7 DEF HoldLapses, Live, Base, TypeOK, GroupRow
<1>8. ASSUME NEW r \in Requests, Quiet(r) PROVE UNCHANGED group
  BY <1>8, QuietWritesNothing
<1>9. CASE GateOpens \/ GateCloses \/ Extend \/ Unlock \/ BulkOpen \/ UNCHANGED vars
  BY <1>1, <1>9 DEF GateOpens, GateCloses, Extend, Unlock, BulkOpen, MovePhase, vars
<1>. QED
  BY <1>1, <1>3, <1>5, <1>6, <1>7, <1>8, <1>9 DEF Next, Commit, Founds, Quiet

\* The index over live groups keeps it in every step.
LEMMA OneLiveGroupInductive ==
  Base /\ OneLiveGroupPerTopic /\ [Next]_vars => OneLiveGroupPerTopic'
<1>. SUFFICES ASSUME Base, OneLiveGroupPerTopic, [Next]_vars,
                     NEW g \in Groups, NEW h \in Groups,
                     Live(g)', Live(h)', group'[g].topic = group'[h].topic
              PROVE  g = h
  BY DEF OneLiveGroupPerTopic
<1>1. CASE Live(g) /\ Live(h)
  BY <1>1, TopicsKept DEF OneLiveGroupPerTopic, Live, Stands
<1>2. CASE ~Live(g)
  BY <1>2, IndexGuardsLiveness
<1>3. CASE ~Live(h)
  BY <1>3, IndexGuardsLiveness
<1>. QED BY <1>1, <1>2, <1>3

\* However register, join, leave, disband, place and unplace interleave, two
\* live groups never hold the same topic.
THEOREM OneLiveGroupPerTopicHolds == Spec => []OneLiveGroupPerTopic
<1>1. Init => OneLiveGroupPerTopic
  BY DEF Init, OneLiveGroupPerTopic, Live, NoRow
<1>. QED BY <1>1, BaseInitially, BaseInductive, OneLiveGroupInductive, PTL DEF Spec

-----------------------------------------------------------------------------
(* Seats and capacity.                                                      *)

\* Counting one student more, and counting fewer.
LEMMA OneMore ==
  ASSUME NEW S \in SUBSET Students, NEW s \in Students
  PROVE  /\ Cardinality(S) \in Nat /\ Cardinality(S \cup {s}) \in Nat
         /\ Cardinality(S \cup {s}) <= Cardinality(S) + 1
<1>1. IsFiniteSet(S) /\ Cardinality(S) \in Nat
  BY CountsAreNat
<1>2. Cardinality(S \cup {s}) = IF s \in S THEN Cardinality(S) ELSE Cardinality(S) + 1
  BY <1>1, FS_AddElement
<1>. QED BY <1>1, <1>2

LEMMA Fewer ==
  ASSUME NEW S \in SUBSET Students, NEW T \in SUBSET S
  PROVE  /\ Cardinality(S) \in Nat /\ Cardinality(T) \in Nat
         /\ Cardinality(T) <= Cardinality(S)
         /\ T # S => Cardinality(T) + 1 <= Cardinality(S)
<1>1. IsFiniteSet(S) /\ Cardinality(S) \in Nat /\ Cardinality(T) \in Nat
  <2>1. T \in SUBSET Students
    OBVIOUS
  <2>. QED BY <2>1, CountsAreNat
<1>2. Cardinality(T) <= Cardinality(S) /\ (Cardinality(S) = Cardinality(T) => S = T)
  BY <1>1, FS_Subset
<1>. QED BY <1>1, <1>2

\* A request holds a topic's lock after a step only if it did before, on the
\* same rows, unless the step is the one that takes the lock.
LEMMA LocksKept ==
  ASSUME Base, [Next]_vars,
         NEW q \in Requests, Held(q)', ~LockTopic(q), ~LockUnplace(q)
  PROVE  /\ req'[q].op = req[q].op
         /\ req'[q].g = req[q].g /\ req'[q].t = req[q].t
<1>. USE DEF Held
<1>1. CASE UNCHANGED req
  BY <1>1
<1>2. ASSUME NEW r \in Requests, Arrive(r)
      PROVE  req'[q].op = req[q].op /\ req'[q] = req[q]
  <2>. DEFINE Unheld == /\ \A x \in Requests \ {r} : req'[x] = req[x]
                        /\ req'[r].op \notin {"seat", "unseat"}
  <2>1. ASSUME NEW p, Begin(r, p), p.op \notin {"seat", "unseat"} PROVE Unheld
    BY <2>1 DEF Begin, Base, TypeOK
  <2>. HIDE DEF Unheld
  <2>2. ASSUME NEW s, NEW t, NEW n, CheckRegister(r, s, t, n) PROVE Unheld
    BY <2>1, <2>2 DEF CheckRegister, Idle
  <2>3. ASSUME NEW s, NEW g, NEW link, CheckJoin(r, s, g, link) PROVE Unheld
    BY <2>1, <2>3 DEF CheckJoin, Idle
  <2>4. ASSUME NEW s, NEW g, CheckLeave(r, s, g) PROVE Unheld
    BY <2>1, <2>4 DEF CheckLeave, DropRequest, Idle
  <2>5. ASSUME NEW l, NEW s, NEW g, CheckRemove(r, l, s, g) PROVE Unheld
    BY <2>1, <2>5 DEF CheckRemove, DropRequest, Idle
  <2>6. ASSUME NEW g, CheckDisband(r, g) PROVE Unheld
    BY <2>1, <2>6 DEF CheckDisband, Idle
  <2>7. ASSUME NEW s, NEW g, CheckHandOver(r, s, g) PROVE Unheld
    BY <2>1, <2>7 DEF CheckHandOver, Idle
  <2>8. ASSUME NEW s, NEW g, CheckSetOpen(r, s, g) PROVE Unheld
    BY <2>1, <2>8 DEF CheckSetOpen, Idle
  <2>9. ASSUME NEW s, NEW g, CheckDeclare(r, s, g) PROVE Unheld
    BY <2>1, <2>9 DEF CheckDeclare, Idle
  <2>10. ASSUME NEW s, NEW g, CheckRelease(r, s, g) PROVE Unheld
    BY <2>1, <2>10 DEF CheckRelease, Idle
  <2>11. ASSUME NEW s, NEW t, CheckPlace(r, s, t) PROVE Unheld
    BY <2>1, <2>11 DEF CheckPlace, Idle
  <2>12. ASSUME NEW s, NEW g, CheckUnplace(r, s, g) PROVE Unheld
    BY <2>1, <2>12 DEF CheckUnplace, Idle
  <2>13. ASSUME NEW acknowledged, CheckFinalize(r, acknowledged) PROVE Unheld
    BY <2>1, <2>13 DEF CheckFinalize, Idle
  <2>14. ASSUME NEW t, CheckOffer(r, t) \/ CheckTakeBack(r, t) PROVE Unheld
    BY <2>1, <2>14 DEF CheckOffer, CheckTakeBack, Idle
  <2>15. Unheld
    BY <1>2, <2>2, <2>3, <2>4, <2>5, <2>6, <2>7, <2>8, <2>9, <2>10, <2>11, <2>12,
       <2>13, <2>14 DEF Arrive, StudentArrives, RemovalArrives, DisbandArrives,
       SettingsArrive, CheckUpdate, OfficeArrives, LecturerArrives
  <2>. QED BY <2>15 DEF Unheld
<1>3. ASSUME NEW r \in Requests, Finish(r) PROVE req'[q] = req[q]
  BY <1>3 DEF Finish, Idle, Base, TypeOK
<1>4. ASSUME NEW r \in Requests, FinishDeleting(r, req[r].g, req[r].s)
      PROVE  /\ req'[q].op = req[q].op
             /\ req'[q].g = req[q].g /\ req'[q].t = req[q].t
  BY <1>4 DEF FinishDeleting, Idle, Base, TypeOK, Request
<1>5. ASSUME NEW r \in Requests,
             DeleteRow(r) \/ DeclineMembers(r) \/ LockTopic(r) \/ LockUnplace(r)
      PROVE  req'[q] = req[q]
  <2>1. CASE DeleteRow(r) \/ DeclineMembers(r)
    BY <2>1 DEF DeleteRow, DeclineMembers, Base, TypeOK, Request
  <2>2. CASE LockTopic(r) \/ LockUnplace(r)
    BY <2>2 DEF LockTopic, LockUnplace, Base, TypeOK, Request
  <2>. QED BY <1>5, <2>1, <2>2
<1>6. ASSUME NEW r \in Requests, Commit(r) \/ Refused(r)
      PROVE  \/ Finish(r) \/ FinishDeleting(r, req[r].g, req[r].s)
             \/ DeleteRow(r) \/ DeclineMembers(r) \/ LockTopic(r) \/ LockUnplace(r)
  BY <1>6 DEF Commit, Refused, CommitRegister, CommitJoin, CommitUpdate, CommitDrop,
       CommitDisband, CommitPlaceInNew, CommitPlace, CommitUnplaceLast,
       CommitUnplace, Unseat, CommitFinalize, CommitSetStatus
<1>7. CASE \/ GateOpens \/ GateCloses \/ Extend \/ Unlock \/ BulkOpen
           \/ UNCHANGED vars \/ \E g \in Groups : HoldLapses(g)
  BY <1>1, <1>7 DEF GateOpens, GateCloses, Extend, Unlock, BulkOpen, MovePhase,
                    HoldLapses, vars
<1>. QED BY <1>1, <1>2, <1>3, <1>4, <1>5, <1>6, <1>7 DEF Next

\* The topic's row lock has one holder at a time.
LEMMA OneHolderInductive ==
  Base /\ OneHolder /\ [Next]_vars => OneHolder'
<1>. SUFFICES ASSUME Base, OneHolder, [Next]_vars, NEW r \in Requests,
                     NEW q \in Requests, r # q, Held(r)', Held(q)'
              PROVE  req'[r].t # req'[q].t
  BY DEF OneHolder
<1>1. ASSUME NEW x \in Requests, LockTopic(x) \/ LockUnplace(x),
             NEW y \in Requests \ {x}, Held(y)'
      PROVE  req'[x].t # req'[y].t
  <2>1. TopicFree(x, req[x].t)
    BY <1>1 DEF LockTopic, LockUnplace
  <2>2. req'[x].t = req[x].t /\ req'[y] = req[y]
    <3>1. CASE LockTopic(x)
      BY <3>1 DEF LockTopic, Base, TypeOK, Request
    <3>2. CASE LockUnplace(x)
      BY <3>2 DEF LockUnplace, Base, TypeOK, Request
    <3>. QED BY <1>1, <3>1, <3>2
  <2>. QED BY <1>1, <2>1, <2>2 DEF TopicFree, Held
<1>2. CASE LockTopic(r) \/ LockUnplace(r) \/ LockTopic(q) \/ LockUnplace(q)
  BY <1>1, <1>2
<1>3. CASE ~(LockTopic(r) \/ LockUnplace(r) \/ LockTopic(q) \/ LockUnplace(q))
  <2>1. /\ req'[r].t = req[r].t /\ req'[r].op = req[r].op
        /\ req'[q].t = req[q].t /\ req'[q].op = req[q].op
    BY <1>3, LocksKept
  <2>. QED BY <2>1 DEF OneHolder, Held
<1>. QED BY <1>2, <1>3

\* A topic seats at least one student.
LEMMA CapacityPositive ==
  ASSUME Base, NEW g \in Groups, group[g].status # "NONE"
  PROVE  Capacity(g) \in Nat /\ Capacity(g) >= 1
<1>1. group[g].topic \in Topics
  BY DEF Base, GroupsStand
<1>. QED BY <1>1, SeatsAssumption DEF Capacity

\* A step that seats nobody lowers the counts, or leaves them.
LEMMA ShrinkingCounts ==
  ASSUME Base, [Next]_vars, OnlyShrinks, NEW g \in Groups, group'[g].status # "NONE"
  PROVE  /\ Stands(g)
         /\ Capacity(g)' = Capacity(g) /\ Capacity(g) \in Nat
         /\ Occupied(g) \in Nat /\ Occupied(g)' \in Nat
         /\ Occupied(g)' <= Occupied(g)
         /\ accepted'[g] # accepted[g] => Occupied(g)' + 1 <= Occupied(g)
<1>1. Stands(g) /\ accepted'[g] \in SUBSET accepted[g]
  BY DEF OnlyShrinks
<1>2. accepted[g] \in SUBSET Students
  BY DEF Base, TypeOK
<1>3. group'[g].topic = group[g].topic
  BY <1>1, TopicsKept
<1>4. Capacity(g) \in Nat
  BY <1>1, CapacityPositive DEF Stands
<1>. QED BY <1>1, <1>2, <1>3, <1>4, Fewer DEF Occupied, Capacity

\* The rows of a group and of its members stay as they are.
Same(h) == /\ group'[h] = group[h]
           /\ accepted'[h] = accepted[h] /\ assigned'[h] = assigned[h]

\* A step that founds a group seats one student, in a group that had none.
LEMMA FoundingCounts ==
  ASSUME Base, NEW x \in Requests, Founds(x)
  PROVE  \E f \in Groups :
           /\ group[f].status = "NONE" /\ accepted'[f] # accepted[f]
           /\ Occupied(f)' = 1
           /\ group'[f].status # "NONE" => Capacity(f)' \in Nat /\ Capacity(f)' >= 1
           /\ \A h \in Groups \ {f} : Same(h)
<1>. DEFINE s == req[x].s  t == req[x].t
<1>1. s \in Students /\ RowsKept
  BY FoundingKeepsRows
     DEF Founds, Base, RequestsAddress, Addresses, CommitRegister, CommitPlaceInNew,
         Doing, StudentOps
<1>2. PICK f \in Groups : /\ group[f].status = "NONE" /\ accepted'[f] = {s}
                          /\ \A h \in Groups \ {f} : Same(h)
  <2>1. CASE CommitRegister(x)
    <3>. DEFINE row == [status |-> StatusForSeats(1, MaxStudents[t]), topic |-> t,
                        leader |-> s, open |-> TRUE, declared |-> req[x].n,
                        held |-> req[x].n # 0]
    <3>1. PICK f \in Groups : /\ group[f].status = "NONE"
                              /\ group' = [group EXCEPT ![f] = row]
                              /\ accepted' = [accepted EXCEPT ![f] = {s}]
                              /\ assigned' = assigned
      BY <2>1 DEF CommitRegister
    <3>. HIDE DEF row
    <3>. QED BY <3>1 DEF Same, Base, TypeOK
  <2>2. CASE CommitPlaceInNew(x)
    <3>. DEFINE row == [status |-> StatusForSeats(1, MaxStudents[t]), topic |-> t,
                        leader |-> s, open |-> FALSE, declared |-> 0,
                        held |-> FALSE]
    <3>1. PICK f \in Groups : group[f].status = "NONE" /\ Seat(s, f)
                              /\ group' = [group EXCEPT ![f] = row]
      BY <2>2 DEF CommitPlaceInNew
    <3>. HIDE DEF row
    <3>2. accepted[f] = {}
      BY <3>1 DEF Base, GroupsStand
    <3>. QED BY <3>1, <3>2 DEF Same, Seat, Base, TypeOK
  <2>. QED BY <2>1, <2>2 DEF Founds
<1>3. accepted[f] = {}
  BY <1>2 DEF Base, GroupsStand
<1>4. Occupied(f)' = 1
  BY <1>2, FS_Singleton DEF Occupied
<1>5. group'[f].status # "NONE" => Capacity(f)' \in Nat /\ Capacity(f)' >= 1
  BY <1>1, SeatsAssumption DEF RowsKept, GroupsStand, Capacity
<1>. QED BY <1>2, <1>3, <1>4, <1>5

\* Joining and being placed raise one group's count by one.
LEMMA EnteringCounts ==
  ASSUME Base, [Next]_vars, NEW x \in Requests, Enters(x)
  PROVE  \E f \in Groups :
           /\ f = req[x].g /\ group[f].status # "NONE" /\ accepted'[f] # accepted[f]
           /\ Capacity(f)' = Capacity(f) /\ Capacity(f) \in Nat
           /\ Occupied(f) \in Nat /\ Occupied(f)' \in Nat
           /\ Occupied(f)' <= Occupied(f) + 1
           /\ CommitJoin(x) => Occupied(f) < Capacity(f)
           /\ CommitPlace(x) => assigned'[f] # {}
           /\ \A h \in Groups \ {f} : Same(h)
<1>. DEFINE s == req[x].s
<1>1. s \in Students /\ Stands(req[x].g)
  BY DEF Enters, Base, RequestsAddress, Addresses, CommitJoin, CommitPlace,
         Doing, StudentOps, GroupOps
<1>2. PICK f \in Groups : f = req[x].g /\ group[f].status # "NONE"
  BY <1>1 DEF Stands
<1>3. /\ accepted'[f] = accepted[f] \cup {s} /\ s \notin accepted[f]
      /\ \A h \in Groups \ {f} : Same(h)
      /\ CommitPlace(x) => s \in assigned'[f]
  BY <1>2 DEF Enters, CommitJoin, CommitPlace, Seat, AcceptedSomewhere, Same,
              Base, TypeOK
<1>4. accepted[f] \in SUBSET Students /\ group'[f].topic = group[f].topic
  BY <1>2, TopicsKept DEF Base, TypeOK, Stands
<1>5. CommitJoin(x) => Occupied(f) < Capacity(f)
  BY <1>2 DEF CommitJoin, Joinable
<1>6. /\ Capacity(f)' = Capacity(f) /\ Capacity(f) \in Nat
      /\ Occupied(f) \in Nat /\ Occupied(f)' \in Nat
      /\ Occupied(f)' <= Occupied(f) + 1
  BY <1>1, <1>2, <1>3, <1>4, OneMore, CapacityPositive DEF Occupied, Capacity
<1>. QED BY <1>2, <1>3, <1>5, <1>6

\* A placement counts with room left, or has counted before.
LEMMA PlacementsCount ==
  ASSUME Base, [Next]_vars, NEW r \in Requests, NEW g \in Groups,
         req'[r].op = "seat", req'[r].g = g
  PROVE  /\ g # None /\ group'[g].status # "NONE"
         /\ \/ /\ LockTopic(r) /\ UNCHANGED <<group, memberVars>>
               /\ Occupied(g) < Capacity(g)
            \/ req[r].op = "seat" /\ req[r].g = g
<1>1. g # None
  BY NoneIsNone
<1>2. group'[g].status # "NONE"
  <2>1. Addresses(req[r])'
    BY BaseInductive DEF Base, RequestsAddress
  <2>. QED BY <1>1, <2>1 DEF Addresses, Stands
<1>3. CASE LockTopic(r)
  <2>. DEFINE t == req[r].t
  <2>1. PICK h \in (IF LiveOn(t) = {} THEN {None} ELSE LiveOn(t)) :
          LET n == IF h = None THEN 0 ELSE Occupied(h) IN
          /\ n < MaxStudents[t]
          /\ req' = [req EXCEPT ![r].op = "seat", ![r].g = h, ![r].n = n]
    BY <1>3 DEF LockTopic
  <2>2. h = g
    BY <2>1 DEF Base, TypeOK, Request
  <2>3. g \in LiveOn(t) /\ Occupied(g) < MaxStudents[t]
    BY <1>1, <2>1, <2>2
  <2>4. Occupied(g) < Capacity(g)
    BY <2>3 DEF LiveOn, Capacity
  <2>. QED BY <1>1, <1>2, <1>3, <2>4 DEF LockTopic
<1>4. CASE ~LockTopic(r)
  <2>1. ~LockUnplace(r)
    BY DEF LockUnplace, Base, TypeOK, Request
  <2>. QED BY <1>1, <1>2, <1>4, <2>1, LocksKept DEF Held
<1>. QED BY <1>3, <1>4

\* The topic's lock: while one placement commits no other one has counted.
LEMMA OnePlacement ==
  ASSUME Base, OneHolder, NEW x \in Requests, CommitPlace(x), NEW r \in Requests,
         req'[r].op = "seat", req[r].op = "seat"
  PROVE  req[r].g # req[x].g
<1>1. x # r
  BY DEF CommitPlace, Finish, Idle, Base, TypeOK
<1>2. req[x].op = "seat" /\ req[x].g # None
  BY DEF CommitPlace, Doing
<1>. QED BY <1>1, <1>2 DEF Base, RequestsAddress, Addresses, OneHolder, Held

\* Counts that stay within the bounds in every kind of step.
LEMMA BoundsKept ==
  ASSUME Base, Seated, [Next]_vars, NEW g \in Groups, group'[g].status # "NONE"
  PROVE  WithinBound(g)'
<1>1. CASE OnlyShrinks
  <2>1. WithinBound(g)
    BY <1>1, ShrinkingCounts DEF Seated
  <2>2. assigned'[g] = {} => assigned[g] = {} \/ accepted'[g] # accepted[g]
    BY <1>1 DEF OnlyShrinks
  <2>. QED BY <1>1, <2>1, <2>2, ShrinkingCounts DEF WithinBound
<1>2. ASSUME NEW x \in Requests, Founds(x) PROVE WithinBound(g)'
  <2>1. PICK f \in Groups :
           /\ Occupied(f)' = 1
           /\ group'[f].status # "NONE" => Capacity(f)' \in Nat /\ Capacity(f)' >= 1
           /\ \A h \in Groups \ {f} : Same(h)
    BY <1>2, FoundingCounts
  <2>. QED BY <2>1 DEF Same, Seated, Stands, WithinBound, Occupied, Capacity
<1>3. ASSUME NEW x \in Requests, Enters(x) PROVE WithinBound(g)'
  <2>1. PICK f \in Groups :
           /\ f = req[x].g /\ group[f].status # "NONE"
           /\ Capacity(f)' = Capacity(f) /\ Capacity(f) \in Nat
           /\ Occupied(f) \in Nat /\ Occupied(f)' \in Nat
           /\ Occupied(f)' <= Occupied(f) + 1
           /\ CommitJoin(x) => Occupied(f) < Capacity(f)
           /\ CommitPlace(x) => assigned'[f] # {}
           /\ \A h \in Groups \ {f} : Same(h)
    BY <1>3, EnteringCounts
  <2>2. CASE g # f
    BY <2>1, <2>2 DEF Same, Seated, Stands, WithinBound, Occupied, Capacity
  <2>3. CASE g = f /\ CommitJoin(x)
    BY <2>1, <2>3 DEF WithinBound
  <2>4. CASE g = f /\ CommitPlace(x)
    <3>1. Occupied(f) <= Capacity(f)
      BY <2>1, <2>4 DEF CommitPlace, Doing, Seated, RoomLeft
    <3>. QED BY <2>1, <2>4, <3>1 DEF WithinBound
  <2>. QED BY <1>3, <2>2, <2>3, <2>4 DEF Enters
<1>. QED BY <1>1, <1>2, <1>3, OthersOnlyShrink

\* Students who join between a placement's count and its commit leave it one
\* seat beyond the topic's last, and no other placement is there to take it.
LEMMA RoomLeftKept ==
  ASSUME Base, Seated, [Next]_vars
  PROVE  RoomLeft'
<1>. SUFFICES ASSUME NEW r \in Requests, NEW g \in Groups,
                     req'[r].op = "seat", req'[r].g = g
              PROVE  Occupied(g)' <= Capacity(g)'
  <2>1. TypeOK'
    BY BaseInductive DEF Base
  <2>2. \A r \in Requests : req'[r].g # None => req'[r].g \in Groups
    BY <2>1 DEF TypeOK, Request
  <2>. QED BY <2>2 DEF RoomLeft, Occupied, Capacity
<1>1. CASE LockTopic(r) /\ UNCHANGED <<group, memberVars>> /\ Occupied(g) < Capacity(g)
  <2>1. Occupied(g)' = Occupied(g) /\ Capacity(g)' = Capacity(g)
    BY <1>1 DEF Occupied, Capacity, memberVars
  <2>2. Occupied(g) \in Nat /\ Capacity(g) \in Nat
    BY <1>1, PlacementsCount, CapacityPositive, CountsAreNat
       DEF Occupied, Base, TypeOK
  <2>. QED BY <1>1, <2>1, <2>2
<1>2. CASE req[r].op = "seat" /\ req[r].g = g
  <2>0. Occupied(g) <= Capacity(g) /\ group'[g].status # "NONE"
        /\ group[g].status # "NONE"
    BY <1>2, PlacementsCount
       DEF Seated, RoomLeft, Base, RequestsAddress, Addresses, Stands
  <2>1. CASE OnlyShrinks
    BY <2>0, <2>1, ShrinkingCounts
  <2>2. ASSUME NEW x \in Requests, Founds(x) PROVE Occupied(g)' <= Capacity(g)'
    BY <2>0, <2>2, FoundingCounts DEF Same, Occupied, Capacity
  <2>3. ASSUME NEW x \in Requests, Enters(x) PROVE Occupied(g)' <= Capacity(g)'
    <3>1. PICK f \in Groups :
             /\ f = req[x].g
             /\ Capacity(f)' = Capacity(f) /\ Capacity(f) \in Nat
             /\ Occupied(f) \in Nat /\ Occupied(f)' \in Nat
             /\ Occupied(f)' <= Occupied(f) + 1
             /\ CommitJoin(x) => Occupied(f) < Capacity(f)
             /\ \A h \in Groups \ {f} : Same(h)
      BY <2>3, EnteringCounts
    <3>2. CommitPlace(x) => g # f
      BY <1>2, <3>1, OnePlacement DEF Seated
    <3>. QED BY <2>0, <2>3, <3>1, <3>2 DEF Enters, Same, Occupied, Capacity
  <2>. QED BY <2>1, <2>2, <2>3, OthersOnlyShrink
<1>. QED BY <1>1, <1>2, PlacementsCount

\* Every step keeps the bounds and what they rest on.
LEMMA SeatedInductive == Base /\ Seated /\ [Next]_vars => Seated'
<1>. SUFFICES ASSUME Base, Seated, [Next]_vars PROVE Seated'
  OBVIOUS
<1>1. OneHolder' /\ RoomLeft'
  BY OneHolderInductive, RoomLeftKept DEF Seated
<1>2. \A g \in Groups : Stands(g)' => WithinBound(g)'
  BY BoundsKept DEF Stands
<1>. QED BY <1>1, <1>2 DEF Seated

LEMMA SeatedInitially == Init => Seated
  BY DEF Init, Seated, RoomLeft, OneHolder, Held, Stands, NoRow, Idle

\* Whatever the two locks let through, no topic seats two students too many.
THEOREM OvershootAtMostOneHolds == Spec => []OvershootAtMostOne
<1>1. Seated => OvershootAtMostOne
  BY DEF Seated, WithinBound, OvershootAtMostOne, Stands
<1>. QED
  BY <1>1, BaseInitially, BaseInductive, SeatedInitially, SeatedInductive, PTL
     DEF Spec

\* Students among themselves never overfill a topic.
THEOREM SelfServeWithinCapacityHolds == Spec => []SelfServeWithinCapacity
<1>1. Seated => SelfServeWithinCapacity
  BY DEF Seated, WithinBound, SelfServeWithinCapacity, Stands
<1>. QED
  BY <1>1, BaseInitially, BaseInductive, SeatedInitially, SeatedInductive, PTL
     DEF Spec

-----------------------------------------------------------------------------
(***************************************************************************)
(* When no request straddles a change of phase, the gate keeps students and *)
(* the faculty office apart and no topic is ever oversold.                  *)
(*                                                                         *)
(* The two services serialise on different rows: addMember on the group,    *)
(* place on the topic.  InPhase says that a registration in flight means an *)
(* open gate and a placement in flight a closed one, so the two never meet; *)
(* SeatKept says that a placement still finds the seat it counted.          *)
(***************************************************************************)

InPhase == \A r \in Requests :
  /\ req[r].op \in {"register", "join"} => phase \in {"OPEN", "EXTENDED"}
  /\ req[r].op \in {"place", "seat"} => phase \in {"RECONCILING", "FINALIZED"}

SeatKept == \A r \in Requests :
  req[r].op = "seat" /\ req[r].g # None => Occupied(req[r].g) < Capacity(req[r].g)

Tight == InPhase /\ SeatKept /\ SeatsWithinCapacity

\* Where the phase stays, a request is in one of these steps because it was, or
\* because a check in that phase, or the lock after it, let it in.
LEMMA EntersInPhase ==
  ASSUME Base, [Next]_vars, NEW q \in Requests,
         req'[q].op \in {"register", "join", "place", "seat"}
  PROVE  \/ req'[q].op = req[q].op
         \/ req'[q].op = "seat" /\ req[q].op = "place"
         \/ /\ phase' = phase
            /\ req'[q].op \in {"register", "join"} => phase \in {"OPEN", "EXTENDED"}
            /\ req'[q].op \in {"place", "seat"} => phase = "RECONCILING"
<1>. DEFINE Goal == \/ req'[q].op = req[q].op
                    \/ req'[q].op = "seat" /\ req[q].op = "place"
                    \/ /\ phase' = phase
                       /\ req'[q].op \in {"register", "join"}
                            => phase \in {"OPEN", "EXTENDED"}
                       /\ req'[q].op \in {"place", "seat"} => phase = "RECONCILING"
<1>1. CASE UNCHANGED req
  BY <1>1
<1>2. ASSUME NEW r \in Requests, Finish(r) PROVE Goal
  BY <1>2 DEF Finish, Idle, Base, TypeOK
<1>3. ASSUME NEW r \in Requests, FinishDeleting(r, req[r].g, req[r].s) PROVE Goal
  BY <1>3 DEF FinishDeleting, Idle, Base, TypeOK, Request
<1>4. ASSUME NEW r \in Requests, DeleteRow(r) \/ DeclineMembers(r) PROVE Goal
  BY <1>4 DEF DeleteRow, DeclineMembers, Base, TypeOK, Request
<1>5. ASSUME NEW r \in Requests, LockTopic(r) \/ LockUnplace(r) PROVE Goal
  <2>1. CASE LockTopic(r)
    BY <2>1 DEF LockTopic, Doing, Base, TypeOK, Request
  <2>2. CASE LockUnplace(r)
    BY <2>2 DEF LockUnplace, Doing, Base, TypeOK, Request
  <2>. QED BY <1>5, <2>1, <2>2
<1>6. ASSUME NEW r \in Requests, Commit(r) \/ Refused(r) PROVE Goal
  <2>1. \/ Finish(r) \/ FinishDeleting(r, req[r].g, req[r].s)
        \/ DeleteRow(r) \/ DeclineMembers(r) \/ LockTopic(r) \/ LockUnplace(r)
    BY <1>6 DEF Commit, Refused, CommitRegister, CommitJoin, CommitUpdate,
         CommitDrop, CommitDisband, CommitPlaceInNew, CommitPlace,
         CommitUnplaceLast, CommitUnplace, Unseat, CommitFinalize, CommitSetStatus
  <2>. QED BY <2>1, <1>2, <1>3, <1>4, <1>5
<1>7. ASSUME NEW r \in Requests, Arrive(r) PROVE Goal
  <2>1. ASSUME NEW p, Begin(r, p),
               p.op \in {"register", "join"} => phase \in {"OPEN", "EXTENDED"},
               p.op \in {"place", "seat"} => phase = "RECONCILING"
        PROVE  Goal
    BY <2>1 DEF Begin, Base, TypeOK
  <2>. HIDE DEF Goal
  <2>2. ASSUME NEW s, NEW t, NEW n, CheckRegister(r, s, t, n) PROVE Goal
    BY <2>1, <2>2 DEF CheckRegister, MayRegister, CanJoin, Idle
  <2>3. ASSUME NEW s, NEW g, NEW link, CheckJoin(r, s, g, link) PROVE Goal
    BY <2>1, <2>3 DEF CheckJoin, MayJoin, CanJoin, Idle
  <2>4. ASSUME NEW s, NEW g, CheckLeave(r, s, g) PROVE Goal
    BY <2>1, <2>4 DEF CheckLeave, DropRequest, Idle
  <2>5. ASSUME NEW l, NEW s, NEW g, CheckRemove(r, l, s, g) PROVE Goal
    BY <2>1, <2>5 DEF CheckRemove, DropRequest, Idle
  <2>6. ASSUME NEW g, CheckDisband(r, g) PROVE Goal
    BY <2>1, <2>6 DEF CheckDisband, Idle
  <2>7. ASSUME NEW s, NEW g, CheckHandOver(r, s, g) PROVE Goal
    BY <2>1, <2>7 DEF CheckHandOver, Idle
  <2>8. ASSUME NEW s, NEW g, CheckSetOpen(r, s, g) PROVE Goal
    BY <2>1, <2>8 DEF CheckSetOpen, Idle
  <2>9. ASSUME NEW s, NEW g, CheckDeclare(r, s, g) PROVE Goal
    BY <2>1, <2>9 DEF CheckDeclare, Idle
  <2>10. ASSUME NEW s, NEW g, CheckRelease(r, s, g) PROVE Goal
    BY <2>1, <2>10 DEF CheckRelease, Idle
  <2>11. ASSUME NEW s, NEW t, CheckPlace(r, s, t) PROVE Goal
    BY <2>1, <2>11 DEF CheckPlace, MayPlace, Idle
  <2>12. ASSUME NEW s, NEW g, CheckUnplace(r, s, g) PROVE Goal
    BY <2>1, <2>12 DEF CheckUnplace, MayUnplace, Idle
  <2>13. ASSUME NEW acknowledged, CheckFinalize(r, acknowledged) PROVE Goal
    BY <2>1, <2>13 DEF CheckFinalize, Idle
  <2>14. ASSUME NEW t, CheckOffer(r, t) \/ CheckTakeBack(r, t) PROVE Goal
    BY <2>1, <2>14 DEF CheckOffer, CheckTakeBack, Idle
  <2>. QED
    BY <1>7, <2>2, <2>3, <2>4, <2>5, <2>6, <2>7, <2>8, <2>9, <2>10, <2>11, <2>12,
       <2>13, <2>14 DEF Arrive, StudentArrives, RemovalArrives, DisbandArrives,
       SettingsArrive, CheckUpdate, OfficeArrives, LecturerArrives
<1>8. CASE \/ GateOpens \/ GateCloses \/ Extend \/ Unlock \/ BulkOpen
           \/ UNCHANGED vars \/ \E g \in Groups : HoldLapses(g)
  BY <1>1, <1>8 DEF GateOpens, GateCloses, Extend, Unlock, BulkOpen, MovePhase,
                    HoldLapses, vars
<1>. QED BY <1>6, <1>7, <1>8 DEF Next

\* The phase moves only past idle requests, finalize apart.
LEMMA PhaseMoves ==
  ASSUME ~StraddleGate, [Next]_vars, phase' # phase
  PROVE  \/ UNCHANGED req /\ \A r \in Requests : req[r].op = "idle"
         \/ phase = "RECONCILING" /\ phase' = "FINALIZED"
<1>1. CASE GateOpens \/ GateCloses \/ Extend \/ Unlock
  BY <1>1 DEF GateOpens, GateCloses, Extend, Unlock, MovePhase, PhaseMay, Doing
<1>2. ASSUME NEW r \in Requests, CommitFinalize(r)
      PROVE  phase = "RECONCILING" /\ phase' = "FINALIZED"
  BY <1>2 DEF CommitFinalize
<1>3. ASSUME NEW r \in Requests, Arrive(r) PROVE phase' = phase
  BY <1>3 DEF Arrive, StudentArrives, RemovalArrives, DisbandArrives,
       SettingsArrive, OfficeArrives, LecturerArrives, CheckRegister, CheckJoin,
       CheckLeave, CheckRemove, CheckDisband, CheckUpdate, CheckHandOver,
       CheckSetOpen, CheckDeclare, CheckRelease, CheckPlace, CheckUnplace,
       CheckFinalize, CheckOffer, CheckTakeBack, Begin
<1>4. ASSUME NEW r \in Requests, Commit(r) \/ Refused(r), ~CommitFinalize(r)
      PROVE  phase' = phase
  BY <1>4 DEF Commit, Refused, CommitRegister, CommitJoin, CommitUpdate, CommitDrop,
       DeleteRow, DeclineMembers, CommitDisband, LockTopic, CommitPlaceInNew,
       CommitPlace, LockUnplace, CommitUnplaceLast, CommitUnplace, Unseat,
       CommitSetStatus
<1>5. CASE BulkOpen \/ UNCHANGED vars \/ \E g \in Groups : HoldLapses(g)
  BY <1>5 DEF BulkOpen, HoldLapses, vars
<1>. QED BY <1>1, <1>2, <1>3, <1>4, <1>5 DEF Next

LEMMA InPhaseInductive ==
  ASSUME ~StraddleGate, Base, InPhase, [Next]_vars
  PROVE  InPhase'
<1>. SUFFICES ASSUME NEW q \in Requests
              PROVE  /\ req'[q].op \in {"register", "join"}
                          => phase' \in {"OPEN", "EXTENDED"}
                     /\ req'[q].op \in {"place", "seat"}
                          => phase' \in {"RECONCILING", "FINALIZED"}
  BY DEF InPhase
<1>1. CASE phase' = phase
  BY <1>1, EntersInPhase DEF InPhase
<1>2. CASE phase' # phase
  BY <1>2, EntersInPhase, PhaseMoves DEF InPhase
<1>. QED BY <1>1, <1>2

\* A placement keeps the seat it counted: nobody joins beside it.
LEMMA SeatKeptInductive ==
  ASSUME ~StraddleGate, Base, OneHolder, Tight, [Next]_vars
  PROVE  SeatKept'
<1>. SUFFICES ASSUME NEW r \in Requests, NEW g \in Groups,
                     req'[r].op = "seat", req'[r].g = g
              PROVE  Occupied(g)' < Capacity(g)'
  <2>1. TypeOK'
    BY BaseInductive DEF Base
  <2>2. \A r \in Requests : req'[r].g # None => req'[r].g \in Groups
    BY <2>1 DEF TypeOK, Request
  <2>. QED BY <2>2 DEF SeatKept, Occupied, Capacity
<1>1. CASE LockTopic(r) /\ UNCHANGED <<group, memberVars>> /\ Occupied(g) < Capacity(g)
  BY <1>1 DEF Occupied, Capacity, memberVars
<1>2. CASE req[r].op = "seat" /\ req[r].g = g
  <2>1. Occupied(g) < Capacity(g) /\ group'[g].status # "NONE"
        /\ group[g].status # "NONE"
    BY <1>2, PlacementsCount
       DEF Tight, SeatKept, Base, RequestsAddress, Addresses, Stands
  <2>2. CASE OnlyShrinks
    BY <2>1, <2>2, ShrinkingCounts
  <2>3. ASSUME NEW x \in Requests, Founds(x) PROVE Occupied(g)' < Capacity(g)'
    BY <2>1, <2>3, FoundingCounts DEF Same, Occupied, Capacity
  <2>4. ASSUME NEW x \in Requests, Enters(x) PROVE Occupied(g)' < Capacity(g)'
    <3>1. PICK f \in Groups : f = req[x].g /\ \A h \in Groups \ {f} : Same(h)
      BY <2>4, EnteringCounts
    <3>2. ~CommitJoin(x)
      BY <1>2 DEF CommitJoin, Doing, Tight, InPhase
    <3>3. g # f
      BY <1>2, <2>4, <3>1, <3>2, OnePlacement DEF Enters
    <3>. QED BY <2>1, <3>1, <3>3 DEF Same, Occupied, Capacity
  <2>. QED BY <2>2, <2>3, <2>4, OthersOnlyShrink
<1>. QED BY <1>1, <1>2, PlacementsCount

LEMMA CapacityInductive ==
  ASSUME Base, Tight, [Next]_vars
  PROVE  SeatsWithinCapacity'
<1>. SUFFICES ASSUME NEW g \in Groups, group'[g].status # "NONE"
              PROVE  Occupied(g)' <= Capacity(g)'
  BY DEF SeatsWithinCapacity
<1>1. CASE OnlyShrinks
  BY <1>1, ShrinkingCounts DEF Tight, SeatsWithinCapacity, Stands
<1>2. ASSUME NEW x \in Requests, Founds(x) PROVE Occupied(g)' <= Capacity(g)'
  <2>1. PICK f \in Groups :
           /\ Occupied(f)' = 1
           /\ group'[f].status # "NONE" => Capacity(f)' \in Nat /\ Capacity(f)' >= 1
           /\ \A h \in Groups \ {f} : Same(h)
    BY <1>2, FoundingCounts
  <2>. QED BY <2>1 DEF Same, Tight, SeatsWithinCapacity, Occupied, Capacity
<1>3. ASSUME NEW x \in Requests, Enters(x) PROVE Occupied(g)' <= Capacity(g)'
  <2>1. PICK f \in Groups :
           /\ f = req[x].g
           /\ Capacity(f)' = Capacity(f) /\ Capacity(f) \in Nat
           /\ Occupied(f) \in Nat /\ Occupied(f)' \in Nat
           /\ Occupied(f)' <= Occupied(f) + 1
           /\ CommitJoin(x) => Occupied(f) < Capacity(f)
           /\ \A h \in Groups \ {f} : Same(h)
    BY <1>3, EnteringCounts
  <2>2. CommitPlace(x) => Occupied(f) < Capacity(f)
    BY <2>1 DEF CommitPlace, Doing, Tight, SeatKept
  <2>3. CASE g = f
    BY <1>3, <2>1, <2>2, <2>3 DEF Enters
  <2>4. CASE g # f
    BY <2>1, <2>4 DEF Same, Tight, SeatsWithinCapacity, Occupied, Capacity
  <2>. QED BY <2>3, <2>4
<1>. QED BY <1>1, <1>2, <1>3, OthersOnlyShrink

\* With phases that wait for the requests in flight, register, join and place
\* together never seat more students than a topic holds.
THEOREM SeatsWithinCapacityHolds ==
  ASSUME ~StraddleGate
  PROVE  Spec => []SeatsWithinCapacity
<1>1. Init => OneHolder /\ Tight
  BY DEF Init, OneHolder, Held, Tight, InPhase, SeatKept, SeatsWithinCapacity,
         NoRow, Idle
<1>2. Base /\ OneHolder /\ Tight /\ [Next]_vars => OneHolder' /\ Tight'
  BY OneHolderInductive, InPhaseInductive, SeatKeptInductive, CapacityInductive
     DEF Tight
<1>3. Tight => SeatsWithinCapacity
  BY DEF Tight
<1>. QED BY <1>1, <1>2, <1>3, BaseInitially, BaseInductive, PTL DEF Spec

-----------------------------------------------------------------------------
(***************************************************************************)
(* Requests one at a time, which is how the office and the students are     *)
(* meant to meet: the seats then follow SeatAllocation, groups, statuses    *)
(* and the settlement agree, and the report adds up.                        *)
(*                                                                         *)
(* Most of it fails once two requests overlap (README), so the invariant    *)
(* has to say that what the one request in flight has read is still so:     *)
(* Current.                                                                 *)
(***************************************************************************)

OneAtATime == ~StraddleGate /\ \A r, q \in Requests : r = q

\* What a request has read is so when it comes to write.
Current(q) ==
  /\ q.op \in {"register", "join"} => phase \in {"OPEN", "EXTENDED"}
  /\ q.op \in {"handOver", "drop", "sync", "disband", "dissolve"} =>
       phase = "OPEN" /\ Live(q.g)
  /\ q.op = "handOver" => q.s \in accepted[q.g]
  /\ q.op \in {"drop", "sync"} => q.s \in accepted[q.g] /\ group[q.g].leader # q.s
  /\ q.op = "sync" => q.n = Cardinality(accepted[q.g] \ {q.s})
  /\ q.op = "dissolve" => q.rows = accepted[q.g]
  /\ q.op \in {"place", "seat", "unplace", "unseat", "finalize"} => phase = "RECONCILING"
  /\ q.op = "seat" /\ q.g # None =>
       Live(q.g) /\ q.n = Occupied(q.g) /\ Occupied(q.g) < Capacity(q.g)
  /\ q.op \in {"unplace", "unseat"} =>
       /\ Live(q.g) /\ q.s \in assigned[q.g]
       /\ q.flag <=> group[q.g].leader = q.s
  /\ q.op = "unseat" => q.seen = accepted[q.g] \ {q.s}
  /\ q.op = "finalize" /\ ~q.flag => EveryoneSeated
  /\ q.op \in {"offer", "takeBack"} => topicStatus[q.t] # "IN_PROGRESS"

\* The office places nobody before the gate has closed.
NobodyPlacedYet == phase \in {"PREP", "OPEN"} => \A g \in Groups : assigned[g] = {}

Agreed ==
  /\ GroupsWellFormed /\ StatusMatchesSeats
  /\ SettlementComplete /\ NobodyPlacedYet
AllCurrent == \A r \in Requests : Current(req[r])
SerialInv == Base /\ OneTopicPerStudent /\ OneLiveGroupPerTopic /\ Agreed /\ AllCurrent

-----------------------------------------------------------------------------
(* The request in flight.                                                   *)

RowsStand == UNCHANGED <<phase, topicStatus, group, memberVars, sealedWithGaps>>

\* What a request has read stays so as long as the rows do.
LEMMA StaysCurrent ==
  ASSUME RowsStand, NEW r \in Requests, NEW q, Current(q), req'[r] = q
  PROVE  Current(req[r])'
<1>1. /\ \A g : Live(g)' <=> Live(g)
      /\ \A g : Occupied(g)' = Occupied(g) /\ Capacity(g)' = Capacity(g)
      /\ EveryoneSeated' <=> EveryoneSeated
  BY DEF RowsStand, memberVars, Live, Occupied, Capacity, EveryoneSeated, HasGroup
<1>. QED BY <1>1 DEF RowsStand, memberVars, Current

\* Who has a seat that stands is in a live group.
LEMMA MembersAreLive ==
  ASSUME Base, GroupsWellFormed, NEW g \in Groups, accepted[g] # {}
  PROVE  Live(g)
  BY DEF Base, GroupsStand, GroupsWellFormed, MembersOnlyInLiveGroups, Live

LEMMA ArrivesCurrent ==
  ASSUME OneAtATime, SerialInv, NEW r \in Requests, Arrive(r)
  PROVE  AllCurrent' /\ RowsStand
<1>1. ASSUME NEW q, Begin(r, q), Current(q)
      PROVE  AllCurrent' /\ RowsStand
  <2>1. RowsStand /\ req'[r] = q
    BY <1>1 DEF Begin, RowsStand, SerialInv, Base, TypeOK
  <2>2. Current(req[r])'
    BY <1>1, <2>1, StaysCurrent
  <2>. QED BY <2>1, <2>2 DEF OneAtATime, AllCurrent
<1>. DEFINE Goal == AllCurrent' /\ RowsStand
<1>. HIDE DEF Goal
<1>2. ASSUME NEW s, NEW t, NEW n, CheckRegister(r, s, t, n) PROVE Goal
  <2>. DEFINE q == [Idle EXCEPT !.op = "register", !.s = s, !.t = t, !.n = n]
  <2>1. q.op = "register"
    BY DEF Idle
  <2>2. Begin(r, q) /\ phase \in {"OPEN", "EXTENDED"}
    BY <1>2 DEF CheckRegister, MayRegister, CanJoin
  <2>. HIDE DEF q
  <2>. QED BY <1>1, <2>1, <2>2 DEF Current, Goal
<1>3. ASSUME NEW s, NEW g, NEW link, CheckJoin(r, s, g, link) PROVE Goal
  <2>. DEFINE q == [Idle EXCEPT !.op = "join", !.s = s, !.g = g, !.flag = link]
  <2>1. q.op = "join"
    BY DEF Idle
  <2>2. Begin(r, q) /\ phase \in {"OPEN", "EXTENDED"}
    BY <1>3 DEF CheckJoin, MayJoin, CanJoin
  <2>. HIDE DEF q
  <2>. QED BY <1>1, <2>1, <2>2 DEF Current, Goal
<1>4. ASSUME NEW s, NEW g \in Groups, CheckLeave(r, s, g) PROVE Goal
  <2>. DEFINE q == DropRequest(s, g)
  <2>1. q.op = "drop" /\ q.s = s /\ q.g = g
    BY DEF Idle, DropRequest
  <2>2. Begin(r, q) /\ phase = "OPEN" /\ s \in accepted[g] /\ group[g].leader # s
    BY <1>4 DEF CheckLeave
  <2>3. Live(g)
    BY <2>2, MembersAreLive DEF SerialInv, Agreed
  <2>. HIDE DEF q
  <2>. QED BY <1>1, <2>1, <2>2, <2>3 DEF Current, Goal
<1>5. ASSUME NEW l, NEW s, NEW g, CheckRemove(r, l, s, g) PROVE Goal
  <2>. DEFINE q == DropRequest(s, g)
  <2>1. q.op = "drop" /\ q.s = s /\ q.g = g
    BY DEF Idle, DropRequest
  <2>2. Begin(r, q) /\ phase = "OPEN" /\ Live(g) /\ s \in accepted[g] /\ group[g].leader # s
    BY <1>5 DEF CheckRemove, Leads
  <2>. HIDE DEF q
  <2>. QED BY <1>1, <2>1, <2>2 DEF Current, Goal
<1>6. ASSUME NEW g, CheckDisband(r, g) PROVE Goal
  <2>. DEFINE q == [Idle EXCEPT !.op = "disband", !.g = g]
  <2>1. q.op = "disband" /\ q.g = g
    BY DEF Idle
  <2>2. Begin(r, q) /\ phase = "OPEN" /\ Live(g)
    BY <1>6 DEF CheckDisband
  <2>. HIDE DEF q
  <2>. QED BY <1>1, <2>1, <2>2 DEF Current, Goal
<1>7. ASSUME NEW s, NEW g, CheckHandOver(r, s, g) PROVE Goal
  <2>1. PICK heir \in accepted[g] :
          Begin(r, [Idle EXCEPT !.op = "handOver", !.g = g, !.s = heir])
    BY <1>7 DEF CheckHandOver
  <2>. DEFINE q == [Idle EXCEPT !.op = "handOver", !.g = g, !.s = heir]
  <2>2. q.op = "handOver" /\ q.g = g /\ q.s = heir
    BY DEF Idle
  <2>3. Begin(r, q) /\ phase = "OPEN" /\ Live(g)
    BY <1>7, <2>1 DEF CheckHandOver, Leads
  <2>. HIDE DEF q
  <2>. QED BY <1>1, <2>2, <2>3 DEF Current, Goal
<1>8. ASSUME NEW q, Begin(r, q), q.op \in {"setOpen", "declare", "release"} PROVE Goal
  BY <1>1, <1>8 DEF Current, Goal
<1>9. ASSUME NEW s, NEW g,
             CheckSetOpen(r, s, g) \/ CheckDeclare(r, s, g) \/ CheckRelease(r, s, g)
      PROVE  Goal
  <2>1. CASE CheckSetOpen(r, s, g)
    BY <1>8, <2>1 DEF CheckSetOpen, Idle
  <2>2. CASE CheckDeclare(r, s, g)
    BY <1>8, <2>2 DEF CheckDeclare, Idle
  <2>3. CASE CheckRelease(r, s, g)
    BY <1>8, <2>3 DEF CheckRelease, Idle
  <2>. QED BY <1>9, <2>1, <2>2, <2>3
<1>10. ASSUME NEW s, NEW t, CheckPlace(r, s, t) PROVE Goal
  <2>. DEFINE q == [Idle EXCEPT !.op = "place", !.s = s, !.t = t]
  <2>1. q.op = "place"
    BY DEF Idle
  <2>2. Begin(r, q) /\ phase = "RECONCILING"
    BY <1>10 DEF CheckPlace, MayPlace
  <2>. HIDE DEF q
  <2>. QED BY <1>1, <2>1, <2>2 DEF Current, Goal
<1>11. ASSUME NEW s, NEW g, CheckUnplace(r, s, g) PROVE Goal
  <2>. DEFINE leads == group[g].leader = s
              q == [Idle EXCEPT !.op = "unplace", !.s = s, !.g = g,
                      !.t = group[g].topic, !.row = TRUE, !.flag = leads]
  <2>1. q.op = "unplace" /\ q.s = s /\ q.g = g /\ q.flag = leads
    BY DEF Idle
  <2>2. Begin(r, q) /\ phase = "RECONCILING" /\ Live(g) /\ s \in assigned[g]
    BY <1>11 DEF CheckUnplace, MayUnplace
  <2>. HIDE DEF q
  <2>3. q.flag <=> group[q.g].leader = q.s
    BY <2>1
  <2>. QED BY <1>1, <2>1, <2>2, <2>3 DEF Current, Goal
<1>12. ASSUME NEW acknowledged, CheckFinalize(r, acknowledged) PROVE Goal
  <2>. DEFINE gaps == acknowledged /\ ~EveryoneSeated
              q == [Idle EXCEPT !.op = "finalize", !.flag = gaps]
  <2>1. q.op = "finalize" /\ q.flag = gaps
    BY DEF Idle
  <2>2. Begin(r, q) /\ phase = "RECONCILING" /\ (~gaps => EveryoneSeated)
    BY <1>12 DEF CheckFinalize
  <2>. HIDE DEF q, gaps
  <2>. QED BY <1>1, <2>1, <2>2 DEF Current, Goal
<1>13. ASSUME NEW t, CheckOffer(r, t) \/ CheckTakeBack(r, t) PROVE Goal
  <2>1. PICK op \in {"offer", "takeBack"} : Begin(r, [Idle EXCEPT !.op = op, !.t = t])
    BY <1>13 DEF CheckOffer, CheckTakeBack
  <2>. DEFINE q == [Idle EXCEPT !.op = op, !.t = t]
  <2>2. q.op = op /\ q.t = t
    BY DEF Idle
  <2>3. Begin(r, q) /\ topicStatus[t] # "IN_PROGRESS"
    BY <1>13, <2>1 DEF CheckOffer, CheckTakeBack
  <2>. HIDE DEF q
  <2>. QED BY <1>1, <2>2, <2>3 DEF Current, Goal
<1>14. Goal
  BY <1>2, <1>3, <1>4, <1>5, <1>6, <1>7, <1>9, <1>10, <1>11, <1>12, <1>13
     DEF Arrive, StudentArrives, RemovalArrives, DisbandArrives, SettingsArrive,
         CheckUpdate, OfficeArrives, LecturerArrives
<1>. QED BY <1>14 DEF Goal

\* A transaction under way reads what it is about to write over.
LEMMA InnerStepsCurrent ==
  ASSUME OneAtATime, SerialInv, NEW r \in Requests,
         DeleteRow(r) \/ DeclineMembers(r) \/ LockTopic(r) \/ LockUnplace(r)
  PROVE  AllCurrent' /\ RowsStand
<1>0. req[r] \in Request /\ Current(req[r])
  BY DEF SerialInv, Base, TypeOK, AllCurrent
<1>1. ASSUME NEW q, req' = [req EXCEPT ![r] = q], Current(q), RowsStand
      PROVE  AllCurrent' /\ RowsStand
  <2>1. req'[r] = q
    BY <1>1 DEF SerialInv, Base, TypeOK
  <2>2. Current(req[r])'
    BY <1>1, <2>1, StaysCurrent
  <2>. QED BY <1>1, <2>2 DEF OneAtATime, AllCurrent
<1>2. CASE DeleteRow(r)
  <2>. DEFINE s == req[r].s  g == req[r].g  n == Cardinality(accepted[g] \ {s})
              q == [req[r] EXCEPT !.op = "sync", !.rows = {s}, !.n = n]
  <2>1. req' = [req EXCEPT ![r] = q] /\ RowsStand /\ req[r].op = "drop"
    BY <1>2 DEF DeleteRow, RowsStand, Doing, SerialInv, Base, TypeOK
  <2>2. q.op = "sync" /\ q.s = s /\ q.g = g /\ q.n = n
    BY <1>0 DEF Request
  <2>3. phase = "OPEN" /\ Live(g) /\ s \in accepted[g] /\ group[g].leader # s
    BY <1>0, <2>1 DEF Current
  <2>. HIDE DEF q
  <2>. QED BY <1>1, <2>1, <2>2, <2>3 DEF Current
<1>3. CASE DeclineMembers(r)
  <2>. DEFINE g == req[r].g
              q == [req[r] EXCEPT !.op = "dissolve", !.rows = accepted[g]]
  <2>1. req' = [req EXCEPT ![r] = q] /\ RowsStand /\ req[r].op = "disband"
    BY <1>3 DEF DeclineMembers, RowsStand, Doing, SerialInv, Base, TypeOK
  <2>2. q.op = "dissolve" /\ q.g = g /\ q.rows = accepted[g]
    BY <1>0 DEF Request
  <2>3. phase = "OPEN" /\ Live(g)
    BY <1>0, <2>1 DEF Current
  <2>. HIDE DEF q
  <2>. QED BY <1>1, <2>1, <2>2, <2>3 DEF Current
<1>4. CASE LockTopic(r)
  <2>. DEFINE t == req[r].t
              Count(g) == IF g = None THEN 0 ELSE Occupied(g)
              q(g) == [req[r] EXCEPT !.op = "seat", !.g = g, !.n = Count(g)]
  <2>1. PICK g \in (IF LiveOn(t) = {} THEN {None} ELSE LiveOn(t)) :
          /\ Count(g) < MaxStudents[t]
          /\ req' = [req EXCEPT ![r].op = "seat", ![r].g = g, ![r].n = Count(g)]
    BY <1>4 DEF LockTopic
  <2>2. req' = [req EXCEPT ![r] = q(g)] /\ RowsStand /\ req[r].op = "place"
    BY <1>4, <2>1 DEF LockTopic, RowsStand, Doing, SerialInv, Base, TypeOK
  <2>3. q(g).op = "seat" /\ q(g).g = g /\ q(g).n = Count(g)
    BY <1>0 DEF Request
  <2>4. phase = "RECONCILING"
    BY <1>0, <2>2 DEF Current
  <2>5. g # None => Live(g) /\ Occupied(g) < Capacity(g)
    BY <2>1 DEF LiveOn, Capacity
  <2>. DEFINE q0 == q(g)
  <2>6. Current(q0)
    <3>1. q0.op = "seat" /\ q0.g = g /\ (g # None => q0.n = Occupied(g))
      BY <2>3
    <3>. HIDE DEF q0
    <3>. QED BY <2>4, <2>5, <3>1 DEF Current
  <2>. QED BY <1>1, <2>2, <2>6
<1>5. CASE LockUnplace(r)
  <2>. DEFINE s == req[r].s  g == req[r].g
              q == [req[r] EXCEPT !.op = "unseat", !.rows = {s},
                                  !.seen = accepted[g] \ {s}]
  <2>1. req' = [req EXCEPT ![r] = q] /\ RowsStand /\ req[r].op = "unplace"
    BY <1>5 DEF LockUnplace, RowsStand, Doing, SerialInv, Base, TypeOK
  <2>2. q.op = "unseat" /\ q.s = s /\ q.g = g /\ q.seen = accepted[g] \ {s}
          /\ q.flag = req[r].flag
    BY <1>0 DEF Request
  <2>3. /\ phase = "RECONCILING" /\ Live(g) /\ s \in assigned[g]
        /\ req[r].flag <=> group[g].leader = s
    BY <1>0, <2>1 DEF Current
  <2>. HIDE DEF q
  <2>. QED BY <1>1, <2>1, <2>2, <2>3 DEF Current
<1>. QED BY <1>2, <1>3, <1>4, <1>5

\* A request that ends leaves nothing to be current.
LEMMA EndsCurrent ==
  ASSUME OneAtATime, SerialInv, NEW r \in Requests,
         Finish(r) \/ FinishDeleting(r, req[r].g, req[r].s)
  PROVE  AllCurrent'
<1>1. req'[r] = Idle
  BY DEF Finish, FinishDeleting, SerialInv, Base, TypeOK
<1>2. Current(req[r])'
  BY <1>1 DEF Idle, Current
<1>. QED BY <1>2 DEF OneAtATime, AllCurrent

\* What happens beside the request: the clock, the gate, and topics opened.
LEMMA OthersCurrent ==
  ASSUME OneAtATime, SerialInv,
         \/ GateOpens \/ GateCloses \/ Extend \/ Unlock \/ BulkOpen
         \/ \E g \in Groups : HoldLapses(g)
         \/ UNCHANGED vars
  PROVE  AllCurrent'
<1>1. CASE GateOpens \/ GateCloses \/ Extend \/ Unlock
  <2>1. UNCHANGED req /\ \A r \in Requests : req[r].op = "idle"
    BY <1>1 DEF GateOpens, GateCloses, Extend, Unlock, MovePhase, PhaseMay,
                OneAtATime, Doing
  <2>. QED BY <2>1 DEF AllCurrent, Current
<1>2. CASE UNCHANGED vars
  BY <1>2, StaysCurrent DEF SerialInv, AllCurrent, vars, RowsStand
<1>3. CASE BulkOpen
  <2>1. UNCHANGED <<phase, group, memberVars, sealedWithGaps, req>>
    BY <1>3 DEF BulkOpen
  <2>2. \A t \in Topics : topicStatus[t] # "IN_PROGRESS" => topicStatus'[t] # "IN_PROGRESS"
    BY <1>3 DEF BulkOpen
  <2>3. \A r \in Requests : req[r].op \in {"offer", "takeBack"} => req[r].t \in Topics
    BY DEF SerialInv, Base, RequestsAddress, Addresses, TopicOps
  <2>4. /\ \A g : Live(g)' <=> Live(g)
        /\ \A g : Occupied(g)' = Occupied(g) /\ Capacity(g)' = Capacity(g)
        /\ EveryoneSeated' <=> EveryoneSeated
    BY <2>1 DEF memberVars, Live, Occupied, Capacity, EveryoneSeated, HasGroup
  <2>. QED BY <2>1, <2>2, <2>3, <2>4 DEF SerialInv, AllCurrent, Current, memberVars
<1>4. ASSUME NEW h \in Groups, HoldLapses(h) PROVE AllCurrent'
  <2>1. UNCHANGED <<phase, topicStatus, memberVars, sealedWithGaps, req>>
    BY <1>4 DEF HoldLapses
  <2>2. \A g \in Groups : /\ group'[g].status = group[g].status
                          /\ group'[g].topic = group[g].topic
                          /\ group'[g].leader = group[g].leader
    BY <1>4 DEF HoldLapses, SerialInv, Base, TypeOK, GroupRow
  <2>3. /\ \A g \in Groups : /\ Live(g)' <=> Live(g)
                             /\ Capacity(g)' = Capacity(g)
                             /\ Occupied(g)' = Occupied(g)
        /\ EveryoneSeated' <=> EveryoneSeated
    BY <2>1, <2>2 DEF memberVars, Live, Occupied, Capacity, EveryoneSeated, HasGroup
  <2>4. \A r \in Requests : /\ req[r].op \in GroupOps => req[r].g \in Groups
                            /\ req[r].op = "seat" /\ req[r].g # None => req[r].g \in Groups
    BY DEF SerialInv, Base, RequestsAddress, Addresses, Stands
  <2>. SUFFICES ASSUME NEW r \in Requests PROVE Current(req[r])'
    BY DEF AllCurrent
  <2>5. Current(req[r])
    BY DEF SerialInv, AllCurrent
  <2>. QED BY <2>1, <2>2, <2>3, <2>4, <2>5 DEF Current, GroupOps, memberVars
<1>. QED BY <1>1, <1>2, <1>3, <1>4

-----------------------------------------------------------------------------
(* The steps, by what they do to the seats.                                 *)

\* What the row of a group says of the members it has.
WellFormed(g) ==
  /\ Live(g) => /\ group[g].leader \in accepted[g]
                /\ group[g].status = "SUBMITTED" <=> Occupied(g) >= Capacity(g)
  /\ group[g].status = "REJECTED" => accepted[g] = {}

RoundStands == UNCHANGED <<phase, topicStatus, sealedWithGaps>>

\* A student sits down in a new group on a free topic or in one with room.
SitsDown(f, s, t) ==
  /\ ~AcceptedSomewhere(s)
  /\ \/ group[f].status = "NONE" /\ LiveOn(t) = {}
     \/ Live(f) /\ group[f].topic = t /\ Occupied(f) < MaxStudents[t]
  /\ accepted' = [accepted EXCEPT ![f] = accepted[f] \cup {s}]
  /\ group'[f].topic = t /\ Live(f)' /\ WellFormed(f)'
  /\ \A h \in Groups \ {f} : Same(h)
  /\ RoundStands
  /\ \/ phase \in {"OPEN", "EXTENDED"} /\ assigned' = assigned
     \/ /\ phase = "RECONCILING"
        /\ assigned' = [assigned EXCEPT ![f] = assigned[f] \cup {s}]

\* A member gets up: while the gate is open somebody stays behind, afterwards
\* the office takes back a seat it gave.
GetsUp(g, s) ==
  /\ Live(g) /\ s \in accepted[g]
  /\ accepted' = [accepted EXCEPT ![g] = accepted[g] \ {s}]
  /\ assigned' = [assigned EXCEPT ![g] = assigned[g] \ {s}]
  /\ group'[g].topic = group[g].topic /\ WellFormed(g)'
  /\ \A h \in Groups \ {g} : Same(h)
  /\ RoundStands
  /\ \/ phase = "OPEN" /\ accepted[g] # {s}
     \/ phase = "RECONCILING" /\ s \in assigned[g]

\* Everybody gets up, and the group is over.
Dissolves(g) ==
  /\ phase = "OPEN" /\ Live(g)
  /\ accepted' = [accepted EXCEPT ![g] = {}]
  /\ assigned' = [assigned EXCEPT ![g] = {}]
  /\ group'[g].status = "REJECTED"
  /\ \A h \in Groups \ {g} : Same(h)
  /\ RoundStands

Edges ==
  {<<"PREP", "OPEN">>, <<"PREP", "RECONCILING">>, <<"OPEN", "RECONCILING">>,
   <<"RECONCILING", "EXTENDED">>, <<"EXTENDED", "RECONCILING">>,
   <<"FINALIZED", "RECONCILING">>}

\* The round moves past the seats, or it does not move at all.
RoundMoves ==
  \/ /\ UNCHANGED <<phase, sealedWithGaps>>
     /\ \A t \in Topics :
          topicStatus'[t] = "IN_PROGRESS" <=> topicStatus[t] = "IN_PROGRESS"
  \/ /\ phase = "RECONCILING" /\ phase' = "FINALIZED"
     /\ sealedWithGaps' \/ EveryoneSeated
     /\ \A t \in Topics : topicStatus'[t] = "IN_PROGRESS" <=> LiveOn(t) # {}
  \/ /\ <<phase, phase'>> \in Edges
     /\ \A t \in Topics : topicStatus'[t] # "IN_PROGRESS"

StaysSeated ==
  /\ UNCHANGED memberVars
  /\ \A g \in Groups : /\ group'[g].status = group[g].status
                       /\ group'[g].topic = group[g].topic
                       /\ Live(g) => group'[g].leader \in accepted[g]
  /\ RoundMoves

SeatStep ==
  \/ \E f \in Groups, s \in Students, t \in Topics : SitsDown(f, s, t)
  \/ \E g \in Groups, s \in Students : GetsUp(g, s)
  \/ \E g \in Groups : Dissolves(g)
  \/ StaysSeated

\* The row of a group agrees when its status is computed from its seats.
LEMMA ComputedStatus ==
  ASSUME NEW g, group'[g].leader \in accepted'[g],
         group'[g].status = StatusForSeats(Cardinality(accepted'[g]),
                                           MaxStudents[group'[g].topic])
  PROVE  Live(g)' /\ WellFormed(g)'
<1>1. /\ Live(g)' <=> group'[g].status \notin {"NONE", "REJECTED"}
      /\ Occupied(g)' = Cardinality(accepted'[g])
      /\ Capacity(g)' = MaxStudents[group'[g].topic]
  BY DEF Live, Occupied, Capacity
<1>. QED BY <1>1 DEF StatusForSeats, WellFormed

\* One student more is one seat more.
LEMMA OneSeatMore ==
  ASSUME NEW S \in SUBSET Students, NEW s \in Students, s \notin S
  PROVE  Cardinality(S \cup {s}) = Cardinality(S) + 1
  BY CountsAreNat, FS_AddElement

LEMMA RowsStandStays ==
  ASSUME SerialInv, RowsStand
  PROVE  StaysSeated
  BY DEF SerialInv, Agreed, GroupsWellFormed, LeaderIsMember, RowsStand, StaysSeated,
         RoundMoves

\* A new group seats its founder, on a topic that nobody held.
LEMMA FoundingSitsDown ==
  ASSUME SerialInv, NEW r \in Requests, Founds(r)
  PROVE  SeatStep
<1>. DEFINE s == req[r].s  t == req[r].t  n == req[r].n
<1>1. s \in Students /\ t \in Topics /\ MaxStudents[t] \in Nat
  BY SeatsAssumption
     DEF SerialInv, Base, RequestsAddress, Addresses, StudentOps, TopicOps, Founds,
         CommitRegister, CommitPlaceInNew, Doing
<1>2. Current(req[r])
  BY DEF SerialInv, AllCurrent
<1>3. TypeOK /\ ~AcceptedSomewhere(s) /\ LiveOn(t) = {} /\ RoundStands
  BY DEF SerialInv, Base, Founds, CommitRegister, CommitPlaceInNew, Seat, RoundStands
<1>4. ASSUME NEW f \in Groups, group[f].status = "NONE",
             accepted' = [accepted EXCEPT ![f] = {s}],
             NEW row, group' = [group EXCEPT ![f] = row],
             row.topic = t, row.leader = s,
             row.status = StatusForSeats(1, MaxStudents[t]),
             \/ phase \in {"OPEN", "EXTENDED"} /\ assigned' = assigned
             \/ /\ phase = "RECONCILING"
                /\ assigned' = [assigned EXCEPT ![f] = assigned[f] \cup {s}]
      PROVE  SitsDown(f, s, t)
  <2>1. accepted[f] = {}
    BY <1>4 DEF SerialInv, Base, GroupsStand
  <2>2. accepted' = [accepted EXCEPT ![f] = accepted[f] \cup {s}]
    BY <1>4, <2>1
  <2>3. accepted'[f] = {s} /\ group'[f] = row
    BY <1>3, <1>4 DEF TypeOK
  <2>4. Cardinality({s}) = 1
    BY FS_Singleton
  <2>5. Live(f)' /\ WellFormed(f)'
    BY <1>4, <2>3, <2>4, ComputedStatus
  <2>6. \A h \in Groups \ {f} : Same(h)
    BY <1>3, <1>4 DEF TypeOK, Same
  <2>. QED BY <1>3, <1>4, <2>2, <2>3, <2>5, <2>6 DEF SitsDown
<1>5. CASE CommitRegister(r)
  <2>. DEFINE row == [status |-> StatusForSeats(1, MaxStudents[t]), topic |-> t,
                      leader |-> s, open |-> TRUE, declared |-> n, held |-> n # 0]
  <2>1. PICK f \in Groups : /\ group[f].status = "NONE"
                            /\ group' = [group EXCEPT ![f] = row]
                            /\ accepted' = [accepted EXCEPT ![f] = {s}]
    BY <1>5 DEF CommitRegister
  <2>2. /\ row.topic = t /\ row.leader = s
        /\ row.status = StatusForSeats(1, MaxStudents[t])
    OBVIOUS
  <2>3. phase \in {"OPEN", "EXTENDED"} /\ assigned' = assigned
    BY <1>2, <1>5 DEF Current, CommitRegister, Doing
  <2>. HIDE DEF row
  <2>4. SitsDown(f, s, t)
    BY <1>4, <2>1, <2>2, <2>3
  <2>. QED BY <1>1, <2>4 DEF SeatStep
<1>6. CASE CommitPlaceInNew(r)
  <2>. DEFINE row == [status |-> StatusForSeats(1, MaxStudents[t]), topic |-> t,
                      leader |-> s, open |-> FALSE, declared |-> 0, held |-> FALSE]
  <2>1. PICK f \in Groups : group[f].status = "NONE" /\ Seat(s, f)
                            /\ group' = [group EXCEPT ![f] = row]
    BY <1>6 DEF CommitPlaceInNew
  <2>2. /\ row.topic = t /\ row.leader = s
        /\ row.status = StatusForSeats(1, MaxStudents[t])
    OBVIOUS
  <2>3. accepted[f] = {}
    BY <2>1 DEF SerialInv, Base, GroupsStand
  <2>4. /\ accepted' = [accepted EXCEPT ![f] = {s}]
        /\ assigned' = [assigned EXCEPT ![f] = assigned[f] \cup {s}]
    BY <2>1, <2>3 DEF Seat
  <2>5. phase = "RECONCILING"
    BY <1>2, <1>6 DEF Current, CommitPlaceInNew, Doing
  <2>. HIDE DEF row
  <2>6. SitsDown(f, s, t)
    BY <1>4, <2>1, <2>2, <2>4, <2>5
  <2>. QED BY <1>1, <2>6 DEF SeatStep
<1>. QED BY <1>5, <1>6 DEF Founds

\* A group with room seats one more.
LEMMA EnteringSitsDown ==
  ASSUME SerialInv, NEW r \in Requests, Enters(r)
  PROVE  SeatStep
<1>. SUFFICES ASSUME NEW s, NEW f, NEW t,
                     s = req[r].s, f = req[r].g, t = group[f].topic
              PROVE  SeatStep
  OBVIOUS
<1>1. s \in Students /\ Stands(f)
  BY DEF SerialInv, Base, RequestsAddress, Addresses, StudentOps, GroupOps, Enters,
         CommitJoin, CommitPlace, Doing
<1>2. Current(req[r])
  BY DEF SerialInv, AllCurrent
<1>3. TypeOK /\ ~AcceptedSomewhere(s) /\ f \in Groups /\ t \in Topics
  BY <1>1 DEF SerialInv, Base, GroupsStand, Stands, Enters, CommitJoin, CommitPlace, Seat
<1>4. Live(f) /\ Occupied(f) < MaxStudents[t]
  BY <1>2 DEF Enters, CommitJoin, CommitPlace, Joinable, Current, Doing, Capacity
<1>5. /\ accepted' = [accepted EXCEPT ![f] = accepted[f] \cup {s}]
      /\ group' = [group EXCEPT ![f].status =
                      StatusForSeats(Occupied(f) + 1, MaxStudents[t])]
      /\ RoundStands
  <2>1. CASE CommitJoin(r)
    BY <2>1 DEF CommitJoin, Capacity, RoundStands
  <2>2. CASE CommitPlace(r)
    BY <1>2, <2>2 DEF CommitPlace, Seat, Capacity, Current, Doing, RoundStands
  <2>. QED BY <2>1, <2>2 DEF Enters
<1>6. \/ phase \in {"OPEN", "EXTENDED"} /\ assigned' = assigned
      \/ /\ phase = "RECONCILING"
         /\ assigned' = [assigned EXCEPT ![f] = assigned[f] \cup {s}]
  BY <1>2 DEF Enters, CommitJoin, CommitPlace, Seat, Current, Doing
<1>7. accepted'[f] = accepted[f] \cup {s}
  BY <1>3, <1>5 DEF TypeOK
<1>8. Cardinality(accepted'[f]) = Occupied(f) + 1
  <2>1. accepted[f] \in SUBSET Students /\ s \notin accepted[f]
    BY <1>3 DEF TypeOK, AcceptedSomewhere
  <2>. QED BY <1>1, <1>7, <2>1, OneSeatMore DEF Occupied
<1>9. /\ group'[f].topic = t /\ group'[f].leader = group[f].leader
      /\ group'[f].status = StatusForSeats(Occupied(f) + 1, MaxStudents[t])
  BY <1>3, <1>5 DEF TypeOK, GroupRow
<1>10. group[f].leader \in accepted[f]
  BY <1>3, <1>4 DEF SerialInv, Agreed, GroupsWellFormed, LeaderIsMember
<1>11. Live(f)' /\ WellFormed(f)'
  BY <1>7, <1>8, <1>9, <1>10, ComputedStatus
<1>12. \A h \in Groups \ {f} : Same(h)
  BY <1>3, <1>5, <1>6 DEF TypeOK, Same
<1>13. SitsDown(f, s, t)
  BY <1>3, <1>4, <1>5, <1>6, <1>9, <1>11, <1>12 DEF SitsDown
<1>. QED BY <1>1, <1>3, <1>13 DEF SeatStep

\* Who leaves or is removed leaves the leader behind.
LEMMA DropGetsUp ==
  ASSUME SerialInv, NEW r \in Requests, CommitDrop(r)
  PROVE  SeatStep
<1>. SUFFICES ASSUME NEW s, NEW g, s = req[r].s, g = req[r].g
              PROVE  SeatStep
  OBVIOUS
<1>1. /\ s \in Students /\ g \in Groups /\ TypeOK
      /\ req[r].op = "sync" /\ Current(req[r])
  BY DEF SerialInv, Base, RequestsAddress, Addresses, StudentOps, GroupOps, Stands,
         AllCurrent, CommitDrop, Doing
<1>2. /\ phase = "OPEN" /\ Live(g) /\ s \in accepted[g] /\ group[g].leader # s
      /\ req[r].n = Cardinality(accepted[g] \ {s})
  BY <1>1 DEF Current
<1>3. group[g].leader \in accepted[g] \ {s}
  BY <1>1, <1>2 DEF SerialInv, Agreed, GroupsWellFormed, LeaderIsMember
<1>4. /\ accepted' = [accepted EXCEPT ![g] = accepted[g] \ {s}]
      /\ assigned' = [assigned EXCEPT ![g] = assigned[g] \ {s}]
      /\ group' = [group EXCEPT ![g].status = StatusForSeats(req[r].n, Capacity(g))]
      /\ RoundStands
  BY DEF CommitDrop, RoundStands
<1>5. /\ accepted'[g] = accepted[g] \ {s}
      /\ group'[g].topic = group[g].topic /\ group'[g].leader = group[g].leader
      /\ group'[g].status = StatusForSeats(req[r].n, Capacity(g))
  BY <1>1, <1>4 DEF TypeOK, GroupRow
<1>6. WellFormed(g)'
  BY <1>2, <1>3, <1>5, ComputedStatus DEF Capacity
<1>7. \A h \in Groups \ {g} : Same(h)
  BY <1>1, <1>4 DEF TypeOK, Same
<1>8. GetsUp(g, s)
  BY <1>2, <1>3, <1>4, <1>5, <1>6, <1>7 DEF GetsUp
<1>. QED BY <1>1, <1>8 DEF SeatStep

\* Who is taken back leaves an heir behind, or nobody.
LEMMA UnseatGetsUp ==
  ASSUME SerialInv, NEW r \in Requests, CommitUnplaceLast(r) \/ CommitUnplace(r)
  PROVE  SeatStep
<1>. SUFFICES ASSUME NEW s, NEW g, s = req[r].s, g = req[r].g
              PROVE  SeatStep
  OBVIOUS
<1>1. /\ s \in Students /\ g \in Groups /\ TypeOK
      /\ req[r].op = "unseat" /\ Current(req[r])
  BY DEF SerialInv, Base, RequestsAddress, Addresses, StudentOps, GroupOps, Stands,
         AllCurrent, CommitUnplaceLast, CommitUnplace, Unseat, Doing
<1>2. /\ phase = "RECONCILING" /\ Live(g) /\ s \in assigned[g]
      /\ req[r].flag <=> group[g].leader = s
      /\ req[r].seen = accepted[g] \ {s}
  BY <1>1 DEF Current
<1>3. s \in accepted[g] /\ group[g].leader \in accepted[g]
  BY <1>1, <1>2
     DEF SerialInv, Base, GroupsStand, Agreed, GroupsWellFormed, LeaderIsMember
<1>4. /\ accepted' = [accepted EXCEPT ![g] = accepted[g] \ {s}]
      /\ assigned' = [assigned EXCEPT ![g] = assigned[g] \ {s}]
      /\ RoundStands
  BY DEF CommitUnplaceLast, CommitUnplace, Unseat, RoundStands
<1>5. accepted'[g] = accepted[g] \ {s}
  BY <1>1, <1>4 DEF TypeOK
<1>6. CASE CommitUnplaceLast(r)
  <2>1. group' = [group EXCEPT ![g].status = "REJECTED"] /\ accepted'[g] = {}
    BY <1>2, <1>5, <1>6 DEF CommitUnplaceLast
  <2>2. group'[g].status = "REJECTED" /\ group'[g].topic = group[g].topic
    BY <1>1, <2>1 DEF TypeOK, GroupRow
  <2>3. WellFormed(g)'
    BY <2>1, <2>2 DEF WellFormed, Live
  <2>4. \A h \in Groups \ {g} : Same(h)
    BY <1>1, <1>4, <2>1 DEF TypeOK, Same
  <2>5. GetsUp(g, s)
    BY <1>2, <1>3, <1>4, <2>2, <2>3, <2>4 DEF GetsUp
  <2>. QED BY <1>1, <2>5 DEF SeatStep
<1>7. CASE CommitUnplace(r)
  <2>. DEFINE left == accepted[g] \ {s}
              st == StatusForSeats(Cardinality(left), Capacity(g))
  <2>0. PICK heir \in left :
          group' = [group EXCEPT
            ![g].status = StatusForSeats(Cardinality(req[r].seen), Capacity(g)),
            ![g].leader = IF req[r].flag THEN heir ELSE @]
    BY <1>2, <1>7 DEF CommitUnplace
  <2>. DEFINE leads == IF req[r].flag THEN heir ELSE group[g].leader
  <2>1. leads \in accepted'[g]
    BY <1>2, <1>3, <1>5
  <2>2. group' = [group EXCEPT ![g] = [@ EXCEPT !.status = st, !.leader = leads]]
    BY <1>1, <1>2, <2>0 DEF TypeOK, GroupRow
  <2>3. /\ group'[g].status = st /\ group'[g].leader = leads
        /\ group'[g].topic = group[g].topic
    <3>. HIDE DEF st, leads
    <3>. QED BY <1>1, <2>2 DEF TypeOK, GroupRow
  <2>4. WellFormed(g)'
    BY <1>5, <2>1, <2>3, ComputedStatus DEF Capacity
  <2>. HIDE DEF st, leads
  <2>5. \A h \in Groups \ {g} : Same(h)
    BY <1>1, <1>4, <2>2 DEF TypeOK, Same
  <2>6. GetsUp(g, s)
    BY <1>2, <1>3, <1>4, <2>3, <2>4, <2>5 DEF GetsUp
  <2>. QED BY <1>1, <2>6 DEF SeatStep
<1>. QED BY <1>6, <1>7

\* A group that is disbanded is left by all of its members.
LEMMA DisbandDissolves ==
  ASSUME SerialInv, NEW r \in Requests, CommitDisband(r)
  PROVE  SeatStep
<1>. SUFFICES ASSUME NEW g, g = req[r].g
              PROVE  SeatStep
  OBVIOUS
<1>1. /\ g \in Groups /\ TypeOK /\ req[r].op = "dissolve" /\ Current(req[r])
  BY DEF SerialInv, Base, RequestsAddress, Addresses, GroupOps, Stands, AllCurrent,
         CommitDisband, Doing
<1>2. phase = "OPEN" /\ Live(g) /\ req[r].rows = accepted[g]
  BY <1>1 DEF Current
<1>3. assigned[g] \subseteq accepted[g]
  BY <1>1 DEF SerialInv, Base, GroupsStand
<1>4. accepted[g] \ req[r].rows = {} /\ assigned[g] \ req[r].rows = {}
  BY <1>2, <1>3
<1>5. /\ accepted' = [accepted EXCEPT ![g] = {}]
      /\ assigned' = [assigned EXCEPT ![g] = {}]
      /\ group' = [group EXCEPT ![g].status = "REJECTED"]
      /\ RoundStands
  BY <1>4 DEF CommitDisband, RoundStands
<1>6. group'[g].status = "REJECTED" /\ \A h \in Groups \ {g} : Same(h)
  BY <1>1, <1>5 DEF TypeOK, GroupRow, Same
<1>7. Dissolves(g)
  BY <1>2, <1>5, <1>6 DEF Dissolves
<1>. QED BY <1>1, <1>7 DEF SeatStep

\* A leader's changes leave the members and the status alone.
LEMMA UpdateStays ==
  ASSUME SerialInv, NEW r \in Requests, CommitUpdate(r)
  PROVE  SeatStep
<1>. DEFINE q == req[r]  g == q.g
<1>1. g \in Groups /\ TypeOK /\ Current(q)
  BY DEF SerialInv, Base, RequestsAddress, Addresses, GroupOps, Stands, AllCurrent,
         CommitUpdate
<1>2. /\ group'[g].status = group[g].status /\ group'[g].topic = group[g].topic
      /\ group'[g].leader = IF q.op = "handOver" THEN q.s ELSE group[g].leader
  BY <1>1 DEF CommitUpdate, TypeOK, GroupRow
<1>3. \A h \in Groups \ {g} : group'[h] = group[h]
  BY <1>1 DEF CommitUpdate, TypeOK
<1>4. Live(g) => group'[g].leader \in accepted[g]
  BY <1>1, <1>2
     DEF Current, SerialInv, Agreed, GroupsWellFormed, LeaderIsMember
<1>5. UNCHANGED <<phase, topicStatus, memberVars, sealedWithGaps>>
  BY DEF CommitUpdate
<1>. QED
  BY <1>2, <1>3, <1>4, <1>5
     DEF SeatStep, StaysSeated, RoundMoves, SerialInv, Agreed, GroupsWellFormed,
         LeaderIsMember

\* The round and the topics move past the seats.
LEMMA RoundStepStays ==
  ASSUME SerialInv,
         \/ \E r \in Requests : CommitFinalize(r) \/ CommitSetStatus(r)
         \/ GateOpens \/ GateCloses \/ Extend \/ Unlock \/ BulkOpen
  PROVE  SeatStep
<1>1. UNCHANGED <<group, memberVars>>
  BY DEF CommitFinalize, CommitSetStatus, GateOpens, GateCloses, Extend, Unlock,
         BulkOpen, MovePhase
<1>2. topicStatus \in [Topics -> TopicStatuses]
  BY DEF SerialInv, Base, TypeOK
<1>3. phase # "FINALIZED" => \A t \in Topics : topicStatus[t] # "IN_PROGRESS"
  BY DEF SerialInv, Agreed, SettlementComplete, UnderwayWhenFinal
<1>4. ASSUME GateOpens \/ GateCloses \/ Extend PROVE RoundMoves
  BY <1>3, <1>4 DEF GateOpens, GateCloses, Extend, MovePhase, RoundMoves, Edges
<1>5. ASSUME Unlock PROVE RoundMoves
  BY <1>2, <1>5 DEF Unlock, MovePhase, RoundMoves, Edges
<1>6. ASSUME BulkOpen PROVE RoundMoves
  BY <1>2, <1>6 DEF BulkOpen, RoundMoves
<1>7. ASSUME NEW r \in Requests, CommitSetStatus(r) PROVE RoundMoves
  <2>1. topicStatus[req[r].t] # "IN_PROGRESS"
    BY <1>7 DEF CommitSetStatus, SerialInv, AllCurrent, Current
  <2>. QED BY <1>2, <1>7, <2>1 DEF CommitSetStatus, RoundMoves
<1>8. ASSUME NEW r \in Requests, CommitFinalize(r) PROVE RoundMoves
  <2>1. ~req[r].flag => EveryoneSeated
    BY <1>8 DEF CommitFinalize, Doing, SerialInv, AllCurrent, Current
  <2>2. \A t \in Topics : t \in Underway <=> LiveOn(t) # {}
    BY <1>2, <1>3, <1>8 DEF CommitFinalize, Underway, TopicStatuses
  <2>. QED BY <1>3, <1>8, <2>1, <2>2 DEF CommitFinalize, RoundMoves
<1>9. RoundMoves
  BY <1>4, <1>5, <1>6, <1>7, <1>8
<1>. QED
  BY <1>1, <1>9 DEF SeatStep, StaysSeated, SerialInv, Agreed, GroupsWellFormed,
                    LeaderIsMember, memberVars

\* Taken one at a time, that is all the steps do.
LEMMA StepsAreSeatSteps ==
  ASSUME OneAtATime, SerialInv, [Next]_vars
  PROVE  SeatStep /\ AllCurrent'
<1>1. ASSUME NEW r \in Requests, Arrive(r) PROVE SeatStep /\ AllCurrent'
  BY <1>1, ArrivesCurrent, RowsStandStays DEF SeatStep
<1>2. ASSUME NEW r \in Requests, Commit(r) \/ Refused(r) PROVE SeatStep /\ AllCurrent'
  <2>1. CASE DeleteRow(r) \/ DeclineMembers(r) \/ LockTopic(r) \/ LockUnplace(r)
    BY <2>1, InnerStepsCurrent, RowsStandStays DEF SeatStep
  <2>2. CASE ~(DeleteRow(r) \/ DeclineMembers(r) \/ LockTopic(r) \/ LockUnplace(r))
    <3>1. Finish(r) \/ FinishDeleting(r, req[r].g, req[r].s)
      BY <1>2, <2>2 DEF Commit, Refused, CommitRegister, CommitJoin, CommitUpdate,
         CommitDrop, CommitDisband, CommitPlaceInNew, CommitPlace,
         CommitUnplaceLast, CommitUnplace, Unseat, CommitFinalize, CommitSetStatus
    <3>2. Refused(r) => RowsStand
      BY DEF Refused, RowsStand
    <3>3. SeatStep
      BY <1>2, <2>2, <3>2, RowsStandStays, FoundingSitsDown, EnteringSitsDown,
         DropGetsUp, UnseatGetsUp, DisbandDissolves, UpdateStays, RoundStepStays
         DEF Commit, Founds, Enters, SeatStep
    <3>. QED BY <3>1, <3>3, EndsCurrent
  <2>. QED BY <2>1, <2>2
<1>3. CASE GateOpens \/ GateCloses \/ Extend \/ Unlock \/ BulkOpen
  BY <1>3, RoundStepStays, OthersCurrent
<1>4. ASSUME NEW g \in Groups, HoldLapses(g) PROVE SeatStep /\ AllCurrent'
  <2>1. UNCHANGED <<phase, topicStatus, memberVars, sealedWithGaps>>
    BY <1>4 DEF HoldLapses
  <2>2. \A h \in Groups : /\ group'[h].status = group[h].status
                          /\ group'[h].topic = group[h].topic
                          /\ group'[h].leader = group[h].leader
    BY <1>4 DEF HoldLapses, SerialInv, Base, TypeOK, GroupRow
  <2>3. SeatStep
    BY <2>1, <2>2 DEF SeatStep, StaysSeated, RoundMoves, SerialInv, Agreed,
                      GroupsWellFormed, LeaderIsMember
  <2>. QED BY <1>4, <2>3, OthersCurrent
<1>5. CASE UNCHANGED vars
  <2>1. RowsStand
    BY <1>5 DEF vars, RowsStand
  <2>. QED BY <1>5, <2>1, RowsStandStays, OthersCurrent DEF SeatStep
<1>. QED BY <1>1, <1>2, <1>3, <1>4, <1>5 DEF Next

-----------------------------------------------------------------------------
(* What a step leaves behind agrees again.                                  *)

WellFormedAll == \A g \in Groups : WellFormed(g)

LEMMA AgreedByGroup ==
  Agreed <=> WellFormedAll /\ SettlementComplete /\ NobodyPlacedYet
  BY DEF Agreed, GroupsWellFormed, LeaderIsMember, MembersOnlyInLiveGroups,
         StatusMatchesSeats, WellFormedAll, WellFormed

\* Each kind of step writes at most one group, and that one well.
LEMMA WellFormedKept ==
  ASSUME SerialInv, SeatStep
  PROVE  WellFormedAll'
<1>1. TypeOK /\ WellFormedAll
  BY AgreedByGroup DEF SerialInv, Base
<1>2. ASSUME NEW f \in Groups, WellFormed(f)', \A h \in Groups \ {f} : Same(h)
      PROVE  WellFormedAll'
  <2>1. ASSUME NEW h \in Groups \ {f} PROVE WellFormed(h)'
    BY <1>1, <1>2, <2>1
       DEF WellFormedAll, WellFormed, Same, Live, Occupied, Capacity
  <2>. QED BY <1>2, <2>1 DEF WellFormedAll
<1>3. ASSUME NEW f \in Groups, NEW s \in Students, NEW t \in Topics, SitsDown(f, s, t)
      PROVE  WellFormedAll'
  BY <1>2, <1>3 DEF SitsDown
<1>4. ASSUME NEW g \in Groups, NEW s \in Students, GetsUp(g, s)
      PROVE  WellFormedAll'
  BY <1>2, <1>4 DEF GetsUp
<1>5. ASSUME NEW g \in Groups, Dissolves(g)
      PROVE  WellFormedAll'
  <2>1. accepted'[g] = {} /\ group'[g].status = "REJECTED"
    BY <1>1, <1>5 DEF Dissolves, TypeOK
  <2>2. WellFormed(g)'
    BY <2>1 DEF WellFormed, Live
  <2>. QED BY <1>2, <1>5, <2>2 DEF Dissolves
<1>6. CASE StaysSeated
  <2>1. ASSUME NEW h \in Groups PROVE WellFormed(h)'
    BY <1>1, <1>6
       DEF StaysSeated, memberVars, WellFormedAll, WellFormed, Live, Occupied, Capacity
  <2>. QED BY <2>1 DEF WellFormedAll
<1>. QED BY <1>3, <1>4, <1>5, <1>6 DEF SeatStep

\* While the round is not final nothing is settled, and it becomes final in one
\* step with its topics and its gaps.
LEMMA SettlementKept ==
  ASSUME SerialInv, SeatStep
  PROVE  SettlementComplete'
<1>1. SettlementComplete
  BY DEF SerialInv, Agreed
<1>2. CASE phase # "FINALIZED" /\ RoundStands
  BY <1>1, <1>2 DEF SettlementComplete, UnderwayWhenFinal, GapsAcknowledged, RoundStands
<1>3. CASE StaysSeated
  <2>1. /\ \A t \in Topics : LiveOn(t)' = LiveOn(t)
        /\ EveryoneSeated' <=> EveryoneSeated
    BY <1>3 DEF StaysSeated, memberVars, LiveOn, Live, EveryoneSeated, HasGroup
  <2>2. RoundMoves
    BY <1>3 DEF StaysSeated
  <2>. QED
    BY <1>1, <2>1, <2>2
       DEF RoundMoves, Edges, SettlementComplete, UnderwayWhenFinal, GapsAcknowledged
<1>. QED BY <1>2, <1>3 DEF SeatStep, SitsDown, GetsUp, Dissolves

\* Seats the office gives are given with the gate closed for good.
LEMMA NobodyPlacedKept ==
  ASSUME SerialInv, SeatStep
  PROVE  NobodyPlacedYet'
<1>. SUFFICES ASSUME phase' \in {"PREP", "OPEN"}, NEW h \in Groups
              PROVE  assigned'[h] = {}
  BY DEF NobodyPlacedYet
<1>1. phase \in {"PREP", "OPEN"}
  BY DEF SeatStep, SitsDown, GetsUp, Dissolves, RoundStands, StaysSeated, RoundMoves,
         Edges
<1>2. assigned[h] = {} /\ TypeOK
  BY <1>1 DEF SerialInv, Agreed, NobodyPlacedYet, Base
<1>. QED
  BY <1>1, <1>2
     DEF SeatStep, SitsDown, GetsUp, Dissolves, StaysSeated, memberVars, TypeOK

LEMMA SerialInductive ==
  ASSUME OneAtATime
  PROVE  SerialInv /\ [Next]_vars => SerialInv'
<1>. SUFFICES ASSUME SerialInv, [Next]_vars PROVE SerialInv'
  OBVIOUS
<1>1. Base' /\ OneTopicPerStudent' /\ OneLiveGroupPerTopic'
  BY BaseInductive, OneTopicInductive, OneLiveGroupInductive DEF SerialInv
<1>2. SeatStep /\ AllCurrent'
  BY StepsAreSeatSteps
<1>3. WellFormedAll' /\ SettlementComplete' /\ NobodyPlacedYet'
  BY <1>2, WellFormedKept, SettlementKept, NobodyPlacedKept
<1>4. Agreed'
  BY <1>3, AgreedByGroup, PTL
<1>. QED BY <1>1, <1>2, <1>4 DEF SerialInv

LEMMA SerialInitially == Init => SerialInv
<1>. SUFFICES ASSUME Init PROVE SerialInv
  OBVIOUS
<1>1. Base
  BY BaseInitially
<1>2. OneTopicPerStudent /\ OneLiveGroupPerTopic
  BY DEF Init, OneTopicPerStudent, OneLiveGroupPerTopic, Live, NoRow
<1>3. GroupsWellFormed /\ StatusMatchesSeats /\ NobodyPlacedYet
  BY DEF Init, GroupsWellFormed, LeaderIsMember, MembersOnlyInLiveGroups,
         StatusMatchesSeats, NobodyPlacedYet, Live, NoRow
<1>4. SettlementComplete
  BY DEF Init, SettlementComplete, UnderwayWhenFinal, GapsAcknowledged
<1>5. AllCurrent
  BY DEF Init, AllCurrent, Current, Idle
<1>. QED BY <1>1, <1>2, <1>3, <1>4, <1>5 DEF SerialInv, Agreed

\* With requests one at a time a group is live exactly while it has members, and
\* its leader is one of them.
THEOREM GroupsWellFormedHolds ==
  ASSUME OneAtATime
  PROVE  Spec => []GroupsWellFormed
<1>1. SerialInv => GroupsWellFormed
  BY DEF SerialInv, Agreed
<1>. QED BY <1>1, SerialInitially, SerialInductive, PTL DEF Spec

\* ... and shows itself full exactly when it is.
THEOREM StatusMatchesSeatsHolds ==
  ASSUME OneAtATime
  PROVE  Spec => []StatusMatchesSeats
<1>1. SerialInv => StatusMatchesSeats
  BY DEF SerialInv, Agreed
<1>. QED BY <1>1, SerialInitially, SerialInductive, PTL DEF Spec

\* A final round has its topics under way and its gaps acknowledged, and an
\* unlock takes all of it back.
THEOREM SettlementCompleteHolds ==
  ASSUME OneAtATime
  PROVE  Spec => []SettlementComplete
<1>1. SerialInv => SettlementComplete
  BY DEF SerialInv, Agreed
<1>. QED BY <1>1, SerialInitially, SerialInductive, PTL DEF Spec

SeatsFollowPhaseStep ==
  /\ phase = "EXTENDED" =>
       \A g \in Groups :
         /\ accepted[g] \subseteq accepted'[g]
         /\ \A s \in accepted'[g] \ accepted[g] : ~AcceptedSomewhere(s)
  /\ phase = "FINALIZED" /\ phase' = "FINALIZED" => UNCHANGED memberVars

LEMMA SeatStepFollowsPhase ==
  ASSUME SerialInv, SeatStep
  PROVE  SeatsFollowPhaseStep
<1>1. TypeOK
  BY DEF SerialInv, Base
<1>. QED
  BY <1>1 DEF SeatStep, SitsDown, GetsUp, Dissolves, RoundStands, StaysSeated,
              memberVars, SeatsFollowPhaseStep, TypeOK

\* With requests one at a time an extension only adds members, and a final round
\* changes none.
THEOREM SeatsFollowPhaseHolds ==
  ASSUME OneAtATime
  PROVE  Spec => SeatsFollowPhase
<1>1. SerialInv /\ [Next]_vars => SeatsFollowPhaseStep
  BY StepsAreSeatSteps, SeatStepFollowsPhase
<1>. QED
  BY <1>1, SerialInitially, SerialInductive, PTL
     DEF Spec, SeatsFollowPhase, SeatsFollowPhaseStep

-----------------------------------------------------------------------------
(* The seats as SeatAllocation sees them.                                   *)

\* Everybody's seat is the topic of the one group they are in.
SeatsRead ==
  /\ \A g \in Groups : \A s \in accepted[g] : Live(g) /\ SeatOf(s) = group[g].topic
  /\ \A s \in Students : ~AcceptedSomewhere(s) => SeatOf(s) = None

LEMMA SeatsAreRead == SerialInv => SeatsRead
<1>. SUFFICES ASSUME SerialInv PROVE SeatsRead
  OBVIOUS
<1>1. ASSUME NEW g \in Groups, NEW s \in accepted[g]
      PROVE  Live(g) /\ SeatOf(s) = group[g].topic
  <2>1. Live(g)
    BY <1>1, MembersAreLive DEF SerialInv, Agreed
  <2>2. HasGroup(s)
    BY <1>1, <2>1 DEF HasGroup
  <2>3. \A h \in Groups : Live(h) /\ s \in accepted[h] => h = g
    BY <1>1 DEF SerialInv, OneTopicPerStudent
  <2>4. (CHOOSE h \in Groups : Live(h) /\ s \in accepted[h]) = g
    BY <1>1, <2>1, <2>3
  <2>. QED BY <2>1, <2>2, <2>4 DEF SeatOf
<1>2. ASSUME NEW s \in Students, ~AcceptedSomewhere(s) PROVE SeatOf(s) = None
  BY <1>2 DEF SeatOf, HasGroup, AcceptedSomewhere
<1>. QED BY <1>1, <1>2 DEF SeatsRead

SeatMap == [s \in Students |-> SeatOf(s)]
Placed == {s \in Students : \E g \in Groups : Live(g) /\ s \in assigned[g]}

\* Who is placed is in the one group that says so.
LEMMA PlacedRead ==
  ASSUME SerialInv
  PROVE  /\ \A s : s \in Placed <=> \E g \in Groups : s \in assigned[g]
         /\ phase = "OPEN" => Placed = {}
<1>1. \A g \in Groups : assigned[g] \subseteq accepted[g] /\ accepted[g] \subseteq Students
  BY DEF SerialInv, Base, TypeOK, GroupsStand
<1>2. \A g \in Groups : accepted[g] # {} => Live(g)
  BY MembersAreLive DEF SerialInv, Agreed
<1>3. phase = "OPEN" => \A g \in Groups : assigned[g] = {}
  BY DEF SerialInv, Agreed, NobodyPlacedYet
<1>. QED BY <1>1, <1>2, <1>3 DEF Placed

PlacedIsRead == \A s : s \in Placed <=> \E g \in Groups : s \in assigned[g]
LEMMA PlacedAreRead == SerialInv => PlacedIsRead
  BY PlacedRead DEF PlacedIsRead

\* The students of a topic are the members of its live group.
LEMMA OnTopic ==
  ASSUME SerialInv, NEW t \in Topics
  PROVE  /\ LiveOn(t) = {} => {x \in Students : SeatMap[x] = t} = {}
         /\ \A f \in LiveOn(t) : {x \in Students : SeatMap[x] = t} = accepted[f]
<1>1. SeatsRead /\ None # t
  BY SeatsAreRead, NoneIsNone
<1>2. ASSUME NEW x \in Students, SeatOf(x) = t
      PROVE  \E h \in LiveOn(t) : x \in accepted[h]
  BY <1>1, <1>2 DEF SeatsRead, AcceptedSomewhere, LiveOn
<1>3. ASSUME NEW f \in LiveOn(t), NEW x \in Students
      PROVE  SeatOf(x) = t <=> x \in accepted[f]
  <2>1. ASSUME SeatOf(x) = t PROVE x \in accepted[f]
    BY <1>2, <2>1 DEF SerialInv, OneLiveGroupPerTopic, LiveOn
  <2>2. ASSUME x \in accepted[f] PROVE SeatOf(x) = t
    BY <1>1, <2>2 DEF SeatsRead, LiveOn
  <2>. QED BY <2>1, <2>2
<1>4. \A f \in LiveOn(t) : accepted[f] \subseteq Students
  BY DEF SerialInv, Base, TypeOK, LiveOn
<1>. QED BY <1>2, <1>3, <1>4 DEF SeatMap

LEMMA CountsAgree == \A S : Seats!Cardinality(S) = Cardinality(S)
  BY DEF Cardinality, Seats!Cardinality

\* Who sits down takes a free seat of the topic.
LEMMA SitsDownRefines ==
  ASSUME SerialInv, SerialInv', NEW f \in Groups, NEW s \in Students,
         NEW t \in Topics, SitsDown(f, s, t)
  PROVE  Seats!Take(s, t) \/ Seats!Place(s, t)
<1>1. SeatsRead /\ SeatsRead' /\ TypeOK
  BY SeatsAreRead, PTL DEF SerialInv, Base
<1>2. /\ accepted'[f] = accepted[f] \cup {s} /\ group'[f].topic = t
      /\ \A h \in Groups \ {f} : accepted'[h] = accepted[h] /\ group'[h] = group[h]
      /\ ~AcceptedSomewhere(s)
  BY <1>1 DEF SitsDown, Same, TypeOK
<1>3. \A x \in Students : SeatOf(x)' = IF x = s THEN t ELSE SeatOf(x)
  <2>. SUFFICES ASSUME NEW x \in Students
                PROVE  SeatOf(x)' = IF x = s THEN t ELSE SeatOf(x)
    OBVIOUS
  <2>1. CASE x = s
    BY <1>1, <1>2, <2>1 DEF SeatsRead
  <2>2. CASE x # s /\ AcceptedSomewhere(x)
    <3>1. PICK h \in Groups : x \in accepted[h]
      BY <2>2 DEF AcceptedSomewhere
    <3>2. x \in accepted'[h] /\ group'[h].topic = group[h].topic
      BY <1>1, <1>2, <2>2, <3>1 DEF SeatsRead, SitsDown, Live
    <3>. QED BY <1>1, <2>2, <3>1, <3>2 DEF SeatsRead
  <2>3. CASE x # s /\ ~AcceptedSomewhere(x)
    <3>1. ~AcceptedSomewhere(x)'
      BY <1>2, <2>3 DEF AcceptedSomewhere
    <3>. QED BY <1>1, <2>3, <3>1 DEF SeatsRead
  <2>. QED BY <2>1, <2>2, <2>3
<1>4. SeatMap' = [SeatMap EXCEPT ![s] = t]
  BY <1>3 DEF SeatMap
<1>5. SeatMap[s] = None
  BY <1>1, <1>2 DEF SeatMap, SeatsRead
<1>6. Cardinality({x \in Students : SeatMap[x] = t}) < MaxStudents[t]
  <2>1. CASE LiveOn(t) = {}
    <3>1. {x \in Students : SeatMap[x] = t} = {}
      BY <2>1, OnTopic
    <3>2. MaxStudents[t] \in Nat \ {0}
      BY SeatsAssumption
    <3>. QED BY <3>1, <3>2, FS_EmptySet
  <2>2. CASE Live(f) /\ group[f].topic = t /\ Occupied(f) < MaxStudents[t]
    BY <2>2, OnTopic DEF LiveOn, Occupied
  <2>. QED BY <2>1, <2>2 DEF SitsDown
<1>7. \/ phase \in {"OPEN", "EXTENDED"} /\ Placed' = Placed
      \/ phase = "RECONCILING" /\ Placed' = Placed \cup {s}
  <2>1. PlacedIsRead /\ PlacedIsRead'
    BY PlacedAreRead, PTL
  <2>2. assigned' = assigned => Placed' = Placed
    BY <2>1 DEF PlacedIsRead, Placed
  <2>3. ASSUME assigned' = [assigned EXCEPT ![f] = assigned[f] \cup {s}]
        PROVE  Placed' = Placed \cup {s}
    <3>1. \A x : (\E g \in Groups : x \in assigned'[g])
                  <=> (x = s \/ \E g \in Groups : x \in assigned[g])
      BY <1>1, <2>3 DEF TypeOK
    <3>. QED BY <2>1, <3>1 DEF PlacedIsRead
  <2>. QED BY <2>2, <2>3 DEF SitsDown
<1>8. phase' = phase
  BY DEF SitsDown, RoundStands
<1>9. Cardinality(Seats!On(t)) = Cardinality({x \in Students : SeatMap[x] = t})
  BY DEF Seats!On, SeatMap
<1>10. Seats!Sit(s, t)
  BY <1>4, <1>5, <1>6, <1>8, <1>9, CountsAgree DEF Seats!Sit, SeatMap
<1>. QED BY <1>7, <1>8, <1>10 DEF Seats!Take, Seats!Place, Placed

\* Who gets up leaves the seat free.
LEMMA GetsUpRefines ==
  ASSUME SerialInv, SerialInv', NEW g \in Groups, NEW s \in Students, GetsUp(g, s)
  PROVE  Seats!Leave(s) \/ Seats!Recall(s)
<1>1. SeatsRead /\ SeatsRead' /\ TypeOK
  BY SeatsAreRead, PTL DEF SerialInv, Base
<1>2. /\ accepted'[g] = accepted[g] \ {s} /\ group'[g].topic = group[g].topic
      /\ \A h \in Groups \ {g} : accepted'[h] = accepted[h] /\ group'[h] = group[h]
      /\ s \in accepted[g]
      /\ \A h \in Groups \ {g} : s \notin accepted[h]
  BY <1>1 DEF GetsUp, Same, TypeOK, SerialInv, OneTopicPerStudent
<1>3. \A x \in Students : SeatOf(x)' = IF x = s THEN None ELSE SeatOf(x)
  <2>. SUFFICES ASSUME NEW x \in Students
                PROVE  SeatOf(x)' = IF x = s THEN None ELSE SeatOf(x)
    OBVIOUS
  <2>1. CASE x = s
    <3>1. ~AcceptedSomewhere(x)'
      BY <1>2, <2>1 DEF AcceptedSomewhere
    <3>. QED BY <1>1, <2>1, <3>1 DEF SeatsRead
  <2>2. CASE x # s /\ AcceptedSomewhere(x)
    <3>1. PICK h \in Groups : x \in accepted[h]
      BY <2>2 DEF AcceptedSomewhere
    <3>2. x \in accepted'[h] /\ group'[h].topic = group[h].topic
      BY <1>2, <2>2, <3>1
    <3>. QED BY <1>1, <2>2, <3>1, <3>2 DEF SeatsRead
  <2>3. CASE x # s /\ ~AcceptedSomewhere(x)
    <3>1. ~AcceptedSomewhere(x)'
      BY <1>2, <2>3 DEF AcceptedSomewhere
    <3>. QED BY <1>1, <2>3, <3>1 DEF SeatsRead
  <2>. QED BY <2>1, <2>2, <2>3
<1>4. SeatMap' = [SeatMap EXCEPT ![s] = None]
  BY <1>3 DEF SeatMap
<1>5. SeatMap[s] = group[g].topic /\ group[g].topic \in Topics
  BY <1>1, <1>2 DEF SeatMap, SeatsRead, SerialInv, Base, GroupsStand, GetsUp, Live
<1>6. g \in LiveOn(SeatMap[s])
  BY <1>5 DEF LiveOn, GetsUp
<1>7. Seats!On(SeatMap[s]) = accepted[g]
  BY <1>5, <1>6, OnTopic DEF Seats!On, SeatMap
<1>8. phase' = phase
  BY DEF GetsUp, RoundStands
<1>9. \A x : x \in Placed' <=> x \in Placed /\ x # s
  <2>1. PlacedIsRead /\ PlacedIsRead'
    BY PlacedAreRead, PTL
  <2>2. \A h \in Groups \ {g} : s \notin assigned[h] /\ assigned'[h] = assigned[h]
    BY <1>2 DEF SerialInv, Base, GroupsStand, GetsUp, Same
  <2>3. assigned'[g] = assigned[g] \ {s}
    BY <1>1 DEF GetsUp, TypeOK
  <2>. QED BY <2>1, <2>2, <2>3 DEF PlacedIsRead
<1>10. CASE phase = "OPEN" /\ accepted[g] # {s}
  <2>1. Placed' = Placed
    BY <1>9, <1>10, PlacedRead
  <2>2. SeatMap[s] # None
    BY <1>5, NoneIsNone
  <2>. QED BY <1>4, <1>7, <1>8, <1>10, <2>1, <2>2 DEF Seats!Leave, SeatMap, Placed
<1>11. CASE phase = "RECONCILING" /\ s \in assigned[g]
  <2>1. s \in Placed /\ Placed' = Placed \ {s}
    BY <1>9, <1>11, PlacedRead
  <2>. QED BY <1>4, <1>8, <1>11, <2>1 DEF Seats!Recall, SeatMap, Placed
<1>. QED BY <1>10, <1>11 DEF GetsUp

\* A group that is over frees the seats of its topic.
LEMMA DissolvesRefines ==
  ASSUME SerialInv, SerialInv', NEW g \in Groups, Dissolves(g)
  PROVE  \E t \in Topics : Seats!Dissolve(t)
<1>. SUFFICES ASSUME NEW t, t = group[g].topic PROVE t \in Topics /\ Seats!Dissolve(t)
  OBVIOUS
<1>1. SeatsRead /\ SeatsRead' /\ TypeOK
  BY SeatsAreRead, PTL DEF SerialInv, Base
<1>2. /\ accepted'[g] = {}
      /\ \A h \in Groups \ {g} : accepted'[h] = accepted[h] /\ group'[h] = group[h]
  BY <1>1 DEF Dissolves, Same, TypeOK
<1>3. t \in Topics /\ g \in LiveOn(t)
  BY DEF SerialInv, Base, GroupsStand, Dissolves, Live, LiveOn
<1>4. \A x \in Students : SeatOf(x) = t <=> x \in accepted[g]
  <2>1. {x \in Students : SeatMap[x] = t} = accepted[g]
    BY <1>3, OnTopic
  <2>. QED BY <1>1, <2>1 DEF SeatMap
<1>5. \A x \in Students : SeatOf(x)' = IF SeatOf(x) = t THEN None ELSE SeatOf(x)
  <2>. SUFFICES ASSUME NEW x \in Students
                PROVE  SeatOf(x)' = IF x \in accepted[g] THEN None ELSE SeatOf(x)
    BY <1>4
  <2>1. CASE x \in accepted[g]
    <3>1. ~AcceptedSomewhere(x)'
      BY <1>2, <2>1 DEF AcceptedSomewhere, SerialInv, OneTopicPerStudent
    <3>. QED BY <1>1, <2>1, <3>1 DEF SeatsRead
  <2>2. CASE x \notin accepted[g] /\ AcceptedSomewhere(x)
    <3>1. PICK h \in Groups : x \in accepted[h]
      BY <2>2 DEF AcceptedSomewhere
    <3>2. x \in accepted'[h] /\ group'[h].topic = group[h].topic
      BY <1>2, <2>2, <3>1
    <3>. QED BY <1>1, <2>2, <3>1, <3>2 DEF SeatsRead
  <2>3. CASE ~AcceptedSomewhere(x)
    <3>1. ~AcceptedSomewhere(x)' /\ x \notin accepted[g]
      BY <1>2, <2>3 DEF AcceptedSomewhere
    <3>. QED BY <1>1, <2>3, <3>1 DEF SeatsRead
  <2>. QED BY <2>1, <2>2, <2>3
<1>6. SeatMap' = [s \in Students |-> IF SeatMap[s] = t THEN None ELSE SeatMap[s]]
  BY <1>5 DEF SeatMap
<1>7. Placed' = Placed
  <2>0. PlacedIsRead'
    BY PlacedAreRead, PTL
  <2>1. Placed = {} /\ \A h \in Groups : assigned[h] = {}
    BY PlacedRead DEF Dissolves, SerialInv, Agreed, NobodyPlacedYet
  <2>2. \A h \in Groups : assigned'[h] = {}
    BY <1>1, <2>1 DEF Dissolves, TypeOK
  <2>. QED BY <2>0, <2>1, <2>2 DEF PlacedIsRead
<1>8. phase = "OPEN" /\ phase' = phase
  BY DEF Dissolves, RoundStands
<1>. QED BY <1>3, <1>6, <1>7, <1>8 DEF Seats!Dissolve, SeatMap, Placed

\* What leaves the members alone leaves the seats alone.
LEMMA StayingRefines ==
  ASSUME StaysSeated
  PROVE  Seats!MovesOn \/ UNCHANGED Seats!seatVars
<1>1. /\ \A g \in Groups : Live(g)' <=> Live(g)
      /\ \A g \in Groups : /\ accepted'[g] = accepted[g] /\ assigned'[g] = assigned[g]
                           /\ group'[g].topic = group[g].topic
  BY DEF StaysSeated, memberVars, Live
<1>2. \A s \in Students : SeatOf(s)' = SeatOf(s)
  <2>. SUFFICES ASSUME NEW s \in Students PROVE SeatOf(s)' = SeatOf(s)
    OBVIOUS
  <2>1. HasGroup(s)' <=> HasGroup(s)
    BY <1>1 DEF HasGroup
  <2>2. \A g \in Groups : Live(g)' /\ s \in accepted'[g] <=> Live(g) /\ s \in accepted[g]
    BY <1>1
  <2>. DEFINE In == CHOOSE g \in Groups : Live(g) /\ s \in accepted[g]
  <2>3. In' = In
    BY <2>2
  <2>4. HasGroup(s) => In \in Groups
    BY DEF HasGroup
  <2>. QED BY <1>1, <2>1, <2>3, <2>4 DEF SeatOf
<1>3. SeatMap' = SeatMap /\ Placed' = Placed
  BY <1>1, <1>2 DEF SeatMap, Placed
<1>4. phase' = phase \/ <<phase, phase'>> \in Edges \cup {<<"RECONCILING", "FINALIZED">>}
  BY DEF StaysSeated, RoundMoves
<1>. QED BY <1>3, <1>4 DEF Seats!MovesOn, Seats!seatVars, SeatMap, Placed, Edges

\* With requests one at a time registration and allocation together are
\* SeatAllocation: every step of theirs is one of its steps, or none.
THEOREM SeatsRefinedHolds ==
  ASSUME OneAtATime
  PROVE  Spec => SeatsRefined
<1>1. Init => Seats!Init
  <2>. SUFFICES ASSUME Init PROVE Seats!Init
    OBVIOUS
  <2>1. \A s : ~HasGroup(s)
    BY DEF Init, HasGroup, Live, NoRow
  <2>2. SeatMap = [s \in Students |-> None] /\ Placed = {}
    BY <2>1 DEF SeatMap, SeatOf, Placed, Init
  <2>. QED BY <2>2 DEF Init, Seats!Init, SeatMap, Placed
<1>2. SerialInv /\ SerialInv' /\ [Next]_vars => [Seats!Next]_Seats!seatVars
  <2>. SUFFICES ASSUME SerialInv, SerialInv', [Next]_vars
                PROVE  Seats!Next \/ UNCHANGED Seats!seatVars
    OBVIOUS
  <2>1. SeatStep
    BY StepsAreSeatSteps
  <2>. QED
    BY <2>1, SitsDownRefines, GetsUpRefines, DissolvesRefines, StayingRefines
       DEF SeatStep, Seats!Next
<1>. QED
  BY <1>1, <1>2, SerialInitially, SerialInductive, PTL
     DEF Spec, SeatsRefined, Seats!Spec

-----------------------------------------------------------------------------
(* Counting seats, for the report.                                          *)

LEMMA MaxZero == \A n \in Nat : Max({0, n}) = n
  BY DEF Max

\* What corresponds one to one is of the same number.
LEMMA SameNumber ==
  ASSUME NEW S, NEW T, IsFiniteSet(S) \/ IsFiniteSet(T), NEW f \in [S -> T],
         \A a, b \in S : f[a] = f[b] => a = b,
         \A t \in T : \E s \in S : f[s] = t
  PROVE  IsFiniteSet(S) /\ IsFiniteSet(T) /\ Cardinality(S) = Cardinality(T)
<1>1. f \in Bijection(S, T)
  BY Fun_IsBij
<1>2. ExistsBijection(S, T) /\ ExistsBijection(T, S)
  BY <1>1, Fun_ExistsBijSymmetric DEF ExistsBijection
<1>. QED BY <1>2, FS_Bijection

\* Two parts of a set count together what the whole does.
LEMMA Parts ==
  ASSUME NEW S, IsFiniteSet(S), NEW P, NEW Q, P \cup Q = S, P \cap Q = {}
  PROVE  /\ Cardinality(S) = Cardinality(P) + Cardinality(Q)
         /\ Cardinality(P) \in Nat /\ Cardinality(Q) \in Nat
<1>1. IsFiniteSet(P) /\ IsFiniteSet(Q)
  BY FS_Subset
<1>2. Cardinality(P \cup Q) = Cardinality(P) + Cardinality(Q) - Cardinality(P \cap Q)
  BY <1>1, FS_Union
<1>3. Cardinality(P \cap Q) = 0
  BY FS_EmptySet
<1>4. Cardinality(P) \in Nat /\ Cardinality(Q) \in Nat
  BY <1>1, FS_CardinalityType
<1>. QED BY <1>2, <1>3, <1>4

\* A seat is a student: memberships are counted by their students.
LEMMA SeatsAreStudents ==
  ASSUME SerialInv, NEW P \in SUBSET Memberships
  PROVE  /\ IsFiniteSet(P)
         /\ Cardinality(P) = Cardinality({s \in Students : \E m \in P : m[1] = s})
<1>. DEFINE T == {s \in Students : \E m \in P : m[1] = s}
            f == [m \in P |-> m[1]]
<1>1. IsFiniteSet(T)
  BY CountsAreNat
<1>2. \A m \in P : m = <<m[1], m[2]>> /\ m[1] \in Students /\ m[2] \in Groups
                     /\ m[1] \in accepted[m[2]]
  BY DEF Memberships
<1>3. f \in [P -> T]
  BY <1>2
<1>4. ASSUME NEW a \in P, NEW b \in P, f[a] = f[b] PROVE a = b
  <2>1. a[1] = b[1]
    BY <1>4
  <2>2. a[2] = b[2]
    BY <1>2, <2>1 DEF SerialInv, OneTopicPerStudent
  <2>. QED BY <1>2, <2>1, <2>2
<1>5. \A s \in T : \E m \in P : f[m] = s
  OBVIOUS
<1>. HIDE DEF T, f
<1>6. IsFiniteSet(P) /\ Cardinality(P) = Cardinality(T)
  BY <1>1, <1>3, <1>4, <1>5, SameNumber
<1>. QED BY <1>6 DEF T

\* The live groups are finitely many, for each has a leader of its own.
LEMMA FewLiveGroups == SerialInv => IsFiniteSet(LiveGroups)
<1>. SUFFICES ASSUME SerialInv PROVE IsFiniteSet(LiveGroups)
  OBVIOUS
<1>. DEFINE T == {s \in Students : \E g \in LiveGroups : group[g].leader = s}
            f == [g \in LiveGroups |-> group[g].leader]
<1>1. IsFiniteSet(T)
  BY CountsAreNat
<1>2. \A g \in LiveGroups : group[g].leader \in accepted[g] /\ group[g].leader \in Students
  BY DEF LiveGroups, SerialInv, Base, TypeOK, Agreed, GroupsWellFormed, LeaderIsMember
<1>3. f \in [LiveGroups -> T]
  BY <1>2
<1>4. ASSUME NEW g \in LiveGroups, NEW h \in LiveGroups, f[g] = f[h] PROVE g = h
  BY <1>2, <1>4 DEF SerialInv, OneTopicPerStudent, LiveGroups
<1>5. \A s \in T : \E g \in LiveGroups : f[g] = s
  OBVIOUS
<1>. HIDE DEF T, f
<1>. QED BY <1>1, <1>3, <1>4, <1>5, SameNumber

\* Whoever has a seat that stands has a group.
LEMMA SeatedIsLive ==
  ASSUME SerialInv
  PROVE  \A g \in Groups : /\ \A s \in accepted[g] : s \in Students /\ Live(g)
                           /\ Live(g) => \E s \in Students : s \in accepted[g]
<1>1. ASSUME NEW g \in Groups, NEW s \in accepted[g] PROVE s \in Students /\ Live(g)
  BY <1>1, MembersAreLive DEF SerialInv, Base, TypeOK, Agreed
<1>2. ASSUME NEW g \in Groups, Live(g) PROVE \E s \in Students : s \in accepted[g]
  BY <1>2 DEF SerialInv, Base, TypeOK, Agreed, GroupsWellFormed, LeaderIsMember
<1>. QED BY <1>1, <1>2

\* Cohorts are those of them in a group and those in none.
LEMMA Cohorts ==
  ASSUME NEW cohorts \in SUBSET Students, cohorts # {} \/ cohorts = Students
  PROVE  /\ InCohorts(cohorts) = cohorts
         /\ Cardinality(cohorts) = Cardinality(Roster(cohorts, TRUE))
                                    + Cardinality(Roster(cohorts, FALSE))
         /\ Cardinality(Roster(cohorts, TRUE)) \in Nat
         /\ Cardinality(Roster(cohorts, FALSE)) \in Nat
<1>1. InCohorts(cohorts) = cohorts
  BY DEF InCohorts
<1>2. /\ Roster(cohorts, TRUE) \cup Roster(cohorts, FALSE) = cohorts
      /\ Roster(cohorts, TRUE) \cap Roster(cohorts, FALSE) = {}
  BY <1>1 DEF Roster
<1>3. IsFiniteSet(cohorts)
  BY CountsAreNat
<1>4. /\ Cardinality(cohorts) = Cardinality(Roster(cohorts, TRUE))
                                + Cardinality(Roster(cohorts, FALSE))
      /\ Cardinality(Roster(cohorts, TRUE)) \in Nat
      /\ Cardinality(Roster(cohorts, FALSE)) \in Nat
  BY <1>2, <1>3, Parts
<1>. QED BY <1>1, <1>4

\* The row of a round counts every student once.
LEMMA RowAddsUp ==
  ASSUME SerialInv
  PROVE  RegistrationRow(Students).selfRegistered + RegistrationRow(Students).assigned
           = RegistrationRow(Students).withGroup
<1>1. /\ SelfRegistered \cup Assigned = Memberships
      /\ SelfRegistered \cap Assigned = {}
  BY DEF SelfRegistered, Assigned
<1>2. IsFiniteSet(Memberships) /\ Cardinality(Memberships)
        = Cardinality({s \in Students : \E m \in Memberships : m[1] = s})
  BY SeatsAreStudents
<1>3. {s \in Students : \E m \in Memberships : m[1] = s} = Roster(Students, TRUE)
  <2>1. ASSUME NEW s \in Students, NEW g \in Groups, Live(g), s \in accepted[g]
        PROVE  \E m \in Memberships : m[1] = s
    <3>1. <<s, g>> \in Memberships
      BY <2>1 DEF Memberships
    <3>. QED BY <3>1
  <2>2. \A m \in Memberships : m[2] \in Groups /\ Live(m[2]) /\ m[1] \in accepted[m[2]]
    BY DEF Memberships
  <2>. QED BY <2>1, <2>2 DEF Roster, InCohorts
<1>4. Cardinality(Memberships) = Cardinality(SelfRegistered) + Cardinality(Assigned)
  BY <1>1, <1>2, Parts
<1>. QED BY <1>2, <1>3, <1>4 DEF RegistrationRow

\* Who is counted without a group is on the desk's list and gets the notice.
LEMMA CohortsAddUp ==
  ASSUME SerialInv, NEW cohorts \in (SUBSET Students) \ {{}}
  PROVE  /\ RegistrationRow(cohorts).withoutGroup = Cardinality(Unplaced(cohorts))
         /\ Notified(cohorts) = Unplaced(cohorts)
         /\ MajorRow(cohorts).withGroup = Cardinality(Roster(cohorts, TRUE))
<1>. DEFINE with == Cardinality(Roster(cohorts, TRUE))
            without == Cardinality(Roster(cohorts, FALSE))
<1>1. /\ InCohorts(cohorts) = cohorts /\ Cardinality(cohorts) = with + without
      /\ with \in Nat /\ without \in Nat
  BY Cohorts
<1>2. Unplaced(cohorts) = Roster(cohorts, FALSE)
  BY DEF Unplaced
<1>3. RegistrationRow(cohorts).withoutGroup = Cardinality(Unplaced(cohorts))
  <2>1. RegistrationRow(cohorts).withoutGroup
          = Max({0, Cardinality(InCohorts(cohorts)) - with})
    BY DEF RegistrationRow
  <2>2. Cardinality(InCohorts(cohorts)) - with = without
    <3>. HIDE DEF with, without
    <3>1. Cardinality(InCohorts(cohorts)) = with + without
      BY <1>1
    <3>. QED BY <1>1, <3>1
  <2>. QED BY <1>1, <1>2, <2>1, <2>2, MaxZero
<1>4. Notified(cohorts) = Unplaced(cohorts)
  <2>1. ASSUME NEW s \in cohorts, NEW g \in Groups, s \in accepted[g]
        PROVE  Live(g) /\ group[g].status # "REJECTED"
    BY <2>1, SeatedIsLive DEF Live
  <2>. HIDE DEF with, without
  <2>. QED BY <1>1, <1>2, <2>1 DEF Notified, Roster
<1>5. MajorRow(cohorts).withGroup = with
  <2>. DEFINE P == {m \in Memberships : m[1] \in cohorts}
  <2>1. {s \in Students : \E m \in P : m[1] = s} = Roster(cohorts, TRUE)
    <3>1. ASSUME NEW s \in cohorts, NEW g \in Groups, Live(g), s \in accepted[g]
          PROVE  \E m \in P : m[1] = s
      <4>1. <<s, g>> \in P
        BY <3>1 DEF Memberships
      <4>. QED BY <4>1
    <3>2. \A m \in P : /\ m[2] \in Groups /\ Live(m[2]) /\ m[1] \in accepted[m[2]]
                       /\ m[1] \in cohorts
      BY DEF Memberships
    <3>. HIDE DEF P
    <3>. QED BY <1>1, <3>1, <3>2 DEF Roster
  <2>2. Cardinality(P) = Cardinality({s \in Students : \E m \in P : m[1] = s})
    BY SeatsAreStudents
  <2>. QED BY <2>1, <2>2 DEF MajorRow
<1>. QED BY <1>3, <1>4, <1>5

\* A lecturer is shown the students of the groups they supervise, and no group
\* is shown without any.
LEMMA TopicsAddUp ==
  ASSUME SerialInv, NEW topics \in SUBSET Topics
  PROVE  /\ SupervisionRow(topics).students = Cardinality(RosterOf(topics))
         /\ SupervisionRow(topics).students # 0 <=> SupervisionRow(topics).groups # 0
<1>. DEFINE groups == {g \in LiveGroups : group[g].topic \in topics}
            P == {m \in Memberships : group[m[2]].topic \in topics}
<1>1. {s \in Students : \E m \in P : m[1] = s} = RosterOf(topics)
  <2>1. ASSUME NEW s \in Students, NEW g \in Groups, s \in accepted[g],
               group[g].topic \in topics
        PROVE  \E m \in P : m[1] = s
    <3>1. Live(g)
      BY <2>1, SeatedIsLive
    <3>2. <<s, g>> \in P
      BY <2>1, <3>1 DEF Memberships
    <3>. QED BY <3>2
  <2>2. \A m \in P : /\ m[2] \in Groups /\ m[1] \in accepted[m[2]]
                     /\ group[m[2]].topic \in topics
    BY DEF Memberships
  <2>. HIDE DEF P
  <2>. QED BY <2>1, <2>2 DEF RosterOf
<1>2. Cardinality(P) = Cardinality(RosterOf(topics))
  BY <1>1, SeatsAreStudents
<1>3. groups = {} <=> RosterOf(topics) = {}
  <2>1. ASSUME NEW g \in groups PROVE RosterOf(topics) # {}
    <3>1. PICK s \in Students : s \in accepted[g]
      BY <2>1, SeatedIsLive DEF LiveGroups
    <3>. QED BY <2>1, <3>1 DEF RosterOf, LiveGroups
  <2>2. ASSUME NEW s \in RosterOf(topics) PROVE groups # {}
    <3>1. PICK g \in Groups : s \in accepted[g] /\ group[g].topic \in topics
      BY <2>2 DEF RosterOf
    <3>2. g \in groups
      BY <3>1, SeatedIsLive DEF LiveGroups
    <3>. QED BY <3>2
  <2>. QED BY <2>1, <2>2
<1>4. /\ IsFiniteSet(groups) /\ IsFiniteSet(RosterOf(topics))
      /\ Cardinality(groups) = 0 <=> groups = {}
      /\ Cardinality(RosterOf(topics)) = 0 <=> RosterOf(topics) = {}
  <2>1. IsFiniteSet(groups)
    BY FewLiveGroups, FS_Subset
  <2>2. RosterOf(topics) \in SUBSET Students
    BY DEF RosterOf
  <2>. QED BY <2>1, <2>2, CountsAreNat, FS_EmptySet
<1>. QED BY <1>2, <1>3, <1>4 DEF SupervisionRow

\* A final round has one topic under way for each of its groups.
LEMMA FinalAddsUp ==
  ASSUME SerialInv, phase = "FINALIZED"
  PROVE  /\ RegistrationRow(Students).topicsUnderway = Cardinality(LiveGroups)
         /\ ~sealedWithGaps => RegistrationRow(Students).withoutGroup = 0
<1>. DEFINE T == {t \in Topics : topicStatus[t] = "IN_PROGRESS"}
            f == [g \in LiveGroups |-> group[g].topic]
<1>1. SettlementComplete
  BY DEF SerialInv, Agreed
<1>2. T = {t \in Topics : LiveOn(t) # {}}
  BY <1>1 DEF SettlementComplete, UnderwayWhenFinal
<1>3. \A g \in LiveGroups : group[g].topic \in Topics /\ g \in LiveOn(group[g].topic)
  BY DEF SerialInv, Base, GroupsStand, LiveGroups, LiveOn, Live
<1>4. f \in [LiveGroups -> T]
  BY <1>2, <1>3
<1>5. ASSUME NEW g \in LiveGroups, NEW h \in LiveGroups, f[g] = f[h] PROVE g = h
  BY <1>5 DEF SerialInv, OneLiveGroupPerTopic, LiveGroups
<1>6. \A t \in T : \E g \in LiveGroups : f[g] = t
  BY <1>2 DEF LiveOn, LiveGroups
<1>7. Cardinality(LiveGroups) = Cardinality(T)
  <2>. HIDE DEF T, f
  <2>. QED BY <1>4, <1>5, <1>6, FewLiveGroups, SameNumber
<1>8. RegistrationRow(Students).topicsUnderway = Cardinality(T)
  BY DEF RegistrationRow, TopicCounts
<1>9. ASSUME ~sealedWithGaps PROVE RegistrationRow(Students).withoutGroup = 0
  <2>1. Roster(Students, TRUE) = Students
    BY <1>1, <1>9 DEF SettlementComplete, GapsAcknowledged, EveryoneSeated, HasGroup,
                      Roster, InCohorts
  <2>2. InCohorts(Students) = Students /\ Cardinality(Students) \in Nat
    BY CountsAreNat DEF InCohorts
  <2>3. RegistrationRow(Students).withoutGroup
          = Max({0, Cardinality(Students) - Cardinality(Students)})
    BY <2>1, <2>2 DEF RegistrationRow
  <2>4. Cardinality(Students) - Cardinality(Students) = 0
    BY <2>2
  <2>. QED BY <2>3, <2>4, MaxZero
<1>. QED BY <1>7, <1>8, <1>9

\* With requests one at a time every seat is in the report once, under one
\* lecturer and in one major, and whom it counts without a group the desk lists
\* and a notice reaches.
THEOREM ReportAddsUpHolds ==
  ASSUME OneAtATime
  PROVE  Spec => []ReportAddsUp
<1>1. SerialInv => ReportAddsUp
  <2>. SUFFICES ASSUME SerialInv PROVE ReportAddsUp
    OBVIOUS
  <2>1. SeatsCountedOnce
    BY RowAddsUp, CohortsAddUp, TopicsAddUp DEF SeatsCountedOnce
  <2>2. FinalReportSettled
    BY FinalAddsUp DEF FinalReportSettled
  <2>. QED BY <2>1, <2>2 DEF ReportAddsUp
<1>. QED BY <1>1, SerialInitially, SerialInductive, PTL DEF Spec

-----------------------------------------------------------------------------
(***************************************************************************)
(* What the pages of a round promise, for requests that overlap but do not  *)
(* straddle a change of phase, as long as nobody disbands a group.          *)
(*                                                                         *)
(* A card and the request behind it read the same rows, so what could part  *)
(* them is a row that lies: a status that is not that of the seats, members *)
(* of a rejected group, a topic under way while a gate is open.  Statuses    *)
(* are written from counts read some steps before; Kept says what is left    *)
(* of such a count when it is written, and which lock or phase kept it.     *)
(***************************************************************************)

\* What is still so of what a request in flight has read.  A leaver's count may
\* be stale, but it was short of a full group and so is the group then.
Kept(q) ==
  /\ q.op \notin {"disband", "dissolve"}
  /\ q.op \in {"drop", "sync"} => phase = "OPEN"
  /\ q.op \in {"unplace", "unseat"} =>
       phase \in {"RECONCILING", "FINALIZED"} /\ q.t = group[q.g].topic
  /\ q.op = "drop" /\ q.row => q.s \in accepted[q.g]
  /\ q.op = "sync" => q.rows = {q.s} /\ q.s \in accepted[q.g] /\ q.n < Capacity(q.g)
  /\ q.op = "seat" /\ q.g # None => q.n = Occupied(q.g)
  /\ q.op = "unseat" => q.seen = accepted[q.g] \ {q.s}
AllKept == \A r \in Requests : Kept(req[r])

\* Two leavers hold different rows.
RowsApart == \A r, q \in Requests :
  r # q /\ req[r].op = "sync" /\ req[q].op = "sync" /\ req[r].g = req[q].g
    => req[r].s # req[q].s

Tells(g) ==
  /\ declined[g] = {}
  /\ group[g].status = "REJECTED" => accepted[g] = {}
  /\ Live(g) => (group[g].status = "SUBMITTED" <=> Occupied(g) >= Capacity(g))
RowsTell == \A g \in Groups : Tells(g)
UnderwayIsFinal == \A t \in Topics : topicStatus[t] = "IN_PROGRESS" => phase = "FINALIZED"

PagesInv ==
  /\ Base /\ OneHolder /\ Tight /\ OneLiveGroupPerTopic
  /\ AllKept /\ RowsApart /\ RowsTell /\ UnderwayIsFinal

-----------------------------------------------------------------------------
(* How a request in flight moves.                                           *)

\* The steps at which a transaction reads and locks.
Reads(q) == DeleteRow(q) \/ DeclineMembers(q) \/ LockTopic(q) \/ LockUnplace(q)

\* A member row goes at the end of a transaction.
Deletes(r) == CommitDrop(r) \/ CommitUnplaceLast(r) \/ CommitUnplace(r)

LEMMA HowRequestsMove ==
  ASSUME Base, [Next]_vars, NEW q \in Requests
  PROVE  \/ req'[q] = req[q] \/ req'[q] = Idle
         \/ Arrive(q) \/ Reads(q)
         \/ /\ \E r \in Requests : Deletes(r)
            /\ req[q].op \in {"drop", "unplace"} /\ req'[q] = [req[q] EXCEPT !.row = FALSE]
<1>. DEFINE Goal ==
         \/ req'[q] = req[q] \/ req'[q] = Idle
         \/ Arrive(q) \/ Reads(q)
         \/ /\ \E r \in Requests : Deletes(r)
            /\ req[q].op \in {"drop", "unplace"} /\ req'[q] = [req[q] EXCEPT !.row = FALSE]
<1>1. CASE UNCHANGED req
  BY <1>1
<1>2. ASSUME NEW r \in Requests, NEW p, req' = [req EXCEPT ![r] = p], r # q PROVE Goal
  BY <1>2 DEF Base, TypeOK
<1>3. ASSUME NEW r \in Requests, Finish(r) PROVE Goal
  BY <1>3 DEF Finish, Base, TypeOK
<1>4. ASSUME NEW r \in Requests, Deletes(r) PROVE Goal
  <2>1. FinishDeleting(r, req[r].g, req[r].s)
    BY <1>4 DEF Deletes, CommitDrop, CommitUnplaceLast, CommitUnplace, Unseat
  <2>. QED BY <1>4, <2>1 DEF FinishDeleting
<1>5. ASSUME NEW r \in Requests, Reads(r) PROVE Goal
  <2>1. CASE r = q
    BY <1>5, <2>1
  <2>2. CASE DeleteRow(r) /\ r # q
    BY <2>2 DEF DeleteRow, Base, TypeOK
  <2>3. CASE DeclineMembers(r) /\ r # q
    BY <2>3 DEF DeclineMembers, Base, TypeOK
  <2>4. CASE LockTopic(r) /\ r # q
    BY <2>4 DEF LockTopic, Base, TypeOK
  <2>5. CASE LockUnplace(r) /\ r # q
    BY <2>5 DEF LockUnplace, Base, TypeOK
  <2>. QED BY <1>5, <2>1, <2>2, <2>3, <2>4, <2>5 DEF Reads
<1>6. ASSUME NEW r \in Requests, Arrive(r) PROVE Goal
  <2>1. CASE r = q
    BY <1>6, <2>1
  <2>2. ASSUME NEW p, Begin(r, p), r # q PROVE Goal
    BY <1>2, <2>2 DEF Begin
  <2>. HIDE DEF Goal
  <2>. QED
    BY <1>6, <2>1, <2>2 DEF Arrive, StudentArrives, RemovalArrives, DisbandArrives,
       SettingsArrive, OfficeArrives, LecturerArrives, CheckRegister, CheckJoin,
       CheckLeave, CheckRemove, CheckDisband, CheckUpdate, CheckHandOver,
       CheckSetOpen, CheckDeclare, CheckRelease, CheckPlace, CheckUnplace,
       CheckFinalize, CheckOffer, CheckTakeBack
<1>7. ASSUME NEW r \in Requests, Commit(r) \/ Refused(r) PROVE Goal
  <2>1. Finish(r) \/ Deletes(r) \/ Reads(r)
    BY <1>7 DEF Commit, Refused, CommitRegister, CommitJoin, CommitUpdate, Reads,
         Deletes, CommitDisband, CommitPlaceInNew, CommitPlace, CommitFinalize,
         CommitSetStatus
  <2>. QED BY <2>1, <1>3, <1>4, <1>5
<1>8. CASE \/ GateOpens \/ GateCloses \/ Extend \/ Unlock \/ BulkOpen
           \/ UNCHANGED vars \/ \E g \in Groups : HoldLapses(g)
  BY <1>1, <1>8 DEF GateOpens, GateCloses, Extend, Unlock, BulkOpen, MovePhase,
                    HoldLapses, vars
<1>. QED BY <1>6, <1>7, <1>8 DEF Next

\* What a request has read stays so as long as the rows do.
LEMMA StaysKept ==
  ASSUME RowsStand, NEW r \in Requests, NEW q, Kept(q), req'[r] = q
  PROVE  Kept(req[r])'
<1>1. \A g : Occupied(g)' = Occupied(g) /\ Capacity(g)' = Capacity(g)
  BY DEF RowsStand, memberVars, Occupied, Capacity
<1>. QED BY <1>1 DEF RowsStand, memberVars, Kept

\* What arrives has read the rows as they are.
LEMMA ArrivesKept ==
  ASSUME Base, "disband" \notin Kinds, NEW r \in Requests, Arrive(r)
  PROVE  Kept(req[r])' /\ RowsStand /\ req'[r].op # "sync"
<1>. DEFINE Goal == Kept(req[r])' /\ RowsStand /\ req'[r].op # "sync"
<1>1. ASSUME NEW q, Begin(r, q), Kept(q), q.op # "sync" PROVE Goal
  <2>1. RowsStand /\ req'[r] = q
    BY <1>1 DEF Begin, RowsStand, Base, TypeOK
  <2>. QED BY <1>1, <2>1, StaysKept
<1>. HIDE DEF Goal
<1>2. ASSUME NEW q, Begin(r, q),
             q.op \in {"register", "join", "handOver", "setOpen", "declare",
                       "release", "place", "finalize", "offer", "takeBack"}
      PROVE  Goal
  BY <1>1, <1>2 DEF Kept
<1>3. ASSUME NEW s, NEW g, Begin(r, DropRequest(s, g)), phase = "OPEN", s \in accepted[g]
      PROVE  Goal
  <2>. DEFINE q == DropRequest(s, g)
  <2>1. q.op = "drop" /\ q.s = s /\ q.g = g
    BY DEF Idle, DropRequest
  <2>2. Begin(r, q)
    BY <1>3
  <2>. HIDE DEF q
  <2>. QED BY <1>1, <1>3, <2>1, <2>2 DEF Kept
<1>4. ASSUME NEW s, NEW g, CheckUnplace(r, s, g) PROVE Goal
  <2>. DEFINE leads == group[g].leader = s
              q == [Idle EXCEPT !.op = "unplace", !.s = s, !.g = g,
                      !.t = group[g].topic, !.row = TRUE, !.flag = leads]
  <2>1. q.op = "unplace" /\ q.g = g /\ q.t = group[g].topic
    BY DEF Idle
  <2>2. Begin(r, q) /\ phase = "RECONCILING"
    BY <1>4 DEF CheckUnplace, MayUnplace
  <2>. HIDE DEF q
  <2>. QED BY <1>1, <2>1, <2>2 DEF Kept
<1>5. ASSUME NEW s, NEW t, NEW n, CheckRegister(r, s, t, n) PROVE Goal
  BY <1>2, <1>5 DEF CheckRegister, Idle
<1>6. ASSUME NEW s, NEW g, NEW link, CheckJoin(r, s, g, link) PROVE Goal
  BY <1>2, <1>6 DEF CheckJoin, Idle
<1>7. ASSUME NEW s, NEW g, CheckHandOver(r, s, g) PROVE Goal
  BY <1>2, <1>7 DEF CheckHandOver, Idle
<1>8. ASSUME NEW s, NEW g, CheckSetOpen(r, s, g) PROVE Goal
  BY <1>2, <1>8 DEF CheckSetOpen, Idle
<1>9. ASSUME NEW s, NEW g, CheckDeclare(r, s, g) PROVE Goal
  BY <1>2, <1>9 DEF CheckDeclare, Idle
<1>10. ASSUME NEW s, NEW g, CheckRelease(r, s, g) PROVE Goal
  BY <1>2, <1>10 DEF CheckRelease, Idle
<1>11. ASSUME NEW s, NEW t, CheckPlace(r, s, t) PROVE Goal
  BY <1>2, <1>11 DEF CheckPlace, Idle
<1>12. ASSUME NEW acknowledged, CheckFinalize(r, acknowledged) PROVE Goal
  BY <1>2, <1>12 DEF CheckFinalize, Idle
<1>13. ASSUME NEW t, CheckOffer(r, t) \/ CheckTakeBack(r, t) PROVE Goal
  BY <1>2, <1>13 DEF CheckOffer, CheckTakeBack, Idle
<1>14. ASSUME NEW s, NEW g, CheckLeave(r, s, g) PROVE Goal
  BY <1>3, <1>14 DEF CheckLeave
<1>15. ASSUME NEW l, NEW s, NEW g, CheckRemove(r, l, s, g) PROVE Goal
  BY <1>3, <1>15 DEF CheckRemove, Leads
<1>16. Goal
  BY <1>4, <1>5, <1>6, <1>7, <1>8, <1>9, <1>10, <1>11, <1>12, <1>13, <1>14, <1>15
     DEF Arrive, StudentArrives, RemovalArrives, SettingsArrive, CheckUpdate,
         OfficeArrives, LecturerArrives
<1>. QED BY <1>16 DEF Goal

\* A transaction that reads reads the rows as they are.
LEMMA ReadsKept ==
  ASSUME PagesInv, NEW r \in Requests, Reads(r)
  PROVE  Kept(req[r])' /\ RowsStand
<1>0. req[r] \in Request /\ Kept(req[r]) /\ Addresses(req[r]) /\ Base
  BY DEF PagesInv, Base, TypeOK, RequestsAddress, AllKept
<1>. DEFINE s == req[r].s  g == req[r].g
<1>2. CASE DeleteRow(r)
  <2>. DEFINE n == Cardinality(accepted[g] \ {s})
              q == [req[r] EXCEPT !.op = "sync", !.rows = {s}, !.n = n]
  <2>1. req'[r] = q /\ RowsStand /\ req[r].op = "drop" /\ req[r].row
    BY <1>0, <1>2 DEF DeleteRow, RowsStand, Doing, Base, TypeOK
  <2>2. q.op = "sync" /\ q.s = s /\ q.g = g /\ q.n = n /\ q.rows = {s}
    BY <1>0 DEF Request
  <2>3. phase = "OPEN" /\ s \in accepted[g] /\ Stands(g)
    BY <1>0, <2>1 DEF Kept, Addresses, GroupOps
  <2>4. n < Capacity(g)
    <3>1. accepted[g] \in SUBSET Students /\ g \in Groups
      BY <1>0, <2>3 DEF Base, TypeOK, Stands
    <3>2. Cardinality(accepted[g]) <= Capacity(g) /\ Capacity(g) \in Nat
      BY <1>0, <2>3, CapacityPositive
         DEF PagesInv, Tight, SeatsWithinCapacity, Stands, Occupied
    <3>3. /\ Cardinality(accepted[g]) \in Nat /\ n \in Nat
          /\ n + 1 <= Cardinality(accepted[g])
      BY <2>3, <3>1, Fewer
    <3>. QED BY <3>2, <3>3
  <2>. HIDE DEF q, n
  <2>5. Kept(q)
    BY <2>2, <2>3, <2>4 DEF Kept
  <2>. QED BY <2>1, <2>5, StaysKept
<1>3. ~DeclineMembers(r)
  BY <1>0 DEF DeclineMembers, Kept, Doing
<1>4. CASE LockTopic(r)
  <2>. DEFINE t == req[r].t
              Count(h) == IF h = None THEN 0 ELSE Occupied(h)
  <2>1. PICK h \in (IF LiveOn(t) = {} THEN {None} ELSE LiveOn(t)) :
          req' = [req EXCEPT ![r].op = "seat", ![r].g = h, ![r].n = Count(h)]
    BY <1>4 DEF LockTopic
  <2>. DEFINE q == [req[r] EXCEPT !.op = "seat", !.g = h, !.n = Count(h)]
  <2>2. req'[r] = q /\ RowsStand
    BY <1>0, <1>4, <2>1 DEF LockTopic, RowsStand, Base, TypeOK
  <2>3. q.op = "seat" /\ q.g = h /\ (h # None => q.n = Occupied(h))
    BY <1>0 DEF Request
  <2>. HIDE DEF q
  <2>4. Kept(q)
    BY <2>3 DEF Kept
  <2>. QED BY <2>2, <2>4, StaysKept
<1>5. CASE LockUnplace(r)
  <2>. DEFINE q == [req[r] EXCEPT !.op = "unseat", !.rows = {s},
                                  !.seen = accepted[g] \ {s}]
  <2>1. req'[r] = q /\ RowsStand /\ req[r].op = "unplace"
    BY <1>0, <1>5 DEF LockUnplace, RowsStand, Doing, Base, TypeOK
  <2>2. /\ q.op = "unseat" /\ q.s = s /\ q.g = g /\ q.t = req[r].t
        /\ q.seen = accepted[g] \ {s}
    BY <1>0 DEF Request
  <2>3. phase \in {"RECONCILING", "FINALIZED"} /\ req[r].t = group[g].topic
    BY <1>0, <2>1 DEF Kept
  <2>. HIDE DEF q
  <2>4. Kept(q)
    BY <2>2, <2>3 DEF Kept
  <2>. QED BY <2>1, <2>4, StaysKept
<1>. QED BY <1>2, <1>3, <1>4, <1>5 DEF Reads

-----------------------------------------------------------------------------
(* How the members of a group move beside a request that has counted them.  *)

\* The members a request in flight goes by.
Undisturbed(p) ==
  /\ p.op = "drop" /\ p.row => p.s \in accepted'[p.g]
  /\ p.op = "sync" => p.s \in accepted'[p.g]
  /\ p.op = "unseat" \/ (p.op = "seat" /\ p.g # None) => accepted'[p.g] = accepted[p.g]

\* A request stays right about the members it goes by.
LEMMA UndisturbedKept ==
  ASSUME PagesInv, ~StraddleGate, [Next]_vars, NEW q \in Requests,
         \/ req'[q] = req[q]
         \/ req[q].op \in {"drop", "unplace"} /\ req'[q] = [req[q] EXCEPT !.row = FALSE],
         Undisturbed(req'[q])
  PROVE  Kept(req[q])'
<1>0. req[q] \in Request /\ Kept(req[q]) /\ Addresses(req[q]) /\ Base
  BY DEF PagesInv, Base, TypeOK, RequestsAddress, AllKept
<1>. DEFINE p == req'[q]
<1>1. /\ p.op = req[q].op /\ p.s = req[q].s /\ p.g = req[q].g /\ p.t = req[q].t
      /\ p.n = req[q].n /\ p.rows = req[q].rows /\ p.seen = req[q].seen
      /\ p.row => req[q].row
  BY <1>0 DEF Request
<1>2. req[q].op \in GroupOps \/ (req[q].op = "seat" /\ req[q].g # None)
        => group'[req[q].g].topic = group[req[q].g].topic
  BY <1>0, TopicsKept DEF Addresses, Stands
<1>3. accepted'[p.g] = accepted[p.g] => Occupied(req[q].g)' = Occupied(req[q].g)
  BY <1>1 DEF Occupied
<1>4. \/ phase' = phase
      \/ req[q].op = "idle"
      \/ phase = "RECONCILING" /\ phase' = "FINALIZED"
  BY PhaseMoves
<1>. HIDE DEF p
<1>5. CASE req[q].op = "idle"
  BY <1>1, <1>5 DEF Kept, p
<1>6. CASE req[q].op # "idle"
  <2>1. phase' = phase \/ (phase = "RECONCILING" /\ phase' = "FINALIZED")
    BY <1>4, <1>6
  <2>2. Undisturbed(p)
    BY DEF p
  <2>. QED BY <1>0, <1>1, <1>2, <1>3, <2>1, <2>2
           DEF Kept, Undisturbed, GroupOps, Capacity, Occupied, p
<1>. QED BY <1>5, <1>6

\* The steps that move a member: nobody disbands.
LEMMA HowMembersMove ==
  ASSUME PagesInv, [Next]_vars
  PROVE  \/ UNCHANGED <<accepted, declined>>
         \/ \E x \in Requests : Founds(x) \/ Enters(x) \/ Deletes(x)
<1>1. ASSUME NEW x \in Requests, Quiet(x) PROVE UNCHANGED <<accepted, declined>>
  BY <1>1, QuietWritesNothing DEF memberVars
<1>2. ASSUME NEW x \in Requests PROVE ~CommitDisband(x)
  BY DEF CommitDisband, Doing, PagesInv, AllKept, Kept
<1>3. ASSUME NEW x \in Requests, CommitUpdate(x) PROVE UNCHANGED <<accepted, declined>>
  BY <1>3 DEF CommitUpdate, memberVars
<1>4. CASE \/ GateOpens \/ GateCloses \/ Extend \/ Unlock \/ BulkOpen
           \/ UNCHANGED vars \/ \E g \in Groups : HoldLapses(g)
  BY <1>4 DEF GateOpens, GateCloses, Extend, Unlock, BulkOpen, MovePhase,
              HoldLapses, vars, memberVars
<1>. QED BY <1>1, <1>2, <1>3, <1>4 DEF Next, Commit, Quiet, Founds, Enters, Deletes

\* A member row that goes goes with its request.
LEMMA DeletingRow ==
  ASSUME Base, NEW x \in Requests, Deletes(x)
  PROVE  /\ req[x].op \in {"sync", "unseat"}
         /\ req'[x] = Idle /\ FinishDeleting(x, req[x].g, req[x].s)
         /\ req[x].g \in Groups
         /\ accepted' = [accepted EXCEPT ![req[x].g] = accepted[req[x].g] \ {req[x].s}]
         /\ req[x].op = "sync" => CommitDrop(x)
         /\ req[x].op = "unseat" => CommitUnplaceLast(x) \/ CommitUnplace(x)
<1>1. req[x].op \in {"sync", "unseat"} => req[x].g \in Groups
  BY DEF Base, RequestsAddress, Addresses, GroupOps, Stands
<1>2. FinishDeleting(x, req[x].g, req[x].s)
  BY DEF Deletes, CommitDrop, CommitUnplaceLast, CommitUnplace, Unseat
<1>3. req'[x] = Idle
  BY <1>2 DEF FinishDeleting
<1>4. /\ req[x].op \in {"sync", "unseat"}
      /\ accepted' = [accepted EXCEPT ![req[x].g] = accepted[req[x].g] \ {req[x].s}]
      /\ req[x].op = "sync" => CommitDrop(x)
      /\ req[x].op = "unseat" => CommitUnplaceLast(x) \/ CommitUnplace(x)
  BY DEF Deletes, CommitDrop, CommitUnplaceLast, CommitUnplace, Unseat, Doing
<1>. QED BY <1>1, <1>2, <1>3, <1>4

\* Whoever holds a topic has its group to itself while the office works.
LEMMA OtherHolder ==
  ASSUME PagesInv, NEW x \in Requests, NEW q \in Requests, q # x, Held(x), Held(q),
         req[x].g # None, req[q].g # None
  PROVE  req[q].g # req[x].g
<1>1. ASSUME NEW r \in Requests, Held(r), req[r].g # None
      PROVE  group[req[r].g].topic = req[r].t
  BY <1>1 DEF Held, PagesInv, AllKept, Kept, Base, RequestsAddress, Addresses
<1>. QED BY <1>1 DEF PagesInv, OneHolder

LEMMA BesideUndisturbed ==
  ASSUME PagesInv, [Next]_vars, NEW q \in Requests,
         \/ req'[q] = req[q]
         \/ req[q].op \in {"drop", "unplace"} /\ req'[q] = [req[q] EXCEPT !.row = FALSE]
  PROVE  Undisturbed(req'[q])
<1>0. req[q] \in Request /\ Kept(req[q]) /\ Addresses(req[q]) /\ Base
  BY DEF PagesInv, Base, TypeOK, RequestsAddress, AllKept
<1>. DEFINE p == req'[q]
<1>1. /\ p.op = req[q].op /\ p.s = req[q].s /\ p.g = req[q].g
      /\ p.row => req[q].row /\ req'[q] = req[q]
  BY <1>0 DEF Request
<1>. SUFFICES ASSUME \/ p.op = "drop" /\ p.row
                     \/ p.op = "sync"
                     \/ p.op = "unseat"
                     \/ p.op = "seat" /\ p.g # None
              PROVE  Undisturbed(p)
  BY DEF Undisturbed
<1>2. Stands(p.g) /\ p.g # None
  BY <1>0, <1>1, NoneIsNone DEF Addresses, GroupOps, Stands
<1>3. /\ p.op \in {"drop", "sync"} => phase = "OPEN" /\ p.s \in accepted[p.g]
      /\ p.op \in {"seat", "unseat"} => phase \in {"RECONCILING", "FINALIZED"}
  BY <1>0, <1>1 DEF Kept, PagesInv, Tight, InPhase
<1>. HIDE DEF p
<1>4. CASE accepted' = accepted
  BY <1>3, <1>4 DEF Undisturbed
<1>5. ASSUME NEW x \in Requests, Founds(x) PROVE Undisturbed(p)
  <2>1. PICK f \in Groups : group[f].status = "NONE"
                              /\ \A h \in Groups \ {f} : Same(h)
    BY <1>0, <1>5, FoundingCounts
  <2>2. accepted'[p.g] = accepted[p.g]
    BY <1>2, <2>1 DEF Stands, Same
  <2>. QED BY <1>3, <2>2 DEF Undisturbed
<1>6. ASSUME NEW x \in Requests, CommitJoin(x) PROVE Undisturbed(p)
  <2>1. phase \in {"OPEN", "EXTENDED"}
    BY <1>6 DEF CommitJoin, Doing, PagesInv, Tight, InPhase
  <2>2. accepted[p.g] \subseteq accepted'[p.g]
    BY <1>0, <1>2, <1>6 DEF CommitJoin, Stands, Base, TypeOK
  <2>. QED BY <1>3, <2>1, <2>2 DEF Undisturbed
<1>7. ASSUME NEW x \in Requests, CommitPlace(x) PROVE Undisturbed(p)
  <2>1. req[x].op = "seat" /\ req[x].g # None /\ req'[x] = Idle /\ Seat(req[x].s, req[x].g)
    BY <1>0, <1>7 DEF CommitPlace, Doing, Finish, Base, TypeOK
  <2>2. phase \in {"RECONCILING", "FINALIZED"}
    BY <2>1 DEF PagesInv, Tight, InPhase
  <2>3. p.op \in {"seat", "unseat"}
    BY <1>3, <2>2
  <2>4. q # x
    BY <2>1, <2>3 DEF Idle, p
  <2>5. p.g # req[x].g
    BY <1>1, <1>2, <2>1, <2>3, <2>4, OtherHolder DEF Held
  <2>6. accepted'[p.g] = accepted[p.g]
    BY <1>0, <1>2, <2>1, <2>5 DEF Seat, Stands, Base, TypeOK
  <2>. QED BY <2>3, <2>6 DEF Undisturbed
<1>8. ASSUME NEW x \in Requests, Deletes(x) PROVE Undisturbed(p)
  <2>1. /\ req[x].op \in {"sync", "unseat"} /\ req'[x] = Idle
        /\ FinishDeleting(x, req[x].g, req[x].s) /\ req[x].g \in Groups
        /\ accepted' = [accepted EXCEPT ![req[x].g] = accepted[req[x].g] \ {req[x].s}]
    BY <1>0, <1>8, DeletingRow
  <2>2. q # x
    BY <2>1 DEF Idle, p
  <2>3. /\ req[x].op = "sync" => phase = "OPEN"
        /\ req[x].op = "unseat" => phase \in {"RECONCILING", "FINALIZED"}
    BY DEF PagesInv, AllKept, Kept
  <2>4. CASE p.op \in {"seat", "unseat"}
    <3>1. Held(x) /\ Held(q) /\ req[x].g # None
      BY <1>1, <1>3, <2>1, <2>3, <2>4, NoneIsNone DEF Held
    <3>2. p.g # req[x].g
      BY <1>1, <1>2, <2>2, <3>1, OtherHolder
    <3>3. accepted'[p.g] = accepted[p.g]
      BY <1>0, <1>2, <2>1, <3>2 DEF Stands, Base, TypeOK
    <3>. QED BY <2>4, <3>3 DEF Undisturbed
  <2>5. CASE p.op \in {"drop", "sync"}
    <3>1. req[x].op = "sync"
      BY <1>3, <2>1, <2>3, <2>5
    <3>2. ~(p.g = req[x].g /\ p.s = req[x].s)
      <4>1. CASE p.op = "sync"
        BY <1>1, <2>2, <3>1, <4>1 DEF PagesInv, RowsApart
      <4>2. CASE p.op = "drop"
        <5>1. p.row /\ req'[q] = req[q]
          BY <1>1, <4>2
        <5>2. req[q].op = "drop" /\ req[q].row
          BY <4>2, <5>1 DEF p
        <5>3. ASSUME req[q].g = req[x].g, req[q].s = req[x].s PROVE FALSE
          <6>1. req'[q] = [req[q] EXCEPT !.row = FALSE]
            BY <2>1, <2>2, <5>2, <5>3 DEF FinishDeleting
          <6>2. [req[q] EXCEPT !.row = FALSE].row = FALSE
            BY <1>0 DEF Request
          <6>. QED BY <5>1, <5>2, <6>1, <6>2
        <5>. QED BY <1>1, <5>3
      <4>. QED BY <2>5, <4>1, <4>2
    <3>3. p.s \in accepted'[p.g]
      BY <1>0, <1>2, <1>3, <2>1, <2>5, <3>2 DEF Stands, Base, TypeOK
    <3>. QED BY <2>5, <3>3 DEF Undisturbed
  <2>. QED BY <2>4, <2>5
<1>9. Undisturbed(p)
  BY <1>4, <1>5, <1>6, <1>7, <1>8, HowMembersMove DEF Enters
<1>. QED BY <1>9 DEF p

\* What requests have read is still so after every step.
LEMMA AllKeptInductive ==
  ASSUME PagesInv, ~StraddleGate, "disband" \notin Kinds, [Next]_vars
  PROVE  AllKept'
<1>. SUFFICES ASSUME NEW q \in Requests PROVE Kept(req[q])'
  BY DEF AllKept
<1>0. Base
  BY DEF PagesInv
<1>1. CASE \/ req'[q] = req[q]
           \/ req[q].op \in {"drop", "unplace"} /\ req'[q] = [req[q] EXCEPT !.row = FALSE]
  BY <1>1, BesideUndisturbed, UndisturbedKept
<1>2. CASE req'[q] = Idle
  BY <1>2 DEF Idle, Kept
<1>3. CASE Arrive(q)
  BY <1>0, <1>3, ArrivesKept
<1>4. CASE Reads(q)
  BY <1>4, ReadsKept
<1>. QED BY <1>0, <1>1, <1>2, <1>3, <1>4, HowRequestsMove

\* The lock on a member row has one holder.
LEMMA RowsApartInductive ==
  ASSUME PagesInv, "disband" \notin Kinds, [Next]_vars
  PROVE  RowsApart'
<1>. SUFFICES ASSUME NEW r \in Requests, NEW q \in Requests, r # q,
                     req'[r].op = "sync", req'[q].op = "sync",
                     req'[r].g = req'[q].g, req'[r].s = req'[q].s
              PROVE  FALSE
  BY DEF RowsApart
<1>0. Base /\ \A x \in Requests : req[x] \in Request
  BY DEF PagesInv, Base, TypeOK
<1>1. ASSUME NEW x \in Requests, req'[x].op = "sync"
      PROVE  req'[x] = req[x] \/ DeleteRow(x)
  <2>1. req'[x] # Idle
    BY <1>1 DEF Idle
  <2>2. ~Arrive(x)
    BY <1>0, <1>1, ArrivesKept
  <2>3. ~(DeclineMembers(x) \/ LockTopic(x) \/ LockUnplace(x))
    <3>1. CASE DeclineMembers(x)
      <4>1. req[x].op = "disband"
        BY <3>1 DEF DeclineMembers, Doing
      <4>2. req[x].op # "disband"
        BY DEF PagesInv, AllKept, Kept
      <4>. QED BY <4>1, <4>2
    <3>2. CASE LockTopic(x)
      <4>1. PICK h, n : req' = [req EXCEPT ![x].op = "seat", ![x].g = h, ![x].n = n]
        BY <3>2 DEF LockTopic
      <4>2. req'[x].op = "seat"
        BY <1>0, <4>1 DEF Base, TypeOK, Request
      <4>. QED BY <1>1, <4>2
    <3>3. CASE LockUnplace(x)
      <4>1. req'[x].op = "unseat"
        BY <1>0, <3>3 DEF LockUnplace, Base, TypeOK, Request
      <4>. QED BY <1>1, <4>1
    <3>. QED BY <3>1, <3>2, <3>3
  <2>4. ~(req[x].op \in {"drop", "unplace"} /\ req'[x] = [req[x] EXCEPT !.row = FALSE])
    BY <1>0, <1>1 DEF Request
  <2>. QED BY <1>0, <2>1, <2>2, <2>3, <2>4, HowRequestsMove DEF Reads
<1>2. ASSUME NEW x \in Requests, NEW y \in Requests, x # y, DeleteRow(x),
             req'[y].op = "sync", req'[y].g = req'[x].g, req'[y].s = req'[x].s
      PROVE  FALSE
  <2>1. /\ req'[x].g = req[x].g /\ req'[x].s = req[x].s /\ req'[y] = req[y]
        /\ RowsFree(x, req[x].g, {req[x].s})
    BY <1>0, <1>2 DEF DeleteRow, Base, TypeOK, Request
  <2>2. req[y].rows = {req[y].s}
    BY <1>2, <2>1 DEF PagesInv, AllKept, Kept
  <2>. QED BY <1>2, <2>1, <2>2 DEF RowsFree
<1>3. CASE DeleteRow(r) \/ DeleteRow(q)
  BY <1>2, <1>3
<1>4. CASE req'[r] = req[r] /\ req'[q] = req[q]
  BY <1>4 DEF PagesInv, RowsApart
<1>. QED BY <1>1, <1>3, <1>4

-----------------------------------------------------------------------------
(* What the rows tell.                                                      *)

\* Every write of a status is of one that the seats have.
LEMMA StatusTells ==
  ASSUME NEW g, declined'[g] = {},
         group'[g].status = StatusForSeats(Cardinality(accepted'[g]),
                                           MaxStudents[group'[g].topic])
  PROVE  Tells(g)'
<1>1. /\ Occupied(g)' = Cardinality(accepted'[g])
      /\ Capacity(g)' = MaxStudents[group'[g].topic]
  BY DEF Occupied, Capacity
<1>. QED BY <1>1 DEF StatusForSeats, Tells

\* What is written neither in its status nor in its members tells what it did.
LEMMA SameTells ==
  ASSUME NEW g, Tells(g), declined'[g] = declined[g], accepted'[g] = accepted[g],
         group'[g].status = group[g].status, group'[g].topic = group[g].topic
  PROVE  Tells(g)'
  BY DEF Tells, Live, Occupied, Capacity

\* The steps that move nobody leave every group on its topic, in its status.
LEMMA StandingRows ==
  ASSUME PagesInv, [Next]_vars, NEW g \in Groups,
         ~\E x \in Requests : Founds(x) \/ Enters(x) \/ Deletes(x)
  PROVE  group'[g].status = group[g].status /\ group'[g].topic = group[g].topic
<1>0. Base
  BY DEF PagesInv
<1>1. ASSUME NEW x \in Requests, Quiet(x) PROVE UNCHANGED group
  BY <1>1, QuietWritesNothing
<1>2. ASSUME NEW x \in Requests PROVE ~CommitDisband(x)
  BY DEF CommitDisband, Doing, PagesInv, AllKept, Kept
<1>3. ASSUME NEW x \in Requests, CommitUpdate(x)
      PROVE  group'[g].status = group[g].status /\ group'[g].topic = group[g].topic
  <2>. DEFINE q == req[x]
  <2>1. CASE g # q.g
    BY <1>0, <1>3, <2>1 DEF CommitUpdate, Base, TypeOK
  <2>2. CASE g = q.g
    <3>1. group[g] \in GroupRow
      BY <1>0 DEF Base, TypeOK
    <3>2. CASE q.op = "handOver"
      BY <1>0, <1>3, <2>2, <3>1, <3>2 DEF CommitUpdate, Base, TypeOK, GroupRow
    <3>3. CASE q.op = "setOpen"
      BY <1>0, <1>3, <2>2, <3>1, <3>3 DEF CommitUpdate, Base, TypeOK, GroupRow
    <3>4. CASE q.op = "declare"
      BY <1>0, <1>3, <2>2, <3>1, <3>4 DEF CommitUpdate, Base, TypeOK, GroupRow
    <3>5. CASE q.op = "release"
      BY <1>0, <1>3, <2>2, <3>1, <3>5 DEF CommitUpdate, Base, TypeOK, GroupRow
    <3>. QED BY <1>3, <3>2, <3>3, <3>4, <3>5 DEF CommitUpdate
  <2>. QED BY <2>1, <2>2
<1>4. ASSUME NEW h \in Groups, HoldLapses(h)
      PROVE  group'[g].status = group[g].status /\ group'[g].topic = group[g].topic
  BY <1>0, <1>4 DEF HoldLapses, Base, TypeOK, GroupRow
<1>5. CASE \/ GateOpens \/ GateCloses \/ Extend \/ Unlock \/ BulkOpen \/ UNCHANGED vars
  BY <1>5 DEF GateOpens, GateCloses, Extend, Unlock, BulkOpen, MovePhase, vars
<1>. QED BY <1>1, <1>2, <1>3, <1>4, <1>5 DEF Next, Commit, Quiet, Founds, Enters, Deletes

LEMMA FoundingTells ==
  ASSUME PagesInv, NEW x \in Requests, Founds(x)
  PROVE  RowsTell'
<1>0. Base /\ RowsTell /\ declined' = declined
  BY DEF PagesInv, Founds, CommitRegister, CommitPlaceInNew
<1>1. PICK f \in Groups :
        /\ group[f].status = "NONE" /\ Occupied(f)' = 1
        /\ \A h \in Groups \ {f} : Same(h)
  BY <1>0, FoundingCounts
<1>2. group'[f].status = StatusForSeats(1, MaxStudents[group'[f].topic])
  <2>. DEFINE s == req[x].s  t == req[x].t
  <2>0. ASSUME NEW g \in Groups, NEW row, group' = [group EXCEPT ![g] = row],
               row.status = StatusForSeats(1, MaxStudents[row.topic]),
               accepted' # accepted => accepted'[g] # accepted[g],
               accepted'[f] # accepted[f]
        PROVE  group'[f].status = StatusForSeats(1, MaxStudents[group'[f].topic])
    <3>1. f = g
      BY <1>1, <2>0 DEF Same
    <3>. QED BY <1>0, <2>0, <3>1 DEF Base, TypeOK
  <2>1. accepted[f] = {} /\ accepted'[f] # {}
    BY <1>0, <1>1, FS_EmptySet DEF Base, GroupsStand, Occupied
  <2>2. CASE CommitRegister(x)
    <3>. DEFINE row == [status |-> StatusForSeats(1, MaxStudents[t]), topic |-> t,
                        leader |-> s, open |-> TRUE, declared |-> req[x].n,
                        held |-> req[x].n # 0]
    <3>1. PICK g \in Groups : /\ group[g].status = "NONE"
                              /\ group' = [group EXCEPT ![g] = row]
                              /\ accepted' = [accepted EXCEPT ![g] = {s}]
      BY <2>2 DEF CommitRegister
    <3>2. row.status = StatusForSeats(1, MaxStudents[row.topic])
      OBVIOUS
    <3>3. accepted'[g] # accepted[g]
      BY <1>0, <3>1 DEF Base, TypeOK, GroupsStand
    <3>. HIDE DEF row
    <3>. QED BY <2>0, <2>1, <3>1, <3>2, <3>3
  <2>3. CASE CommitPlaceInNew(x)
    <3>. DEFINE row == [status |-> StatusForSeats(1, MaxStudents[t]), topic |-> t,
                        leader |-> s, open |-> FALSE, declared |-> 0,
                        held |-> FALSE]
    <3>1. PICK g \in Groups : group[g].status = "NONE" /\ Seat(s, g)
                              /\ group' = [group EXCEPT ![g] = row]
      BY <2>3 DEF CommitPlaceInNew
    <3>2. row.status = StatusForSeats(1, MaxStudents[row.topic])
      OBVIOUS
    <3>3. accepted'[g] # accepted[g]
      BY <1>0, <3>1 DEF Seat, Base, TypeOK, GroupsStand
    <3>. HIDE DEF row
    <3>. QED BY <2>0, <2>1, <3>1, <3>2, <3>3
  <2>. QED BY <2>2, <2>3 DEF Founds
<1>3. Tells(f)'
  <2>1. Cardinality(accepted'[f]) = 1
    BY <1>1 DEF Occupied
  <2>2. declined'[f] = {}
    BY <1>0 DEF RowsTell, Tells
  <2>. QED BY <1>2, <2>1, <2>2, StatusTells
<1>4. \A h \in Groups \ {f} : Tells(h)'
  BY <1>0, <1>1, SameTells DEF Same, RowsTell
<1>. QED BY <1>3, <1>4 DEF RowsTell

\* Who enters a group is counted: by the join itself, under the group's lock,
\* and for a placement before it, under the topic's.
LEMMA EnteringTells ==
  ASSUME PagesInv, NEW x \in Requests, Enters(x)
  PROVE  RowsTell'
<1>. DEFINE s == req[x].s
<1>0. Base /\ RowsTell /\ TypeOK /\ declined' = declined
  BY DEF PagesInv, Base, Enters, CommitJoin, CommitPlace
<1>1. PICK g \in Groups : g = req[x].g
  BY DEF Enters, PagesInv, Base, RequestsAddress, Addresses, CommitJoin, CommitPlace,
         Doing, GroupOps, Stands
<1>2. s \in Students /\ ~AcceptedSomewhere(s)
  BY DEF Enters, PagesInv, Base, RequestsAddress, Addresses, CommitJoin, CommitPlace,
         Seat, Doing, StudentOps
<1>3. accepted' = [accepted EXCEPT ![g] = accepted[g] \cup {s}]
  BY <1>1 DEF Enters, CommitJoin, CommitPlace, Seat
<1>4. Occupied(g) + 1 = Cardinality(accepted[g] \cup {s})
  BY <1>0, <1>2, OneSeatMore DEF TypeOK, AcceptedSomewhere, Occupied
<1>5. group' = [group EXCEPT ![g].status = StatusForSeats(Occupied(g) + 1, Capacity(g))]
  <2>1. CASE CommitJoin(x)
    BY <1>1, <2>1 DEF CommitJoin
  <2>2. CASE CommitPlace(x)
    <3>1. req[x].n = Occupied(g)
      BY <1>1, <2>2 DEF CommitPlace, Doing, PagesInv, AllKept, Kept
    <3>. QED BY <1>1, <2>2, <3>1 DEF CommitPlace
  <2>. QED BY <2>1, <2>2 DEF Enters
<1>6. /\ accepted'[g] = accepted[g] \cup {s}
      /\ group'[g].status = StatusForSeats(Occupied(g) + 1, Capacity(g))
      /\ group'[g].topic = group[g].topic
  BY <1>0, <1>3, <1>5 DEF TypeOK, GroupRow
<1>7. Tells(g)'
  <2>1. declined'[g] = {}
    BY <1>0 DEF RowsTell, Tells
  <2>. QED BY <1>4, <1>6, <2>1, StatusTells DEF Capacity
<1>8. \A h \in Groups \ {g} : Tells(h)'
  <2>1. \A h \in Groups \ {g} : accepted'[h] = accepted[h] /\ group'[h] = group[h]
    BY <1>0, <1>3, <1>5 DEF TypeOK
  <2>. QED BY <1>0, <2>1, SameTells DEF RowsTell
<1>. QED BY <1>7, <1>8 DEF RowsTell

\* Who leaves leaves a seat free, whatever others did since the count; who is
\* taken back was the only one to move.
LEMMA DeletingTells ==
  ASSUME PagesInv, NEW x \in Requests, Deletes(x)
  PROVE  RowsTell'
<1>. DEFINE s == req[x].s
<1>0. Base /\ RowsTell /\ TypeOK
  BY DEF PagesInv, Base
<1>1. PICK g \in Groups : g = req[x].g
  BY <1>0, DeletingRow
<1>2. /\ req[x].op \in {"sync", "unseat"}
      /\ accepted' = [accepted EXCEPT ![g] = accepted[g] \ {s}]
      /\ req[x].op = "sync" => CommitDrop(x)
      /\ req[x].op = "unseat" => CommitUnplaceLast(x) \/ CommitUnplace(x)
  BY <1>0, <1>1, DeletingRow
<1>3. declined' = [declined EXCEPT ![g] = declined[g] \ {s}]
  BY <1>1 DEF Deletes, CommitDrop, CommitUnplaceLast, CommitUnplace, Unseat
<1>4. /\ accepted'[g] = accepted[g] \ {s} /\ declined'[g] = {}
      /\ accepted[g] \in SUBSET Students
      /\ \A h \in Groups \ {g} : accepted'[h] = accepted[h] /\ declined'[h] = declined[h]
  BY <1>0, <1>2, <1>3 DEF TypeOK, RowsTell, Tells
<1>5. Kept(req[x])
  BY DEF PagesInv, AllKept
<1>. DEFINE Moved == Tells(g)' /\ \A h \in Groups \ {g} : group'[h] = group[h]
<1>6. ASSUME req[x].op = "sync" PROVE Moved
  <2>1. group' = [group EXCEPT ![g].status = StatusForSeats(req[x].n, Capacity(g))]
    BY <1>1, <1>2, <1>6 DEF CommitDrop
  <2>2. /\ group'[g].status = StatusForSeats(req[x].n, Capacity(g))
        /\ group'[g].topic = group[g].topic
        /\ \A h \in Groups \ {g} : group'[h] = group[h]
    BY <1>0, <2>1 DEF TypeOK, GroupRow
  <2>3. s \in accepted[g] /\ req[x].n < Capacity(g) /\ req[x].n \in Nat
    BY <1>0, <1>1, <1>5, <1>6 DEF Kept, TypeOK, Request
  <2>4. group[g].status # "NONE"
    BY <1>1, <1>6 DEF PagesInv, Base, RequestsAddress, Addresses, GroupOps, Stands
  <2>5. Occupied(g) <= Capacity(g) /\ Capacity(g) \in Nat
    BY <1>0, <2>4, CapacityPositive DEF PagesInv, Tight, SeatsWithinCapacity
  <2>6. /\ Cardinality(accepted[g]) \in Nat /\ Cardinality(accepted[g] \ {s}) \in Nat
        /\ Cardinality(accepted[g] \ {s}) + 1 <= Cardinality(accepted[g])
    BY <1>4, <2>3, Fewer
  <2>7. group'[g].status = "FORMING"
    BY <2>2, <2>3, <2>5 DEF StatusForSeats
  <2>8. Occupied(g)' < Capacity(g)'
    BY <1>4, <2>2, <2>5, <2>6 DEF Occupied, Capacity
  <2>9. Occupied(g)' \in Nat /\ Capacity(g)' \in Nat
    BY <1>4, <2>2, <2>5, <2>6 DEF Occupied, Capacity
  <2>. QED BY <1>4, <2>2, <2>7, <2>8, <2>9 DEF Tells
<1>7. ASSUME req[x].op = "unseat" PROVE Moved
  <2>1. req[x].seen = accepted'[g]
    BY <1>1, <1>4, <1>5, <1>7 DEF Kept
  <2>2. CASE CommitUnplaceLast(x)
    <3>1. accepted'[g] = {} /\ group' = [group EXCEPT ![g].status = "REJECTED"]
      BY <1>1, <2>1, <2>2 DEF CommitUnplaceLast
    <3>2. /\ group'[g].status = "REJECTED"
          /\ \A h \in Groups \ {g} : group'[h] = group[h]
      BY <1>0, <3>1 DEF TypeOK, GroupRow
    <3>. QED BY <1>4, <3>1, <3>2 DEF Tells, Live
  <2>3. CASE CommitUnplace(x)
    <3>. DEFINE st == StatusForSeats(Cardinality(req[x].seen), Capacity(g))
    <3>1. PICK heir \in req[x].seen :
            group' = [group EXCEPT
              ![g].status = st, ![g].leader = IF req[x].flag THEN heir ELSE @]
      BY <1>1, <2>3 DEF CommitUnplace
    <3>. DEFINE leads == IF req[x].flag THEN heir ELSE group[g].leader
    <3>2. group' = [group EXCEPT ![g] = [@ EXCEPT !.status = st, !.leader = leads]]
      BY <1>0, <3>1 DEF TypeOK, GroupRow
    <3>3. /\ group'[g].status = st /\ group'[g].topic = group[g].topic
          /\ \A h \in Groups \ {g} : group'[h] = group[h]
      <4>. HIDE DEF st, leads
      <4>. QED BY <1>0, <3>2 DEF TypeOK, GroupRow
    <3>. QED BY <1>4, <2>1, <3>3, StatusTells DEF Capacity
  <2>. QED BY <1>2, <1>7, <2>2, <2>3
<1>8. Moved
  BY <1>2, <1>6, <1>7
<1>. QED BY <1>0, <1>4, <1>8, SameTells DEF RowsTell

LEMMA RowsTellInductive ==
  ASSUME PagesInv, [Next]_vars
  PROVE  RowsTell'
<1>1. CASE \E x \in Requests : Founds(x) \/ Enters(x) \/ Deletes(x)
  BY <1>1, FoundingTells, EnteringTells, DeletingTells
<1>2. CASE ~\E x \in Requests : Founds(x) \/ Enters(x) \/ Deletes(x)
  <2>1. UNCHANGED <<accepted, declined>>
    BY <1>2, HowMembersMove
  <2>. QED BY <1>2, <2>1, StandingRows, SameTells DEF RowsTell, PagesInv
<1>. QED BY <1>1, <1>2

\* Topics are marked as the round is sealed, and unmarked as it is unsealed.
LEMMA UnderwayInductive ==
  ASSUME Base, UnderwayIsFinal, [Next]_vars
  PROVE  UnderwayIsFinal'
<1>1. CASE UNCHANGED <<phase, topicStatus>>
  BY <1>1 DEF UnderwayIsFinal
<1>2. ASSUME NEW r \in Requests, CommitFinalize(r) PROVE UnderwayIsFinal'
  BY <1>2 DEF CommitFinalize, UnderwayIsFinal
<1>3. ASSUME NEW r \in Requests, CommitSetStatus(r) PROVE UnderwayIsFinal'
  BY <1>3 DEF CommitSetStatus, UnderwayIsFinal, Base, TypeOK
<1>4. CASE GateOpens \/ GateCloses \/ Extend
  BY <1>4 DEF GateOpens, GateCloses, Extend, MovePhase, UnderwayIsFinal
<1>5. CASE Unlock \/ BulkOpen
  BY <1>5 DEF Unlock, BulkOpen, MovePhase, UnderwayIsFinal
<1>6. ASSUME NEW r \in Requests, Arrive(r) PROVE UNCHANGED <<phase, topicStatus>>
  BY <1>6 DEF Arrive, StudentArrives, RemovalArrives, DisbandArrives,
       SettingsArrive, OfficeArrives, LecturerArrives, CheckRegister, CheckJoin,
       CheckLeave, CheckRemove, CheckDisband, CheckUpdate, CheckHandOver,
       CheckSetOpen, CheckDeclare, CheckRelease, CheckPlace, CheckUnplace,
       CheckFinalize, CheckOffer, CheckTakeBack, Begin
<1>7. ASSUME NEW r \in Requests, Commit(r) \/ Refused(r),
             ~CommitFinalize(r), ~CommitSetStatus(r)
      PROVE  UNCHANGED <<phase, topicStatus>>
  BY <1>7 DEF Commit, Refused, CommitRegister, CommitJoin, CommitUpdate, CommitDrop,
       DeleteRow, DeclineMembers, CommitDisband, LockTopic, CommitPlaceInNew,
       CommitPlace, LockUnplace, CommitUnplaceLast, CommitUnplace, Unseat
<1>8. CASE UNCHANGED vars \/ \E g \in Groups : HoldLapses(g)
  BY <1>1, <1>8 DEF HoldLapses, vars
<1>. QED BY <1>1, <1>2, <1>3, <1>4, <1>5, <1>6, <1>7, <1>8 DEF Next

LEMMA PagesInductive ==
  ASSUME ~StraddleGate, "disband" \notin Kinds, PagesInv, [Next]_vars
  PROVE  PagesInv'
<1>0. Base /\ OneHolder /\ Tight /\ OneLiveGroupPerTopic /\ UnderwayIsFinal
  BY DEF PagesInv
<1>1. Base' /\ OneHolder' /\ OneLiveGroupPerTopic' /\ UnderwayIsFinal'
  BY <1>0, BaseInductive, OneHolderInductive, OneLiveGroupInductive, UnderwayInductive
<1>2. Tight'
  BY <1>0, InPhaseInductive, SeatKeptInductive, CapacityInductive DEF Tight
<1>3. AllKept' /\ RowsApart' /\ RowsTell'
  BY AllKeptInductive, RowsApartInductive, RowsTellInductive
<1>. QED BY <1>1, <1>2, <1>3 DEF PagesInv

LEMMA PagesInitially == Init => PagesInv
<1>. SUFFICES ASSUME Init PROVE PagesInv
  OBVIOUS
<1>1. Base
  BY BaseInitially
<1>2. OneHolder /\ Tight /\ OneLiveGroupPerTopic
  BY DEF Init, OneHolder, Held, Tight, InPhase, SeatKept, SeatsWithinCapacity,
         OneLiveGroupPerTopic, Live, NoRow, Idle
<1>3. AllKept /\ RowsApart
  BY DEF Init, AllKept, Kept, RowsApart, Idle
<1>4. RowsTell /\ UnderwayIsFinal
  BY DEF Init, RowsTell, Tells, Live, UnderwayIsFinal, NoRow
<1>. QED BY <1>1, <1>2, <1>3, <1>4 DEF PagesInv

-----------------------------------------------------------------------------
(* What the pages promise of such rows.                                     *)

\* The facts about the rows that the pages rest on: who is accepted anywhere
\* has a group, a topic on show is on offer while a gate is open, and counts
\* are numbers.
LEMMA RowsAtRest ==
  ASSUME PagesInv
  PROVE  /\ \A s : AcceptedSomewhere(s) <=> HasGroup(s)
         /\ \A g \in Groups : declined[g] = {}
         /\ \A t \in Published : phase # "FINALIZED" => topicStatus[t] = "OPEN"
         /\ \A g \in Groups : Live(g) =>
              /\ Occupied(g) \in Nat
              /\ group[g].topic \in Topics
              /\ Capacity(g) = MaxStudents[group[g].topic]
              /\ group[g].declared \in Nat /\ group[g].held \in BOOLEAN
<1>0. Base /\ RowsTell /\ UnderwayIsFinal
  BY DEF PagesInv
<1>1. \A s : AcceptedSomewhere(s) <=> HasGroup(s)
  BY <1>0 DEF AcceptedSomewhere, HasGroup, Live, RowsTell, Tells, Base, GroupsStand
<1>2. \A g \in Groups : declined[g] = {}
  BY <1>0 DEF RowsTell, Tells
<1>3. \A t \in Published : phase # "FINALIZED" => topicStatus[t] = "OPEN"
  BY <1>0 DEF Published, UnderwayIsFinal
<1>4. ASSUME NEW g \in Groups, Live(g)
      PROVE  /\ Occupied(g) \in Nat
             /\ group[g].topic \in Topics
             /\ Capacity(g) = MaxStudents[group[g].topic]
             /\ group[g].declared \in Nat /\ group[g].held \in BOOLEAN
  BY <1>0, <1>4, CountsAreNat
     DEF Occupied, Capacity, Live, Base, TypeOK, GroupRow, GroupsStand
<1>. QED BY <1>1, <1>2, <1>3, <1>4

\* A student's places are those of the groups they are in.
LEMMA PlacesRead ==
  \A s : /\ MyPlaces(s) # {} <=> HasGroup(s)
         /\ \A t : t \in MyPlaces(s) <=> \E g \in LiveOn(t) : s \in accepted[g]
  BY DEF MyPlaces, HasGroup, LiveOn

\* The card of a topic, with the conditions it is put together from.
LEMMA CardRead ==
  ASSUME NEW s, NEW t \in Published
  PROVE  /\ Allowed(s, t) <=> /\ phase \in {"OPEN", "EXTENDED"} /\ ~HasGroup(s)
                              /\ Proposer[t] \in {None, s}
         /\ Catalogue(s)[t].canRegister <=> LiveOn(t) = {} /\ Allowed(s, t)
         /\ \A g : LiveOn(t) = {g} =>
              /\ Catalogue(s)[t].canJoin <=>
                   /\ Allowed(s, t) /\ Occupied(g) < MaxStudents[t]
                   /\ group[g].open /\ SeatsLeft(g) > 0
              /\ Catalogue(s)[t].isMyGroup <=> t \in MyPlaces(s)
<1>1. Allowed(s, t) <=> /\ phase \in {"OPEN", "EXTENDED"} /\ ~HasGroup(s)
                        /\ Proposer[t] \in {None, s}
  BY PlacesRead DEF Allowed, Viewer
<1>2. Catalogue(s)[t] = Card(s, t)
  BY DEF Catalogue
<1>3. Card(s, t).canRegister <=> LiveOn(t) = {} /\ Allowed(s, t)
  BY DEF Card
<1>4. ASSUME NEW g, LiveOn(t) = {g}
      PROVE  /\ Card(s, t).canJoin <=>
                  /\ Allowed(s, t) /\ Occupied(g) < MaxStudents[t]
                  /\ group[g].open /\ SeatsLeft(g) > 0
             /\ Card(s, t).isMyGroup <=> t \in MyPlaces(s)
  <2>1. (CHOOSE h \in LiveOn(t) : TRUE) = g /\ LiveOn(t) # {}
    BY <1>4
  <2>. QED BY <2>1 DEF Card, Viewer
<1>. QED BY <1>1, <1>2, <1>3, <1>4

\* The larger of nothing and a number, and the smaller of two.
LEMMA MaxOfZero == \A n \in Int : Max({0, n}) = IF n > 0 THEN n ELSE 0
<1>. SUFFICES ASSUME NEW n \in Int
              PROVE  Max({0, n}) = IF n > 0 THEN n ELSE 0
  OBVIOUS
<1>. DEFINE m == IF n > 0 THEN n ELSE 0
<1>1. m \in {0, n} /\ \A k \in {0, n} : m >= k
  OBVIOUS
<1>2. \A k \in {0, n} : (\A j \in {0, n} : k >= j) => k = m
  OBVIOUS
<1>. QED BY <1>1, <1>2 DEF Max

LEMMA MinOfTwo == \A a, b \in Int : Min({a, b}) = IF a < b THEN a ELSE b
<1>. SUFFICES ASSUME NEW a \in Int, NEW b \in Int
              PROVE  Min({a, b}) = IF a < b THEN a ELSE b
  OBVIOUS
<1>. DEFINE m == IF a < b THEN a ELSE b
<1>1. m \in {a, b} /\ \A k \in {a, b} : m =< k
  OBVIOUS
<1>2. \A k \in {a, b} : (\A j \in {a, b} : k =< j) => k = m
  OBVIOUS
<1>. QED BY <1>1, <1>2 DEF Min

\* The catalogue's count of free seats is the group's own.
LEMMA SeatsAgree ==
  ASSUME PagesInv, NEW g \in Groups, Live(g)
  PROVE  /\ SeatsLeft(g) > 0 <=> FreeToAnyone(g)
         /\ SeatsLeft(g) > 0 <=> GroupPage(g).seatsOpenToAnyone > 0
         /\ GroupPage(g).isFull => GroupPage(g).seatsOpenToAnyone = 0
<1>. DEFINE n == MaxStudents[group[g].topic]  d == group[g].declared
            o == Occupied(g)  h == HeldSeats(g)
<1>1. n \in Nat /\ o \in Nat /\ d \in Nat /\ Capacity(g) = n
  BY RowsAtRest, SeatsAssumption
<1>2. h \in Nat /\ SeatsLeft(g) = n - o - h
  <2>1. Min({d, n}) = IF d < n THEN d ELSE n
    BY <1>1, MinOfTwo
  <2>2. Max({0, Min({d, n}) - o}) = IF Min({d, n}) - o > 0 THEN Min({d, n}) - o ELSE 0
    <3>. HIDE DEF n, d, o
    <3>1. Min({d, n}) - o \in Int
      BY <1>1, <2>1
    <3>. QED BY <3>1, MaxOfZero
  <2>3. SeatsLeft(g) = n - o - (IF group[g].held /\ d # 0
                                  THEN Max({0, Min({d, n}) - o}) ELSE 0)
    BY DEF SeatsLeft
  <2>4. h = IF group[g].held /\ d # 0 /\ (IF d < n THEN d ELSE n) > o
              THEN (IF d < n THEN d ELSE n) - o ELSE 0
    BY <1>1 DEF HeldSeats
  <2>. HIDE DEF n, d, o, h
  <2>. QED BY <1>1, <2>1, <2>2, <2>3, <2>4
<1>3. /\ GroupPage(g).seatsOpenToAnyone = Max({0, n - o - h})
      /\ GroupPage(g).isFull <=> o >= n
      /\ FreeToAnyone(g) <=> o + h < n
  BY <1>1 DEF GroupPage, FreeToAnyone
<1>. HIDE DEF n, d, o, h
<1>4. Max({0, n - o - h}) = IF n - o - h > 0 THEN n - o - h ELSE 0
  BY <1>1, <1>2, MaxOfZero
<1>. QED BY <1>1, <1>2, <1>3, <1>4

LEMMA RegisterIsOffered == PagesInv => RegisterOffered
<1>. SUFFICES ASSUME PagesInv, NEW s \in Students, NEW t \in Published
              PROVE  /\ Catalogue(s)[t].canRegister <=> RegisterTaken(s, t)
                     /\ Catalogue(s)[t].canRegister => IsRegistrationOpen(t)
  BY DEF RegisterOffered
<1>1. Catalogue(s)[t].canRegister <=>
        /\ LiveOn(t) = {} /\ phase \in {"OPEN", "EXTENDED"} /\ ~HasGroup(s)
        /\ Proposer[t] \in {None, s}
  BY CardRead
<1>2. RegisterTaken(s, t) <=>
        /\ topicStatus[t] = "OPEN" /\ CanJoin(s) /\ Proposer[t] \in {None, s}
        /\ ~HasGroup(s) /\ LiveOn(t) = {}
  BY RowsAtRest DEF RegisterTaken, MayRegister
<1>3. ~HasGroup(s) => (CanJoin(s) <=> phase \in {"OPEN", "EXTENDED"})
  BY DEF CanJoin
<1>4. phase \in {"OPEN", "EXTENDED"} => topicStatus[t] = "OPEN"
  BY RowsAtRest
<1>. QED BY <1>1, <1>2, <1>3, <1>4 DEF IsRegistrationOpen

LEMMA JoinIsOffered == PagesInv => JoinOffered
<1>. SUFFICES ASSUME PagesInv, NEW s \in Students, NEW t \in Published,
                     NEW g \in LiveOn(t)
              PROVE  /\ Catalogue(s)[t].canJoin =>
                          JoinTaken(s, g, FALSE) /\ IsRegistrationOpen(t)
                     /\ JoinTaken(s, g, FALSE) /\ Proposer[t] \in {None, s}
                          => Catalogue(s)[t].canJoin
                     /\ Catalogue(s)[t].isMyGroup <=> s \in accepted[g]
                     /\ SeatsLeft(g) > 0 <=> GroupPage(g).seatsOpenToAnyone > 0
                     /\ GroupPage(g).isFull => GroupPage(g).seatsOpenToAnyone = 0
  BY DEF JoinOffered
<1>1. LiveOn(t) = {g} /\ g \in Groups /\ Live(g) /\ group[g].topic = t
  BY DEF LiveOn, PagesInv, OneLiveGroupPerTopic
<1>2. /\ Catalogue(s)[t].canJoin <=>
           /\ phase \in {"OPEN", "EXTENDED"} /\ ~HasGroup(s)
           /\ Proposer[t] \in {None, s}
           /\ Occupied(g) < MaxStudents[t] /\ group[g].open /\ SeatsLeft(g) > 0
      /\ Catalogue(s)[t].isMyGroup <=> s \in accepted[g]
  BY <1>1, CardRead, PlacesRead
<1>3. JoinTaken(s, g, FALSE) <=>
        /\ group[g].open /\ Occupied(g) < MaxStudents[t] /\ FreeToAnyone(g)
        /\ CanJoin(s) /\ topicStatus[t] = "OPEN" /\ ~HasGroup(s)
  BY <1>1, RowsAtRest DEF JoinTaken, MayJoin, Joinable, Capacity
<1>4. ~HasGroup(s) => (CanJoin(s) <=> phase \in {"OPEN", "EXTENDED"})
  BY DEF CanJoin
<1>5. phase \in {"OPEN", "EXTENDED"} => topicStatus[t] = "OPEN"
  BY RowsAtRest
<1>6. /\ SeatsLeft(g) > 0 <=> FreeToAnyone(g)
      /\ SeatsLeft(g) > 0 <=> GroupPage(g).seatsOpenToAnyone > 0
      /\ GroupPage(g).isFull => GroupPage(g).seatsOpenToAnyone = 0
  BY <1>1, SeatsAgree
<1>. QED BY <1>2, <1>3, <1>4, <1>5, <1>6 DEF IsRegistrationOpen

LEMMA InvitationIsKept == PagesInv => InvitationKept
  BY RowsAtRest DEF InvitationKept, Invites, JoinTaken, MayJoin

-----------------------------------------------------------------------------
(* The desk.                                                                *)

\* No topics have no seats.
LEMMA NoSeatsOfNone == MapThenSumSet(FreeSeats, {}) = 0
<1>. DEFINE F(s, f) == IF s = {} THEN 0
                       ELSE LET x == CHOOSE y \in s : TRUE
                            IN  FreeSeats(x) + f[s \ {x}]
            Sums(f) == f = [s \in SUBSET {} |-> F(s, f)]
            iter == CHOOSE f : Sums(f)
            zero == [s \in SUBSET {} |-> 0]
<1>1. MapThenSumSet(FreeSeats, {}) = iter[{}]
  BY DEF MapThenSumSet, MapThenFoldSet
<1>2. \A f : [s \in SUBSET {} |-> F(s, f)] = zero
  <2>1. \A s \in SUBSET {} : s = {}
    OBVIOUS
  <2>. QED BY <2>1
<1>3. Sums(zero)
  BY <1>2
<1>4. Sums(iter)
  BY <1>3
<1>5. iter = zero
  BY <1>2, <1>4
<1>6. zero[{}] = 0
  OBVIOUS
<1>. QED BY <1>1, <1>5, <1>6

LEMMA FreeSeatsRead ==
  ASSUME PagesInv, NEW t \in Topics
  PROVE  /\ FreeSeats(t) > 0 <=> \A g \in LiveOn(t) : Occupied(g) < MaxStudents[t]
<1>1. MaxStudents[t] \in Nat \ {0}
  BY SeatsAssumption
<1>2. CASE LiveOn(t) = {}
  BY <1>1, <1>2, MaxOfZero DEF FreeSeats
<1>3. ASSUME NEW g \in LiveOn(t)
      PROVE  FreeSeats(t) > 0 <=> \A h \in LiveOn(t) : Occupied(h) < MaxStudents[t]
  <2>1. LiveOn(t) = {g} /\ Occupied(g) \in Nat
    BY RowsAtRest DEF LiveOn, PagesInv, OneLiveGroupPerTopic
  <2>2. (CHOOSE h \in LiveOn(t) : TRUE) = g
    BY <2>1
  <2>3. FreeSeats(t) = Max({0, MaxStudents[t] - Occupied(g)})
    BY <2>1, <2>2 DEF FreeSeats
  <2>. QED BY <1>1, <2>1, <2>3, MaxOfZero
<1>. QED BY <1>2, <1>3

LEMMA DeskIsHonest == PagesInv => DeskHonest
<1>. SUFFICES ASSUME PagesInv PROVE DeskHonest
  OBVIOUS
<1>. DEFINE pool == Desk(Students)  open == TopicsWithSeats("OPEN")
            seats == MapThenSumSet(FreeSeats, open)
<1>1. /\ pool.canPlace <=> phase = "RECONCILING"
      /\ pool.students = Unplaced(Students) /\ pool.topics = open
      /\ pool.placements = PlacementsMade
      /\ pool.shortfall = Max({0, Cardinality(Unplaced(Students)) - seats})
  BY DEF Desk
<1>. HIDE DEF pool
<1>2. Unplaced(Students) = {s \in Students : ~HasGroup(s)}
  BY DEF Unplaced, Roster, InCohorts, HasGroup
<1>3. \A t \in Topics : t \in open <=>
        topicStatus[t] = "OPEN" /\ \A g \in LiveOn(t) : Occupied(g) < MaxStudents[t]
  BY FreeSeatsRead DEF TopicsWithSeats
<1>4. \A s \in Students, t \in Topics :
        PlaceTaken(s, t) <=> pool.canPlace /\ s \in pool.students /\ t \in pool.topics
  <2>1. ASSUME NEW s \in Students, NEW t \in Topics
        PROVE  PlaceTaken(s, t) <=>
                 /\ phase = "RECONCILING" /\ ~HasGroup(s) /\ topicStatus[t] = "OPEN"
                 /\ \A g \in LiveOn(t) : Occupied(g) < MaxStudents[t]
    BY RowsAtRest DEF PlaceTaken, MayPlace, LiveOn
  <2>. HIDE DEF open
  <2>. QED BY <1>1, <1>2, <1>3, <2>1
<1>5. pool.canPlace => \A p \in pool.placements : MayUnplace(p[1], p[2])
  BY <1>1 DEF PlacementsMade, MayUnplace
<1>6. ASSUME pool.canPlace, pool.shortfall = 0, NEW s \in pool.students
      PROVE  \E t \in Topics : PlaceTaken(s, t)
  <2>1. s \in Students
    BY <1>1, <1>2
  <2>2. open # {}
    <3>1. SUFFICES ASSUME open = {} PROVE FALSE
      OBVIOUS
    <3>2. seats = 0
      BY <3>1, NoSeatsOfNone
    <3>. HIDE DEF open, seats
    <3>3. /\ IsFiniteSet(Unplaced(Students)) /\ Cardinality(Unplaced(Students)) \in Nat
          /\ Cardinality(Unplaced(Students)) # 0
      <4>1. Unplaced(Students) \in SUBSET Students
        BY <1>2
      <4>2. s \in Unplaced(Students)
        BY <1>1
      <4>. QED BY <4>1, <4>2, CountsAreNat, FS_EmptySet
    <3>. QED BY <1>1, <1>6, <3>2, <3>3, MaxOfZero
  <2>3. PICK t \in Topics : t \in open
    BY <2>2 DEF TopicsWithSeats
  <2>. HIDE DEF open
  <2>. QED BY <1>1, <1>4, <1>6, <2>1, <2>3
<1>. QED BY <1>4, <1>5, <1>6 DEF DeskHonest, pool

\* Whatever overlaps, a page offers what the request behind it would be granted
\* and nothing else, as long as no group is disbanded and no request straddles a
\* change of phase.
THEOREM OffersHonestHolds ==
  ASSUME ~StraddleGate, "disband" \notin Kinds
  PROVE  Spec => []OffersHonest
<1>1. PagesInv => OffersHonest
  BY RegisterIsOffered, JoinIsOffered, InvitationIsKept, DeskIsHonest
     DEF OffersHonest, StatusMatchesSeats, PagesInv, RowsTell, Tells
<1>2. PagesInv /\ [Next]_vars => PagesInv'
  BY PagesInductive
<1>. QED BY <1>1, <1>2, PagesInitially, PTL DEF Spec

\* Nor is a student left in a rejected group, where the index would keep them
\* from every other topic of the semester (leave, removeMember and unplace reject
\* a group on a count made before): that takes a disband.
THEOREM RejectedGroupsEmptyHolds ==
  ASSUME ~StraddleGate, "disband" \notin Kinds
  PROVE  Spec => []MembersOnlyInLiveGroups
<1>1. PagesInv => MembersOnlyInLiveGroups
  BY DEF PagesInv, RowsTell, Tells, MembersOnlyInLiveGroups
<1>2. PagesInv /\ [Next]_vars => PagesInv'
  BY PagesInductive
<1>. QED BY <1>1, <1>2, PagesInitially, PTL DEF Spec

\* Whatever overlaps and whatever phase changes it straddles, a topic is under
\* way in a final round only: setStatus never writes IN_PROGRESS and unlock takes
\* it back in the transaction that reopens the round.
THEOREM UnderwayIsFinalHolds == Spec => []UnderwayIsFinal
<1>1. Init => Base /\ UnderwayIsFinal
  BY BaseInitially DEF Init, UnderwayIsFinal
<1>2. Base /\ UnderwayIsFinal /\ [Next]_vars => (Base /\ UnderwayIsFinal)'
  BY BaseInductive, UnderwayInductive
<1>. QED BY <1>1, <1>2, PTL DEF Spec
=============================================================================
