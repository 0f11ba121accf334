------------------------------- MODULE Reports -------------------------------
(***************************************************************************)
(* What the faculty is told of a round: ReportsService, the student list and *)
(* whom a notice goes to.  Each counts the same rows with a query of its own. *)
(* A lecturer is the set of topics they supervise, a major the set of its    *)
(* students.  The reads of one report have no snapshot; here nothing comes   *)
(* between them.                                                            *)
(***************************************************************************)
EXTENDS Screens

-----------------------------------------------------------------------------
(* The reads.                                                               *)

\* memberships and groups, by LIVE_MEMBERSHIP.
Memberships == {m \in Students \X Groups : Live(m[2]) /\ m[1] \in accepted[m[2]]}
LiveGroups == {g \in Groups : Live(g)}

SelfRegistered == {m \in Memberships : m[1] \notin assigned[m[2]]}
Assigned == {m \in Memberships : m[1] \in assigned[m[2]]}

\* topicCounts.
TopicCounts ==
  [total |-> Cardinality(Topics),
   underway |-> Cardinality({t \in Topics : topicStatus[t] = "IN_PROGRESS"})]

-----------------------------------------------------------------------------
(* The rows.                                                                *)

RegistrationRow(cohorts) ==
  LET eligible == Cardinality(InCohorts(cohorts))
      withGroup == Cardinality(Roster(cohorts, TRUE)) IN
  [eligible       |-> eligible,
   withGroup      |-> withGroup,
   withoutGroup   |-> Max({0, eligible - withGroup}),
   selfRegistered |-> Cardinality(SelfRegistered),
   assigned       |-> Cardinality(Assigned),
   topicsUnderway |-> TopicCounts.underway]

\* Who has no group is listed with no students, whatever memberships say.
SupervisionRow(topics) ==
  LET groups == {g \in LiveGroups : group[g].topic \in topics} IN
  [groups   |-> Cardinality(groups),
   students |-> IF groups = {} THEN 0
                ELSE Cardinality({m \in Memberships : group[m[2]].topic \in topics})]

MajorRow(major) ==
  [students  |-> Cardinality(major),
   withGroup |-> Cardinality({m \in Memberships : m[1] \in major})]

\* rosterWhere with a lecturer: its condition on the group replaces the one
\* that the group be live, and the one of hasGroup with it.
RosterOf(topics) ==
  {s \in Students : \E g \in Groups : s \in accepted[g] /\ group[g].topic \in topics}

\* studentsWithoutGroupIn.
Notified(cohorts) ==
  {s \in cohorts :
     ~\E g \in Groups : group[g].status # "REJECTED" /\ s \in accepted[g]}

-----------------------------------------------------------------------------
(* Properties.                                                              *)

\* Every seat is in the report once: as registered or assigned, under one
\* lecturer and in one major, and nobody is counted without a group whom the
\* desk would not list and a notice would not reach (registrationRows: "has a
\* topic" means the same thing on every screen).
SeatsCountedOnce ==
  /\ LET row == RegistrationRow(Students) IN
       row.selfRegistered + row.assigned = row.withGroup
  /\ \A cohorts \in (SUBSET Students) \ {{}} :
       /\ RegistrationRow(cohorts).withoutGroup = Cardinality(Unplaced(cohorts))
       /\ Notified(cohorts) = Unplaced(cohorts)
       /\ MajorRow(cohorts).withGroup = Cardinality(Roster(cohorts, TRUE))
  /\ \A topics \in SUBSET Topics :
       LET row == SupervisionRow(topics) IN
       /\ row.students = Cardinality(RosterOf(topics))
       /\ row.students # 0 <=> row.groups # 0

\* Once a round is final its report says so: a topic under way for each group,
\* and nobody without one unless the gaps were acknowledged.
FinalReportSettled ==
  phase = "FINALIZED" =>
    LET row == RegistrationRow(Students) IN
    /\ row.topicsUnderway = Cardinality(LiveGroups)
    /\ ~sealedWithGaps => row.withoutGroup = 0

ReportAddsUp == SeatsCountedOnce /\ FinalReportSettled

\* A round without declared cohorts "covers nobody yet"
\* (allocation.service.ts:353), in the report too.  Refuted: rosterWhere takes
\* the empty list for no filter, and the report counts the whole faculty.
NobodyCovered == RegistrationRow({}).withoutGroup = Cardinality(Unplaced({}))
=============================================================================
