------------------------------- MODULE Screens -------------------------------
(***************************************************************************)
(* What a round's pages offer, over the state of Registration: a student's   *)
(* catalogue and invitation, the office's two lists, and the group's page.   *)
(* None of these queries changes a row.  They repeat the rules of the        *)
(* requests in queries of their own, so that they can disagree with them.    *)
(***************************************************************************)
EXTENDS Registration, FiniteSetsExt

-----------------------------------------------------------------------------
(* TopicsService: the catalogue as a student reads it.                      *)

\* visibleStatusFilter: what is published, which APPROVED topics are not.
Published == {t \in Topics : topicStatus[t] \in {"OPEN", "IN_PROGRESS"}}

MyPlaces(s) == {group[g].topic : g \in {h \in Groups : Live(h) /\ s \in accepted[h]}}

\* Mutated form: an extension does not count as an open gate.
ViewerForgetsExtension(s, t) ==
  [gateOpen         |-> phase = "OPEN",
   hasGroup         |-> MyPlaces(s) # {},
   inThisGroup      |-> t \in MyPlaces(s),
   reservedForOther |-> Proposer[t] \notin {None, s}]

\* availabilityFor; every student here is eligible.
Viewer(s, t) ==
  [gateOpen         |-> phase \in {"OPEN", "EXTENDED"},
   hasGroup         |-> MyPlaces(s) # {},
   inThisGroup      |-> t \in MyPlaces(s),
   reservedForOther |-> Proposer[t] \notin {None, s}]

Allowed(s, t) ==
  LET v == Viewer(s, t) IN v.gateOpen /\ ~v.hasGroup /\ ~v.reservedForOther

\* withActiveGroup: the seats a hold keeps are worked out a second time here.
SeatsLeft(g) ==
  LET n == MaxStudents[group[g].topic]
      held == IF group[g].held /\ group[g].declared # 0
              THEN Max({0, Min({group[g].declared, n}) - Occupied(g)}) ELSE 0
  IN n - Occupied(g) - held

\* The topic's status is not looked at.
Card(s, t) ==
  IF LiveOn(t) = {}
  THEN [canRegister |-> Allowed(s, t), canJoin |-> FALSE, isMyGroup |-> FALSE]
  ELSE LET g == CHOOSE g \in LiveOn(t) : TRUE IN
       [canRegister |-> FALSE,
        canJoin     |-> /\ Allowed(s, t)
                        /\ Occupied(g) < MaxStudents[t] /\ group[g].open
                        /\ SeatsLeft(g) > 0,
        isMyGroup   |-> Viewer(s, t).inThisGroup]

Catalogue(s) == [t \in Published |-> Card(s, t)]

\* findOne, which alone looks at the status too.
IsRegistrationOpen(t) == topicStatus[t] = "OPEN" /\ phase \in {"OPEN", "EXTENDED"}

-----------------------------------------------------------------------------
(* RegistrationGroupsService: the invitation and the group's own page.      *)

\* previewByCode, to somebody who is not a member.
Invites(s, g) ==
  /\ Joinable(s, g, TRUE) /\ CanJoin(s)
  /\ topicStatus[group[g].topic] = "OPEN"
  /\ ~HasGroup(s)

\* render.
GroupPage(g) ==
  [heldSeats         |-> HeldSeats(g),
   seatsOpenToAnyone |-> Max({0, Capacity(g) - Occupied(g) - HeldSeats(g)}),
   isFull            |-> Occupied(g) >= Capacity(g)]

-----------------------------------------------------------------------------
(* AllocationService: the desk's lists.  A list of cohorts is the set of the *)
(* students it covers; the empty one is a round nobody declared.             *)

\* rosterWhere over cohorts: an empty list filters nothing out.
InCohorts(cohorts) == IF cohorts = {} THEN Students ELSE cohorts

\* rosterWhere and liveMembership, by who has a group.
Roster(cohorts, hasGroup) ==
  {s \in InCohorts(cohorts) :
     (\E g \in Groups : Live(g) /\ s \in accepted[g]) <=> hasGroup}

\* unplacedStudents, which asks nothing of a round without cohorts.
Unplaced(cohorts) == IF cohorts = {} THEN {} ELSE Roster(cohorts, FALSE)

FreeSeats(t) == Max({0, MaxStudents[t] - (IF LiveOn(t) = {} THEN 0
                                          ELSE Occupied(CHOOSE g \in LiveOn(t) : TRUE))})

TopicsWithSeats(status) == {t \in Topics : topicStatus[t] = status /\ FreeSeats(t) > 0}

PlacementsMade == {m \in Students \X Groups : Live(m[2]) /\ m[1] \in assigned[m[2]]}

\* desk.  Topics a lecturer has not opened are counted apart.
Desk(cohorts) ==
  LET open == TopicsWithSeats("OPEN")
      seats == MapThenSumSet(FreeSeats, open) IN
  [canPlace      |-> phase = "RECONCILING",
   students      |-> Unplaced(cohorts),
   topics        |-> open,
   placements    |-> PlacementsMade,
   shortfall     |-> Max({0, Cardinality(Unplaced(cohorts)) - seats}),
   unopenedSeats |-> MapThenSumSet(FreeSeats, TopicsWithSeats("APPROVED"))]

-----------------------------------------------------------------------------
(* Properties.  A request is taken if its check lets it in and, with nobody  *)
(* in between, the indexes do not stop its transaction either.               *)

RegisterTaken(s, t) ==
  MayRegister(s, t) /\ LiveOn(t) = {} /\ ~AcceptedSomewhere(s)

JoinTaken(s, g, link) ==
  MayJoin(s, g, link) /\ ~AcceptedSomewhere(s) /\ s \notin declined[g]

PlaceTaken(s, t) ==
  /\ MayPlace(s, t)
  /\ ~AcceptedSomewhere(s)
  /\ \A g \in LiveOn(t) : Occupied(g) < MaxStudents[t] /\ s \notin declined[g]

\* A register button the API would refuse is "a button that lies"
\* (availabilityFor), and a topic without one cannot be had.  The card ignores
\* the topic's status: it is right only as long as no published topic is under
\* way while a gate is open.
RegisterOffered ==
  \A s \in Students : \A t \in Published :
    /\ Catalogue(s)[t].canRegister <=> RegisterTaken(s, t)
    /\ Catalogue(s)[t].canRegister => IsRegistrationOpen(t)

\* So with joining, except that the card hides a group on a topic written for
\* somebody else, which joinTopic lets anybody into.  The seats of the card and
\* those of the group's page are two computations and agree.
JoinOffered ==
  \A s \in Students : \A t \in Published : \A g \in LiveOn(t) :
    /\ Catalogue(s)[t].canJoin =>
         JoinTaken(s, g, FALSE) /\ IsRegistrationOpen(t)
    /\ JoinTaken(s, g, FALSE) /\ Proposer[t] \in {None, s}
         => Catalogue(s)[t].canJoin
    /\ Catalogue(s)[t].isMyGroup <=> s \in accepted[g]
    /\ SeatsLeft(g) > 0 <=> GroupPage(g).seatsOpenToAnyone > 0
    /\ GroupPage(g).isFull => GroupPage(g).seatsOpenToAnyone = 0

\* Who follows a link is told beforehand whether it will be taken (previewByCode).
InvitationKept ==
  \A s \in Students, g \in Groups : Live(g) => (Invites(s, g) <=> JoinTaken(s, g, TRUE))

\* While the office settles, whoever its desk lists fits wherever it lists a
\* seat, everybody else is refused, each placement it lists can be taken back,
\* and what it says is missing is missing: with no shortfall everybody listed
\* can go somewhere (desk, place).
DeskHonest ==
  LET pool == Desk(Students) IN
  /\ \A s \in Students, t \in Topics :
       PlaceTaken(s, t) <=>
         pool.canPlace /\ s \in pool.students /\ t \in pool.topics
  /\ pool.canPlace => \A p \in pool.placements : MayUnplace(p[1], p[2])
  /\ pool.canPlace /\ pool.shortfall = 0 =>
       \A s \in pool.students : \E t \in Topics : PlaceTaken(s, t)

\* Whatever is under way, a page offers what the request behind it would be
\* granted and nothing else, and the status a group shows is that of its seats.
OffersHonest ==
  /\ StatusMatchesSeats
  /\ RegisterOffered /\ JoinOffered /\ InvitationKept /\ DeskHonest

\* As topics.service.ts:342 has it of registering, also of joining: what is not
\* on offer to somebody is refused to them.  Refuted: friends of the proposer
\* join the group the catalogue does not offer them.
ReservedIsRefused ==
  \A s \in Students, g \in Groups :
    Live(g) /\ Proposer[group[g].topic] \notin {None, s} => ~MayJoin(s, g, FALSE)
=============================================================================
