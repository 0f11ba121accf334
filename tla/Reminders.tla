------------------------------ MODULE Reminders ------------------------------
(***************************************************************************)
(* The daily reminders and the notices they leave: RemindersService and     *)
(* NotificationsService.notify.  A deadline is the end of a round or the    *)
(* due day of a document; stored as the first instant of the day it names   *)
(* in UTC, which is seven in the morning, when the reminders run.           *)
(*                                                                         *)
(* Who still owes is Registration's and Submissions': here it changes as it *)
(* pleases, and so do the deadlines.                                        *)
(***************************************************************************)
EXTENDS Integers, FiniteSets

CONSTANTS
  Deadlines,    \* rounds' ends and documents
  Ends,         \* those of them that are rounds' ends
  Readers,      \* students
  LeadDays,     \* LEAD_DAYS
  LastDay,      \* the calendar modelled, a bound
  MaxMoves      \* deadlines moved, a bound

ASSUME RemindersAssumption ==
  /\ Ends \subseteq Deadlines
  /\ LeadDays \in Nat /\ LastDay \in Nat /\ MaxMoves \in Nat

Halves == {Ends, Deadlines \ Ends} \ {{}}

VARIABLES
  today,
  run,       \* today's run, by half: run in parallel, each writes its notices
  due,       \* of each deadline
  shut,      \* rounds whose gate is not open
  owing,     \* pairs <<reader, deadline>>: no group, nothing handed in
  notices,
  moves,     \* deadlines moved
  since,     \* history: when a pair last changed in what it owes or when
  ranOn      \* history: <<half, day>> of the runs that wrote their notices

reminderVars == <<today, run, due, shut, owing, notices, moves, since, ranOn>>

Mornings == 0..LastDay
Pairs == Readers \X Deadlines
\* Written ahead of what it tells of.
Notice == {n \in [deadline : Deadlines, due : Mornings, reader : Readers, on : Mornings] :
             n.on < n.due}

RemindersTypeOK ==
  /\ today \in Mornings
  /\ \A h \in Halves : run[h].at \in {"no", "gathered", "done"} /\ run[h].batch \subseteq Notice
  /\ due \in [Deadlines -> Mornings]
  /\ shut \subseteq Ends /\ owing \subseteq Pairs
  /\ notices \subseteq Notice

NotYet == [at |-> "no", batch |-> {}]

RemindersInit ==
  /\ today = 0
  /\ run = [h \in Halves |-> NotYet]
  /\ due \in [Deadlines -> Mornings]
  /\ shut = {}
  /\ owing = Pairs
  /\ notices = {}
  /\ moves = 0
  /\ since = [p \in Pairs |-> 0]
  /\ ranOn = {}

-----------------------------------------------------------------------------
(* run.                                                                     *)

\* closingWindow: later than now, which is just past the instant the day names.
ClosingSoon(d) == today < due[d] /\ due[d] <= today + LeadDays

\* remindRegistrationClosing and remindSubmissionsDue up to notify.
Gather(h) ==
  /\ run[h].at = "no"
  /\ LET near == {p \in owing : p[2] \in h \ shut /\ ClosingSoon(p[2])} IN
     run' = [run EXCEPT ![h] = [at |-> "gathered",
       batch |-> {[deadline |-> p[2], due |-> due[p[2]], reader |-> p[1], on |-> today] :
                     p \in near}]]
  /\ UNCHANGED <<today, due, shut, owing, notices, moves, since, ranOn>>

\* Mutated form: a key for each day.
KeyOfDay(n) == <<n.deadline, n.due, n.reader, n.on>>

\* dedupeKey, which is unique.
Key(n) == <<n.deadline, n.due, n.reader>>

\* notify, skipping duplicates.
Notify(h) ==
  /\ run[h].at = "gathered"
  /\ notices' = notices \cup {n \in run[h].batch : \A m \in notices : Key(m) # Key(n)}
  /\ run' = [run EXCEPT ![h] = [at |-> "done", batch |-> {}]]
  /\ ranOn' = ranOn \cup {<<h, today>>}
  /\ UNCHANGED <<today, due, shut, owing, moves, since>>

\* The write failed, which is logged, or the server went down.
NotifyFails(h) ==
  /\ run[h].at = "gathered"
  /\ run' = [run EXCEPT ![h] = [at |-> "done", batch |-> {}]]
  /\ UNCHANGED <<today, due, shut, owing, notices, moves, since, ranOn>>

-----------------------------------------------------------------------------
(* What the rest of the system does.                                        *)

\* A day may pass without its run: the server was not up at seven.
NextDay ==
  /\ today < LastDay
  /\ \A h \in Halves : run[h].at # "gathered"
  /\ today' = today + 1
  /\ run' = [h \in Halves |-> NotYet]
  /\ UNCHANGED <<due, shut, owing, notices, moves, since, ranOn>>

Touched(pairs) == since' = [p \in Pairs |-> IF p \in pairs THEN today ELSE since[p]]

\* A group is found or falls apart, work is handed in.
OwesOrNot(p) ==
  /\ owing' = IF p \in owing THEN owing \ {p} ELSE owing \cup {p}
  /\ Touched({p})
  /\ UNCHANGED <<today, run, due, shut, notices, moves, ranOn>>

MoveDeadline(d, day) ==
  /\ moves < MaxMoves /\ due[d] # day
  /\ moves' = moves + 1
  /\ due' = [due EXCEPT ![d] = day]
  /\ Touched(Readers \X {d})
  /\ UNCHANGED <<today, run, shut, owing, notices, ranOn>>

\* The office, or RoundPhase's reading of the dates.
ShutOrOpen(d) ==
  /\ shut' = IF d \in shut THEN shut \ {d} ELSE shut \cup {d}
  /\ Touched(Readers \X {d})
  /\ UNCHANGED <<today, run, due, owing, notices, moves, ranOn>>

RemindersNext ==
  \/ \E h \in Halves : Gather(h) \/ Notify(h) \/ NotifyFails(h)
  \/ NextDay
  \/ \E p \in Pairs : OwesOrNot(p)
  \/ \E d \in Deadlines, day \in Mornings : MoveDeadline(d, day)
  \/ \E d \in Ends : ShutOrOpen(d)

RemindersSpec == RemindersInit /\ [][RemindersNext]_reminderVars

-----------------------------------------------------------------------------
(* Properties.                                                              *)

\* As schema.prisma:820 has it, "a run that never happened [is] caught up by
\* the next one": who has owed a thing since before a run that succeeded in the
\* days before the deadline, has been told of it, and of it as it stands after
\* a move (RemindersService.run, closingWindow, dedupeKey).
ToldInTime ==
  \A p \in owing :
    LET d == p[2] IN
    (/\ d \notin shut
     /\ \E h \in Halves, day \in Mornings :
          /\ <<h, day>> \in ranOn /\ d \in h
          /\ since[p] < day /\ due[d] - LeadDays <= day /\ day < due[d])
    => \E n \in notices : n.deadline = d /\ n.due = due[d] /\ n.reader = p[1]

\* Nobody is told twice of one deadline, however many mornings it is near.
ToldOnce ==
  \A m, n \in notices :
    m.deadline = n.deadline /\ m.due = n.due /\ m.reader = n.reader => m.on = n.on

\* Each deadline is told of in time and once, although runs fail, deadlines move
\* and readers come to owe and cease to.
Reminded == ToldInTime /\ ToldOnce
=============================================================================
