------------------------------- MODULE Office -------------------------------
(***************************************************************************)
(* What the faculty office keeps beside the rounds: the tables others refer *)
(* to, the terms among them, and the deadlines its students are told of.    *)
(***************************************************************************)
EXTENDS Terms, Reminders

vars == <<termVars, reminderVars>>

\* The two share no row, so that a behaviour of both is one of each: a bound, of
\* which begins.
FarOff == due = [d \in Deadlines |-> LastDay]

Init == TermsInit /\ RemindersInit /\ (table = "semesters" \/ FarOff)

TermsOnly ==
  /\ FarOff /\ today = 0 /\ moves = 0 /\ shut = {}
  /\ owing = Pairs /\ \A h \in Halves : run[h] = NotYet
RemindersOnly ==
  table = "semesters" /\ clerk = [c \in Clerks |-> Free] /\ \A i \in RowIds : ~Exists(i)

Next ==
  \/ TermsNext /\ TermsOnly /\ UNCHANGED reminderVars
  \/ RemindersNext /\ RemindersOnly /\ UNCHANGED termVars

Spec == Init /\ [][Next]_vars

TypeOK == TermsTypeOK /\ RemindersTypeOK

\* What two requests at once, each on what it read, leave of the tables: distinct
\* codes, and terms in order and alone but for those that did overlap.
TablesSound ==
  TypeOK /\ CodesDistinct /\ DatesCrossOnlyByOverlap /\ OneTermUnlessOverlapped

\* No request takes what another has come to rely on: a row that is referred to,
\* the current term.
TablesKept == ReferredToStays /\ SomeTermStaysActive
=============================================================================
