-------------------------------- MODULE Terms --------------------------------
(***************************************************************************)
(* SemestersService: the dates of a term, and the one term that is active,  *)
(* which the rest of the system takes for the current one.                  *)
(***************************************************************************)
EXTENDS Catalog

CONSTANTS
  Days,     \* days a term may begin and end on
  Spans,    \* creates' dates: their schema has them in order
  Payloads  \* updates' dates: pairs of days, 0 for a date not sent

ASSUME TermsAssumption ==
  /\ Days \subseteq Nat \ {0}
  /\ Spans \subseteq {d \in Days \X Days : d[1] < d[2]}
  /\ Payloads \subseteq (Days \cup {0}) \X (Days \cup {0})

VARIABLES
  dates,      \* first and last day of each semester, <<>>: no such row
  active,     \* semesters with isActive
  overlapped  \* history: <<i, "dates">> and <<None, "active">> once a request
              \* has written what another had changed since it looked

termVars == <<table, code, refs, clerk, dates, active, overlapped>>

Term(i) == table = "semesters" /\ Exists(i)

TermsTypeOK ==
  /\ CatalogTypeOK
  /\ dates \in [RowIds -> {<<>>} \cup (Days \X Days)]
  /\ active \subseteq {i \in RowIds : Term(i)}

TermsInit ==
  /\ CatalogInit
  /\ dates = [i \in RowIds |-> <<>>]
  /\ active = {}
  /\ overlapped = {}

\* create's schema: the last day is after the first.
CreateCommitted(c) ==
  \E i \in RowIds :
    /\ CommitCreate(c, i)
    /\ IF table = "semesters"
       THEN \E span \in Spans : dates' = [dates EXCEPT ![i] = span]
       ELSE UNCHANGED dates
    /\ UNCHANGED <<active, overlapped>>

\* The row goes with its dates, and with its isActive: nothing asks for that.
RemoveCommitted(c) ==
  LET i == clerk[c].id IN
  /\ CommitRemove(c)
  /\ IF table = "semesters"
     THEN /\ dates' = [dates EXCEPT ![i] = <<>>]
          /\ active' = active \ {i}
          /\ overlapped' = overlapped \ {<<i, "dates">>}
     ELSE UNCHANGED <<dates, active, overlapped>>

-----------------------------------------------------------------------------
(* update, of the dates.                                                    *)

\* The row as read with the dates the payload has; 0 stands for none.
Merged(old, new) == [k \in 1..2 |-> IF new[k] = 0 THEN old[k] ELSE new[k]]

InOrder(old, new) == Merged(old, new)[1] < Merged(old, new)[2]

MoveArrives(c, i, new) ==
  /\ Term(i)
  /\ InOrder(dates[i], new)
  /\ Begin(c, [Free EXCEPT !.op = "dates", !.id = i, !.dates = new, !.read = dates[i]])
  /\ UNCHANGED <<dates, active, overlapped>>

\* Only the dates of the payload are written.
CommitMove(c) ==
  LET i == clerk[c].id IN
  /\ Doing(c, "dates") /\ Term(i)
  /\ dates' = [dates EXCEPT ![i] = Merged(@, clerk[c].dates)]
  /\ overlapped' = IF dates[i] = clerk[c].read THEN overlapped
                   ELSE overlapped \cup {<<i, "dates">>}
  /\ Finish(c)
  /\ UNCHANGED <<table, code, refs, active>>

-----------------------------------------------------------------------------
(* activate.                                                                *)

\* updateMany sees what is active when it starts; it then waits for the rows
\* another activation holds.
ActivateArrives(c, i) ==
  /\ Term(i)
  /\ Begin(c, [Free EXCEPT !.op = "activate", !.id = i, !.seen = active])
  /\ UNCHANGED <<dates, active, overlapped>>

\* Mutated form: the others stay active.
CommitActivateOnly(c) ==
  /\ Doing(c, "activate") /\ Term(clerk[c].id)
  /\ active' = active \cup {clerk[c].id}
  /\ overlapped' = IF active = clerk[c].seen THEN overlapped ELSE overlapped \cup {<<None, "active">>}
  /\ Finish(c)
  /\ UNCHANGED <<table, code, refs, dates>>

CommitActivate(c) ==
  /\ Doing(c, "activate") /\ Term(clerk[c].id)
  /\ active' = (active \ clerk[c].seen) \cup {clerk[c].id}
  /\ overlapped' = IF active = clerk[c].seen THEN overlapped ELSE overlapped \cup {<<None, "active">>}
  /\ Finish(c)
  /\ UNCHANGED <<table, code, refs, dates>>

TermsNext == \E c \in Clerks :
  \/ CatalogNext(c) /\ UNCHANGED <<dates, active, overlapped>>
  \/ CreateCommitted(c) \/ RemoveCommitted(c)
  \/ \E i \in RowIds :
       \/ \E new \in Payloads : MoveArrives(c, i, new)
       \/ ActivateArrives(c, i)
  \/ CommitMove(c) \/ CommitActivate(c)

TermsSpec == TermsInit /\ [][TermsNext]_termVars

-----------------------------------------------------------------------------
(* Properties.                                                              *)

\* A term ends after it begins, also when only one of its dates is moved: it
\* takes two requests that each look at the row before the other writes to
\* cross them (SemestersService.update).
DatesCrossOnlyByOverlap ==
  \A i \in RowIds : Term(i) =>
    dates[i][1] < dates[i][2] \/ <<i, "dates">> \in overlapped

\* Once there is a current term there is one until it is removed, also when the
\* term being activated is removed meanwhile (SemestersService.activate, one
\* transaction).
SomeTermStaysActive ==
  [][ active # {} /\ active' = {} => \E i \in active : code'[i] = None ]_termVars

\* And there is only one, unless two activations overlapped: each deactivates
\* what it saw.
OneTermUnlessOverlapped ==
  Cardinality(active) > 1 => <<None, "active">> \in overlapped

\* As semesters.service.ts:160 has it, activating a term deactivates all others.
\* Refuted.
OneTermActive == Cardinality(active) <= 1
=============================================================================
