------------------------------- MODULE Rounds -------------------------------
(***************************************************************************)
(* One registration round as the requests see it: RoundsService (update,   *)
(* extend, unlock, setSemesterRounds), the phase half of                    *)
(* AllocationService.finalize, and RoundPhaseService, which has no          *)
(* scheduler and moves an overdue phase when somebody reads it.             *)
(*                                                                         *)
(* Every request runs as its awaits let it: load the row it edits, read     *)
(* the row it resolves, compare that copy with the clock, write the phase   *)
(* it found due (guarded on the phase it read), check its own rule, write.  *)
(* Other requests and the clock run between any two of these.               *)
(***************************************************************************)
EXTENDS Integers

CONSTANTS
  Callers,      \* concurrent requests; each stands for the user who sent it
  Viewers,      \* the callers who keep coming back to the round
  Starts, Ends, \* the instants requests may ask for as window bounds
  DayTicks,     \* length of a day in ticks
  OffsetTicks,  \* how far local midnight lies before UTC midnight
  Horizon,      \* last instant of the model's clock
  Nobody

ASSUME CallersAssumption == Viewers \subseteq Callers /\ Nobody \notin Callers
ASSUME ClockAssumption ==
  /\ DayTicks \in Nat \ {0} /\ OffsetTicks \in Nat /\ Horizon \in Nat
  /\ Starts \subseteq Nat /\ Ends \subseteq Nat

VARIABLES
  phase, finalisedBy,          \* columns of registration_rounds
  registrationStart,
  registrationEnd,
  hasTopics,                   \* some topics row points at the round
  lastDecision,                \* newest EXTEND/FINALIZE/UNLOCK audit entry
  now,                         \* the clock, in ticks
  req                          \* what each caller's request is doing

roundVars == <<phase, finalisedBy, registrationStart, registrationEnd,
               hasTopics, lastDecision>>
vars == <<roundVars, now, req>>

Life == INSTANCE RoundLifecycle WITH Staff <- Callers

Phases == {"PREP", "OPEN", "RECONCILING", "EXTENDED", "FINALIZED"}
PhaseOrAbsent == Phases \cup {"ABSENT"}
Decisions == {"NONE", "EXTEND", "FINALIZE", "UNLOCK"}
Ops == {"view", "update", "plan", "drop", "extend", "finalize", "unlock"}
Steps == {"idle", "read", "judge", "cas", "guard", "write"}
Instants == Starts \cup Ends \cup {0}

-----------------------------------------------------------------------------
(* The calendar: a date names a whole local day.                            *)

StartOfNamedDay(v) == (v \div DayTicks) * DayTicks - OffsetTicks
EndOfNamedDay(v) == StartOfNamedDay(v) + DayTicks

\* Mutated form: an extension is never found overdue.
DuePhaseIgnoresExtension(row) ==
  LET overdue == now >= EndOfNamedDay(row.end) IN
  IF row.phase \in {"PREP", "OPEN"} /\ overdue THEN "RECONCILING"
  ELSE IF row.phase = "PREP" /\ now >= StartOfNamedDay(row.start) THEN "OPEN"
  ELSE row.phase

\* duePhase over the copy of the row a request holds.
DuePhase(row) ==
  LET overdue == now >= EndOfNamedDay(row.end) IN
  IF row.phase \in {"PREP", "OPEN", "EXTENDED"} /\ overdue THEN "RECONCILING"
  ELSE IF row.phase = "PREP" /\ now >= StartOfNamedDay(row.start) THEN "OPEN"
  ELSE row.phase

-----------------------------------------------------------------------------
(* Requests.                                                                *)

Row == [phase : PhaseOrAbsent, start : Instants, end : Instants]
NoRow == [phase |-> "ABSENT", start |-> 0, end |-> 0]
CurrentRow ==
  [phase |-> phase, start |-> registrationStart, end |-> registrationEnd]

Request == [op : Ops, step : Steps, row : Row, due : PhaseOrAbsent,
            start : Instants, end : Instants, moves : BOOLEAN]
Idle == [op |-> "view", step |-> "idle", row |-> NoRow, due |-> "ABSENT",
         start |-> 0, end |-> 0, moves |-> FALSE]

TypeOK ==
  /\ phase \in PhaseOrAbsent
  /\ finalisedBy \in Callers \cup {Nobody}
  /\ registrationStart \in Instants
  /\ registrationEnd \in Instants
  /\ hasTopics \in BOOLEAN
  /\ lastDecision \in Decisions
  /\ now \in 0..Horizon
  /\ req \in [Callers -> Request]

Init ==
  /\ phase = "ABSENT" /\ finalisedBy = Nobody
  /\ registrationStart = 0 /\ registrationEnd = 0
  /\ hasTopics = FALSE /\ lastDecision = "NONE"
  /\ now = 0
  /\ req = [c \in Callers |-> Idle]

At(c, step) == req[c].step = step
Finish(c) == req' = [req EXCEPT ![c] = Idle]
MovesWindow(start, end) ==
  \/ start # registrationStart
  \/ end # registrationEnd

\* View, extend, finalize, unlock: nothing of the first load is used later.
Arrive(c, op) ==
  /\ At(c, "idle") /\ phase # "ABSENT"
  /\ req' = [req EXCEPT ![c] = [Idle EXCEPT !.op = op, !.step = "read"]]
  /\ UNCHANGED <<roundVars, now>>

View(c) == Arrive(c, "view")
FinalizeArrives(c) == Arrive(c, "finalize")
UnlockArrives(c) == Arrive(c, "unlock")

ExtendArrives(c) ==
  /\ At(c, "idle") /\ phase # "ABSENT"
  /\ \E end \in Ends :
       req' = [req EXCEPT ![c] =
                 [Idle EXCEPT !.op = "extend", !.step = "read", !.end = end]]
  /\ UNCHANGED <<roundVars, now>>

\* update: a bound the payload leaves out is taken from the row loaded here,
\* and movesWindow compares with that same row.
UpdateArrives(c) ==
  /\ At(c, "idle") /\ phase # "ABSENT"
  /\ \E start \in Starts \cup {registrationStart},
        end \in Ends \cup {registrationEnd} :
       req' = [req EXCEPT ![c] =
                 [Idle EXCEPT !.op = "update", !.step = "read",
                              !.start = start, !.end = end,
                              !.moves = MovesWindow(start, end)]]
  /\ UNCHANGED <<roundVars, now>>

\* setSemesterRounds with the round in its plan: the row it loads is also the
\* one it resolves.  An absent row goes straight to the transaction.
PlanArrives(c) ==
  /\ At(c, "idle")
  /\ \E start \in Starts, end \in Ends :
       /\ start < end
       /\ req' = [req EXCEPT ![c] =
                    [Idle EXCEPT !.op = "plan",
                                 !.step = IF phase = "ABSENT" THEN "write"
                                                              ELSE "judge",
                                 !.row = CurrentRow,
                                 !.start = start, !.end = end,
                                 !.moves = MovesWindow(start, end)]]
  /\ UNCHANGED <<roundVars, now>>

\* setSemesterRounds with the round left out: refused while it carries topics.
DropArrives(c) ==
  /\ At(c, "idle") /\ phase # "ABSENT" /\ ~hasTopics
  /\ req' = [req EXCEPT ![c] =
               [Idle EXCEPT !.op = "drop", !.step = "judge",
                            !.row = CurrentRow]]
  /\ UNCHANGED <<roundVars, now>>

-----------------------------------------------------------------------------
(* RoundPhaseService.resolve: load, compare with the clock, guarded write.  *)

ReadRow(c) ==
  /\ At(c, "read")
  /\ req' = [req EXCEPT ![c] =
               IF phase = "ABSENT" THEN Idle   \* NotFoundException
               ELSE [@ EXCEPT !.step = "judge", !.row = CurrentRow]]
  /\ UNCHANGED <<roundVars, now>>

JudgeRow(c) ==
  /\ At(c, "judge")
  /\ LET due == DuePhase(req[c].row) IN
       req' = [req EXCEPT ![c] =
                 IF due # @.row.phase
                   THEN [@ EXCEPT !.step = "cas", !.due = due]
                 ELSE IF @.op = "view" THEN Idle
                 ELSE [@ EXCEPT !.step = "guard", !.due = due]]
  /\ UNCHANGED <<roundVars, now>>

\* Mutated form: the write without its guard on the phase that was read.
AdvancePhaseUnguarded(c) ==
  /\ At(c, "cas")
  /\ phase' = req[c].due
  /\ req' = [req EXCEPT ![c] =
               IF @.op = "view" THEN Idle ELSE [@ EXCEPT !.step = "guard"]]
  /\ UNCHANGED <<finalisedBy, registrationStart, registrationEnd, hasTopics,
                 lastDecision, now>>

\* updateMany where phase is still the one that was read.
AdvancePhase(c) ==
  /\ At(c, "cas")
  /\ phase' = IF phase = req[c].row.phase THEN req[c].due ELSE phase
  /\ req' = [req EXCEPT ![c] =
               IF @.op = "view" THEN Idle ELSE [@ EXCEPT !.step = "guard"]]
  /\ UNCHANGED <<finalisedBy, registrationStart, registrationEnd, hasTopics,
                 lastDecision, now>>

-----------------------------------------------------------------------------
(* Each operation's own rule, on the phase its resolve returned.            *)

\* assertScheduleEditable.
ScheduleEditable(q) == q.moves => q.due \in {"PREP", "OPEN"}

Allowed(q) ==
  \/ q.op = "update" /\ ScheduleEditable(q) /\ q.start < q.end
  \/ q.op = "plan" /\ ScheduleEditable(q)
  \/ q.op = "drop"
  \/ q.op = "extend" /\ q.due = "RECONCILING" /\ q.end > now
  \/ q.op = "finalize" /\ q.due = "RECONCILING"
  \/ q.op = "unlock" /\ q.due = "FINALIZED"

CheckRule(c) ==
  /\ At(c, "guard")
  /\ Allowed(req[c])
  /\ req' = [req EXCEPT ![c].step = "write"]
  /\ UNCHANGED <<roundVars, now>>

\* The rule refuses, or the request dies before its transaction commits: a
\* finalize that lists unplaced students, a lost connection, a crash.
GiveUp(c) ==
  /\ req[c].step \in {"guard", "write"}
  /\ Finish(c)
  /\ UNCHANGED <<roundVars, now>>

-----------------------------------------------------------------------------
(* The transactions.                                                        *)

Writes(c, op) == At(c, "write") /\ req[c].op = op /\ Finish(c)

\* Both bounds are written back, the ones the payload left out included.
CommitUpdate(c) ==
  /\ Writes(c, "update")
  /\ phase # "ABSENT"
  /\ registrationStart' = req[c].start
  /\ registrationEnd' = req[c].end
  /\ UNCHANGED <<phase, finalisedBy, hasTopics, lastDecision, now>>

\* The kept branch updates by the id it loaded, the other one creates.
CommitPlan(c) ==
  /\ Writes(c, "plan")
  /\ (req[c].row.phase = "ABSENT") <=> (phase = "ABSENT")
  /\ phase' = IF phase = "ABSENT" THEN "PREP" ELSE phase
  /\ registrationStart' = req[c].start
  /\ registrationEnd' = req[c].end
  /\ UNCHANGED <<finalisedBy, hasTopics, lastDecision, now>>

\* A request that names a round by id, as all but a creating plan do.
NamesRound(q) == q.step # "idle" /\ ~(q.op = "plan" /\ q.row.phase = "ABSENT")

\* The foreign key from topics refuses a delete the check let through.  Ids are
\* never reused, so whatever else was addressed to this row finds nothing.
CommitDrop(c) ==
  /\ At(c, "write") /\ req[c].op = "drop"
  /\ phase # "ABSENT" /\ ~hasTopics
  /\ req' = [d \in Callers |-> IF NamesRound(req[d]) THEN Idle ELSE req[d]]
  /\ phase' = "ABSENT" /\ finalisedBy' = Nobody
  /\ registrationStart' = 0 /\ registrationEnd' = 0
  /\ lastDecision' = "NONE"
  /\ UNCHANGED <<hasTopics, now>>

\* Mutated form: the extension stores the end of the day it names.
CommitExtendEndOfDay(c) ==
  /\ Writes(c, "extend")
  /\ phase = "RECONCILING"
  /\ phase' = "EXTENDED"
  /\ registrationEnd' = EndOfNamedDay(req[c].end)
  /\ lastDecision' = "EXTEND"
  /\ UNCHANGED <<finalisedBy, registrationStart, hasTopics, now>>

CommitExtend(c) ==
  /\ Writes(c, "extend")
  /\ phase = "RECONCILING"
  /\ phase' = "EXTENDED"
  /\ registrationEnd' = req[c].end
  /\ lastDecision' = "EXTEND"
  /\ UNCHANGED <<finalisedBy, registrationStart, hasTopics, now>>

\* Mutated form: the plain update the comment in finalize warns about.
CommitFinalizeUnguarded(c) ==
  /\ Writes(c, "finalize")
  /\ phase' = "FINALIZED"
  /\ finalisedBy' = c
  /\ lastDecision' = "FINALIZE"
  /\ UNCHANGED <<registrationStart, registrationEnd, hasTopics, now>>

CommitFinalize(c) ==
  /\ Writes(c, "finalize")
  /\ phase = "RECONCILING"
  /\ phase' = "FINALIZED"
  /\ finalisedBy' = c
  /\ lastDecision' = "FINALIZE"
  /\ UNCHANGED <<registrationStart, registrationEnd, hasTopics, now>>

\* Mutated form: the unlock leaves the author of the undone settlement.
CommitUnlockKeepsAuthor(c) ==
  /\ Writes(c, "unlock")
  /\ phase = "FINALIZED"
  /\ phase' = "RECONCILING"
  /\ lastDecision' = "UNLOCK"
  /\ UNCHANGED <<finalisedBy, registrationStart, registrationEnd, hasTopics,
                 now>>

CommitUnlock(c) ==
  /\ Writes(c, "unlock")
  /\ phase = "FINALIZED"
  /\ phase' = "RECONCILING"
  /\ finalisedBy' = Nobody
  /\ lastDecision' = "UNLOCK"
  /\ UNCHANGED <<registrationStart, registrationEnd, hasTopics, now>>

-----------------------------------------------------------------------------
(* The surroundings.                                                        *)

\* TopicsService.create under an existing round.
TopicFiled ==
  /\ phase # "ABSENT" /\ ~hasTopics
  /\ hasTopics' = TRUE
  /\ UNCHANGED <<phase, finalisedBy, registrationStart, registrationEnd,
                 lastDecision, now, req>>

Tick ==
  /\ now < Horizon
  /\ now' = now + 1
  /\ UNCHANGED <<roundVars, req>>

Resolve(c) == ReadRow(c) \/ JudgeRow(c) \/ AdvancePhase(c)

StaffStep(c) ==
  \/ UpdateArrives(c) \/ PlanArrives(c) \/ DropArrives(c)
  \/ ExtendArrives(c) \/ FinalizeArrives(c) \/ UnlockArrives(c)
  \/ CheckRule(c) \/ GiveUp(c)
  \/ CommitUpdate(c) \/ CommitPlan(c) \/ CommitDrop(c)
  \/ CommitExtend(c) \/ CommitFinalize(c) \/ CommitUnlock(c)

Caller(c) == View(c) \/ Resolve(c) \/ StaffStep(c)

Next ==
  \/ Tick
  \/ TopicFiled
  \/ \E c \in Callers : Caller(c)

Spec == Init /\ [][Next]_vars

\* The lazy design rests on somebody asking about the round now and then, to
\* read it or to change it.
Fairness ==
  /\ WF_vars(Tick)
  /\ \A v \in Viewers : WF_vars(Caller(v))

FairSpec == Spec /\ Fairness

-----------------------------------------------------------------------------
(* Properties.                                                              *)

\* Whatever stale copies the requests hold, the stored phase only moves along
\* the edges of RoundLifecycle: the guarded writes of RoundPhaseService and of
\* extend, finalize and unlock together implement it.
LifecycleRefined == Life!Spec

\* finalisedById is set exactly while the round is FINALIZED: finalize and
\* unlock write it with the phase, and no late phase write separates the two.
SealedByAuthor == phase = "FINALIZED" <=> finalisedBy # Nobody

\* The newest of the audit entries EXTEND, FINALIZE, UNLOCK accounts for the
\* phase the round is in, so the trail can be read back as what happened.
AuditTellsPhase ==
  /\ phase = "FINALIZED" <=> lastDecision = "FINALIZE"
  /\ phase = "EXTENDED" => lastDecision = "EXTEND"
  /\ phase \in {"PREP", "OPEN"} => lastDecision = "NONE"

\* Of two administrators settling the round at once the second never records
\* itself over the first (the comment in finalize): an author is only ever
\* replaced after an unlock or a drop cleared it.
AuthorNotOverwritten ==
  [][finalisedBy # Nobody => finalisedBy' \in {finalisedBy, Nobody}]_vars

\* An extension extend lets through is not over before it starts (the message
\* of its check on registrationEnd).
ExtensionReachesFuture ==
  [][ \A c \in Callers :
        req[c].op = "extend" /\ At(c, "guard") /\ req'[c].step = "write"
        => now < EndOfNamedDay(req[c].end) ]_vars

\* As long as somebody keeps coming back to the round, a gate whose every possible
\* closing day is over does not stay open: the lazy phase catches up even when
\* its guarded writes keep losing to other requests.
GateEventuallyCloses ==
  (phase \in {"PREP", "OPEN", "EXTENDED"} /\ now = Horizon)
    ~> (phase \in {"RECONCILING", "FINALIZED", "ABSENT"})
-----------------------------------------------------------------------------
(* Refuted readings, kept for the record: no run checks them, the README     *)
(* says which steps refute each.                                            *)

\* Once registration has closed, the dates of a round move only by an
\* extension (the message of assertScheduleEditable); update and
\* setSemesterRounds leave them alone.
ScheduleFrozen ==
  [][ /\ phase \in {"RECONCILING", "EXTENDED", "FINALIZED"}
      /\ phase' # "ABSENT"
      /\ <<registrationStart', registrationEnd'>>
           # <<registrationStart, registrationEnd>>
      => phase = "RECONCILING" /\ phase' = "EXTENDED" ]_vars

\* Reading a round never closes its gate before the closing day on its row is
\* over: the guarded write does not act on a phase that has since moved on
\* (the comment in resolveMany).
GateClosesOnTime ==
  [][ /\ phase \in {"PREP", "OPEN", "EXTENDED"}
      /\ phase' = "RECONCILING"
      => now >= EndOfNamedDay(registrationEnd) ]_vars

\* The transitions section 1.0 of doc/fr_nfr_analysis.md lists as the full set.
DocumentedMoves ==
  {<<"PREP", "OPEN">>, <<"OPEN", "RECONCILING">>,
   <<"RECONCILING", "EXTENDED">>, <<"EXTENDED", "RECONCILING">>,
   <<"RECONCILING", "FINALIZED">>, <<"FINALIZED", "RECONCILING">>}

\* Each phase of a round has one way in and there is no shortcut: an existing
\* round's phase moves along the documented list only.
OnlyDocumentedMoves ==
  [][ /\ phase \in Phases
      /\ phase' \in Phases \ {phase}
      => <<phase, phase'>> \in DocumentedMoves ]_vars
=============================================================================
