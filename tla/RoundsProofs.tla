---------------------------- MODULE RoundsProofs ----------------------------
(***************************************************************************)
(* Rounds.tla for every set of callers, every window and every clock: the  *)
(* phase implements RoundLifecycle and keeps its author and its audit.     *)
(***************************************************************************)
EXTENDS Rounds, TLAPS

\* A phase a request is about to write was due for the phase it read.
CasLegal ==
  \A c \in Callers :
    At(c, "cas") => /\ req[c].row.phase \in Life!Gated
                    /\ req[c].due \in Life!GateMoves(req[c].row.phase)

\* A round that is gone or not yet closed has no decision on its trail.
NothingDecidedYet == phase \in {"ABSENT", "PREP", "OPEN"} => lastDecision = "NONE"

IInv ==
  /\ TypeOK
  /\ CasLegal
  /\ SealedByAuthor
  /\ AuditTellsPhase
  /\ NothingDecidedYet

\* duePhase moves a phase only where a date may: it returns the phase it was
\* given or one of the gate's legal targets.
LEMMA DuePhaseLegal ==
  ASSUME NEW row \in Row
  PROVE  /\ DuePhase(row) \in PhaseOrAbsent
         /\ DuePhase(row) # row.phase =>
              row.phase \in Life!Gated /\ DuePhase(row) \in Life!GateMoves(row.phase)
  <1> DEFINE overdue == now >= EndOfNamedDay(row.end)
             opened == now >= StartOfNamedDay(row.start)
  <1>1. DuePhase(row) =
          IF row.phase \in {"PREP", "OPEN", "EXTENDED"} /\ overdue THEN "RECONCILING"
          ELSE IF row.phase = "PREP" /\ opened THEN "OPEN" ELSE row.phase
    BY DEF DuePhase
  <1>2. row.phase \in PhaseOrAbsent
    BY DEF Row
  <1> HIDE DEF overdue, opened
  <1>3. QED
    BY <1>1, <1>2 DEF PhaseOrAbsent, Phases, Life!Gated, Life!GateMoves

\* Requests are well formed after any handler step that sets one caller's
\* request to a well-formed record.
LEMMA RequestTyped ==
  ASSUME TypeOK, NEW c \in Callers, NEW q \in Request
  PROVE  [req EXCEPT ![c] = q] \in [Callers -> Request]
  BY DEF TypeOK

LEMMA IdleTyped == Idle \in Request /\ Idle.step = "idle"
  BY DEF Idle, Request, Ops, Steps, Row, NoRow, PhaseOrAbsent, Phases, Instants

\* A step that only replaces one caller's request, by one that is well formed
\* and not about to write a phase unless legally so, keeps the invariant.
LEMMA RequestStep ==
  ASSUME IInv, NEW c \in Callers, NEW q \in Request,
         q.step = "cas" => /\ q.row.phase \in Life!Gated
                           /\ q.due \in Life!GateMoves(q.row.phase),
         req' = [req EXCEPT ![c] = q],
         UNCHANGED <<roundVars, now>>
  PROVE  IInv'
  <1>1. TypeOK'
    BY RequestTyped DEF IInv, TypeOK, roundVars
  <1>2. CasLegal'
    BY DEF IInv, TypeOK, CasLegal, At, Life!Gated, Life!GateMoves
  <1>3. QED
    BY <1>1, <1>2 DEF IInv, SealedByAuthor, AuditTellsPhase, NothingDecidedYet,
                      roundVars

\* The invariant holds of every state Init admits.
LEMMA InitIInv == Init => IInv
  <1> SUFFICES ASSUME Init PROVE IInv
    OBVIOUS
  <1> USE DEF Init
  <1>1. TypeOK
    <2>1. now \in 0..Horizon
      BY ClockAssumption
    <2>2. req \in [Callers -> Request]
      BY IdleTyped
    <2>3. QED
      BY <2>1, <2>2 DEF TypeOK, PhaseOrAbsent, Instants, Decisions
  <1>2. CasLegal
    BY DEF CasLegal, At, Idle
  <1>3. SealedByAuthor /\ AuditTellsPhase /\ NothingDecidedYet
    BY DEF SealedByAuthor, AuditTellsPhase, NothingDecidedYet
  <1>4. QED
    BY <1>1, <1>2, <1>3 DEF IInv

\* A handler step that leaves the row and the clock alone keeps the invariant:
\* arriving, reading the round, comparing it with the clock, the rule check.
LEMMA QuietSteps ==
  ASSUME IInv, NEW c \in Callers,
         View(c) \/ ReadRow(c) \/ JudgeRow(c)
         \/ UpdateArrives(c) \/ PlanArrives(c) \/ DropArrives(c)
         \/ ExtendArrives(c) \/ FinalizeArrives(c) \/ UnlockArrives(c)
         \/ CheckRule(c) \/ GiveUp(c)
  PROVE  IInv'
  <1> USE IdleTyped
  <1>0. /\ req[c] \in Request
        /\ CurrentRow \in Row /\ registrationStart \in Instants
        /\ registrationEnd \in Instants
    BY DEF IInv, TypeOK, CurrentRow, Row
  <1>1. ASSUME NEW op \in Ops, Arrive(c, op) PROVE IInv'
    <2> DEFINE q == [Idle EXCEPT !.op = op, !.step = "read"]
    <2>1. q \in Request /\ q.step # "cas"
      BY DEF Request, Steps, Idle
    <2>2. QED
      BY <1>1, <2>1, RequestStep DEF Arrive
  <1>2. CASE View(c) \/ FinalizeArrives(c) \/ UnlockArrives(c)
    BY <1>1, <1>2 DEF View, FinalizeArrives, UnlockArrives, Ops
  <1>3. CASE ExtendArrives(c)
    <2>1. PICK end \in Ends :
            req' = [req EXCEPT ![c] =
                      [Idle EXCEPT !.op = "extend", !.step = "read", !.end = end]]
      BY <1>3 DEF ExtendArrives
    <2> DEFINE q == [Idle EXCEPT !.op = "extend", !.step = "read", !.end = end]
    <2>2. q \in Request /\ q.step # "cas"
      BY DEF Request, Steps, Ops, Instants, Idle
    <2>3. QED
      BY <1>3, <2>1, <2>2, RequestStep DEF ExtendArrives
  <1>4. CASE UpdateArrives(c)
    <2>1. PICK start \in Starts \cup {registrationStart},
              end \in Ends \cup {registrationEnd} :
            req' = [req EXCEPT ![c] =
                      [Idle EXCEPT !.op = "update", !.step = "read",
                                   !.start = start, !.end = end,
                                   !.moves = MovesWindow(start, end)]]
      BY <1>4 DEF UpdateArrives
    <2> DEFINE q == [Idle EXCEPT !.op = "update", !.step = "read",
                                 !.start = start, !.end = end,
                                 !.moves = MovesWindow(start, end)]
    <2>2. start \in Instants /\ end \in Instants /\ MovesWindow(start, end) \in BOOLEAN
      BY <1>0 DEF Instants, MovesWindow
    <2>3. q \in Request /\ q.step # "cas"
      BY <2>2 DEF Request, Steps, Ops, Idle
    <2>4. QED
      BY <1>4, <2>1, <2>3, RequestStep DEF UpdateArrives
  <1>5. CASE PlanArrives(c)
    <2> DEFINE step == IF phase = "ABSENT" THEN "write" ELSE "judge"
               q(start, end) ==
                 [Idle EXCEPT !.op = "plan", !.step = step, !.row = CurrentRow,
                              !.start = start, !.end = end,
                              !.moves = MovesWindow(start, end)]
    <2>1. PICK start \in Starts, end \in Ends :
            req' = [req EXCEPT ![c] = q(start, end)]
      BY <1>5 DEF PlanArrives
    <2>2. /\ start \in Instants /\ end \in Instants
          /\ MovesWindow(start, end) \in BOOLEAN
          /\ step \in Steps /\ step # "cas"
      BY DEF Instants, MovesWindow, Steps
    <2>3. q(start, end) \in Request /\ q(start, end).step # "cas"
      BY <1>0, <2>2 DEF Request, Ops, Idle
    <2>4. QED
      BY <1>5, <2>1, <2>3, RequestStep DEF PlanArrives
  <1>6. CASE DropArrives(c)
    <2> DEFINE q == [Idle EXCEPT !.op = "drop", !.step = "judge", !.row = CurrentRow]
    <2>1. q \in Request /\ q.step # "cas"
      BY <1>0 DEF Request, Steps, Ops, Idle
    <2>2. QED
      BY <1>6, <2>1, RequestStep DEF DropArrives
  <1>7. CASE ReadRow(c)
    <2> DEFINE q == IF phase = "ABSENT" THEN Idle
                    ELSE [req[c] EXCEPT !.step = "judge", !.row = CurrentRow]
    <2>1. q \in Request /\ q.step # "cas"
      BY <1>0 DEF Request, Steps
    <2>2. QED
      BY <1>7, <2>1, RequestStep DEF ReadRow
  <1>8. CASE JudgeRow(c)
    <2> DEFINE due == DuePhase(req[c].row)
               q == IF due # req[c].row.phase
                      THEN [req[c] EXCEPT !.step = "cas", !.due = due]
                    ELSE IF req[c].op = "view" THEN Idle
                    ELSE [req[c] EXCEPT !.step = "guard", !.due = due]
    <2>1. req[c].row \in Row
      BY <1>0 DEF Request
    <2>2. /\ due \in PhaseOrAbsent
          /\ due # req[c].row.phase => /\ req[c].row.phase \in Life!Gated
                                       /\ due \in Life!GateMoves(req[c].row.phase)
      BY <2>1, DuePhaseLegal
    <2> HIDE DEF due
    <2>3. q \in Request
      BY <1>0, <2>2 DEF Request, Steps
    <2>4. q.step = "cas" => /\ q.row.phase \in Life!Gated
                            /\ q.due \in Life!GateMoves(q.row.phase)
      BY <1>0, <2>2 DEF Request
    <2>5. req' = [req EXCEPT ![c] = q]
      BY <1>8 DEF JudgeRow, due
    <2>6. QED
      BY <1>8, <2>3, <2>4, <2>5, RequestStep DEF JudgeRow
  <1>9. CASE CheckRule(c)
    <2> DEFINE q == [req[c] EXCEPT !.step = "write"]
    <2>1. q \in Request /\ q.step # "cas"
      BY <1>0 DEF Request, Steps
    <2>2. QED
      BY <1>9, <2>1, RequestStep DEF CheckRule
  <1>10. CASE GiveUp(c)
    BY <1>10, RequestStep DEF GiveUp, Finish
  <1>11. QED
    BY <1>2, <1>3, <1>4, <1>5, <1>6, <1>7, <1>8, <1>9, <1>10

\* The request table stays legal when some requests finish and the others are
\* left as they were: the form every committing transaction gives it.
LEMMA FinishStep ==
  ASSUME IInv,
         req' \in [Callers -> Request],
         \A d \in Callers : req'[d] \in {req[d], Idle}
  PROVE  CasLegal'
  BY IdleTyped DEF IInv, CasLegal, At, Life!Gated, Life!GateMoves

\* The guarded phase write of resolveMany keeps the invariant.
LEMMA AdvanceStep ==
  ASSUME IInv, NEW c \in Callers, AdvancePhase(c)
  PROVE  IInv'
  <1> DEFINE q == IF req[c].op = "view" THEN Idle
                  ELSE [req[c] EXCEPT !.step = "guard"]
  <1>1. q \in Request /\ q.step # "cas"
    BY IdleTyped DEF IInv, TypeOK, Request, Steps
  <1>2. req' = [req EXCEPT ![c] = q]
    BY DEF AdvancePhase
  <1>3. /\ req[c].row.phase \in {"PREP", "OPEN", "EXTENDED"}
        /\ req[c].due \in {"OPEN", "RECONCILING"}
        /\ req[c].due = "OPEN" => req[c].row.phase = "PREP"
    BY DEF AdvancePhase, IInv, CasLegal, Life!Gated, Life!GateMoves
  <1>4. TypeOK'
    BY <1>1, <1>2, <1>3, RequestTyped
    DEF AdvancePhase, IInv, TypeOK, PhaseOrAbsent, Phases
  <1>5. CasLegal'
    BY <1>1, <1>2 DEF IInv, TypeOK, CasLegal, At, Life!Gated, Life!GateMoves
  <1>6. SealedByAuthor' /\ AuditTellsPhase' /\ NothingDecidedYet'
    BY <1>3 DEF AdvancePhase, IInv, SealedByAuthor, AuditTellsPhase,
                NothingDecidedYet
  <1>7. QED
    BY <1>4, <1>5, <1>6 DEF IInv

\* Each committing transaction keeps the invariant.
LEMMA CommitSteps ==
  ASSUME IInv, NEW c \in Callers,
         \/ CommitUpdate(c) \/ CommitPlan(c) \/ CommitDrop(c)
         \/ CommitExtend(c) \/ CommitFinalize(c) \/ CommitUnlock(c)
  PROVE  IInv'
  <1>1. /\ req' \in [Callers -> Request]
        /\ \A d \in Callers : req'[d] \in {req[d], Idle}
    <2>1. CASE Finish(c)
      BY <2>1, IdleTyped DEF Finish, IInv, TypeOK
    <2>2. CASE CommitDrop(c)
      BY <2>2, IdleTyped DEF CommitDrop, IInv, TypeOK
    <2>3. QED
      BY <2>1, <2>2 DEF CommitUpdate, CommitPlan, CommitExtend, CommitFinalize,
                        CommitUnlock, Writes
  <1>2. CasLegal'
    BY <1>1, FinishStep
  <1>3. /\ req[c].start \in Instants /\ req[c].end \in Instants /\ 0 \in Instants
    BY DEF IInv, TypeOK, Request, Instants
  <1>4. TypeOK'
    BY <1>1, <1>3 DEF IInv, TypeOK, PhaseOrAbsent, Phases, Decisions, CommitUpdate,
                      CommitPlan, CommitDrop, CommitExtend, CommitFinalize,
                      CommitUnlock
  <1>5. SealedByAuthor' /\ AuditTellsPhase' /\ NothingDecidedYet'
    BY CallersAssumption
    DEF IInv, SealedByAuthor, AuditTellsPhase, NothingDecidedYet, CommitUpdate,
        CommitPlan, CommitDrop, CommitExtend, CommitFinalize, CommitUnlock
  <1>6. QED
    BY <1>2, <1>4, <1>5 DEF IInv

\* Time and topics passing by keep the invariant.
LEMMA SurroundingSteps ==
  ASSUME IInv, Tick \/ TopicFiled
  PROVE  IInv'
  <1>1. CASE Tick
    <2>1. now' \in 0..Horizon
      BY <1>1, ClockAssumption DEF Tick, IInv, TypeOK
    <2>2. QED
      BY <1>1, <2>1 DEF Tick, roundVars, IInv, TypeOK, CasLegal, At, SealedByAuthor,
                        AuditTellsPhase, NothingDecidedYet
  <1>2. CASE TopicFiled
    BY <1>2 DEF TopicFiled, IInv, TypeOK, CasLegal, At, SealedByAuthor,
                AuditTellsPhase, NothingDecidedYet
  <1>3. QED
    BY <1>1, <1>2

\* The invariant is inductive.
LEMMA NextIInv == IInv /\ [Next]_vars => IInv'
  <1> SUFFICES ASSUME IInv, [Next]_vars PROVE IInv'
    OBVIOUS
  <1>1. CASE Tick \/ TopicFiled
    BY <1>1, SurroundingSteps
  <1>2. ASSUME NEW c \in Callers, View(c) \/ Resolve(c) PROVE IInv'
    BY <1>2, QuietSteps, AdvanceStep DEF Resolve
  <1>3. ASSUME NEW c \in Callers, StaffStep(c) PROVE IInv'
    BY <1>3, QuietSteps, CommitSteps DEF StaffStep
  <1>4. CASE UNCHANGED vars
    BY <1>4 DEF vars, roundVars, IInv, TypeOK, CasLegal, At, SealedByAuthor,
                AuditTellsPhase, NothingDecidedYet
  <1>5. QED
    BY <1>1, <1>2, <1>3, <1>4 DEF Next, Caller

\* Every reachable state satisfies the inductive invariant.
THEOREM Invariance == Spec => []IInv
  BY InitIInv, NextIInv, PTL DEF Spec

\* Rows and requests keep their types whatever the requests interleave.
THEOREM TypeCorrect == Spec => []TypeOK
  BY Invariance, PTL DEF IInv

\* finalisedById is set exactly while the phase is FINALIZED, for any number
\* of concurrent finalize, unlock and lazy resolve requests.
THEOREM SealedByAuthorHolds == Spec => []SealedByAuthor
  BY Invariance, PTL DEF IInv

\* The newest decision on the audit trail accounts for the phase.
THEOREM AuditTellsPhaseHolds == Spec => []AuditTellsPhase
  BY Invariance, PTL DEF IInv

\* A step of the requests is a step of the phase's life cycle or leaves phase
\* and author alone.
LEMMA StepRefines == IInv /\ [Next]_vars => [Life!Next]_<<phase, finalisedBy>>
  <1> SUFFICES ASSUME IInv, [Next]_vars
               PROVE  Life!Next \/ UNCHANGED <<phase, finalisedBy>>
    OBVIOUS
  <1> USE DEF Life!Next
  <1>1. ASSUME NEW c \in Callers, AdvancePhase(c)
        PROVE  Life!Next \/ UNCHANGED <<phase, finalisedBy>>
    BY <1>1 DEF AdvancePhase, IInv, CasLegal, Life!GateMoved, At
  <1>2. ASSUME NEW c \in Callers, CommitPlan(c)
        PROVE  Life!Next \/ UNCHANGED <<phase, finalisedBy>>
    BY <1>2 DEF CommitPlan, Life!Announce
  <1>3. ASSUME NEW c \in Callers, CommitDrop(c)
        PROVE  Life!Next
    BY <1>3 DEF CommitDrop, IInv, TypeOK, PhaseOrAbsent, Phases, Life!Withdraw,
                Life!Phases
  <1>4. ASSUME NEW c \in Callers, CommitExtend(c) \/ CommitFinalize(c) \/ CommitUnlock(c)
        PROVE  Life!Next
    BY <1>4 DEF CommitExtend, CommitFinalize, CommitUnlock, Life!Extend,
                Life!Finalize, Life!Unlock
  <1>5. ASSUME NEW c \in Callers, StaffStep(c)
        PROVE  Life!Next \/ UNCHANGED <<phase, finalisedBy>>
    BY <1>2, <1>3, <1>4, <1>5
    DEF StaffStep, UpdateArrives, PlanArrives, DropArrives, ExtendArrives,
        FinalizeArrives, UnlockArrives, Arrive, CheckRule, GiveUp, CommitUpdate,
        roundVars
  <1>6. ASSUME NEW c \in Callers, View(c) \/ Resolve(c)
        PROVE  Life!Next \/ UNCHANGED <<phase, finalisedBy>>
    BY <1>1, <1>6 DEF View, Arrive, Resolve, ReadRow, JudgeRow, roundVars
  <1>7. CASE Tick \/ TopicFiled \/ UNCHANGED vars
    BY <1>7 DEF Tick, TopicFiled, vars, roundVars
  <1>8. QED
    BY <1>5, <1>6, <1>7 DEF Next, Caller

\* Rounds implements RoundLifecycle: for any number of requests holding stale
\* copies of the row, the stored phase moves along the life cycle only, and
\* only finalize and unlock touch its author.
THEOREM RefinesLifecycle == Spec => LifecycleRefined
  <1>1. Init => Life!Init
    BY DEF Init, Life!Init
  <1>2. QED
    BY <1>1, StepRefines, Invariance, PTL
    DEF Spec, LifecycleRefined, Life!Spec, Life!lifecycleVars

\* The author of a settlement is never replaced by another one before an
\* unlock or a drop has cleared it.
THEOREM AuthorNotOverwrittenHolds == Spec => AuthorNotOverwritten
  <1>1. IInv /\ [Next]_vars =>
          [finalisedBy # Nobody => finalisedBy' \in {finalisedBy, Nobody}]_vars
    <2> SUFFICES ASSUME IInv, [Next]_vars, finalisedBy # Nobody
                 PROVE  finalisedBy' \in {finalisedBy, Nobody}
      OBVIOUS
    <2>1. phase = "FINALIZED"
      BY DEF IInv, SealedByAuthor
    <2>2. [Life!Next]_<<phase, finalisedBy>>
      BY StepRefines
    <2>3. QED
      BY <2>1, <2>2 DEF Life!Next, Life!Announce, Life!Withdraw, Life!GateMoved,
                        Life!Extend, Life!Finalize, Life!Unlock
  <1>2. QED
    BY <1>1, Invariance, PTL DEF Spec, AuthorNotOverwritten
=============================================================================
