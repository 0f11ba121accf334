--------------------------- MODULE RoundLifecycle ---------------------------
(***************************************************************************)
(* What a registration round promises about its phase: the phase is a      *)
(* column that only moves along the edges below, and a FINALIZED round      *)
(* carries the administrator who settled it.  The dates only trigger the    *)
(* gate's own moves; Rounds.tla models the requests that resolve them       *)
(* lazily and is shown to implement this module.                            *)
(***************************************************************************)

CONSTANTS
  Staff,        \* administrators who may settle a round
  Nobody        \* finalisedById is null

VARIABLES
  phase,        \* registration_rounds.phase, or "ABSENT" when no row exists
  finalisedBy   \* registration_rounds.finalisedById

lifecycleVars == <<phase, finalisedBy>>

Phases == {"PREP", "OPEN", "RECONCILING", "EXTENDED", "FINALIZED"}

\* The phases a date can end.
Gated == {"PREP", "OPEN", "EXTENDED"}

\* The legal targets of a move made by the dates alone, per phase (duePhase).
GateMoves(from) ==
  IF from = "PREP" THEN {"OPEN", "RECONCILING"} ELSE {"RECONCILING"}

Init ==
  /\ phase = "ABSENT"
  /\ finalisedBy = Nobody

\* setSemesterRounds creates the row; phase defaults to PREP.
Announce ==
  /\ phase = "ABSENT"
  /\ phase' = "PREP"
  /\ UNCHANGED finalisedBy

\* setSemesterRounds deletes a round the new plan leaves out.
Withdraw ==
  /\ phase \in Phases
  /\ phase' = "ABSENT"
  /\ finalisedBy' = Nobody

\* A read of the round finds that a date has passed.
GateMoved ==
  /\ phase \in Gated
  /\ phase' \in GateMoves(phase)
  /\ UNCHANGED finalisedBy

Extend ==
  /\ phase = "RECONCILING"
  /\ phase' = "EXTENDED"
  /\ UNCHANGED finalisedBy

Finalize ==
  /\ phase = "RECONCILING"
  /\ phase' = "FINALIZED"
  /\ finalisedBy' \in Staff

Unlock ==
  /\ phase = "FINALIZED"
  /\ phase' = "RECONCILING"
  /\ finalisedBy' = Nobody

Next == Announce \/ Withdraw \/ GateMoved \/ Extend \/ Finalize \/ Unlock

Spec == Init /\ [][Next]_lifecycleVars
=============================================================================
