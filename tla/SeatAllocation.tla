--------------------------- MODULE SeatAllocation ---------------------------
(***************************************************************************)
(* What registration and allocation promise, without groups, rows or locks: *)
(* who has a seat on which topic, which seats the office gave, and in which *)
(* phase of the round each may change.  Registration implements it as long  *)
(* as requests do not overlap.                                              *)
(***************************************************************************)
EXTENDS Integers, FiniteSets

CONSTANTS Students, Topics, MaxStudents, None

VARIABLES
  phase,
  seat,     \* the topic each student sits on, or None
  placed    \* the students the faculty office seated

seatVars == <<phase, seat, placed>>

On(t) == {s \in Students : seat[s] = t}

Init ==
  /\ phase = "PREP"
  /\ seat = [s \in Students |-> None]
  /\ placed = {}

Sit(s, t) ==
  /\ seat[s] = None
  /\ Cardinality(On(t)) < MaxStudents[t]
  /\ seat' = [seat EXCEPT ![s] = t]
  /\ UNCHANGED phase

\* Registering or joining.
Take(s, t) ==
  /\ phase \in {"OPEN", "EXTENDED"}
  /\ Sit(s, t)
  /\ UNCHANGED placed

\* Nobody leaves a topic empty: the last one dissolves the group.
Leave(s) ==
  /\ phase = "OPEN"
  /\ seat[s] # None /\ On(seat[s]) # {s}
  /\ seat' = [seat EXCEPT ![s] = None]
  /\ UNCHANGED <<phase, placed>>

Dissolve(t) ==
  /\ phase = "OPEN"
  /\ seat' = [s \in Students |-> IF seat[s] = t THEN None ELSE seat[s]]
  /\ UNCHANGED <<phase, placed>>

Place(s, t) ==
  /\ phase = "RECONCILING"
  /\ Sit(s, t)
  /\ placed' = placed \cup {s}

\* The office takes back a seat it gave, never one a student took.
Recall(s) ==
  /\ phase = "RECONCILING"
  /\ s \in placed
  /\ seat' = [seat EXCEPT ![s] = None]
  /\ placed' = placed \ {s}
  /\ UNCHANGED phase

MovesOn ==
  /\ <<phase, phase'>> \in
       {<<"PREP", "OPEN">>, <<"PREP", "RECONCILING">>, <<"OPEN", "RECONCILING">>,
        <<"RECONCILING", "EXTENDED">>, <<"EXTENDED", "RECONCILING">>,
        <<"RECONCILING", "FINALIZED">>, <<"FINALIZED", "RECONCILING">>}
  /\ UNCHANGED <<seat, placed>>

Next ==
  \/ \E s \in Students, t \in Topics : Take(s, t) \/ Place(s, t)
  \/ \E s \in Students : Leave(s) \/ Recall(s)
  \/ \E t \in Topics : Dissolve(t)
  \/ MovesOn

Spec == Init /\ [][Next]_seatVars
=============================================================================
