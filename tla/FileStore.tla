------------------------------ MODULE FileStore ------------------------------
(***************************************************************************)
(* What the rows that refer to uploaded files promise together: a file is   *)
(* uploaded before a row names it, named at most once, and deleted only     *)
(* when no row names it any more.  Submissions and avatars both implement   *)
(* it.                                                                      *)
(***************************************************************************)
CONSTANT File

VARIABLES
  stored,   \* at the provider
  linked,   \* named by a row
  held      \* named by none, but a request knows it and may still delete it

vars == <<stored, linked, held>>

Init == stored = {} /\ linked = {} /\ held = {}

Upload(f) ==
  /\ f \notin stored
  /\ stored' = stored \cup {f} /\ held' = held \cup {f}
  /\ UNCHANGED linked

Link(f, old) ==
  /\ f \in held /\ old \subseteq linked
  /\ linked' = (linked \ old) \cup {f}
  /\ held' \in {(held \ {f}) \cup kept : kept \in SUBSET old}
  /\ UNCHANGED stored

Unlink(old) ==
  /\ old \subseteq linked
  /\ linked' = linked \ old
  /\ held' \in {held \cup kept : kept \in SUBSET old}
  /\ UNCHANGED stored

Destroy(f) ==
  /\ f \in held
  /\ stored' = stored \ {f} /\ held' = held \ {f}
  /\ UNCHANGED linked

\* The request that knew the file is gone, or its attempt to delete it failed.
Forget(files) ==
  /\ files \subseteq held
  /\ held' = held \ files
  /\ UNCHANGED <<stored, linked>>

Next ==
  \/ \E f \in File : Upload(f) \/ Destroy(f) \/ \E old \in SUBSET File : Link(f, old)
  \/ \E files \in SUBSET File : Unlink(files) \/ Forget(files)

Spec == Init /\ [][Next]_vars
=============================================================================
