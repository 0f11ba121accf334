------------------------------- MODULE Avatars -------------------------------
(***************************************************************************)
(* MeService's setAvatar and removeAvatar: the old picture is read, the new *)
(* one uploaded and written, the old one then deleted, with an await        *)
(* between any two.                                                         *)
(***************************************************************************)
EXTENDS FiniteSets

CONSTANTS
  Users, Sitters,   \* accounts; requests of this module in flight at once
  Pictures,         \* names the provider may give
  Bare              \* no picture

ASSUME AvatarsAssumption == Bare \notin Pictures \cup Users

VARIABLES
  avatar,    \* users.avatarPublicId; an account is never deleted here
  sitting,   \* requests
  pictures   \* files at the provider

avatarVars == <<avatar, sitting, pictures>>

Sitting ==
  [step : {"idle", "upload", "write", "clear", "destroy"}, of : Users \cup {Bare},
   old : Pictures \cup {Bare}, new : Pictures \cup {Bare}]
Standing == [step |-> "idle", of |-> Bare, old |-> Bare, new |-> Bare]

AvatarsTypeOK ==
  /\ avatar \in [Users -> Pictures \cup {Bare}]
  /\ sitting \in [Sitters -> Sitting]
  /\ pictures \subseteq Pictures

AvatarsInit ==
  /\ avatar = [u \in Users |-> Bare]
  /\ sitting = [q \in Sitters |-> Standing]
  /\ pictures = {}

On(q, step) == sitting[q].step = step
Rise(q) == sitting' = [sitting EXCEPT ![q] = Standing]

SetArrives(q, u) ==
  /\ On(q, "idle")
  /\ sitting' = [sitting EXCEPT ![q] =
       [Standing EXCEPT !.step = "upload", !.of = u, !.old = avatar[u]]]
  /\ UNCHANGED <<avatar, pictures>>

UploadAvatar(q) ==
  /\ On(q, "upload")
  /\ \E f \in Pictures :
       /\ f \notin pictures /\ \A z \in Sitters : f \notin {sitting[z].old, sitting[z].new}
       /\ pictures' = pictures \cup {f}
       /\ sitting' = [sitting EXCEPT ![q].step = "write", ![q].new = f]
  /\ UNCHANGED avatar

RemoveArrives(q, u) ==
  /\ On(q, "idle")
  /\ sitting' = [sitting EXCEPT ![q] =
       [Standing EXCEPT !.step = "clear", !.of = u, !.old = avatar[u]]]
  /\ UNCHANGED <<avatar, pictures>>

\* The new name, Bare for removeAvatar, whatever the row names by now.
WriteAvatar(q) ==
  /\ On(q, "write") \/ On(q, "clear")
  /\ avatar' = [avatar EXCEPT ![sitting[q].of] = sitting[q].new]
  /\ IF sitting[q].old = Bare THEN Rise(q)
     ELSE sitting' = [sitting EXCEPT ![q].step = "destroy", ![q].new = Bare]
  /\ UNCHANGED pictures

\* Mutated form: what the row names is read again before the deletion.
DestroyCurrent(q) ==
  /\ On(q, "destroy")
  /\ pictures' \in {pictures, pictures \ {avatar[sitting[q].of]}}
  /\ Rise(q)
  /\ UNCHANGED avatar

\* destroy only logs its failure.
DestroyOld(q) ==
  /\ On(q, "destroy")
  /\ pictures' \in {pictures, pictures \ {sitting[q].old}}
  /\ Rise(q)
  /\ UNCHANGED avatar

CrashSitter(q) ==
  /\ ~On(q, "idle")
  /\ Rise(q)
  /\ UNCHANGED <<avatar, pictures>>

AvatarsNext ==
  \E q \in Sitters :
    \/ \E u \in Users : SetArrives(q, u) \/ RemoveArrives(q, u)
    \/ UploadAvatar(q) \/ WriteAvatar(q) \/ DestroyOld(q) \/ CrashSitter(q)
=============================================================================
