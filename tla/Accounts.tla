------------------------------ MODULE Accounts ------------------------------
(***************************************************************************)
(* The office's accounts: UsersService without its import wizard, which     *)
(* ImportWizard adds.  Columns nothing here compares are left out.          *)
(*                                                                         *)
(* A request reads, awaits and writes.  Of a password only this is kept:    *)
(* whether the mail that carries it has been tried and by whom it will be.  *)
(***************************************************************************)
EXTENDS Integers, FiniteSets, FiniteSetsExt

CONSTANTS
  Ids,       \* ids for users: how many rows may stand at once
  Emails, Codes,
  Roles,     \* among STUDENT, LECTURER and ADMIN
  Requests,  \* requests of this module in flight at once
  Senders,   \* whatever writes a password and then mails it, Requests included
  None

ASSUME AccountsAssumption ==
  /\ Ids \subseteq Nat /\ IsFiniteSet(Ids)
  /\ Requests \subseteq Senders
  /\ Roles \subseteq {"STUDENT", "LECTURER", "ADMIN"} /\ "STUDENT" \in Roles
  /\ None \notin Emails \cup Codes \cup Ids \cup Senders

VARIABLES
  user,    \* users with their profiles
  req      \* what each request has read and will do

\* A mail that was never tried and that nobody owes any more is lost with the
\* request, session or server that owed it, or forgotten by a second commit.
Mails == {"due", "tried", "lost", "recommitted"}
UserRow ==
  [email : Emails \cup {None},     \* None: no such row
   role : Roles,
   student : Codes \cup {None},    \* studentCode, None: no student profile
   lecturer : Codes \cup {None},   \* lecturerCode, likewise
   mail : Mails,                   \* history: of the password it has now
   sender : Senders \cup {None}]   \* history: who is about to mail it
NoUser == [email |-> None, role |-> "STUDENT", student |-> None,
           lecturer |-> None, mail |-> "tried", sender |-> None]

Fields == {"email", "role", "student", "lecturer"}
Request ==
  [op : {"idle", "create", "update", "mail"}, id : Ids \cup {None},
   field : Fields, row : UserRow]
Idle == [op |-> "idle", id |-> None, field |-> "email", row |-> NoUser]

AccountsTypeOK ==
  /\ user \in [Ids -> UserRow]
  /\ req \in [Requests -> Request]

AccountsInit ==
  /\ user = [i \in Ids |-> NoUser]
  /\ req = [r \in Requests |-> Idle]

Doing(r, op) == req[r].op = op
Begin(r, q) ==
  /\ Doing(r, "idle")
  /\ req' = [req EXCEPT ![r] = q]
  /\ UNCHANGED user
Finish(r) == req' = [req EXCEPT ![r] = Idle]

Exists(i) == user[i].email # None
Taken(email) == \E i \in Ids : user[i].email = email

-----------------------------------------------------------------------------
(* The table's rules, and the rows a payload makes.                         *)

\* email and the two codes are unique, an absent profile's code aside.
Clashes(x, y) ==
  \/ x.email = y.email
  \/ x.student = y.student /\ x.student # None
  \/ x.lecturer = y.lecturer /\ x.lecturer # None

\* The unique indexes let row stand as account i.
Fits(i, row) == \A j \in Ids \ {i} : Exists(j) => ~Clashes(user[j], row)

\* createAccountWithProfile and insertAccount: the profile goes with the role.
NewRow(email, role, code) ==
  [email |-> email, role |-> role,
   student |-> IF role = "STUDENT" THEN code ELSE None,
   lecturer |-> IF role = "LECTURER" THEN code ELSE None,
   mail |-> "due", sender |-> None]

\* An id no request holds.
FreeId(held) == Min({i \in Ids : ~Exists(i) /\ i \notin held})
HasFreeId(held) == {i \in Ids : ~Exists(i) /\ i \notin held} # {}

\* The provider has answered, well or not; a password somebody else has written
\* since is not the one this mail carries.
Mailed(i, s) ==
  IF user[i].sender = s
  THEN [user EXCEPT ![i].mail = "tried", ![i].sender = None] ELSE user

\* Mails nobody is sending now and nobody will.
Give(ids, fate) == [i \in Ids |->
  IF i \in ids /\ user[i].mail = "due" /\ user[i].sender = None
  THEN [user[i] EXCEPT !.mail = fate] ELSE user[i]]

\* The sender dies before the mail.
Dropped(s) == [i \in Ids |->
  IF user[i].sender = s THEN [user[i] EXCEPT !.mail = "lost", !.sender = None]
  ELSE user[i]]

-----------------------------------------------------------------------------
(* create and resetPassword.                                                *)

CreateArrives(r, email, role, code) ==
  /\ ~Taken(email)
  /\ Begin(r, [Idle EXCEPT !.op = "create", !.row = NewRow(email, role, code)])

\* One transaction; the index answers who came first.
CommitCreate(r, held) ==
  /\ Doing(r, "create") /\ HasFreeId(held)
  /\ LET i == FreeId(held) IN
       /\ Fits(i, req[r].row)
       /\ user' = [user EXCEPT ![i] = [req[r].row EXCEPT !.sender = r]]
       /\ req' = [req EXCEPT ![r] = [Idle EXCEPT !.op = "mail", !.id = i]]

\* findOne, then the transaction; the mail comes after it.
ResetPassword(r, i) ==
  /\ Exists(i) /\ Doing(r, "idle")
  /\ user' = [user EXCEPT ![i].mail = "due", ![i].sender = r]
  /\ req' = [req EXCEPT ![r] = [Idle EXCEPT !.op = "mail", !.id = i]]

SendMail(r) ==
  /\ Doing(r, "mail")
  /\ user' = Mailed(req[r].id, r)
  /\ Finish(r)

-----------------------------------------------------------------------------
(* update, the profiles and hardDelete.  isActive is left to Sessions.      *)

\* Mutated form: any role may be given.
RoleAllowedAlways(i, role) == TRUE

\* requireProfileForRole, on the row update has loaded.
RoleAllowed(i, role) ==
  \/ role \in {"ADMIN", user[i].role}
  \/ role = "STUDENT" /\ user[i].student # None
  \/ role = "LECTURER" /\ user[i].lecturer # None

Wish(r, i, field, row) ==
  Begin(r, [Idle EXCEPT !.op = "update", !.id = i, !.field = field, !.row = row])

UpdateArrives(r, i) ==
  /\ Exists(i)
  /\ \/ \E email \in Emails :
          /\ Taken(email) => user[i].email = email
          /\ Wish(r, i, "email", [NoUser EXCEPT !.email = email])
     \/ \E role \in Roles :
          /\ RoleAllowed(i, role)
          /\ Wish(r, i, "role", [NoUser EXCEPT !.role = role])

\* upsertStudentProfile and upsertLecturerProfile: the account has the role,
\* and nobody else the code.
ProfileArrives(r, i, code) ==
  /\ Exists(i)
  /\ \/ /\ user[i].role = "STUDENT"
        /\ \A j \in Ids \ {i} : user[j].student # code
        /\ Wish(r, i, "student", [NoUser EXCEPT !.student = code])
     \/ /\ user[i].role = "LECTURER"
        /\ \A j \in Ids \ {i} : user[j].lecturer # code
        /\ Wish(r, i, "lecturer", [NoUser EXCEPT !.lecturer = code])

\* Each writes its own columns, on whatever the row is by now.
CommitUpdate(r) ==
  LET i == req[r].id
      new == [user[i] EXCEPT ![req[r].field] = req[r].row[req[r].field]] IN
  /\ Doing(r, "update") /\ Exists(i)
  /\ Fits(i, new)
  /\ user' = [user EXCEPT ![i] = new]
  /\ Finish(r)

\* Rows of other tables may hold the account; then nothing happens.
HardDelete(i) ==
  /\ Exists(i)
  /\ user' = [user EXCEPT ![i] = NoUser]
  /\ UNCHANGED req

\* A refusal, a row that is gone, or a request that dies before its mail.
GiveUp(r) ==
  /\ ~Doing(r, "idle")
  /\ user' = Dropped(r)
  /\ Finish(r)

\* held: the ids other modules' requests still use.
AccountsNext(held) ==
  LET used == held \cup {req[r].id : r \in Requests} IN
  \/ \E r \in Requests :
       \/ \E e \in Emails, role \in Roles, c \in Codes :
            CreateArrives(r, e, role, c)
       \/ \E i \in Ids :
            \/ ResetPassword(r, i) \/ UpdateArrives(r, i)
            \/ \E c \in Codes : ProfileArrives(r, i, c)
       \/ CommitCreate(r, used) \/ SendMail(r) \/ CommitUpdate(r) \/ GiveUp(r)
  \/ \E i \in Ids : HardDelete(i)

-----------------------------------------------------------------------------
(* Properties.                                                              *)

\* A student has a student profile and a lecturer a lecturer's, without which
\* the account cannot be used: roles and profiles are changed by different
\* requests, each on a row it read earlier (users.service.ts update).
RoleHasProfile ==
  \A i \in Ids : Exists(i) =>
    /\ user[i].role = "STUDENT" => user[i].student # None
    /\ user[i].role = "LECTURER" => user[i].lecturer # None
=============================================================================
