---------------------------- MODULE WizardProofs ----------------------------
(***************************************************************************)
(* ImportWizard.tla for any number of accounts, requests, sessions and      *)
(* files: accounts stay usable and distinct, an administrator's sessions    *)
(* stay within the cap, and no password is forgotten.                       *)
(***************************************************************************)
EXTENDS ImportWizard, FiniteSetTheorems, WellFoundedInduction, TLAPS

\* What a request has read still holds when it writes: a profile once there
\* stays as long as the account does, and an id a request holds is not reused.
Knows(r) ==
  /\ Doing(r, "create") =>
       \E e \in Emails, role \in Roles, c \in Codes : req[r].row = NewRow(e, role, c)
  /\ Doing(r, "update") =>
       /\ req[r].id \in Ids
       /\ req[r].field = "email" => req[r].row.email # None
       /\ req[r].field = "student" => req[r].row.student # None
       /\ req[r].field = "lecturer" => req[r].row.lecturer # None
       /\ req[r].field = "role" /\ Exists(req[r].id) =>
            /\ req[r].row.role = "STUDENT" => user[req[r].id].student # None
            /\ req[r].row.role = "LECTURER" => user[req[r].id].lecturer # None

RequestsKnow == \A r \in Requests : Knows(r)

AccountsInv == AccountsTypeOK /\ RoleHasProfile /\ AccountsDistinct /\ RequestsKnow

\* The accounts whose password nobody has mailed and nobody is about to.
Owed == {i \in Ids : Exists(i) /\ user[i].mail = "due" /\ user[i].sender = None}

NothingKept ==
  /\ \A j \in Jobs : /\ Working(j, "idle") => job[j] = NoJob
                     /\ Working(j, "insert") => job[j].mailing = {}
  /\ \A s \in Sessions : ~InMap(s) => session[s] = NoSession

SendersMail == \A i \in Ids : user[i].sender # None => AboutToMail(i)

Listed(i) ==
  \/ \E j \in Jobs : i \in job[j].ids
  \/ \E s \in Sessions : session[s].committed /\ i \in session[s].ids

OwedListed == \A i \in Owed : Listed(i)

\* A request that sends has in hand every account its session still owes, so
\* that deleting the session afterwards forgets none.
Sends(j) ==
  Working(j, "send") =>
    /\ job[j].session = None => Owed \cap job[j].ids = {}
    /\ job[j].session # None =>
         /\ InMap(job[j].session) => session[job[j].session].committed
         /\ Owed \cap session[job[j].session].ids = Owed \cap job[j].ids

SendsKnow == \A j \in Jobs : Sends(j)

WizardInv ==
  /\ session \in [Sessions -> Session] /\ job \in [Jobs -> Job]
  /\ NothingKept /\ SendersMail /\ OwedListed /\ SendsKnow

IInv == AccountsInv /\ WizardInv

-----------------------------------------------------------------------------
(* Rows and ids.                                                            *)

\* An id is found when one is free.
LEMMA LeastOfSome ==
  ASSUME NEW ids \in SUBSET Nat, ids # {}
  PROVE  Min(ids) \in ids
  <1> DEFINE less == OpToRel(<, Nat)
  <1>1. less = {pair \in Nat \X Nat : pair[1] < pair[2]}
    BY Zenon DEF OpToRel
  <1>2. IsWellFoundedOn(less, Nat)
    BY NatLessThanWellFounded
  <1> HIDE DEF less
  <1>3. PICK n \in ids : \A m \in ids : <<m, n>> \notin less
    BY <1>2, WFMin
  <1>4. ASSUME NEW m \in ids
        PROVE  n <= m
    <2>1. m \in Nat /\ n \in Nat
      OBVIOUS
    <2>2. m < n => <<m, n>> \in less
      BY <1>1, <2>1, Zenon
    <2>3. QED
      BY <1>3, <2>1, <2>2
  <1>5. QED
    BY <1>4 DEF Min

\* A new account takes an id nothing uses.
LEMMA FreeIdIsFree ==
  ASSUME NEW held, HasFreeId(held)
  PROVE  FreeId(held) \in Ids /\ ~Exists(FreeId(held)) /\ FreeId(held) \notin held
  <1> DEFINE free == {i \in Ids : ~Exists(i) /\ i \notin held}
  <1>1. free \in SUBSET Nat /\ free # {}
    BY AccountsAssumption DEF HasFreeId
  <1>2. FreeId(held) \in free
    BY <1>1, LeastOfSome DEF FreeId
  <1>3. QED
    BY <1>2

\* The profile goes with the role.
Usable(row) ==
  /\ row.role = "STUDENT" => row.student # None
  /\ row.role = "LECTURER" => row.lecturer # None

LEMMA NewRowIsUsable ==
  ASSUME NEW e \in Emails, NEW role \in Roles, NEW c \in Codes
  PROVE  /\ NewRow(e, role, c) \in UserRow
         /\ NewRow(e, role, c).email # None
         /\ NewRow(e, role, c).mail = "due" /\ NewRow(e, role, c).sender = None
         /\ Usable(NewRow(e, role, c))
  BY AccountsAssumption DEF NewRow, UserRow, Mails, Usable

LEMMA NoUserTyped == NoUser \in UserRow
  BY AccountsAssumption DEF NoUser, UserRow, Mails

LEMMA IdleTyped == Idle \in Request
  BY NoUserTyped DEF Idle, Request, Fields

\* All columns but those of the mail.
RowsKept ==
  \A i \in Ids : /\ user'[i].email = user[i].email /\ user'[i].role = user[i].role
                 /\ user'[i].student = user[i].student
                 /\ user'[i].lecturer = user[i].lecturer

\* Mails change nothing an index or a role looks at.
LEMMA RowsKeptSound ==
  ASSUME RowsKept, RoleHasProfile, AccountsDistinct
  PROVE  RoleHasProfile' /\ AccountsDistinct'
  <1>1. \A i \in Ids : Exists(i)' <=> Exists(i)
    BY DEF RowsKept, Exists
  <1>2. RoleHasProfile'
    BY <1>1 DEF RowsKept, RoleHasProfile
  <1>3. \A i, k \in Ids : Clashes(user'[i], user'[k]) => Clashes(user[i], user[k])
    BY DEF RowsKept, Clashes
  <1>4. AccountsDistinct'
    BY <1>1, <1>3 DEF AccountsDistinct
  <1>5. QED
    BY <1>2, <1>4

\* A row the indexes let in, or one that goes.
LEMMA OneRowSound ==
  ASSUME NEW i \in Ids, NEW new, Usable(new),
         Fits(i, new) \/ new.email = None,
         user'[i] = new, \A k \in Ids \ {i} : user'[k] = user[k],
         RoleHasProfile, AccountsDistinct
  PROVE  RoleHasProfile' /\ AccountsDistinct'
  <1>1. RoleHasProfile'
    <2> SUFFICES ASSUME NEW k \in Ids, Exists(k)'
                 PROVE  Usable(user'[k])
      BY DEF RoleHasProfile, Usable
    <2>1. CASE k = i
      BY <2>1
    <2>2. CASE k # i
      BY <2>2 DEF RoleHasProfile, Usable, Exists
    <2>3. QED
      BY <2>1, <2>2
  <1>2. AccountsDistinct'
    <2> SUFFICES ASSUME NEW k \in Ids, NEW m \in Ids, k # m, Exists(k)', Exists(m)'
                 PROVE  ~Clashes(user'[k], user'[m])
      BY DEF AccountsDistinct
    <2>1. CASE k = i
      <3>1. Exists(m) /\ ~Clashes(user[m], new)
        BY <2>1 DEF Exists, Fits
      <3>2. ~Clashes(new, user[m])
        BY <3>1 DEF Clashes
      <3>3. QED
        BY <2>1, <3>2
    <2>2. CASE m = i
      <3>1. Exists(k) /\ ~Clashes(user[k], new)
        BY <2>2 DEF Exists, Fits
      <3>2. QED
        BY <2>2, <3>1
    <2>3. CASE k # i /\ m # i
      BY <2>3 DEF Exists, AccountsDistinct
    <2>4. QED
      BY <2>1, <2>2, <2>3
  <1>3. QED
    BY <1>1, <1>2

\* What a request has read stays true while accounts it does not hold come, and
\* those it holds keep their profiles or go.
LEMMA RequestsStillKnow ==
  ASSUME RequestsKnow,
         \A r \in Requests : req'[r] = req[r] \/ req'[r].op \in {"idle", "mail"},
         \A i \in Ids : (\E r \in Requests : req[r].id = i) /\ Exists(i)' =>
           /\ Exists(i)
           /\ user[i].student # None => user'[i].student # None
           /\ user[i].lecturer # None => user'[i].lecturer # None
  PROVE  RequestsKnow'
  <1> SUFFICES ASSUME NEW r \in Requests PROVE Knows(r)'
    BY DEF RequestsKnow
  <1>1. CASE req'[r].op \in {"idle", "mail"}
    BY <1>1 DEF Knows, Doing
  <1>2. CASE req'[r] = req[r]
    <2>1. Knows(r)
      BY DEF RequestsKnow
    <2>2. Doing(r, "create") =>
            \E e \in Emails, role \in Roles, c \in Codes : req[r].row = NewRow(e, role, c)
      BY <2>1 DEF Knows
    <2>3. Exists(req[r].id)' =
            (user'[req[r].id].email # None)
      BY <1>2 DEF Exists
    <2>4. QED
      BY <1>2, <2>1, <2>2, <2>3 DEF Knows, Doing, Exists, NewRow
  <1>3. QED
    BY <1>1, <1>2

-----------------------------------------------------------------------------
(* Each of the accounts' operations keeps the accounts sound, and adds       *)
(* nothing to what is owed.                                                 *)

\* create, update and the profiles read and check; nothing is written yet.
LEMMA ArrivalsAreSound ==
  ASSUME AccountsInv, SendersMail, job' = job, NEW r \in Requests,
         \/ \E e \in Emails, role \in Roles, c \in Codes : CreateArrives(r, e, role, c)
         \/ \E i \in Ids : \/ UpdateArrives(r, i)
                           \/ \E c \in Codes : ProfileArrives(r, i, c)
  PROVE  AccountsInv' /\ Owed' \subseteq Owed /\ SendersMail'
  <1> DEFINE Good(q) ==
        /\ q \in Request /\ q.op \in {"create", "update"}
        /\ q.op = "create" =>
             \E e \in Emails, role \in Roles, c \in Codes : q.row = NewRow(e, role, c)
        /\ q.op = "update" =>
             /\ q.id \in Ids
             /\ q.field = "email" => q.row.email # None
             /\ q.field = "student" => q.row.student # None
             /\ q.field = "lecturer" => q.row.lecturer # None
             /\ q.field = "role" =>
                  /\ q.row.role = "STUDENT" => user[q.id].student # None
                  /\ q.row.role = "LECTURER" => user[q.id].lecturer # None
  <1>1. PICK q : Begin(r, q) /\ Good(q)
    <2>1. ASSUME NEW e \in Emails, NEW role \in Roles, NEW c \in Codes,
                 CreateArrives(r, e, role, c)
          PROVE  \E q : Begin(r, q) /\ Good(q)
      <3> DEFINE q == [Idle EXCEPT !.op = "create", !.row = NewRow(e, role, c)]
      <3>1. q.op = "create" /\ q.row = NewRow(e, role, c)
        BY DEF Idle
      <3>2. q \in Request
        BY NewRowIsUsable DEF Idle, Request, Fields
      <3>3. Good(q)
        BY <3>1, <3>2
      <3>4. QED
        BY <2>1, <3>3 DEF CreateArrives
    <2>2. ASSUME NEW i \in Ids, NEW field \in Fields, NEW row \in UserRow,
                 Wish(r, i, field, row),
                 field = "email" => row.email # None,
                 field = "student" => row.student # None,
                 field = "lecturer" => row.lecturer # None,
                 field = "role" => /\ row.role = "STUDENT" => user[i].student # None
                                   /\ row.role = "LECTURER" => user[i].lecturer # None
          PROVE  \E q : Begin(r, q) /\ Good(q)
      <3> DEFINE q == [Idle EXCEPT !.op = "update", !.id = i, !.field = field, !.row = row]
      <3>1. q.op = "update" /\ q.id = i /\ q.field = field /\ q.row = row
        BY DEF Idle
      <3>2. q \in Request
        BY DEF Idle, Request, Fields
      <3>3. Good(q)
        BY <2>2, <3>1, <3>2
      <3>4. QED
        BY <2>2, <3>3 DEF Wish
    <2>3. ASSUME NEW i \in Ids, UpdateArrives(r, i)
          PROVE  \E q : Begin(r, q) /\ Good(q)
      <3>1. ASSUME NEW email \in Emails,
                   Wish(r, i, "email", [NoUser EXCEPT !.email = email])
            PROVE  \E q : Begin(r, q) /\ Good(q)
        <4>1. /\ [NoUser EXCEPT !.email = email] \in UserRow
              /\ [NoUser EXCEPT !.email = email].email # None
          BY AccountsAssumption DEF NoUser, UserRow, Mails
        <4>2. QED
          BY <2>2, <3>1, <4>1 DEF Fields
      <3>2. ASSUME NEW role \in Roles, RoleAllowed(i, role), Exists(i),
                   Wish(r, i, "role", [NoUser EXCEPT !.role = role])
            PROVE  \E q : Begin(r, q) /\ Good(q)
        <4>1. /\ [NoUser EXCEPT !.role = role] \in UserRow
              /\ [NoUser EXCEPT !.role = role].role = role
          BY AccountsAssumption DEF NoUser, UserRow, Mails
        <4>2. /\ role = "STUDENT" => user[i].student # None
              /\ role = "LECTURER" => user[i].lecturer # None
          BY <3>2 DEF RoleAllowed, AccountsInv, RoleHasProfile
        <4>3. QED
          BY <2>2, <3>2, <4>1, <4>2 DEF Fields
      <3>3. QED
        BY <2>3, <3>1, <3>2 DEF UpdateArrives
    <2>4. ASSUME NEW i \in Ids, NEW c \in Codes, ProfileArrives(r, i, c)
          PROVE  \E q : Begin(r, q) /\ Good(q)
      <3>1. /\ [NoUser EXCEPT !.student = c] \in UserRow
            /\ [NoUser EXCEPT !.student = c].student # None
            /\ [NoUser EXCEPT !.lecturer = c] \in UserRow
            /\ [NoUser EXCEPT !.lecturer = c].lecturer # None
        BY AccountsAssumption DEF NoUser, UserRow, Mails
      <3>2. CASE Wish(r, i, "student", [NoUser EXCEPT !.student = c])
        BY <2>2, <3>1, <3>2 DEF Fields
      <3>3. CASE Wish(r, i, "lecturer", [NoUser EXCEPT !.lecturer = c])
        BY <2>2, <3>1, <3>3 DEF Fields
      <3>4. QED
        BY <2>4, <3>2, <3>3 DEF ProfileArrives
    <2>5. QED
      BY <2>1, <2>3, <2>4
  <1>2. /\ user' = user /\ Doing(r, "idle") /\ req' \in [Requests -> Request]
        /\ req'[r] = q /\ \A o \in Requests \ {r} : req'[o] = req[o]
    BY <1>1 DEF Begin, AccountsInv, AccountsTypeOK
  <1>3. AccountsTypeOK' /\ RoleHasProfile' /\ AccountsDistinct' /\ Owed' = Owed
    BY <1>2 DEF AccountsInv, AccountsTypeOK, RoleHasProfile, AccountsDistinct, Owed, Exists
  <1>4. RequestsKnow'
    <2> SUFFICES ASSUME NEW o \in Requests PROVE Knows(o)'
      BY DEF RequestsKnow
    <2>1. CASE o = r
      BY <1>1, <1>2, <2>1 DEF Knows, Doing, NewRow
    <2>2. CASE o # r
      <3>1. Knows(o) /\ req'[o] = req[o]
        BY <1>2, <2>2 DEF AccountsInv, RequestsKnow
      <3>2. QED
        BY <1>2, <3>1 DEF Knows, Doing, Exists, NewRow
    <2>3. QED
      BY <2>1, <2>2
  <1>5. SendersMail'
    <2> SUFFICES ASSUME NEW i \in Ids, user[i].sender # None PROVE AboutToMail(i)'
      BY <1>2 DEF SendersMail
    <2>1. AboutToMail(i)
      BY DEF SendersMail
    <2>2. QED
      BY <1>2, <2>1 DEF AboutToMail, Doing
  <1>6. QED
    BY <1>3, <1>4, <1>5 DEF AccountsInv

\* The transaction of create.
LEMMA CreateIsSound ==
  ASSUME AccountsInv, SendersMail, job' = job, NEW r \in Requests, NEW held,
         \A o \in Requests : req[o].id \in held,
         CommitCreate(r, held)
  PROVE  AccountsInv' /\ Owed' \subseteq Owed /\ SendersMail'
  <1> DEFINE i == FreeId(held)
             new == [req[r].row EXCEPT !.sender = r]
  <1>1. i \in Ids /\ ~Exists(i) /\ i \notin held
    BY FreeIdIsFree DEF CommitCreate
  <1>2. PICK e \in Emails, role \in Roles, c \in Codes : req[r].row = NewRow(e, role, c)
    BY DEF AccountsInv, RequestsKnow, Knows, CommitCreate
  <1>3. /\ new \in UserRow /\ Usable(new) /\ new.email # None /\ new.sender = r
        /\ r # None
    <2>1. r \in Senders /\ r # None
      BY AccountsAssumption
    <2>2. QED
      BY <1>2, <2>1, NewRowIsUsable DEF UserRow, Usable
  <1>4. Fits(i, new)
    BY <1>2 DEF CommitCreate, Fits, Clashes, NewRow
  <1>5. /\ user' = [user EXCEPT ![i] = new] /\ Doing(r, "create")
        /\ req' = [req EXCEPT ![r] = [Idle EXCEPT !.op = "mail", !.id = i]]
    BY DEF CommitCreate
  <1>6. /\ [Idle EXCEPT !.op = "mail", !.id = i] \in Request
        /\ [Idle EXCEPT !.op = "mail", !.id = i].op = "mail"
        /\ [Idle EXCEPT !.op = "mail", !.id = i].id = i
    BY <1>1, NoUserTyped DEF Idle, Request, Fields
  <1> HIDE DEF i, new
  <1>7. /\ AccountsTypeOK' /\ user'[i] = new
        /\ \A k \in Ids \ {i} : user'[k] = user[k]
        /\ req'[r].op = "mail" /\ req'[r].id = i
        /\ \A o \in Requests \ {r} : req'[o] = req[o]
    BY <1>1, <1>3, <1>5, <1>6 DEF AccountsInv, AccountsTypeOK
  <1>8. RoleHasProfile' /\ AccountsDistinct'
    BY <1>1, <1>3, <1>4, <1>7, OneRowSound DEF AccountsInv
  <1>9. RequestsKnow'
    <2>1. \A o \in Requests : req'[o] = req[o] \/ req'[o].op \in {"idle", "mail"}
      BY <1>7
    <2>2. ASSUME NEW k \in Ids, \E o \in Requests : req[o].id = k, Exists(k)'
          PROVE  user'[k] = user[k]
      BY <1>1, <1>7, <2>2
    <2>3. QED
      BY <2>1, <2>2, RequestsStillKnow DEF AccountsInv, Exists
  <1>10. Owed' \subseteq Owed
    BY <1>3, <1>7 DEF Owed, Exists
  <1>11. SendersMail'
    <2> SUFFICES ASSUME NEW k \in Ids, user'[k].sender # None PROVE AboutToMail(k)'
      BY DEF SendersMail
    <2>1. CASE k = i
      BY <1>3, <1>7, <2>1 DEF AboutToMail, Doing
    <2>2. CASE k # i
      <3>1. AboutToMail(k) /\ user'[k] = user[k]
        BY <1>7, <2>2 DEF SendersMail
      <3>2. QED
        BY <1>5, <1>7, <3>1 DEF AboutToMail, Doing
    <2>3. QED
      BY <2>1, <2>2
  <1>12. QED
    BY <1>7, <1>8, <1>9, <1>10, <1>11 DEF AccountsInv

\* A new password for an account that stays as it is.
LEMMA ResetIsSound ==
  ASSUME AccountsInv, SendersMail, job' = job, NEW r \in Requests, NEW i \in Ids,
         ResetPassword(r, i)
  PROVE  AccountsInv' /\ Owed' \subseteq Owed /\ SendersMail'
  <1>1. /\ [Idle EXCEPT !.op = "mail", !.id = i] \in Request
        /\ [Idle EXCEPT !.op = "mail", !.id = i].op = "mail"
        /\ [Idle EXCEPT !.op = "mail", !.id = i].id = i
    BY NoUserTyped DEF Idle, Request, Fields
  <1>2. r \in Senders /\ r # None
    BY AccountsAssumption
  <1>3. user' = [user EXCEPT ![i] = [user[i] EXCEPT !.mail = "due", !.sender = r]]
    BY DEF ResetPassword, AccountsInv, AccountsTypeOK
  <1>4. [user[i] EXCEPT !.mail = "due", !.sender = r] \in UserRow
    BY <1>2 DEF UserRow, Mails, AccountsInv, AccountsTypeOK
  <1>5. /\ user' \in [Ids -> UserRow]
        /\ user'[i] = [user[i] EXCEPT !.mail = "due", !.sender = r]
        /\ \A k \in Ids \ {i} : user'[k] = user[k]
    BY <1>3, <1>4 DEF AccountsInv, AccountsTypeOK
  <1>6. /\ req' \in [Requests -> Request] /\ req'[r].op = "mail" /\ req'[r].id = i
        /\ Doing(r, "idle") /\ \A o \in Requests \ {r} : req'[o] = req[o]
    BY <1>1 DEF ResetPassword, AccountsInv, AccountsTypeOK
  <1>7. /\ user'[i].email = user[i].email /\ user'[i].role = user[i].role
        /\ user'[i].student = user[i].student /\ user'[i].lecturer = user[i].lecturer
        /\ user'[i].sender = r
    BY <1>5 DEF AccountsInv, AccountsTypeOK, UserRow
  <1>8. RowsKept
    BY <1>5, <1>7 DEF RowsKept
  <1>9. RoleHasProfile' /\ AccountsDistinct'
    BY <1>8, RowsKeptSound DEF AccountsInv
  <1>10. RequestsKnow'
    <2>1. \A o \in Requests : req'[o] = req[o] \/ req'[o].op \in {"idle", "mail"}
      BY <1>6
    <2>2. QED
      BY <1>8, <2>1, RequestsStillKnow DEF AccountsInv, Exists, RowsKept
  <1>11. Owed' \subseteq Owed
    BY <1>2, <1>5, <1>7 DEF Owed, Exists
  <1>12. SendersMail'
    <2> SUFFICES ASSUME NEW k \in Ids, user'[k].sender # None PROVE AboutToMail(k)'
      BY DEF SendersMail
    <2>1. CASE k = i
      BY <1>6, <1>7, <2>1 DEF AboutToMail, Doing
    <2>2. CASE k # i
      <3>1. AboutToMail(k) /\ user'[k] = user[k]
        BY <1>5, <2>2 DEF SendersMail
      <3>2. QED
        BY <1>6, <3>1 DEF AboutToMail, Doing
    <2>3. QED
      BY <2>1, <2>2
  <1>13. QED
    BY <1>5, <1>6, <1>9, <1>10, <1>11, <1>12 DEF AccountsInv, AccountsTypeOK

\* The answer to a mail, and a sender that dies, take its accounts off it.
LEMMA FinishedSendersAreSound ==
  ASSUME AccountsInv, SendersMail, job' = job, NEW r \in Requests,
         SendMail(r) \/ GiveUp(r)
  PROVE  AccountsInv' /\ Owed' \subseteq Owed /\ SendersMail'
  <1>1. /\ user' \in [Ids -> UserRow]
        /\ \A k \in Ids :
             \/ user'[k] = user[k]
             \/ /\ \E mail \in {"tried", "lost"} :
                     user'[k] = [user[k] EXCEPT !.mail = mail, !.sender = None]
                /\ user[k].sender = r
        /\ \A k \in Ids : AboutToMail(k) /\ user[k].sender = r => user'[k].sender = None
    <2>1. CASE SendMail(r)
      <3> DEFINE i == req[r].id
      <3>1. i \in Ids \cup {None}
        BY DEF AccountsInv, AccountsTypeOK, Request
      <3>2. user' = IF user[i].sender = r
                    THEN [user EXCEPT ![i].mail = "tried", ![i].sender = None] ELSE user
        BY <2>1 DEF SendMail, Mailed
      <3>3. \A k \in Ids : AboutToMail(k) /\ user[k].sender = r => k = i
        BY WizardAssumption DEF AboutToMail
      <3> HIDE DEF i
      <3>4. CASE user[i].sender = r /\ i \in Ids
        <4>1. user' = [user EXCEPT ![i] = [user[i] EXCEPT !.mail = "tried", !.sender = None]]
          BY <3>2, <3>4 DEF AccountsInv, AccountsTypeOK
        <4>2. /\ [user[i] EXCEPT !.mail = "tried", !.sender = None] \in UserRow
              /\ [user[i] EXCEPT !.mail = "tried", !.sender = None].sender = None
          BY <3>4 DEF UserRow, Mails, AccountsInv, AccountsTypeOK
        <4>3. /\ user' \in [Ids -> UserRow]
              /\ user'[i] = [user[i] EXCEPT !.mail = "tried", !.sender = None]
              /\ \A k \in Ids \ {i} : user'[k] = user[k]
          BY <3>4, <4>1, <4>2 DEF AccountsInv, AccountsTypeOK
        <4>4. QED
          BY <3>3, <3>4, <4>2, <4>3
      <3>5. CASE user[i].sender # r
        BY <3>2, <3>3, <3>5 DEF AccountsInv, AccountsTypeOK
      <3>6. CASE i \notin Ids
        <4>1. user' = user
          BY <3>2, <3>6 DEF AccountsInv, AccountsTypeOK
        <4>2. QED
          BY <3>3, <3>6, <4>1 DEF AccountsInv, AccountsTypeOK
      <3>7. QED
        BY <3>4, <3>5, <3>6
    <2>2. CASE GiveUp(r)
      <3>1. user' = [k \in Ids |->
              IF user[k].sender = r THEN [user[k] EXCEPT !.mail = "lost", !.sender = None]
              ELSE user[k]]
        BY <2>2 DEF GiveUp, Dropped
      <3>2. \A k \in Ids : /\ [user[k] EXCEPT !.mail = "lost", !.sender = None] \in UserRow
                           /\ [user[k] EXCEPT !.mail = "lost", !.sender = None].sender = None
        BY DEF UserRow, Mails, AccountsInv, AccountsTypeOK
      <3>3. \A k \in Ids : user[k] \in UserRow
        BY DEF AccountsInv, AccountsTypeOK
      <3>4. QED
        BY <3>1, <3>2, <3>3
    <2>3. QED
      BY <2>1, <2>2
  <1>2. /\ req' \in [Requests -> Request] /\ req'[r] = Idle
        /\ \A o \in Requests \ {r} : req'[o] = req[o]
    BY IdleTyped DEF SendMail, GiveUp, Finish, AccountsInv, AccountsTypeOK
  <1>3. \A k \in Ids : user[k] \in UserRow
    BY DEF AccountsInv, AccountsTypeOK
  <1>4. RowsKept
    BY <1>1, <1>3 DEF RowsKept, UserRow
  <1>5. RoleHasProfile' /\ AccountsDistinct'
    BY <1>4, RowsKeptSound DEF AccountsInv
  <1>6. RequestsKnow'
    <2>1. \A o \in Requests : req'[o] = req[o] \/ req'[o].op \in {"idle", "mail"}
      BY <1>2 DEF Idle
    <2>2. QED
      BY <1>4, <2>1, RequestsStillKnow DEF AccountsInv, Exists, RowsKept
  <1>7. Owed' \subseteq Owed
    <2> SUFFICES ASSUME NEW k \in Owed' PROVE k \in Owed
      OBVIOUS
    <2>1. k \in Ids /\ Exists(k)' /\ user'[k].mail = "due" /\ user'[k].sender = None
      BY DEF Owed
    <2>2. user'[k] = user[k]
      <3>1. \A mail \in {"tried", "lost"} :
              [user[k] EXCEPT !.mail = mail, !.sender = None].mail = mail
        BY <1>3, <2>1 DEF UserRow
      <3>2. QED
        BY <1>1, <2>1, <3>1
    <2>3. QED
      BY <2>1, <2>2 DEF Owed, Exists
  <1>8. SendersMail'
    <2> SUFFICES ASSUME NEW k \in Ids, user'[k].sender # None PROVE AboutToMail(k)'
      BY DEF SendersMail
    <2>1. user'[k] = user[k]
      <3>1. \A mail \in {"tried", "lost"} :
              [user[k] EXCEPT !.mail = mail, !.sender = None].sender = None
        BY <1>3 DEF UserRow
      <3>2. QED
        BY <1>1, <3>1
    <2>2. AboutToMail(k) /\ user[k].sender # r
      BY <1>1, <2>1 DEF SendersMail
    <2>3. QED
      BY <1>2, <2>1, <2>2 DEF AboutToMail, Doing
  <1>9. QED
    BY <1>1, <1>2, <1>5, <1>6, <1>7, <1>8 DEF AccountsInv, AccountsTypeOK

\* One column, on whatever the row is by now: the role only with its profile,
\* and of the profiles only the code.
LEMMA UpdateIsSound ==
  ASSUME AccountsInv, SendersMail, job' = job, NEW r \in Requests, CommitUpdate(r)
  PROVE  AccountsInv' /\ Owed' \subseteq Owed /\ SendersMail'
  <1> DEFINE i == req[r].id
             f == req[r].field
             row == req[r].row
             new == [user[i] EXCEPT ![f] = row[f]]
  <1>1. /\ i \in Ids /\ f \in Fields /\ row \in UserRow /\ user[i] \in UserRow
        /\ Exists(i) /\ Fits(i, new) /\ user' = [user EXCEPT ![i] = new]
        /\ Doing(r, "update") /\ req' = [req EXCEPT ![r] = Idle]
    <2>1. Knows(r) /\ Doing(r, "update")
      BY DEF AccountsInv, RequestsKnow, CommitUpdate
    <2>2. i \in Ids
      BY <2>1 DEF Knows
    <2>3. req[r] \in Request
      BY DEF AccountsInv, AccountsTypeOK
    <2>4. QED
      BY <2>1, <2>2, <2>3 DEF CommitUpdate, Finish, Request, AccountsInv, AccountsTypeOK
  <1>2. /\ f = "email" => row.email # None
        /\ f = "student" => row.student # None
        /\ f = "lecturer" => row.lecturer # None
        /\ f = "role" => Usable([user[i] EXCEPT !.role = row.role])
    <2>1. Knows(r)
      BY DEF AccountsInv, RequestsKnow
    <2>2. f = "role" => /\ row.role = "STUDENT" => user[i].student # None
                        /\ row.role = "LECTURER" => user[i].lecturer # None
      BY <1>1, <2>1 DEF Knows
    <2>3. /\ [user[i] EXCEPT !.role = row.role].role = row.role
          /\ [user[i] EXCEPT !.role = row.role].student = user[i].student
          /\ [user[i] EXCEPT !.role = row.role].lecturer = user[i].lecturer
      BY <1>1 DEF UserRow
    <2>4. QED
      BY <1>1, <2>1, <2>2, <2>3 DEF Knows, Usable
  <1>3. user[i].email # None /\ Usable(user[i])
    BY <1>1 DEF AccountsInv, RoleHasProfile, Usable, Exists
  <1>4. /\ new \in UserRow /\ new.email # None /\ Usable(new)
        /\ new.mail = user[i].mail /\ new.sender = user[i].sender
        /\ user[i].student # None => new.student # None
        /\ user[i].lecturer # None => new.lecturer # None
    <2> HIDE DEF i
    <2>1. CASE f = "email"
      BY <1>1, <1>2, <1>3, <2>1 DEF UserRow, Usable
    <2>2. CASE f = "role"
      BY <1>1, <1>2, <1>3, <2>2 DEF UserRow, Usable
    <2>3. CASE f = "student"
      BY <1>1, <1>2, <1>3, <2>3 DEF UserRow, Usable
    <2>4. CASE f = "lecturer"
      BY <1>1, <1>2, <1>3, <2>4 DEF UserRow, Usable
    <2>5. QED
      BY <1>1, <2>1, <2>2, <2>3, <2>4 DEF Fields
  <1> HIDE DEF i, f, row, new
  <1>5. /\ user' \in [Ids -> UserRow] /\ user'[i] = new
        /\ \A k \in Ids \ {i} : user'[k] = user[k]
    BY <1>1, <1>4 DEF AccountsInv, AccountsTypeOK
  <1>6. /\ req' \in [Requests -> Request] /\ req'[r] = Idle
        /\ \A o \in Requests \ {r} : req'[o] = req[o]
    BY <1>1, IdleTyped DEF AccountsInv, AccountsTypeOK
  <1>7. RoleHasProfile' /\ AccountsDistinct'
    BY <1>1, <1>4, <1>5, OneRowSound DEF AccountsInv
  <1>8. RequestsKnow'
    <2>1. \A o \in Requests : req'[o] = req[o] \/ req'[o].op \in {"idle", "mail"}
      BY <1>6 DEF Idle
    <2>2. ASSUME NEW k \in Ids, Exists(k)'
          PROVE  /\ Exists(k)
                 /\ user[k].student # None => user'[k].student # None
                 /\ user[k].lecturer # None => user'[k].lecturer # None
      <3>1. CASE k = i
        BY <1>1, <1>4, <1>5, <3>1
      <3>2. CASE k # i
        BY <1>5, <2>2, <3>2 DEF Exists
      <3>3. QED
        BY <3>1, <3>2
    <2>3. QED
      BY <2>1, <2>2, RequestsStillKnow DEF AccountsInv
  <1>9. Owed' \subseteq Owed
    BY <1>1, <1>4, <1>5 DEF Owed, Exists
  <1>10. SendersMail'
    <2> SUFFICES ASSUME NEW k \in Ids, user'[k].sender # None PROVE AboutToMail(k)'
      BY DEF SendersMail
    <2>1. user'[k].sender = user[k].sender
      BY <1>4, <1>5
    <2>2. AboutToMail(k)
      BY <2>1 DEF SendersMail
    <2>3. QED
      BY <1>1, <1>6, <2>1, <2>2 DEF AboutToMail, Doing
  <1>11. QED
    BY <1>5, <1>6, <1>7, <1>8, <1>9, <1>10 DEF AccountsInv, AccountsTypeOK

\* An account that goes leaves nothing to mail and no address taken.
LEMMA DeleteIsSound ==
  ASSUME AccountsInv, SendersMail, job' = job, NEW i \in Ids, HardDelete(i)
  PROVE  AccountsInv' /\ Owed' \subseteq Owed /\ SendersMail'
  <1>1. /\ user' \in [Ids -> UserRow] /\ user'[i] = NoUser
        /\ \A k \in Ids \ {i} : user'[k] = user[k]
        /\ req' = req
    BY NoUserTyped DEF HardDelete, AccountsInv, AccountsTypeOK
  <1>2. NoUser.email = None /\ NoUser.sender = None
    BY DEF NoUser
  <1>3. RoleHasProfile' /\ AccountsDistinct'
    <2>1. \A k \in Ids : Exists(k)' => Exists(k) /\ user'[k] = user[k]
      BY <1>1, <1>2 DEF Exists
    <2>2. QED
      BY <2>1 DEF AccountsInv, RoleHasProfile, AccountsDistinct
  <1>4. RequestsKnow'
    <2>1. \A k \in Ids : Exists(k)' => Exists(k) /\ user'[k] = user[k]
      BY <1>1, <1>2 DEF Exists
    <2>2. QED
      BY <1>1, <2>1, RequestsStillKnow DEF AccountsInv
  <1>5. Owed' \subseteq Owed
    BY <1>1, <1>2 DEF Owed, Exists
  <1>6. SendersMail'
    <2> SUFFICES ASSUME NEW k \in Ids, user'[k].sender # None PROVE AboutToMail(k)'
      BY DEF SendersMail
    <2>1. user'[k] = user[k] /\ AboutToMail(k)
      BY <1>1, <1>2 DEF SendersMail
    <2>2. QED
      BY <1>1, <2>1 DEF AboutToMail, Doing
  <1>7. QED
    BY <1>1, <1>3, <1>4, <1>5, <1>6 DEF AccountsInv, AccountsTypeOK

LEMMA AccountsStepIsSound ==
  ASSUME AccountsInv, SendersMail, job' = job, AccountsNext(Held)
  PROVE  AccountsInv' /\ Owed' \subseteq Owed /\ SendersMail'
  <1> DEFINE used == Held \cup {req[r].id : r \in Requests}
  <1>1. \A o \in Requests : req[o].id \in used
    OBVIOUS
  <1> HIDE DEF used
  <1>2. ASSUME NEW r \in Requests, CommitCreate(r, used)
        PROVE  AccountsInv' /\ Owed' \subseteq Owed /\ SendersMail'
    BY <1>1, <1>2, CreateIsSound
  <1>3. ASSUME NEW r \in Requests,
               \/ \E e \in Emails, role \in Roles, c \in Codes : CreateArrives(r, e, role, c)
               \/ \E i \in Ids : \/ UpdateArrives(r, i)
                                 \/ \E c \in Codes : ProfileArrives(r, i, c)
        PROVE  AccountsInv' /\ Owed' \subseteq Owed /\ SendersMail'
    BY <1>3, ArrivalsAreSound
  <1>4. QED
    BY <1>2, <1>3, ResetIsSound, UpdateIsSound, FinishedSendersAreSound, DeleteIsSound
       DEF AccountsNext, used

-----------------------------------------------------------------------------
(* What the wizard's steps do to the accounts and to what is owed.           *)

\* Only the mails change.
LEMMA MailsOnlySound ==
  ASSUME AccountsInv, RowsKept, user' \in [Ids -> UserRow], req' = req
  PROVE  AccountsInv'
  <1>1. RoleHasProfile' /\ AccountsDistinct'
    BY RowsKeptSound DEF AccountsInv
  <1>2. RequestsKnow'
    BY RequestsStillKnow DEF AccountsInv, Exists, RowsKept
  <1>3. QED
    BY <1>1, <1>2 DEF AccountsInv, AccountsTypeOK

LEMMA GiveSettles ==
  ASSUME user \in [Ids -> UserRow], NEW ids, NEW fate \in {"lost", "recommitted"},
         user' = Give(ids, fate)
  PROVE  /\ user' \in [Ids -> UserRow] /\ RowsKept
         /\ \A k \in Ids : user'[k].sender = user[k].sender
         /\ Owed' = Owed \ ids
  <1>1. \A k \in Ids : /\ user[k] \in UserRow
                       /\ [user[k] EXCEPT !.mail = fate] \in UserRow
                       /\ [user[k] EXCEPT !.mail = fate].mail = fate
                       /\ [user[k] EXCEPT !.mail = fate].sender = user[k].sender
                       /\ [user[k] EXCEPT !.mail = fate].email = user[k].email
                       /\ [user[k] EXCEPT !.mail = fate].role = user[k].role
                       /\ [user[k] EXCEPT !.mail = fate].student = user[k].student
                       /\ [user[k] EXCEPT !.mail = fate].lecturer = user[k].lecturer
    BY DEF UserRow, Mails
  <1>2. user' \in [Ids -> UserRow] /\ RowsKept /\ \A k \in Ids : user'[k].sender = user[k].sender
    BY <1>1 DEF Give, RowsKept
  <1>3. ASSUME NEW k \in Ids
        PROVE  k \in Owed' <=> k \in Owed \ ids
    <2>1. CASE k \in ids /\ user[k].mail = "due" /\ user[k].sender = None
      BY <1>1, <2>1 DEF Give, Owed
    <2>2. CASE ~(k \in ids /\ user[k].mail = "due" /\ user[k].sender = None)
      <3>1. user'[k] = user[k]
        BY <2>2 DEF Give
      <3>2. QED
        BY <2>2, <3>1 DEF Owed, Exists
    <2>3. QED
      BY <2>1, <2>2
  <1>4. QED
    BY <1>2, <1>3 DEF Owed

LEMMA DroppedSettles ==
  ASSUME user \in [Ids -> UserRow], NEW s, user' = Dropped(s)
  PROVE  /\ user' \in [Ids -> UserRow] /\ RowsKept
         /\ \A k \in Ids : user'[k].sender # None =>
              user'[k] = user[k] /\ user[k].sender # s
         /\ Owed' \subseteq Owed
  <1>1. \A k \in Ids : LET lost == [user[k] EXCEPT !.mail = "lost", !.sender = None] IN
          /\ user[k] \in UserRow /\ lost \in UserRow
          /\ lost.mail = "lost" /\ lost.sender = None
          /\ lost.email = user[k].email /\ lost.role = user[k].role
          /\ lost.student = user[k].student /\ lost.lecturer = user[k].lecturer
    BY DEF UserRow, Mails
  <1>2. \A k \in Ids :
          user'[k] = IF user[k].sender = s
                     THEN [user[k] EXCEPT !.mail = "lost", !.sender = None] ELSE user[k]
    BY DEF Dropped
  <1>3. user' \in [Ids -> UserRow]
    BY <1>1 DEF Dropped
  <1>4. RowsKept
    BY <1>1, <1>2 DEF RowsKept
  <1>5. \A k \in Ids : user'[k].sender # None =>
              user'[k] = user[k] /\ user[k].sender # s
    BY <1>1, <1>2
  <1>6. ASSUME NEW k \in Owed' PROVE k \in Owed
    <2>1. k \in Ids /\ Exists(k)' /\ user'[k].mail = "due" /\ user'[k].sender = None
      BY DEF Owed
    <2>2. user'[k] = user[k]
      BY <1>1, <1>2, <2>1
    <2>3. QED
      BY <2>1, <2>2 DEF Owed, Exists
  <1>7. QED
    BY <1>3, <1>4, <1>5, <1>6

LEMMA MailedSettles ==
  ASSUME user \in [Ids -> UserRow], NEW i \in Ids, NEW s, user' = Mailed(i, s)
  PROVE  /\ user' \in [Ids -> UserRow] /\ RowsKept
         /\ \A k \in Ids \ {i} : user'[k] = user[k]
         /\ user'[i].sender # None => user'[i] = user[i] /\ user[i].sender # s
         /\ Owed' \subseteq Owed
  <1> DEFINE tried == [user[i] EXCEPT !.mail = "tried", !.sender = None]
  <1>1. /\ user[i] \in UserRow /\ tried \in UserRow
        /\ tried.mail = "tried" /\ tried.sender = None
        /\ tried.email = user[i].email /\ tried.role = user[i].role
        /\ tried.student = user[i].student /\ tried.lecturer = user[i].lecturer
    BY DEF UserRow, Mails
  <1>2. user' = IF user[i].sender = s THEN [user EXCEPT ![i] = tried] ELSE user
    BY DEF Mailed
  <1> HIDE DEF tried
  <1>3. /\ user' \in [Ids -> UserRow] /\ \A k \in Ids \ {i} : user'[k] = user[k]
        /\ user'[i] = IF user[i].sender = s THEN tried ELSE user[i]
    BY <1>1, <1>2
  <1>4. RowsKept
    BY <1>1, <1>3 DEF RowsKept
  <1>5. Owed' \subseteq Owed
    BY <1>1, <1>3 DEF Owed, Exists
  <1>6. QED
    BY <1>1, <1>3, <1>4, <1>5

\* A request that sends goes on knowing while nothing is added to what is owed
\* and nobody touches it or its session.
LEMMA SendsStill ==
  ASSUME NEW j \in Jobs, Sends(j), Owed' \subseteq Owed, job'[j] = job[j],
         session'[job[j].session] = session[job[j].session]
  PROVE  Sends(j)'
  <1>1. ASSUME Working(j, "send"), job[j].session = None
        PROVE  Owed' \cap job[j].ids = {}
    BY <1>1 DEF Sends
  <1>2. ASSUME Working(j, "send"), job[j].session # None
        PROVE  /\ InMap(job[j].session)' => session[job[j].session].committed
               /\ Owed' \cap session[job[j].session].ids = Owed' \cap job[j].ids
    BY <1>2 DEF Sends, InMap
  <1>3. Working(j, "send")' <=> Working(j, "send")
    BY DEF Working
  <1>4. InMap(job[j].session)' <=> session[job[j].session].admin # None
    BY DEF InMap
  <1>5. QED
    BY <1>1, <1>2, <1>3, <1>4 DEF Sends, InMap

\* Accounts come and go beside the wizard.
LEMMA AccountsKeep ==
  ASSUME IInv, AccountsNext(Held), UNCHANGED <<session, job>>
  PROVE  IInv'
  <1>1. AccountsInv' /\ Owed' \subseteq Owed /\ SendersMail'
    BY AccountsStepIsSound DEF IInv, WizardInv
  <1>2. NothingKept'
    BY DEF IInv, WizardInv, NothingKept, Working, InMap
  <1>3. OwedListed'
    BY <1>1 DEF IInv, WizardInv, OwedListed, Listed
  <1>4. SendsKnow'
    BY <1>1, SendsStill DEF IInv, WizardInv, SendsKnow
  <1>5. QED
    BY <1>1, <1>2, <1>3, <1>4 DEF IInv, WizardInv

-----------------------------------------------------------------------------
(* The wizard's own steps.                                                  *)

LEMMA EmptyTyped == NoSession \in Session /\ NoJob \in Job
  BY DEF NoSession, Session, NoJob, Job

\* What IInv says of one session or one request.
LEMMA TakenSingly ==
  ASSUME IInv
  PROVE  /\ user \in [Ids -> UserRow] /\ req \in [Requests -> Request]
         /\ \A s \in Sessions : /\ session[s] \in Session
                                /\ ~InMap(s) => session[s] = NoSession
         /\ \A j \in Jobs : /\ job[j] \in Job
                            /\ Working(j, "idle") => job[j] = NoJob
                            /\ Working(j, "insert") => job[j].mailing = {}
                            /\ Sends(j)
         /\ \A i \in Ids : user[i].sender # None => AboutToMail(i)
         /\ \A i \in Owed : Listed(i)
         /\ None \notin Sessions /\ None \notin Jobs /\ Jobs \cap Requests = {}
  BY AccountsAssumption, WizardAssumption
     DEF IInv, AccountsInv, AccountsTypeOK, WizardInv, NothingKept, SendersMail,
         OwedListed, SendsKnow

\* Whoever is about to mail still is, unless the step is the mail.
LEMMA SendersStill ==
  ASSUME IInv, req' = req,
         \A i \in Ids : user'[i].sender # None =>
           \/ user'[i].sender = user[i].sender
              /\ \A j \in Jobs : user[i].sender = j /\ i \in job[j].mailing =>
                                   i \in job'[j].mailing
           \/ AboutToMail(i)'
  PROVE  SendersMail'
  <1> SUFFICES ASSUME NEW i \in Ids, user'[i].sender # None PROVE AboutToMail(i)'
    BY DEF SendersMail
  <1>1. CASE AboutToMail(i)'
    BY <1>1
  <1>2. CASE /\ user'[i].sender = user[i].sender
             /\ \A j \in Jobs : user[i].sender = j /\ i \in job[j].mailing =>
                                  i \in job'[j].mailing
    <2>1. AboutToMail(i)
      BY <1>2, TakenSingly
    <2>2. QED
      BY <1>2, <2>1 DEF AboutToMail, Doing
  <1>3. QED
    BY <1>1, <1>2

LEMMA ParseKeeps ==
  ASSUME IInv, NEW a \in Admins, NEW file \in Files, ParseImport(a, file)
  PROVE  IInv'
  <1> DEFINE new == [NoSession EXCEPT !.admin = a, !.rows = file]
  <1>1. PICK s \in Sessions :
          /\ ~InMap(s) /\ \A j \in Jobs : job[j].session # s
          /\ session' = [session EXCEPT ![s] = new]
    BY DEF ParseImport
  <1>2. user' = user /\ req' = req /\ job' = job
    BY DEF ParseImport
  <1>3. new \in Session /\ new.admin = a /\ a # None
    BY WizardAssumption DEF NoSession, Session, Row
  <1> HIDE DEF new
  <1>4. /\ session' \in [Sessions -> Session] /\ session'[s] = new
        /\ \A z \in Sessions \ {s} : session'[z] = session[z]
    BY <1>1, <1>3 DEF IInv, WizardInv
  <1>5. session[s].ids = {}
    BY <1>1, TakenSingly DEF NoSession
  <1>6. AccountsInv' /\ Owed' = Owed
    BY <1>2 DEF IInv, AccountsInv, AccountsTypeOK, RoleHasProfile, AccountsDistinct,
                RequestsKnow, Knows, Owed, Exists, Doing, NewRow
  <1>7. NothingKept'
    <2>1. \A z \in Sessions : ~InMap(z)' => session'[z] = NoSession
      BY <1>3, <1>4, TakenSingly DEF InMap
    <2>2. QED
      BY <1>2, <2>1, TakenSingly DEF NothingKept, Working, InMap
  <1>8. SendersMail'
    BY <1>2, SendersStill
  <1>9. OwedListed'
    <2> SUFFICES ASSUME NEW i \in Owed PROVE Listed(i)'
      BY <1>6 DEF OwedListed
    <2>1. Listed(i)
      BY TakenSingly
    <2>2. QED
      BY <1>2, <1>4, <1>5, <2>1 DEF Listed
  <1>10. SendsKnow'
    <2> SUFFICES ASSUME NEW j \in Jobs PROVE Sends(j)'
      BY DEF SendsKnow
    <2>1. CASE job[j].session \in Sessions
      <3>1. session'[job[j].session] = session[job[j].session]
        BY <1>1, <1>4, <2>1
      <3>2. QED
        BY <1>2, <1>6, <3>1, SendsStill, TakenSingly
    <2>2. CASE job[j].session = None
      BY <1>2, <1>6, <2>2, TakenSingly DEF Sends, Working
    <2>3. QED
      BY <2>1, <2>2, TakenSingly DEF Job
  <1>11. QED
    BY <1>2, <1>4, <1>6, <1>7, <1>8, <1>9, <1>10 DEF IInv, WizardInv

LEMMA LapseKeeps ==
  ASSUME IInv, NEW s \in Sessions, Lapse(s)
  PROVE  IInv'
  <1>1. user' = user /\ req' = req /\ job' = job
    BY DEF Lapse
  <1>2. /\ session' \in [Sessions -> Session]
        /\ \A z \in Sessions : /\ session'[z].ids = session[z].ids
                               /\ session'[z].committed = session[z].committed
                               /\ session'[z].admin = session[z].admin
                               /\ ~InMap(z) => session'[z] = session[z]
    <2>1. session' = [session EXCEPT ![s] = [session[s] EXCEPT !.expired = TRUE]]
      BY DEF Lapse, IInv, WizardInv
    <2>2. LET new == [session[s] EXCEPT !.expired = TRUE] IN
            /\ new \in Session /\ new.ids = session[s].ids
            /\ new.committed = session[s].committed /\ new.admin = session[s].admin
      BY TakenSingly DEF Session
    <2>3. QED
      BY <2>1, <2>2 DEF Lapse, IInv, WizardInv
  <1>3. AccountsInv' /\ Owed' = Owed
    BY <1>1 DEF IInv, AccountsInv, AccountsTypeOK, RoleHasProfile, AccountsDistinct,
                RequestsKnow, Knows, Owed, Exists, Doing, NewRow
  <1>4. NothingKept'
    BY <1>1, <1>2, TakenSingly DEF NothingKept, Working, InMap
  <1>5. SendersMail'
    BY <1>1, SendersStill
  <1>6. OwedListed'
    <2> SUFFICES ASSUME NEW i \in Owed PROVE Listed(i)'
      BY <1>3 DEF OwedListed
    <2>1. Listed(i)
      BY TakenSingly
    <2>2. QED
      BY <1>1, <1>2, <2>1 DEF Listed
  <1>7. SendsKnow'
    <2> SUFFICES ASSUME NEW j \in Jobs PROVE Sends(j)'
      BY DEF SendsKnow
    <2>1. Sends(j) /\ job[j].session \in Sessions \cup {None}
      BY TakenSingly DEF Job
    <2>2. QED
      BY <1>1, <1>2, <1>3, <2>1 DEF Sends, Working, InMap
  <1>8. QED
    BY <1>1, <1>2, <1>3, <1>4, <1>5, <1>6, <1>7 DEF IInv, WizardInv

LEMMA DiscardKeeps ==
  ASSUME IInv, NEW s \in Sessions, Discard(s)
  PROVE  IInv'
  <1>1. req' = req /\ job' = job /\ user' = Give(session[s].ids, "lost")
    BY DEF Discard
  <1>2. /\ session' \in [Sessions -> Session] /\ session'[s] = NoSession
        /\ \A z \in Sessions \ {s} : session'[z] = session[z]
    BY EmptyTyped DEF Discard, IInv, WizardInv
  <1>3. /\ user' \in [Ids -> UserRow] /\ RowsKept
        /\ \A k \in Ids : user'[k].sender = user[k].sender
        /\ Owed' = Owed \ session[s].ids
    BY <1>1, GiveSettles, TakenSingly
  <1>4. AccountsInv'
    BY <1>1, <1>3, MailsOnlySound DEF IInv
  <1>5. NothingKept'
    BY <1>1, <1>2, TakenSingly DEF NothingKept, Working, InMap
  <1>6. SendersMail'
    BY <1>1, <1>3, SendersStill
  <1>7. OwedListed'
    <2> SUFFICES ASSUME NEW i \in Owed \ session[s].ids PROVE Listed(i)'
      BY <1>3 DEF OwedListed
    <2>1. Listed(i)
      BY TakenSingly
    <2>2. QED
      BY <1>1, <1>2, <2>1 DEF Listed
  <1>8. SendsKnow'
    <2> SUFFICES ASSUME NEW j \in Jobs PROVE Sends(j)'
      BY DEF SendsKnow
    <2>1. Sends(j)
      BY TakenSingly
    <2>2. CASE job[j].session = s
      <3>1. Working(j, "send") => Owed' \cap job[j].ids = {}
        BY <1>3, <2>1, <2>2, TakenSingly DEF Sends
      <3>2. NoSession.ids = {} /\ NoSession.admin = None
        BY DEF NoSession
      <3>3. QED
        BY <1>1, <1>2, <2>2, <3>1, <3>2 DEF Sends, Working, InMap
    <2>3. CASE job[j].session # s /\ job[j].session \in Sessions
      BY <1>1, <1>2, <1>3, <2>1, <2>3, SendsStill
    <2>4. CASE job[j].session = None
      BY <1>1, <1>3, <2>1, <2>4 DEF Sends, Working
    <2>5. QED
      BY <2>2, <2>3, <2>4, TakenSingly DEF Job
  <1>9. QED
    BY <1>1, <1>2, <1>4, <1>5, <1>6, <1>7, <1>8 DEF IInv, WizardInv

\* A wizard's request that starts finds nothing of an earlier one.
LEMMA JobStarts ==
  ASSUME IInv, NEW j \in Jobs, NEW q \in Job, Start(j, q),
         q.op \in {"insert", "send"}, q.mailing = {},
         q.op = "send" =>
           /\ q.session \in Sessions /\ session[q.session].committed
           /\ q.ids = {i \in session[q.session].ids : Exists(i)}
  PROVE  IInv'
  <1>1. user' = user /\ req' = req /\ session' = session /\ job[j] = NoJob
    BY TakenSingly DEF Start
  <1>2. /\ job' \in [Jobs -> Job] /\ job'[j] = q
        /\ \A k \in Jobs \ {j} : job'[k] = job[k]
    BY DEF Start, IInv, WizardInv
  <1>3. NoJob.mailing = {} /\ NoJob.ids = {}
    BY DEF NoJob
  <1>4. AccountsInv' /\ Owed' = Owed
    BY <1>1 DEF IInv, AccountsInv, AccountsTypeOK, RoleHasProfile, AccountsDistinct,
                RequestsKnow, Knows, Owed, Exists, Doing, NewRow
  <1>5. NothingKept'
    BY <1>1, <1>2, TakenSingly DEF NothingKept, Working, InMap
  <1>6. SendersMail'
    <2>1. \A k \in Jobs : \A i \in Ids : i \in job[k].mailing => i \in job'[k].mailing
      BY <1>1, <1>2, <1>3
    <2>2. QED
      BY <1>1, <2>1, SendersStill
  <1>7. OwedListed'
    <2> SUFFICES ASSUME NEW i \in Owed PROVE Listed(i)'
      BY <1>4 DEF OwedListed
    <2>1. Listed(i)
      BY TakenSingly
    <2>2. QED
      BY <1>1, <1>2, <1>3, <2>1 DEF Listed
  <1>8. SendsKnow'
    <2> SUFFICES ASSUME NEW k \in Jobs PROVE Sends(k)'
      BY DEF SendsKnow
    <2>1. CASE k = j
      <3>1. CASE q.op = "send"
        <4>1. Owed \cap session[q.session].ids = Owed \cap q.ids
          BY <3>1 DEF Owed
        <4>2. QED
          BY <1>1, <1>2, <1>4, <2>1, <3>1, <4>1, TakenSingly DEF Sends, InMap
      <3>2. CASE q.op = "insert"
        BY <1>2, <2>1, <3>2 DEF Sends, Working
      <3>3. QED
        BY <3>1, <3>2
    <2>2. CASE k # j
      BY <1>1, <1>2, <1>4, <2>2, SendsStill, TakenSingly
    <2>3. QED
      BY <2>1, <2>2
  <1>9. QED
    BY <1>2, <1>1, <1>4, <1>5, <1>6, <1>7, <1>8 DEF IInv, WizardInv

LEMMA ArrivalsKeep ==
  ASSUME IInv, NEW j \in Jobs,
         \/ \E s \in Sessions, a \in Admins : CommitArrives(j, s, a) \/ SendArrives(j, s, a)
         \/ \E file \in Files : BulkArrives(j, file)
  PROVE  IInv'
  <1>1. ASSUME NEW s \in Sessions, NEW a \in Admins, CommitArrives(j, s, a)
        PROVE  IInv'
    <2> DEFINE q == [NoJob EXCEPT !.op = "insert", !.session = s,
                                  !.rows = NotTaken(session[s].rows)]
    <2>1. NotTaken(session[s].rows) \subseteq Row
      BY TakenSingly DEF NotTaken, Session
    <2>2. q \in Job /\ q.op = "insert" /\ q.mailing = {}
      BY <2>1 DEF NoJob, Job
    <2>3. Start(j, q)
      BY <1>1 DEF CommitArrives
    <2> HIDE DEF q
    <2>4. QED
      BY <2>2, <2>3, JobStarts
  <1>2. ASSUME NEW s \in Sessions, NEW a \in Admins, SendArrives(j, s, a)
        PROVE  IInv'
    <2> DEFINE q == [NoJob EXCEPT !.op = "send", !.session = s,
                                  !.ids = {i \in session[s].ids : Exists(i)}]
    <2>1. {i \in session[s].ids : Exists(i)} \subseteq Ids
      BY TakenSingly DEF Session
    <2>2. /\ q \in Job /\ q.op = "send" /\ q.mailing = {} /\ q.session = s
          /\ q.ids = {i \in session[s].ids : Exists(i)}
      BY <2>1 DEF NoJob, Job
    <2>3. Start(j, q) /\ session[s].committed
      BY <1>2 DEF SendArrives
    <2> HIDE DEF q
    <2>4. QED
      BY <2>2, <2>3, JobStarts
  <1>3. ASSUME NEW file \in Files, BulkArrives(j, file)
        PROVE  IInv'
    <2> DEFINE q == [NoJob EXCEPT !.op = "insert", !.rows = NotTaken(file)]
    <2>1. NotTaken(file) \subseteq Row
      BY WizardAssumption DEF NotTaken, Row
    <2>2. q \in Job /\ q.op = "insert" /\ q.mailing = {}
      BY <2>1 DEF NoJob, Job
    <2>3. Start(j, q)
      BY <1>3 DEF BulkArrives
    <2> HIDE DEF q
    <2>4. QED
      BY <2>2, <2>3, JobStarts
  <1>4. QED
    BY <1>1, <1>2, <1>3

\* An account that is new to the request is new to everybody.
LEMMA InsertKeeps ==
  ASSUME IInv, NEW j \in Jobs, InsertRow(j, Held \cup {req[r].id : r \in Requests})
  PROVE  IInv'
  <1> DEFINE held == Held \cup {req[r].id : r \in Requests}
             i == FreeId(held)
  <1>1. /\ i \in Ids /\ ~Exists(i)
        /\ \A r \in Requests : req[r].id # i
        /\ \A k \in Jobs : i \notin job[k].ids /\ i \notin job[k].mailing
        /\ \A s \in Sessions : i \notin session[s].ids
    <2>1. i \in Ids /\ ~Exists(i) /\ i \notin held
      BY FreeIdIsFree DEF InsertRow
    <2> HIDE DEF i
    <2>2. QED
      BY <2>1 DEF Held
  <1> HIDE DEF i
  <1>2. PICK row \in job[j].rows :
          \/ /\ Fits(i, NewRow(row.email, row.role, row.code))
             /\ user' = [user EXCEPT ![i] = NewRow(row.email, row.role, row.code)]
             /\ job' = [job EXCEPT ![j].rows = @ \ {row}, ![j].ids = @ \cup {i}]
          \/ /\ job' = [job EXCEPT ![j].rows = @ \ {row}]
             /\ user' = user
    BY DEF InsertRow, i
  <1>3. Working(j, "insert") /\ req' = req /\ session' = session
    BY DEF InsertRow
  <1> DEFINE new == NewRow(row.email, row.role, row.code)
  <1>4. /\ new \in UserRow /\ new.email # None /\ new.sender = None /\ Usable(new)
        /\ row \in Row
    <2>1. row \in Row
      BY <1>2, TakenSingly DEF Job
    <2>2. QED
      BY <2>1, NewRowIsUsable DEF Row
  <1> HIDE DEF new
  <1>5. /\ job' \in [Jobs -> Job]
        /\ \A k \in Jobs \ {j} : job'[k] = job[k]
        /\ job'[j].op = job[j].op /\ job'[j].mailing = job[j].mailing
        /\ job[j].ids \subseteq job'[j].ids
    <2>1. /\ [job[j] EXCEPT !.rows = @ \ {row}] \in Job
          /\ [job[j] EXCEPT !.rows = @ \ {row}, !.ids = @ \cup {i}] \in Job
      BY <1>1, TakenSingly DEF Job
    <2>2. \/ job' = [job EXCEPT ![j] = [job[j] EXCEPT !.rows = @ \ {row}]]
          \/ job' = [job EXCEPT ![j] = [job[j] EXCEPT !.rows = @ \ {row}, !.ids = @ \cup {i}]]
      BY <1>2 DEF IInv, WizardInv
    <2>3. /\ [job[j] EXCEPT !.rows = @ \ {row}].op = job[j].op
          /\ [job[j] EXCEPT !.rows = @ \ {row}].mailing = job[j].mailing
          /\ [job[j] EXCEPT !.rows = @ \ {row}].ids = job[j].ids
          /\ [job[j] EXCEPT !.rows = @ \ {row}, !.ids = @ \cup {i}].op = job[j].op
          /\ [job[j] EXCEPT !.rows = @ \ {row}, !.ids = @ \cup {i}].mailing = job[j].mailing
          /\ [job[j] EXCEPT !.rows = @ \ {row}, !.ids = @ \cup {i}].ids = job[j].ids \cup {i}
      BY TakenSingly DEF Job
    <2>4. job \in [Jobs -> Job]
      BY DEF IInv, WizardInv
    <2>5. CASE job' = [job EXCEPT ![j] = [job[j] EXCEPT !.rows = @ \ {row}]]
      BY <2>1, <2>3, <2>4, <2>5
    <2>6. CASE job' = [job EXCEPT ![j] = [job[j] EXCEPT !.rows = @ \ {row}, !.ids = @ \cup {i}]]
      BY <2>1, <2>3, <2>4, <2>6
    <2>7. QED
      BY <2>2, <2>5, <2>6
  <1>6. \/ /\ user' = user
        \/ /\ user' \in [Ids -> UserRow] /\ user'[i] = new
           /\ \A k \in Ids \ {i} : user'[k] = user[k]
           /\ Fits(i, new) /\ i \in job'[j].ids
    <2>1. CASE /\ user' = [user EXCEPT ![i] = new] /\ Fits(i, new)
               /\ job' = [job EXCEPT ![j].rows = @ \ {row}, ![j].ids = @ \cup {i}]
      <3>1. i \in job'[j].ids
        BY <2>1, TakenSingly DEF IInv, WizardInv, Job
      <3>2. QED
        BY <1>1, <1>4, <2>1, <3>1 DEF IInv, AccountsInv, AccountsTypeOK
    <2>2. QED
      BY <1>2, <2>1 DEF new
  <1>7. AccountsInv'
    <2>1. CASE user' = user
      BY <1>3, <2>1 DEF IInv, AccountsInv, AccountsTypeOK, RoleHasProfile, AccountsDistinct,
                        RequestsKnow, Knows, Exists, Doing, NewRow
    <2>2. CASE /\ user' \in [Ids -> UserRow] /\ user'[i] = new
               /\ \A k \in Ids \ {i} : user'[k] = user[k]
               /\ Fits(i, new)
      <3>1. RoleHasProfile' /\ AccountsDistinct'
        BY <1>1, <1>4, <2>2, OneRowSound DEF IInv, AccountsInv
      <3>2. RequestsKnow'
        <4>1. \A k \in Ids : (\E r \in Requests : req[r].id = k) => user'[k] = user[k]
          BY <1>1, <2>2
        <4>2. QED
          BY <1>3, <4>1, RequestsStillKnow DEF IInv, AccountsInv, Exists
      <3>3. QED
        BY <1>3, <2>2, <3>1, <3>2 DEF IInv, AccountsInv, AccountsTypeOK
    <2>3. QED
      BY <1>6, <2>1, <2>2
  <1>8. Owed' \subseteq Owed \cup {i} /\ (i \in Owed' => i \in job'[j].ids)
    <2>1. \A k \in Ids \ {i} : user'[k] = user[k]
      BY <1>6
    <2>2. i \notin Owed /\ (user' = user => Owed' = Owed)
      BY <1>1 DEF Owed, Exists
    <2>3. QED
      BY <1>6, <2>1, <2>2 DEF Owed, Exists
  <1>9. NothingKept'
    BY <1>3, <1>5, TakenSingly DEF NothingKept, Working, InMap
  <1>10. SendersMail'
    <2>1. \A k \in Ids : user'[k].sender # None => user'[k] = user[k]
      BY <1>4, <1>6
    <2>2. QED
      BY <1>3, <1>5, <2>1, SendersStill
  <1>11. OwedListed'
    <2> SUFFICES ASSUME NEW k \in Owed' PROVE Listed(k)'
      BY DEF OwedListed
    <2>1. CASE k = i
      BY <1>8, <2>1 DEF Listed
    <2>2. CASE k # i
      <3>1. Listed(k)
        BY <1>8, <2>2, TakenSingly
      <3>2. QED
        BY <1>3, <1>5, <3>1 DEF Listed
    <2>3. QED
      BY <2>1, <2>2
  <1>12. SendsKnow'
    <2> SUFFICES ASSUME NEW k \in Jobs PROVE Sends(k)'
      BY DEF SendsKnow
    <2>1. CASE k = j
      BY <1>3, <1>5, <2>1 DEF Sends, Working
    <2>2. CASE k # j
      <3>1. Sends(k) /\ job'[k] = job[k] /\ job[k].session \in Sessions \cup {None}
        BY <1>5, <2>2, TakenSingly DEF Job
      <3>2. CASE ~Working(k, "send")
        BY <3>1, <3>2 DEF Sends, Working
      <3>3. CASE Working(k, "send") /\ job[k].session = None
        <4>1. Owed' \cap job[k].ids = {}
          BY <1>1, <1>8, <3>1, <3>3 DEF Sends
        <4>2. QED
          BY <3>1, <3>3, <4>1 DEF Sends
      <3>4. CASE Working(k, "send") /\ job[k].session \in Sessions
        <4>1. /\ InMap(job[k].session) => session[job[k].session].committed
              /\ Owed \cap session[job[k].session].ids = Owed \cap job[k].ids
          BY <3>1, <3>4, TakenSingly DEF Sends
        <4>2. i \notin session[job[k].session].ids /\ i \notin job[k].ids
          BY <1>1, <3>4
        <4>3. Owed' \cap session[job[k].session].ids = Owed' \cap job[k].ids
          BY <1>8, <4>1, <4>2
        <4>4. QED
          BY <1>3, <3>1, <3>4, <4>1, <4>3, TakenSingly DEF Sends, InMap
      <3>5. QED
        BY <3>1, <3>2, <3>3, <3>4
    <2>3. QED
      BY <2>1, <2>2
  <1>13. QED
    BY <1>3, <1>5, <1>7, <1>9, <1>10, <1>11, <1>12 DEF IInv, WizardInv

\* A request that is over: what it listed is either no longer owed or listed by
\* a session, and nobody waits for its mails.
LEMMA JobEnds ==
  ASSUME IInv, NEW j \in Jobs, req' = req, job' = [job EXCEPT ![j] = NoJob],
         user' \in [Ids -> UserRow], RowsKept, Owed' \subseteq Owed,
         \A i \in Ids : user'[i].sender # None =>
           user'[i].sender = user[i].sender /\ ~(user[i].sender = j /\ i \in job[j].mailing)
  PROVE  /\ AccountsInv' /\ job' \in [Jobs -> Job] /\ SendersMail'
         /\ \A k \in Jobs : Working(k, "idle")' => job'[k] = NoJob
         /\ \A k \in Jobs : Working(k, "insert")' => job'[k].mailing = {}
         /\ job'[j] = NoJob /\ Sends(j)'
         /\ \A k \in Jobs \ {j} : job'[k] = job[k]
  <1>1. /\ job' \in [Jobs -> Job] /\ job'[j] = NoJob
        /\ \A k \in Jobs \ {j} : job'[k] = job[k]
    BY EmptyTyped DEF IInv, WizardInv
  <1>2. NoJob.op = "idle" /\ NoJob.mailing = {} /\ NoJob.ids = {}
    BY DEF NoJob
  <1>3. AccountsInv'
    BY MailsOnlySound DEF IInv
  <1>4. SendersMail'
    BY <1>1, SendersStill
  <1>5. Sends(j)'
    BY <1>1, <1>2 DEF Sends, Working
  <1>6. \A k \in Jobs : /\ Working(k, "idle")' => job'[k] = NoJob
                        /\ Working(k, "insert")' => job'[k].mailing = {}
    BY <1>1, <1>2, TakenSingly DEF Working
  <1>7. QED
    BY <1>1, <1>3, <1>4, <1>5, <1>6

LEMMA MarkKeeps ==
  ASSUME IInv, NEW j \in Jobs, MarkCommitted(j)
  PROVE  IInv'
  <1> DEFINE s == job[j].session
             new == [session[s] EXCEPT !.committed = TRUE, !.ids = job[j].ids]
  <1>1. /\ Working(j, "insert") /\ s \in Sessions
        /\ job[j].mailing = {} /\ job[j].ids \subseteq Ids
        /\ req' = req /\ job' = [job EXCEPT ![j] = NoJob]
    BY TakenSingly DEF MarkCommitted, Job
  <1>2. /\ new \in Session /\ new.committed = TRUE /\ new.ids = job[j].ids
        /\ new.admin = session[s].admin
    BY <1>1, TakenSingly DEF Session
  <1>3. \/ /\ InMap(s) /\ session' = [session EXCEPT ![s] = new]
           /\ user' = IF session[s].committed
                      THEN Give(session[s].ids \cup job[j].ids, "recommitted") ELSE user
        \/ /\ ~InMap(s) /\ session' = session /\ user' = Give(job[j].ids, "lost")
    BY <1>1 DEF MarkCommitted, IInv, WizardInv
  <1> HIDE DEF s, new
  <1>4. /\ user' \in [Ids -> UserRow] /\ RowsKept /\ Owed' \subseteq Owed
        /\ \A k \in Ids : user'[k].sender = user[k].sender
        /\ InMap(s) /\ session[s].committed =>
             Owed' = Owed \ (session[s].ids \cup job[j].ids)
        /\ ~InMap(s) => Owed' = Owed \ job[j].ids
    <2>1. CASE user' = user /\ ~(InMap(s) /\ session[s].committed) /\ InMap(s)
      BY <2>1, TakenSingly DEF RowsKept, Owed, Exists
    <2>2. CASE /\ InMap(s) /\ session[s].committed
               /\ user' = Give(session[s].ids \cup job[j].ids, "recommitted")
      BY <2>2, GiveSettles, TakenSingly
    <2>3. CASE ~InMap(s) /\ user' = Give(job[j].ids, "lost")
      BY <2>3, GiveSettles, TakenSingly
    <2>4. QED
      BY <1>3, <2>1, <2>2, <2>3
  <1>5. /\ AccountsInv' /\ job' \in [Jobs -> Job] /\ SendersMail'
        /\ \A k \in Jobs : Working(k, "idle")' => job'[k] = NoJob
        /\ \A k \in Jobs : Working(k, "insert")' => job'[k].mailing = {}
        /\ job'[j] = NoJob /\ Sends(j)'
        /\ \A k \in Jobs \ {j} : job'[k] = job[k]
    BY <1>1, <1>4, JobEnds
  <1>6. /\ session' \in [Sessions -> Session]
        /\ \A z \in Sessions \ {s} : session'[z] = session[z]
        /\ IF InMap(s) THEN session'[s] = new ELSE session'[s] = session[s]
    BY <1>1, <1>2, <1>3 DEF IInv, WizardInv
  <1>7. NothingKept'
    <2>1. \A z \in Sessions : ~InMap(z)' => session'[z] = NoSession
      BY <1>2, <1>6, TakenSingly DEF InMap
    <2>2. QED
      BY <1>5, <2>1 DEF NothingKept, InMap, Working
  <1>8. OwedListed'
    <2> SUFFICES ASSUME NEW i \in Owed' PROVE Listed(i)'
      BY DEF OwedListed
    <2>1. Listed(i)
      BY <1>4, TakenSingly
    <2>2. CASE i \in job[j].ids
      <3>1. InMap(s)
        BY <1>4, <2>2
      <3>2. QED
        BY <1>1, <1>2, <1>6, <2>2, <3>1 DEF Listed
    <2>3. CASE \E k \in Jobs \ {j} : i \in job[k].ids
      BY <1>5, <2>3 DEF Listed
    <2>4. CASE \E z \in Sessions \ {s} : session[z].committed /\ i \in session[z].ids
      BY <1>6, <2>4 DEF Listed
    <2>5. CASE session[s].committed /\ i \in session[s].ids
      <3>1. ~InMap(s)
        BY <1>4, <2>5
      <3>2. QED
        BY <1>1, <1>6, <2>5, <3>1 DEF Listed
    <2>6. QED
      BY <2>1, <2>2, <2>3, <2>4, <2>5 DEF Listed
  <1>9. SendsKnow'
    <2> SUFFICES ASSUME NEW k \in Jobs \ {j} PROVE Sends(k)'
      BY <1>5 DEF SendsKnow
    <2>1. Sends(k) /\ job'[k] = job[k] /\ job[k].session \in Sessions \cup {None}
      BY <1>5, TakenSingly DEF Job
    <2>2. CASE job[k].session = s /\ InMap(s) /\ Working(k, "send")
      <3>1. session[s].committed /\ Owed \cap session[s].ids = Owed \cap job[k].ids
        BY <1>1, <2>1, <2>2, TakenSingly DEF Sends
      <3>2. Owed' \cap job[j].ids = {} /\ Owed' \cap job[k].ids = {}
        BY <1>4, <2>2, <3>1
      <3>3. QED
        BY <1>1, <1>2, <1>6, <2>1, <2>2, <3>2, TakenSingly DEF Sends, InMap
    <2>3. CASE job[k].session \in Sessions /\ ~(job[k].session = s /\ InMap(s))
      BY <1>4, <1>6, <2>1, <2>3, SendsStill
    <2>4. CASE job[k].session = None \/ ~Working(k, "send")
      BY <1>4, <2>1, <2>4, TakenSingly DEF Sends, Working
    <2>5. QED
      BY <2>1, <2>2, <2>3, <2>4
  <1>10. QED
    BY <1>5, <1>6, <1>7, <1>8, <1>9 DEF IInv, WizardInv

\* bulkImport becomes the one that mails whatever it made and is still owed.
LEMMA BulkMailsKeeps ==
  ASSUME IInv, NEW j \in Jobs, BulkMails(j)
  PROVE  IInv'
  <1> DEFINE mine == {i \in job[j].ids : user[i].mail = "due" /\ user[i].sender = None}
             q == [NoJob EXCEPT !.op = "send", !.mailing = job[j].ids]
  <1>1. /\ Working(j, "insert") /\ req' = req /\ session' = session
        /\ job' = [job EXCEPT ![j] = q]
        /\ user' = [i \in Ids |-> IF i \in mine THEN [user[i] EXCEPT !.sender = j] ELSE user[i]]
    BY DEF BulkMails
  <1>2. job[j].ids \subseteq Ids /\ job[j].mailing = {} /\ j \in Senders /\ j # None
    BY <1>1, TakenSingly, WizardAssumption, AccountsAssumption DEF Job
  <1>3. /\ q \in Job /\ q.op = "send" /\ q.session = None /\ q.ids = {}
        /\ q.mailing = job[j].ids
    BY <1>2 DEF NoJob, Job
  <1>4. \A i \in Ids : LET sent == [user[i] EXCEPT !.sender = j] IN
          /\ user[i] \in UserRow /\ sent \in UserRow /\ sent.sender = j
          /\ sent.email = user[i].email /\ sent.role = user[i].role
          /\ sent.student = user[i].student /\ sent.lecturer = user[i].lecturer
          /\ sent.mail = user[i].mail
    BY <1>2, TakenSingly DEF UserRow
  <1>5. /\ user' \in [Ids -> UserRow] /\ RowsKept
        /\ \A i \in Ids : IF i \in mine THEN user'[i].sender = j ELSE user'[i] = user[i]
    <2> HIDE DEF mine
    <2>1. user' \in [Ids -> UserRow]
      BY <1>1, <1>4
    <2>2. \A i \in Ids : user'[i] = IF i \in mine THEN [user[i] EXCEPT !.sender = j] ELSE user[i]
      BY <1>1
    <2>3. RowsKept
      BY <1>4, <2>2 DEF RowsKept
    <2>4. QED
      BY <1>4, <2>1, <2>2, <2>3
  <1>6. /\ job' \in [Jobs -> Job] /\ job'[j] = q
        /\ \A k \in Jobs \ {j} : job'[k] = job[k]
    BY <1>1, <1>3 DEF IInv, WizardInv
  <1>7. Owed' \subseteq Owed /\ Owed' \cap job[j].ids = {}
    <2>1. \A i \in Owed' : i \in Ids /\ i \notin mine /\ user'[i] = user[i]
      <3> HIDE DEF mine
      <3> QED
        BY <1>2, <1>5 DEF Owed
    <2>2. QED
      BY <2>1 DEF Owed, Exists
  <1>8. AccountsInv'
    BY <1>1, <1>5, MailsOnlySound DEF IInv
  <1>9. NothingKept'
    BY <1>1, <1>3, <1>6, TakenSingly DEF NothingKept, Working, InMap
  <1>10. SendersMail'
    <2>1. ASSUME NEW i \in Ids, i \in mine
          PROVE  AboutToMail(i)'
      BY <1>3, <1>5, <1>6, <2>1 DEF AboutToMail
    <2>2. ASSUME NEW i \in Ids, i \notin mine
          PROVE  /\ user'[i].sender = user[i].sender
                 /\ \A k \in Jobs : user[i].sender = k /\ i \in job[k].mailing =>
                                      i \in job'[k].mailing
      BY <1>2, <1>5, <1>6, <2>2
    <2> HIDE DEF mine, q
    <2>3. QED
      BY <1>1, <2>1, <2>2, SendersStill
  <1> HIDE DEF mine, q
  <1>11. OwedListed'
    <2> SUFFICES ASSUME NEW i \in Owed' PROVE Listed(i)'
      BY DEF OwedListed
    <2>1. Listed(i) /\ i \notin job[j].ids
      BY <1>7, TakenSingly
    <2>2. QED
      BY <1>1, <1>6, <2>1 DEF Listed
  <1>12. SendsKnow'
    <2>1. Sends(j)'
      BY <1>3, <1>6 DEF Sends
    <2>2. \A k \in Jobs \ {j} : Sends(k)'
      BY <1>1, <1>6, <1>7, SendsStill, TakenSingly
    <2>3. QED
      BY <2>1, <2>2 DEF SendsKnow
  <1>13. QED
    BY <1>1, <1>6, <1>8, <1>9, <1>10, <1>11, <1>12 DEF IInv, WizardInv

LEMMA RewriteKeeps ==
  ASSUME IInv, NEW j \in Jobs, Rewrite(j)
  PROVE  IInv'
  <1>1. PICK i \in job[j].ids :
          IF Exists(i)
          THEN /\ user' = [user EXCEPT ![i].mail = "due", ![i].sender = j]
               /\ job' = [job EXCEPT ![j].ids = @ \ {i}, ![j].mailing = @ \cup {i}]
          ELSE /\ job' = [job EXCEPT ![j].ids = @ \ {i}, ![j].failed = TRUE]
               /\ user' = user
    BY DEF Rewrite
  <1>2. /\ Working(j, "send") /\ req' = req /\ session' = session
        /\ i \in Ids /\ job[j] \in Job /\ j \in Senders /\ j # None
    BY TakenSingly, WizardAssumption, AccountsAssumption DEF Rewrite, Job
  <1> DEFINE sent == [user[i] EXCEPT !.mail = "due", !.sender = j]
             q == IF Exists(i) THEN [job[j] EXCEPT !.ids = @ \ {i}, !.mailing = @ \cup {i}]
                  ELSE [job[j] EXCEPT !.ids = @ \ {i}, !.failed = TRUE]
  <1>3. /\ user[i] \in UserRow /\ sent \in UserRow /\ sent.sender = j
        /\ sent.email = user[i].email /\ sent.role = user[i].role
        /\ sent.student = user[i].student /\ sent.lecturer = user[i].lecturer
    BY <1>2, TakenSingly DEF UserRow, Mails
  <1>4. /\ q \in Job /\ q.op = "send" /\ q.session = job[j].session
        /\ q.ids = job[j].ids \ {i} /\ job[j].mailing \subseteq q.mailing
        /\ Exists(i) => i \in q.mailing
    BY <1>2 DEF Job, Working
  <1>5. /\ job' = [job EXCEPT ![j] = q]
        /\ user' = IF Exists(i) THEN [user EXCEPT ![i] = sent] ELSE user
    BY <1>1, <1>2 DEF IInv, WizardInv, AccountsInv, AccountsTypeOK
  <1> HIDE DEF sent, q
  <1>6. /\ job' \in [Jobs -> Job] /\ job'[j] = q
        /\ \A k \in Jobs \ {j} : job'[k] = job[k]
    BY <1>4, <1>5 DEF IInv, WizardInv
  <1>7. /\ user' \in [Ids -> UserRow]
        /\ \A k \in Ids \ {i} : user'[k] = user[k]
        /\ IF Exists(i) THEN user'[i] = sent ELSE user'[i] = user[i]
    BY <1>2, <1>3, <1>5, TakenSingly
  <1>8. RowsKept /\ Owed' \subseteq Owed /\ i \notin Owed'
    BY <1>2, <1>3, <1>7 DEF RowsKept, Owed, Exists
  <1>9. AccountsInv'
    BY <1>2, <1>7, <1>8, MailsOnlySound DEF IInv
  <1>10. NothingKept'
    BY <1>2, <1>4, <1>6, TakenSingly DEF NothingKept, Working, InMap
  <1>11. SendersMail'
    <2>1. \A k \in Ids : \/ user'[k].sender = user[k].sender
                         \/ k = i /\ Exists(i) /\ user'[i].sender = j
      BY <1>3, <1>7
    <2>2. Exists(i) /\ user'[i].sender = j => AboutToMail(i)'
      BY <1>4, <1>6 DEF AboutToMail
    <2>3. \A m \in Jobs : \A k \in Ids : k \in job[m].mailing => k \in job'[m].mailing
      BY <1>4, <1>6
    <2>4. QED
      BY <1>2, <2>1, <2>2, <2>3, SendersStill
  <1>12. OwedListed'
    <2> SUFFICES ASSUME NEW k \in Owed' PROVE Listed(k)'
      BY DEF OwedListed
    <2>1. Listed(k) /\ k # i
      BY <1>8, TakenSingly
    <2>2. QED
      BY <1>2, <1>4, <1>6, <2>1 DEF Listed
  <1>13. SendsKnow'
    <2>1. Sends(j)'
      <3>1. Sends(j)
        BY TakenSingly
      <3>2. Owed' \cap q.ids = Owed' \cap job[j].ids
        BY <1>4, <1>8
      <3>3. CASE job[j].session = None
        <4>1. Owed' \cap q.ids = {}
          BY <1>2, <1>8, <3>1, <3>2, <3>3 DEF Sends
        <4>2. QED
          BY <1>4, <1>6, <3>3, <4>1 DEF Sends
      <3>4. CASE job[j].session # None
        <4>1. /\ InMap(job[j].session) => session[job[j].session].committed
              /\ Owed \cap session[job[j].session].ids = Owed \cap job[j].ids
          BY <1>2, <3>1, <3>4 DEF Sends
        <4>2. Owed' \cap session[job[j].session].ids = Owed' \cap q.ids
          BY <1>8, <3>2, <4>1
        <4>3. QED
          BY <1>2, <1>4, <1>6, <3>4, <4>1, <4>2 DEF Sends, InMap
      <3>5. QED
        BY <3>3, <3>4
    <2>2. \A k \in Jobs \ {j} : Sends(k)'
      BY <1>2, <1>6, <1>8, SendsStill, TakenSingly
    <2>3. QED
      BY <2>1, <2>2 DEF SendsKnow
  <1>14. QED
    BY <1>2, <1>6, <1>9, <1>10, <1>11, <1>12, <1>13 DEF IInv, WizardInv

LEMMA DeliverKeeps ==
  ASSUME IInv, NEW j \in Jobs, Deliver(j)
  PROVE  IInv'
  <1>1. PICK i \in job[j].mailing :
          user' = Mailed(i, j) /\ job' = [job EXCEPT ![j].mailing = @ \ {i}]
    BY DEF Deliver
  <1>2. /\ Working(j, "send") /\ req' = req /\ session' = session
        /\ i \in Ids /\ job[j] \in Job
    BY TakenSingly DEF Deliver, Job
  <1> DEFINE q == [job[j] EXCEPT !.mailing = @ \ {i}]
  <1>3. /\ q \in Job /\ q.op = job[j].op /\ q.session = job[j].session
        /\ q.ids = job[j].ids /\ q.mailing = job[j].mailing \ {i}
    BY <1>2 DEF Job
  <1>4. job' = [job EXCEPT ![j] = q]
    BY <1>1 DEF IInv, WizardInv
  <1> HIDE DEF q
  <1>5. /\ job' \in [Jobs -> Job] /\ job'[j] = q
        /\ \A k \in Jobs \ {j} : job'[k] = job[k]
    BY <1>3, <1>4 DEF IInv, WizardInv
  <1>6. /\ user' \in [Ids -> UserRow] /\ RowsKept
        /\ \A k \in Ids \ {i} : user'[k] = user[k]
        /\ user'[i].sender # None => user'[i] = user[i] /\ user[i].sender # j
        /\ Owed' \subseteq Owed
    BY <1>1, <1>2, MailedSettles, TakenSingly
  <1>7. AccountsInv'
    BY <1>2, <1>6, MailsOnlySound DEF IInv
  <1>8. NothingKept'
    BY <1>2, <1>3, <1>5, TakenSingly DEF NothingKept, Working, InMap
  <1>9. SendersMail'
    <2> SUFFICES ASSUME NEW k \in Ids, user'[k].sender # None
                 PROVE  /\ user'[k].sender = user[k].sender
                        /\ \A m \in Jobs : user[k].sender = m /\ k \in job[m].mailing =>
                                             k \in job'[m].mailing
      BY <1>2, SendersStill
    <2>1. QED
      BY <1>3, <1>5, <1>6
  <1>10. OwedListed'
    <2> SUFFICES ASSUME NEW k \in Owed' PROVE Listed(k)'
      BY DEF OwedListed
    <2>1. Listed(k)
      BY <1>6, TakenSingly
    <2>2. QED
      BY <1>2, <1>3, <1>5, <2>1 DEF Listed
  <1>11. SendsKnow'
    <2>1. \A k \in Jobs : /\ job'[k].op = job[k].op /\ job'[k].ids = job[k].ids
                          /\ job'[k].session = job[k].session
      BY <1>3, <1>5
    <2>2. ASSUME NEW k \in Jobs
          PROVE  Sends(k)'
      <3>1. Sends(k)
        BY TakenSingly
      <3>2. CASE Working(k, "send") /\ job[k].session = None
        <4>1. Owed' \cap job[k].ids = {}
          BY <1>6, <3>1, <3>2 DEF Sends
        <4>2. QED
          BY <2>1, <3>2, <4>1 DEF Sends
      <3>3. CASE Working(k, "send") /\ job[k].session # None
        <4>1. /\ InMap(job[k].session) => session[job[k].session].committed
              /\ Owed' \cap session[job[k].session].ids = Owed' \cap job[k].ids
          BY <1>6, <3>1, <3>3 DEF Sends
        <4>2. QED
          BY <1>2, <2>1, <3>3, <4>1 DEF Sends, InMap
      <3>4. CASE ~Working(k, "send")
        BY <2>1, <3>4 DEF Sends, Working
      <3>5. QED
        BY <3>2, <3>3, <3>4
    <2>3. QED
      BY <2>2 DEF SendsKnow
  <1>12. QED
    BY <1>2, <1>5, <1>7, <1>8, <1>9, <1>10, <1>11 DEF IInv, WizardInv

\* The session that is deleted has nothing left that is owed.
LEMMA SentKeeps ==
  ASSUME IInv, NEW j \in Jobs, MarkEmailsSent(j)
  PROVE  IInv'
  <1> DEFINE s == job[j].session
  <1>1. /\ Working(j, "send") /\ job[j].ids = {} /\ job[j].mailing = {}
        /\ s \in Sessions \cup {None}
        /\ session' = IF s = None \/ job[j].failed THEN session
                      ELSE [session EXCEPT ![s] = NoSession]
        /\ job' = [job EXCEPT ![j] = NoJob] /\ user' = user /\ req' = req
    BY TakenSingly DEF MarkEmailsSent, Job
  <1> HIDE DEF s
  <1>2. user' \in [Ids -> UserRow] /\ RowsKept /\ Owed' = Owed
    BY <1>1, TakenSingly DEF RowsKept, Owed, Exists
  <1>3. /\ AccountsInv' /\ job' \in [Jobs -> Job] /\ SendersMail'
        /\ \A k \in Jobs : Working(k, "idle")' => job'[k] = NoJob
        /\ \A k \in Jobs : Working(k, "insert")' => job'[k].mailing = {}
        /\ job'[j] = NoJob /\ Sends(j)'
        /\ \A k \in Jobs \ {j} : job'[k] = job[k]
    BY <1>1, <1>2, JobEnds
  <1>4. /\ session' \in [Sessions -> Session]
        /\ \A z \in Sessions \ {s} : session'[z] = session[z]
        /\ \/ session' = session
           \/ s \in Sessions /\ session'[s] = NoSession
    BY <1>1, EmptyTyped DEF IInv, WizardInv
  <1>5. s \in Sessions => Owed \cap session[s].ids = {}
    <2>1. Sends(j)
      BY TakenSingly
    <2>2. QED
      BY <1>1, <2>1, TakenSingly DEF Sends, s
  <1>6. NothingKept'
    <2>1. \A z \in Sessions : ~InMap(z)' => session'[z] = NoSession
      BY <1>4, TakenSingly DEF InMap
    <2>2. QED
      BY <1>3, <2>1 DEF NothingKept, InMap, Working
  <1>7. OwedListed'
    <2> SUFFICES ASSUME NEW i \in Owed PROVE Listed(i)'
      BY <1>2 DEF OwedListed
    <2>1. Listed(i)
      BY TakenSingly
    <2>2. QED
      BY <1>1, <1>3, <1>4, <1>5, <2>1 DEF Listed
  <1>8. SendsKnow'
    <2> SUFFICES ASSUME NEW k \in Jobs \ {j} PROVE Sends(k)'
      BY <1>3 DEF SendsKnow
    <2>1. Sends(k) /\ job'[k] = job[k] /\ job[k].session \in Sessions \cup {None}
      BY <1>3, TakenSingly DEF Job
    <2>2. CASE job[k].session = s /\ s \in Sessions /\ session'[s] = NoSession
      <3>1. NoSession.ids = {} /\ NoSession.admin = None
        BY DEF NoSession
      <3>2. Working(k, "send") => Owed \cap job[k].ids = {}
        BY <1>5, <2>1, <2>2, TakenSingly DEF Sends
      <3>3. QED
        BY <1>2, <2>1, <2>2, <3>1, <3>2, TakenSingly DEF Sends, InMap, Working
    <2>3. CASE job[k].session \in Sessions /\ session'[job[k].session] = session[job[k].session]
      BY <1>2, <2>1, <2>3, SendsStill
    <2>4. CASE job[k].session = None
      BY <1>2, <2>1, <2>4 DEF Sends, Working
    <2>5. QED
      BY <1>4, <2>1, <2>2, <2>3, <2>4
  <1>9. QED
    BY <1>3, <1>4, <1>6, <1>7, <1>8 DEF IInv, WizardInv

\* A request that dies while it inserts loses what it made; one that sends leaves
\* what it had still to send with its session.
LEMMA AbortKeeps ==
  ASSUME IInv, NEW j \in Jobs, Abort(j)
  PROVE  IInv'
  <1>1. /\ req' = req /\ session' = session /\ job' = [job EXCEPT ![j] = NoJob]
        /\ user' = IF Working(j, "insert") THEN Give(job[j].ids, "lost") ELSE Dropped(j)
        /\ Working(j, "insert") \/ Working(j, "send")
    BY TakenSingly DEF Abort, Job, Working
  <1>2. /\ user' \in [Ids -> UserRow] /\ RowsKept /\ Owed' \subseteq Owed
        /\ \A i \in Ids : user'[i].sender # None =>
             user'[i].sender = user[i].sender /\ ~(user[i].sender = j /\ i \in job[j].mailing)
        /\ Working(j, "insert") => Owed' = Owed \ job[j].ids
    <2>1. CASE Working(j, "insert")
      BY <1>1, <2>1, GiveSettles, TakenSingly
    <2>2. CASE ~Working(j, "insert")
      BY <1>1, <2>2, DroppedSettles, TakenSingly
    <2>3. QED
      BY <2>1, <2>2
  <1>3. /\ AccountsInv' /\ job' \in [Jobs -> Job] /\ SendersMail'
        /\ \A k \in Jobs : Working(k, "idle")' => job'[k] = NoJob
        /\ \A k \in Jobs : Working(k, "insert")' => job'[k].mailing = {}
        /\ job'[j] = NoJob /\ Sends(j)'
        /\ \A k \in Jobs \ {j} : job'[k] = job[k]
    BY <1>1, <1>2, JobEnds
  <1>4. NothingKept'
    BY <1>1, <1>3, TakenSingly DEF NothingKept, Working, InMap
  <1>5. OwedListed'
    <2> SUFFICES ASSUME NEW i \in Owed' PROVE Listed(i)'
      BY DEF OwedListed
    <2>1. Listed(i) /\ i \in Owed
      BY <1>2, TakenSingly
    <2>2. CASE i \in job[j].ids
      <3>1. Working(j, "send")
        BY <1>1, <1>2, <2>2
      <3>2. job[j].session \in Sessions /\ i \in session[job[j].session].ids
        BY <2>1, <2>2, <3>1, TakenSingly DEF Sends, Job
      <3>3. InMap(job[j].session)
        BY <3>2, TakenSingly DEF NoSession
      <3>4. session[job[j].session].committed
        BY <3>1, <3>2, <3>3, TakenSingly DEF Sends
      <3>5. QED
        BY <1>1, <3>2, <3>4 DEF Listed
    <2>3. CASE i \notin job[j].ids
      BY <1>1, <1>3, <2>1, <2>3 DEF Listed
    <2>4. QED
      BY <2>2, <2>3
  <1>6. SendsKnow'
    <2>1. \A k \in Jobs \ {j} : Sends(k)'
      BY <1>1, <1>2, <1>3, SendsStill, TakenSingly
    <2>2. QED
      BY <1>3, <2>1 DEF SendsKnow
  <1>7. QED
    BY <1>1, <1>3, <1>4, <1>5, <1>6 DEF IInv, WizardInv

LEMMA RestartKeeps ==
  ASSUME IInv, Restart
  PROVE  IInv'
  <1> DEFINE after == [i \in Ids |-> [user[i] EXCEPT
               !.mail = IF @ = "due" THEN "lost" ELSE @, !.sender = None]]
  <1>1. /\ session' = [s \in Sessions |-> NoSession] /\ job' = [j \in Jobs |-> NoJob]
        /\ req' = [r \in Requests |-> Idle] /\ user' = after
    BY DEF Restart
  <1>2. user \in [Ids -> UserRow]
    BY TakenSingly
  <1>3. \A i \in Ids : /\ after[i].sender = None /\ after[i].mail # "due"
                       /\ after[i].email = user[i].email
                       /\ after[i].role = user[i].role /\ after[i].student = user[i].student
                       /\ after[i].lecturer = user[i].lecturer
    BY <1>2 DEF UserRow, Mails
  <1>4. after \in [Ids -> UserRow]
    <2>1. \A i \in Ids : [user[i] EXCEPT
               !.mail = IF @ = "due" THEN "lost" ELSE @, !.sender = None] \in UserRow
      BY <1>2 DEF UserRow, Mails
    <2>2. QED
      BY <2>1
  <1> HIDE DEF after
  <1>5. RowsKept /\ Owed' = {} /\ \A i \in Ids : user'[i].sender = None
    BY <1>1, <1>3 DEF RowsKept, Owed
  <1>6. AccountsInv'
    <2>1. RoleHasProfile' /\ AccountsDistinct'
      BY <1>5, RowsKeptSound DEF IInv, AccountsInv
    <2>2. RequestsKnow'
      BY <1>1 DEF RequestsKnow, Knows, Doing, Idle
    <2>3. QED
      BY <1>1, <1>4, <2>1, <2>2, IdleTyped DEF AccountsInv, AccountsTypeOK
  <1>7. \A j \in Jobs : job'[j] = NoJob /\ NoJob.op = "idle"
    BY <1>1 DEF NoJob
  <1>8. SendersMail' /\ OwedListed'
    BY <1>5 DEF SendersMail, OwedListed
  <1>9. SendsKnow' /\ NothingKept'
    BY <1>1, <1>7 DEF SendsKnow, Sends, Working, NothingKept, InMap
  <1>10. QED
    BY <1>1, <1>6, <1>8, <1>9, EmptyTyped DEF IInv, WizardInv

-----------------------------------------------------------------------------
(* No password is forgotten, and the accounts stay sound.                    *)

LEMMA InitIsSound == Init => IInv
  <1> SUFFICES ASSUME Init PROVE IInv
    OBVIOUS
  <1>1. /\ user \in [Ids -> UserRow] /\ req \in [Requests -> Request]
        /\ session \in [Sessions -> Session] /\ job \in [Jobs -> Job]
    BY NoUserTyped, IdleTyped, EmptyTyped DEF Init, AccountsInit
  <1>2. /\ \A i \in Ids : user[i].email = None /\ user[i].sender = None
        /\ \A r \in Requests : req[r].op = "idle"
        /\ \A s \in Sessions : session[s] = NoSession
        /\ \A j \in Jobs : job[j] = NoJob /\ job[j].op = "idle"
    BY DEF Init, AccountsInit, NoUser, Idle, NoJob
  <1>3. AccountsInv
    BY <1>1, <1>2 DEF AccountsInv, AccountsTypeOK, RoleHasProfile, AccountsDistinct,
                      RequestsKnow, Knows, Doing, Exists
  <1>4. WizardInv
    BY <1>1, <1>2 DEF WizardInv, NothingKept, SendersMail, OwedListed, Owed, SendsKnow,
                      Sends, Exists, Working
  <1>5. QED
    BY <1>3, <1>4 DEF IInv

LEMMA StepIsSound == IInv /\ [Next]_vars => IInv'
  <1> SUFFICES ASSUME IInv, [Next]_vars PROVE IInv'
    OBVIOUS
  <1>1. CASE Step
    BY <1>1, AccountsKeep, ParseKeeps, LapseKeeps, DiscardKeeps, ArrivalsKeep, InsertKeeps,
       MarkKeeps, BulkMailsKeeps, RewriteKeeps, DeliverKeeps, SentKeeps, AbortKeeps,
       RestartKeeps DEF Step
  <1>2. CASE UNCHANGED vars
    <2>1. user' = user /\ req' = req /\ session' = session /\ job' = job
      BY <1>2 DEF vars
    <2>2. AccountsInv' /\ Owed' = Owed
      BY <2>1 DEF IInv, AccountsInv, AccountsTypeOK, RoleHasProfile, AccountsDistinct,
                  RequestsKnow, Knows, Owed, Exists, Doing, NewRow
    <2>3. NothingKept'
      BY <2>1 DEF IInv, WizardInv, NothingKept, Working, InMap
    <2>4. SendersMail'
      BY <2>1, SendersStill
    <2>5. OwedListed'
      BY <2>1, <2>2 DEF IInv, WizardInv, OwedListed, Listed
    <2>6. SendsKnow'
      BY <2>1, <2>2, SendsStill, TakenSingly DEF SendsKnow
    <2>7. QED
      BY <2>1, <2>2, <2>3, <2>4, <2>5, <2>6 DEF IInv, WizardInv
  <1>3. QED
    BY <1>1, <1>2 DEF Next

LEMMA Invariance == Spec => []IInv
  BY InitIsSound, StepIsSound, PTL DEF Spec

\* However imports, single creations, updates and deletions overlap, no two
\* accounts share an address or a code and every account has the profile of its
\* role (users.service.ts commitImport, create, update, hardDelete).
THEOREM AccountsSoundHolds == Spec => []AccountsSound
  <1>1. IInv => AccountsSound
    BY DEF IInv, AccountsInv, WizardInv, AccountsSound, TypeOK
  <1>2. QED
    BY <1>1, Invariance, PTL

\* An account's password that nobody has mailed is about to be mailed, or is
\* listed by a request or a committed session, unless it was lost with what
\* listed it (users.service.ts commitImport, sendImportEmails).
THEOREM NobodyForgottenHolds == Spec => []NobodyForgotten
  <1>1. IInv => NobodyForgotten
    <2> SUFFICES ASSUME IInv, NEW i \in Ids, Exists(i), user[i].mail = "due"
                 PROVE  AboutToMail(i) \/ Listed(i)
      BY DEF NobodyForgotten, Listed
    <2>1. CASE user[i].sender = None
      BY <2>1, TakenSingly DEF Owed
    <2>2. CASE user[i].sender # None
      BY <2>2, TakenSingly
    <2>3. QED
      BY <2>1, <2>2
  <1>2. QED
    BY <1>1, Invariance, PTL

-----------------------------------------------------------------------------
(* The cap.                                                                 *)

CapInv ==
  \A a \in Admins : IsFiniteSet(Unexpired(a)) /\ Cardinality(Unexpired(a)) <= MaxSessions

\* Only parseImport adds to what is unexpired.
LEMMA OthersFade ==
  ASSUME IInv, Step, ~\E a \in Admins, file \in Files : ParseImport(a, file)
  PROVE  \A a \in Admins : Unexpired(a)' \subseteq Unexpired(a)
  <1> DEFINE Fades ==
        \A z \in Sessions : /\ session'[z].admin \in {session[z].admin, None}
                            /\ session'[z].admin # None =>
                                 session'[z].expired = session[z].expired \/ session'[z].expired
  <1>1. Fades
    <2>0. \A z \in Sessions : session[z] \in Session
      BY TakenSingly
    <2>1. CASE session' = session
      BY <2>1
    <2>2. ASSUME NEW s \in Sessions, session' = [session EXCEPT ![s] = NoSession]
          PROVE  Fades
      BY <2>2 DEF NoSession, IInv, WizardInv
    <2>3. ASSUME NEW s \in Sessions, Lapse(s)
          PROVE  Fades
      <3>1. session' = [session EXCEPT ![s] = [session[s] EXCEPT !.expired = TRUE]]
        BY <2>3 DEF Lapse, IInv, WizardInv
      <3>2. /\ [session[s] EXCEPT !.expired = TRUE].admin = session[s].admin
            /\ [session[s] EXCEPT !.expired = TRUE].expired = TRUE
        BY <2>0 DEF Session
      <3>3. /\ session'[s] = [session[s] EXCEPT !.expired = TRUE]
            /\ \A z \in Sessions \ {s} : session'[z] = session[z]
        BY <3>1 DEF IInv, WizardInv
      <3>4. QED
        BY <3>2, <3>3
    <2>4. ASSUME NEW j \in Jobs, MarkCommitted(j)
          PROVE  Fades
      <3> DEFINE s == job[j].session
                 new == [session[s] EXCEPT !.committed = TRUE, !.ids = job[j].ids]
      <3>1. s \in Sessions /\ (session' = session \/ session' = [session EXCEPT ![s] = new])
        BY <2>4, TakenSingly DEF MarkCommitted, Job, IInv, WizardInv
      <3>2. new.admin = session[s].admin /\ new.expired = session[s].expired
        BY <2>0, <3>1 DEF Session
      <3> HIDE DEF s, new
      <3>3. QED
        BY <3>1, <3>2 DEF IInv, WizardInv
    <2>5. ASSUME Restart PROVE Fades
      BY <2>5 DEF Restart, NoSession
    <2>6. ASSUME NEW j \in Jobs, MarkEmailsSent(j)
          PROVE  Fades
      <3>1. \/ session' = session
            \/ /\ job[j].session \in Sessions
               /\ session' = [session EXCEPT ![job[j].session] = NoSession]
        BY <2>6, TakenSingly DEF MarkEmailsSent, Job
      <3>2. QED
        BY <2>1, <2>2, <3>1
    <2> HIDE DEF Fades
    <2>7. ASSUME NEW s \in Sessions, Discard(s)
          PROVE  Fades
      BY <2>2, <2>7 DEF Discard
    <2>8. ASSUME NEW j \in Jobs,
                 \/ \E s \in Sessions, a \in Admins : CommitArrives(j, s, a) \/ SendArrives(j, s, a)
                 \/ \E file \in Files : BulkArrives(j, file)
                 \/ InsertRow(j, Held \cup {req[r].id : r \in Requests})
                 \/ BulkMails(j) \/ Rewrite(j) \/ Deliver(j) \/ Abort(j)
          PROVE  Fades
      BY <2>1, <2>8 DEF CommitArrives, SendArrives, BulkArrives, Start, InsertRow,
                        BulkMails, Rewrite, Deliver, Abort
    <2>9. QED
      BY <2>1, <2>3, <2>4, <2>5, <2>6, <2>7, <2>8 DEF Step
  <1>2. \A z \in Sessions : session[z] \in Session
    BY TakenSingly
  <1>3. QED
    BY <1>1, <1>2, WizardAssumption DEF Unexpired

LEMMA CapStep == IInv /\ CapInv /\ [Next]_vars => CapInv'
  <1> SUFFICES ASSUME IInv, CapInv, [Next]_vars PROVE CapInv'
    OBVIOUS
  <1>1. ASSUME \A a \in Admins : Unexpired(a)' \subseteq Unexpired(a)
        PROVE  CapInv'
    <2> SUFFICES ASSUME NEW a \in Admins
                 PROVE  /\ IsFiniteSet(Unexpired(a)')
                        /\ Cardinality(Unexpired(a)') <= MaxSessions
      BY DEF CapInv
    <2>1. IsFiniteSet(Unexpired(a)) /\ Cardinality(Unexpired(a)) <= MaxSessions
      BY DEF CapInv
    <2>2. /\ IsFiniteSet(Unexpired(a)')
          /\ Cardinality(Unexpired(a)') <= Cardinality(Unexpired(a))
      BY <1>1, <2>1, FS_Subset
    <2>3. Cardinality(Unexpired(a)') \in Nat /\ Cardinality(Unexpired(a)) \in Nat
      BY <2>1, <2>2, FS_CardinalityType
    <2>4. QED
      BY <2>1, <2>2, <2>3, WizardAssumption
  <1>2. ASSUME NEW a \in Admins, NEW file \in Files, ParseImport(a, file)
        PROVE  CapInv'
    <2>1. PICK s \in Sessions :
            /\ ~InMap(s)
            /\ session' = [session EXCEPT ![s] =
                 [NoSession EXCEPT !.admin = a, !.rows = file]]
      BY <1>2 DEF ParseImport
    <2>2. /\ session'[s].admin = a /\ session[s].admin = None
          /\ \A z \in Sessions \ {s} : session'[z] = session[z]
      BY <2>1 DEF NoSession, InMap, IInv, WizardInv
    <2>3. s \notin Unexpired(a) /\ Unexpired(a)' \subseteq Unexpired(a) \cup {s}
      BY <2>2, WizardAssumption DEF Unexpired
    <2>4. \A b \in Admins \ {a} : Unexpired(b)' \subseteq Unexpired(b)
      BY <2>2, WizardAssumption DEF Unexpired
    <2> SUFFICES ASSUME NEW b \in Admins
                 PROVE  /\ IsFiniteSet(Unexpired(b)')
                        /\ Cardinality(Unexpired(b)') <= MaxSessions
      BY DEF CapInv
    <2>5. IsFiniteSet(Unexpired(b)) /\ Cardinality(Unexpired(b)) <= MaxSessions
      BY DEF CapInv
    <2>6. Cardinality(Unexpired(b)) \in Nat
      BY <2>5, FS_CardinalityType
    <2>7. CASE b = a
      <3>1. /\ IsFiniteSet(Unexpired(a) \cup {s})
            /\ Cardinality(Unexpired(a) \cup {s}) = Cardinality(Unexpired(a)) + 1
        BY <2>3, <2>5, <2>7, FS_AddElement
      <3>2. /\ IsFiniteSet(Unexpired(a)')
            /\ Cardinality(Unexpired(a)') <= Cardinality(Unexpired(a) \cup {s})
        BY <2>3, <3>1, FS_Subset
      <3>3. Cardinality(Unexpired(a)') \in Nat
        BY <3>2, FS_CardinalityType
      <3>4. Cardinality(Unexpired(a)) < MaxSessions
        BY <1>2 DEF ParseImport, BelowCap
      <3>5. QED
        BY <2>6, <2>7, <3>1, <3>2, <3>3, <3>4, WizardAssumption
    <2>8. CASE b # a
      <3>1. /\ IsFiniteSet(Unexpired(b)')
            /\ Cardinality(Unexpired(b)') <= Cardinality(Unexpired(b))
        BY <2>4, <2>5, <2>8, FS_Subset
      <3>2. Cardinality(Unexpired(b)') \in Nat
        BY <3>1, FS_CardinalityType
      <3>3. QED
        BY <2>5, <2>6, <3>1, <3>2, WizardAssumption
    <2>9. QED
      BY <2>7, <2>8
  <1>3. CASE Step
    BY <1>1, <1>2, <1>3, OthersFade
  <1>4. CASE UNCHANGED vars
    BY <1>1, <1>4 DEF vars, Unexpired
  <1>5. QED
    BY <1>3, <1>4 DEF Next

\* An administrator's unexpired sessions never exceed the cap, whatever expires,
\* is swept or is sent (import-session.service.ts create).
THEOREM SessionsCappedHolds == Spec => []SessionsCapped
  <1>1. Init => CapInv
    <2> SUFFICES ASSUME Init, NEW a \in Admins
                 PROVE  IsFiniteSet(Unexpired(a)) /\ Cardinality(Unexpired(a)) <= MaxSessions
      BY DEF CapInv
    <2>1. Unexpired(a) = {}
      BY WizardAssumption DEF Init, Unexpired, NoSession
    <2>2. QED
      BY <2>1, FS_EmptySet, WizardAssumption
  <1>2. CapInv => SessionsCapped
    BY DEF CapInv, SessionsCapped
  <1>3. QED
    BY <1>1, <1>2, CapStep, Invariance, PTL DEF Spec
=============================================================================
