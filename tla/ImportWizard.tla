---------------------------- MODULE ImportWizard ----------------------------
(***************************************************************************)
(* The import wizard over the accounts: sessions kept in memory with a cap  *)
(* and a lifetime, the commit that creates the accounts, the mails that     *)
(* bring their passwords, and the older one-step import.  Which rows of a   *)
(* file are usable is ImportRows; here a file is the rows that are.         *)
(*                                                                         *)
(* A session is a JavaScript object: what runs between two awaits is one    *)
(* step, and it outlives neither its 30 minutes nor the server.             *)
(***************************************************************************)
EXTENDS Accounts

CONSTANTS
  Sessions,     \* ids for sessions: how many may be in memory at once
  MaxSessions,  \* MAX_SESSIONS_PER_ADMIN
  Admins,
  Files,        \* sets of rows [email, role, code]
  Jobs,         \* wizard requests in flight at once
  MaxInFlight   \* requests of either kind in flight at once, a bound

ASSUME WizardAssumption ==
  /\ Sessions \subseteq Nat
  /\ Jobs \subseteq Senders /\ Jobs \cap Requests = {}
  /\ MaxSessions \in Nat \ {0}
  /\ Files \subseteq SUBSET [email : Emails, role : Roles, code : Codes]
  /\ None \notin Admins \cup Sessions

VARIABLES
  session,  \* ImportSessionService.sessions
  job       \* wizard requests

vars == <<user, req, session, job>>

Row == [email : Emails, role : Roles, code : Codes]
Session ==
  [admin : Admins \cup {None},  \* None: not in the map
   rows : SUBSET Row, expired : BOOLEAN, committed : BOOLEAN, ids : SUBSET Ids]
NoSession == [admin |-> None, rows |-> {}, expired |-> FALSE,
              committed |-> FALSE, ids |-> {}]
Job ==
  [op : {"idle", "insert", "send"}, session : Sessions \cup {None},
   rows : SUBSET Row,       \* still to insert
   ids : SUBSET Ids,        \* created so far, or still to be sent to
   mailing : SUBSET Ids,    \* password written, mail under way
   failed : BOOLEAN]        \* a row was gone: the request answers with an error
NoJob == [op |-> "idle", session |-> None, rows |-> {}, ids |-> {},
          mailing |-> {}, failed |-> FALSE]

TypeOK ==
  /\ AccountsTypeOK
  /\ session \in [Sessions -> Session]
  /\ job \in [Jobs -> Job]

Init ==
  /\ AccountsInit
  /\ session = [s \in Sessions |-> NoSession]
  /\ job = [j \in Jobs |-> NoJob]

InMap(s) == session[s].admin # None
Working(j, op) == job[j].op = op
Start(j, q) ==
  /\ Working(j, "idle")
  /\ job' = [job EXCEPT ![j] = q]
  /\ UNCHANGED <<user, req, session>>
Held == (UNION {job[j].ids \cup job[j].mailing : j \in Jobs})
        \cup (UNION {session[s].ids : s \in Sessions})

-----------------------------------------------------------------------------
(* Sessions come and go.                                                    *)

Unexpired(a) == {s \in Sessions : session[s].admin = a /\ ~session[s].expired}

\* Mutated form: one more than the limit.
BelowCapLoose(a) == Cardinality(Unexpired(a)) <= MaxSessions

BelowCap(a) == Cardinality(Unexpired(a)) < MaxSessions

\* parseImport ends in create, which runs without an await.
ParseImport(a, file) ==
  /\ BelowCap(a)
  /\ \E s \in Sessions :
       /\ ~InMap(s) /\ \A j \in Jobs : job[j].session # s
       /\ \A z \in Sessions : ~InMap(z) /\ (\A j \in Jobs : job[j].session # z)
                                => s <= z
       /\ session' = [session EXCEPT ![s] =
            [NoSession EXCEPT !.admin = a, !.rows = file]]
  /\ UNCHANGED <<user, req, job>>

Lapse(s) ==
  /\ InMap(s) /\ ~session[s].expired
  /\ session' = [session EXCEPT ![s].expired = TRUE]
  /\ UNCHANGED <<user, req, job>>

\* sweep, or get on an expired session.
Discard(s) ==
  /\ InMap(s) /\ session[s].expired
  /\ session' = [session EXCEPT ![s] = NoSession]
  /\ user' = Give(session[s].ids, "lost")
  /\ UNCHANGED <<req, job>>

\* get: unknown, expired and somebody else's sessions are refused.
Got(s, a) == session[s].admin = a /\ ~session[s].expired

-----------------------------------------------------------------------------
(* commitImport and bulkImport.                                             *)

\* rejectTakenEmails.
NotTaken(rows) == {row \in rows : ~Taken(row.email)}

\* committed is read here and written by MarkCommitted.
CommitArrives(j, s, a) ==
  /\ Got(s, a)
  /\ ~session[s].committed
  /\ Start(j, [NoJob EXCEPT !.op = "insert", !.session = s,
                            !.rows = NotTaken(session[s].rows)])

BulkArrives(j, file) ==
  Start(j, [NoJob EXCEPT !.op = "insert", !.rows = NotTaken(file)])

\* insertAccountReturningId: each row a transaction of its own, five at a time
\* and in no order; a row an index refuses is reported and skipped.
InsertRow(j, held) ==
  /\ Working(j, "insert") /\ HasFreeId(held)
  /\ \E row \in job[j].rows :
       LET i == FreeId(held)
           new == NewRow(row.email, row.role, row.code) IN
       /\ IF Fits(i, new)
          THEN /\ user' = [user EXCEPT ![i] = new]
               /\ job' = [job EXCEPT ![j].rows = @ \ {row}, ![j].ids = @ \cup {i}]
          ELSE /\ job' = [job EXCEPT ![j].rows = @ \ {row}]
               /\ UNCHANGED <<user>>
  /\ UNCHANGED <<req, session>>

\* Mutated form: the ids are not kept.
MarkCommittedForgets(j) ==
  LET s == job[j].session IN
  /\ Working(j, "insert") /\ job[j].rows = {} /\ s # None
  /\ session' = [session EXCEPT ![s].committed = InMap(s)]
  /\ job' = [job EXCEPT ![j] = NoJob]
  /\ UNCHANGED <<user, req>>

\* After the audit entry; nothing happens when the session is gone, and the ids
\* of an earlier commit are overwritten.
MarkCommitted(j) ==
  LET s == job[j].session IN
  /\ Working(j, "insert") /\ job[j].rows = {} /\ s # None
  /\ IF InMap(s)
     THEN /\ session' = [session EXCEPT ![s].committed = TRUE, ![s].ids = job[j].ids]
          /\ user' = IF session[s].committed
                     THEN Give(session[s].ids \cup job[j].ids, "recommitted")
                     ELSE user
     ELSE /\ user' = Give(job[j].ids, "lost")
          /\ UNCHANGED session
  /\ job' = [job EXCEPT ![j] = NoJob]
  /\ UNCHANGED req

\* bulkImport knows the passwords it made and mails them at once.
BulkMails(j) ==
  LET mine == {i \in job[j].ids : user[i].mail = "due" /\ user[i].sender = None} IN
  /\ Working(j, "insert") /\ job[j].rows = {} /\ job[j].session = None
  /\ user' = [i \in Ids |->
       IF i \in mine THEN [user[i] EXCEPT !.sender = j] ELSE user[i]]
  /\ job' = [job EXCEPT ![j] = [NoJob EXCEPT !.op = "send", !.mailing = job[j].ids]]
  /\ UNCHANGED <<req, session>>

-----------------------------------------------------------------------------
(* sendImportEmails.                                                        *)

\* findMany finds the accounts that are still there.  emailsSent is never seen:
\* MarkEmailsSent sets it and deletes the session in one go.
SendArrives(j, s, a) ==
  /\ Got(s, a)
  /\ session[s].committed
  /\ Start(j, [NoJob EXCEPT !.op = "send", !.session = s,
                            !.ids = {i \in session[s].ids : Exists(i)}])

\* A fresh password for each, as the one that was hashed is known to nobody.
\* The update of an account that is gone makes the request fail; the other
\* workers go on.
Rewrite(j) ==
  /\ Working(j, "send")
  /\ \E i \in job[j].ids :
       IF Exists(i)
       THEN /\ user' = [user EXCEPT ![i].mail = "due", ![i].sender = j]
            /\ job' = [job EXCEPT ![j].ids = @ \ {i}, ![j].mailing = @ \cup {i}]
       ELSE /\ job' = [job EXCEPT ![j].ids = @ \ {i}, ![j].failed = TRUE]
            /\ UNCHANGED user
  /\ UNCHANGED <<req, session>>

Deliver(j) ==
  /\ Working(j, "send")
  /\ \E i \in job[j].mailing :
       /\ user' = Mailed(i, j)
       /\ job' = [job EXCEPT ![j].mailing = @ \ {i}]
  /\ UNCHANGED <<req, session>>

\* The session is deleted at once, which makes room for the next.
MarkEmailsSent(j) ==
  LET s == job[j].session IN
  /\ Working(j, "send") /\ job[j].ids = {} /\ job[j].mailing = {}
  /\ session' = IF s = None \/ job[j].failed THEN session
                ELSE [session EXCEPT ![s] = NoSession]
  /\ job' = [job EXCEPT ![j] = NoJob]
  /\ UNCHANGED <<user, req>>

-----------------------------------------------------------------------------
(* Failure.                                                                 *)

\* The request dies, for instance on its audit entry.
Abort(j) ==
  /\ ~Working(j, "idle")
  /\ user' = IF Working(j, "insert") THEN Give(job[j].ids, "lost") ELSE Dropped(j)
  /\ job' = [job EXCEPT ![j] = NoJob]
  /\ UNCHANGED <<req, session>>

\* The server restarts: requests and sessions were in its memory.
Restart ==
  /\ session' = [s \in Sessions |-> NoSession]
  /\ job' = [j \in Jobs |-> NoJob]
  /\ req' = [r \in Requests |-> Idle]
  /\ user' = [i \in Ids |-> [user[i] EXCEPT
       !.mail = IF @ = "due" THEN "lost" ELSE @, !.sender = None]]

InFlight == Cardinality({r \in Requests : ~Doing(r, "idle")})
              + Cardinality({j \in Jobs : ~Working(j, "idle")})

Step ==
  \/ AccountsNext(Held) /\ UNCHANGED <<session, job>>
  \/ \E a \in Admins, file \in Files : ParseImport(a, file)
  \/ \E s \in Sessions : Lapse(s) \/ Discard(s)
  \/ \E j \in Jobs :
       \/ \E s \in Sessions, a \in Admins : CommitArrives(j, s, a) \/ SendArrives(j, s, a)
       \/ \E file \in Files : BulkArrives(j, file)
       \/ InsertRow(j, Held \cup {req[r].id : r \in Requests})
       \/ MarkCommitted(j) \/ BulkMails(j)
       \/ Rewrite(j) \/ Deliver(j) \/ MarkEmailsSent(j)
       \/ Abort(j)
  \/ Restart

Next == Step /\ InFlight' <= MaxInFlight

Spec == Init /\ [][Next]_vars

-----------------------------------------------------------------------------
(* Properties.                                                              *)

\* No two accounts share an address or a code, whatever imports and single
\* creations overlap, and however often a file is committed.
AccountsDistinct ==
  \A i, k \in Ids : i # k /\ Exists(i) /\ Exists(k) => ~Clashes(user[i], user[k])

\* Every account can be used, and by one person: this is what imports, single
\* creations, updates and deletions have to leave, however they overlap.
AccountsSound == TypeOK /\ RoleHasProfile /\ AccountsDistinct

\* An administrator never has more unexpired sessions than the cap.
SessionsCapped == \A a \in Admins : Cardinality(Unexpired(a)) <= MaxSessions

\* The request that wrote account i's password is about to mail it.
AboutToMail(i) ==
  \/ \E r \in Requests : user[i].sender = r /\ Doing(r, "mail") /\ req[r].id = i
  \/ \E j \in Jobs : user[i].sender = j /\ i \in job[j].mailing

\* The password of an account nobody has been able to mail to is never simply
\* forgotten: a request is about to mail it, or a session in memory still lists
\* the account; if not, it was lost with a session, a request or the server, or
\* by a session that two requests committed at once (users.service.ts
\* commitImport, sendImportEmails).
NobodyForgotten ==
  \A i \in Ids : Exists(i) /\ user[i].mail = "due" =>
    \/ AboutToMail(i)
    \/ \E j \in Jobs : i \in job[j].ids
    \/ \E s \in Sessions : session[s].committed /\ i \in session[s].ids

\* As users.service.ts:426 has it, "a session can only be committed once".
\* Refuted: committed is read before the inserts are awaited and set after.
CommittedOnce == \A i \in Ids : user[i].mail # "recommitted"
=============================================================================
