------------------------------ MODULE Sessions ------------------------------
(***************************************************************************)
(* One account's way in: its password, the back-off after wrong ones, its   *)
(* refresh tokens and its reset links (AuthService), and what the office    *)
(* does to them (UsersService).  Accounts share none of these rows, so one  *)
(* account stands for each of them.                                         *)
(*                                                                         *)
(* A request is cut at every await.  Of a password only who chose it is     *)
(* kept; a caller knows the one in the row it was compared with, or not.    *)
(* An instant in the future is kept as the time left until it.              *)
(***************************************************************************)
EXTENDS Integers, FiniteSets, FiniteSetsExt

CONSTANTS
  Requests,      \* how many requests may be in flight at once
  Tokens,        \* ids for refresh_tokens: how many rows may stand at once
  Links,         \* ids for password_reset_tokens, likewise
  FreeAttempts,  \* FREE_PASSWORD_ATTEMPTS
  MaxDelay,      \* PASSWORD_BACKOFF_MAX_MS, in units of the first delay
  MaxFailures,   \* where the count stops being told apart
  None

ASSUME SessionsAssumption ==
  /\ IsFiniteSet(Requests) /\ IsFiniteSet(Tokens) /\ IsFiniteSet(Links)
  /\ Tokens \subseteq Nat /\ Links \subseteq Nat
  /\ FreeAttempts \in Nat /\ MaxDelay \in Nat \ {0}
  \* Past MaxFailures the delay has reached its ceiling.
  /\ MaxFailures \in Nat /\ MaxFailures > FreeAttempts
  /\ 2 ^ (MaxFailures - FreeAttempts - 1) >= MaxDelay
  \* A fact of arithmetic, for the proofs.
  /\ \A n \in 0..MaxFailures : 2 ^ n > 0
  /\ None \notin Nat

VARIABLES
  account,    \* the row of users
  token,      \* refresh_tokens
  link,       \* password_reset_tokens, those whose row is there
  req,        \* what each request in flight has read and does next
  strays,     \* history: sessions being opened when they were last revoked
  asked,      \* history: the most requests for a link that have been under way
              \* together since no link stood or one replaced all there were
  delayLost   \* history: the only delay owed was never written

vars == <<account, token, link, req, strays, asked, delayLost>>

AccountRow ==
  [exists : BOOLEAN, active : BOOLEAN,
   password : {"temporary", "chosen"}, mustChange : BOOLEAN,
   failed : 0..MaxFailures,
   retrySet : BOOLEAN,   \* passwordRetryAfter is not null
   wait : 0..MaxDelay]   \* the time left until it
\* A row is there or not; history: a session begun before the last revocation
\* is STALE.
TokenRow == {"NONE", "LIVE", "STALE"}

Ops == {"idle", "count", "delay", "clear", "write", "revoke", "rotate", "issue",
        "supersede", "spend"}
Request ==
  [op : Ops,
   change : BOOLEAN,             \* changePassword, not login
   delay : 0..MaxDelay, token : Tokens \cup {None},
   links : SUBSET Links, stale : BOOLEAN]
Idle == [op |-> "idle", change |-> FALSE, delay |-> 0, token |-> None,
         links |-> {}, stale |-> FALSE]

TypeOK ==
  /\ account \in AccountRow
  /\ token \in [Tokens -> TokenRow]
  /\ link \subseteq Links
  /\ req \in [Requests -> Request]
  /\ strays \in Nat /\ asked \in Nat
  /\ delayLost \in BOOLEAN

\* UsersService.create: a temporary password that has to be changed.
NewAccount ==
  [exists |-> TRUE, active |-> TRUE, password |-> "temporary",
   mustChange |-> TRUE, failed |-> 0, retrySet |-> FALSE, wait |-> 0]

Init ==
  /\ account = NewAccount
  /\ token = [t \in Tokens |-> "NONE"]
  /\ link = {}
  /\ req = [r \in Requests |-> Idle]
  /\ strays = 0
  /\ asked = 0
  /\ delayLost = FALSE

Doing(r, op) == req[r].op = op
Enter(r, q) ==
  /\ Doing(r, "idle")
  /\ req' = [req EXCEPT ![r] = q]
  /\ UNCHANGED <<account, token, link, strays, delayLost>>
Begin(r, q) == Enter(r, q) /\ UNCHANGED asked
Continue(r, op) == req' = [req EXCEPT ![r].op = op]
Finish(r) == req' = [req EXCEPT ![r] = Idle]

\* JwtStrategy.validate, on every request that is not public.
MayAct == account.exists /\ account.active

\* Ids are never handed out again: one that a request still holds is not free.
FreeTokens ==
  {t \in Tokens : token[t] = "NONE" /\ \A r \in Requests : req[r].token # t}
FreeLinks ==
  {l \in Links \ link : \A r \in Requests : l \notin req[r].links}

-----------------------------------------------------------------------------
(* Passwords: login and changePassword.                                     *)

\* passwordBackoffMs.
Backoff(failures) ==
  IF failures <= FreeAttempts THEN 0
  ELSE Min({2 ^ (failures - FreeAttempts - 1), MaxDelay})

NothingToClear == account.failed = 0 /\ ~account.retrySet

\* Where a comparison leads: clearFailedPasswords returns at once on a clean row.
AfterComparing(matches, proceed) ==
  IF ~matches THEN "count" ELSE IF NothingToClear THEN proceed ELSE "clear"

\* Mutated form: nobody waits for the delay.
LoginArrivesUnthrottled(r, right) ==
  /\ account.exists
  /\ Begin(r, [Idle EXCEPT
       !.op = AfterComparing(right /\ account.active, "issue")])

\* login.  A deactivated account is compared with the sentinel, which fails.
LoginArrives(r, right) ==
  /\ account.exists
  /\ account.wait = 0
  /\ Begin(r, [Idle EXCEPT
       !.op = AfterComparing(right /\ account.active, "issue")])

\* changePassword asks for the old password unless it was a temporary one.
ChangeArrives(r, right) ==
  /\ MayAct
  /\ account.mustChange \/ account.wait = 0
  /\ Begin(r, [Idle EXCEPT !.change = TRUE, !.op =
       IF account.mustChange THEN "write" ELSE AfterComparing(right, "write")])

\* recordFailedPassword, its first statement.
CountFailure(r) ==
  LET failures == Min({account.failed + 1, MaxFailures}) IN
  /\ Doing(r, "count") /\ account.exists
  /\ account' = [account EXCEPT !.failed = failures]
  /\ req' = [req EXCEPT ![r] = IF Backoff(failures) = 0 THEN Idle
               ELSE [Idle EXCEPT !.op = "delay", !.delay = Backoff(failures)]]
  /\ UNCHANGED <<token, link, strays, asked, delayLost>>

\* Its second statement: the last writer wins.
WriteDelay(r) ==
  /\ Doing(r, "delay") /\ account.exists
  /\ account' = [account EXCEPT !.retrySet = TRUE, !.wait = req[r].delay]
  /\ delayLost' = FALSE
  /\ Finish(r)
  /\ UNCHANGED <<token, link, strays, asked>>

ClearFailures(r) ==
  /\ Doing(r, "clear") /\ account.exists
  /\ account' = [account EXCEPT !.failed = 0, !.retrySet = FALSE, !.wait = 0]
  /\ delayLost' = FALSE
  /\ Continue(r, IF req[r].change THEN "write" ELSE "issue")
  /\ UNCHANGED <<token, link, strays, asked>>

WritePassword(r) ==
  /\ Doing(r, "write") /\ account.exists
  /\ account' = [account EXCEPT !.password = "chosen", !.mustChange = FALSE]
  /\ Continue(r, "revoke")
  /\ UNCHANGED <<token, link, strays, asked, delayLost>>

-----------------------------------------------------------------------------
(* Sessions: refresh tokens are issued, exchanged and revoked.              *)

\* The caller has shown a password or a token and has no new token yet.
Proven(r) == req[r].op \in {"clear", "write", "revoke", "issue"}

TokensGone == [t \in Tokens |-> "NONE"]

\* refreshToken.deleteMany.  Sessions being opened at this moment, the caller's
\* own aside, outlive it.
DropTokens(own) ==
  LET late == {r \in Requests \ own : Proven(r)} IN
  /\ token' = TokensGone
  /\ strays' = Cardinality(late)
  /\ req' = [r \in Requests |->
       IF r \in late THEN [req[r] EXCEPT !.stale = TRUE] ELSE
       IF r \in own THEN [req[r] EXCEPT !.stale = FALSE, !.op = "issue"]
       ELSE req[r]]

RevokeOwn(r) ==
  /\ Doing(r, "revoke")
  /\ DropTokens({r})
  /\ UNCHANGED <<account, link, asked, delayLost>>

Logout ==
  /\ MayAct
  /\ DropTokens({})
  /\ UNCHANGED <<account, link, asked, delayLost>>

\* refreshTokens: the token is in the table and has not expired.  An expired
\* one may be presented or not, so expiry needs no state of its own.
RefreshArrives(r, t) ==
  /\ token[t] # "NONE"
  /\ Begin(r, [Idle EXCEPT !.op = "rotate", !.token = t,
                            !.stale = token[t] = "STALE"])

\* An expired one is deleted and refused.
RefreshExpired(t) ==
  /\ token[t] # "NONE"
  /\ token' = [token EXCEPT ![t] = "NONE"]
  /\ UNCHANGED <<account, link, req, strays, asked, delayLost>>

\* Mutated form: deleteMany, which does not mind that the row is gone.
RotateUnguarded(r) ==
  /\ Doing(r, "rotate")
  /\ token' = [token EXCEPT ![req[r].token] = "NONE"]
  /\ req' = [req EXCEPT ![r].op = "issue", ![r].token = None]
  /\ UNCHANGED <<account, link, strays, asked, delayLost>>

\* delete by id fails when another request has taken the row.
Rotate(r) ==
  /\ Doing(r, "rotate")
  /\ token[req[r].token] # "NONE"
  /\ token' = [token EXCEPT ![req[r].token] = "NONE"]
  /\ req' = [req EXCEPT ![r].op = "issue", ![r].token = None]
  /\ UNCHANGED <<account, link, strays, asked, delayLost>>

\* generateTokenPair.  The row needs its account, which need not be active.
Issue(r) ==
  /\ Doing(r, "issue") /\ account.exists
  /\ FreeTokens # {}
  /\ token' = [token EXCEPT ![Min(FreeTokens)] =
       IF req[r].stale THEN "STALE" ELSE "LIVE"]
  /\ Finish(r)
  /\ UNCHANGED <<account, link, strays, asked, delayLost>>

-----------------------------------------------------------------------------
(* Reset links: forgotPassword and resetPassword.                           *)

Asking == {r \in Requests : Doing(r, "supersede")}

\* The transaction's deleteMany: it sees the links committed by now.
ForgotArrives(r) ==
  /\ MayAct
  /\ Enter(r, [Idle EXCEPT !.op = "supersede", !.links = link])
  /\ asked' = Max({asked, Cardinality(Asking) + 1})

\* Its create, and its commit.
Supersede(r) ==
  /\ Doing(r, "supersede") /\ account.exists
  /\ FreeLinks # {}
  /\ link' = (link \ req[r].links) \cup {Min(FreeLinks)}
  /\ asked' = IF link \subseteq req[r].links THEN Cardinality(Asking) ELSE asked
  /\ Finish(r)
  /\ UNCHANGED <<account, token, strays, delayLost>>

\* resetPassword: findLiveResetToken.  An expired link is one nobody presents.
ResetArrives(r, l) ==
  /\ MayAct
  /\ l \in link
  /\ Begin(r, [Idle EXCEPT !.op = "spend", !.links = {l}])

ResetWith(r, spent) ==
  /\ Doing(r, "spend") /\ account.exists
  /\ account' = [account EXCEPT !.password = "chosen", !.mustChange = FALSE]
  /\ link' = link \ spent
  /\ asked' = Cardinality(Asking)
  /\ token' = TokensGone
  /\ LET late == {x \in Requests : Proven(x)} IN
       /\ strays' = Cardinality(late)
       /\ req' = [x \in Requests |->
            IF x = r THEN Idle ELSE
            IF x \in late THEN [req[x] EXCEPT !.stale = TRUE] ELSE req[x]]
  /\ UNCHANGED delayLost

\* Mutated form: the link is spent, its siblings are not.
SpendOnlyThis(r) == ResetWith(r, req[r].links)

\* The transaction does not look whether the link is still there.
Spend(r) == ResetWith(r, link)

-----------------------------------------------------------------------------
(* The office: users.resetPassword, remove, update and hardDelete.          *)

\* Mutated form: the flag is left to the account's owner.
AdminResetUnmarked ==
  /\ account.exists
  /\ account' = [account EXCEPT !.password = "temporary"]
  /\ DropTokens({})
  /\ UNCHANGED <<link, asked, delayLost>>

AdminReset ==
  /\ account.exists
  /\ account' = [account EXCEPT !.password = "temporary", !.mustChange = TRUE]
  /\ DropTokens({})
  /\ UNCHANGED <<link, asked, delayLost>>

Deactivate ==
  /\ MayAct
  /\ account' = [account EXCEPT !.active = FALSE]
  /\ DropTokens({})
  /\ UNCHANGED <<link, asked, delayLost>>

\* update with isActive: the tokens stay.
SetActive(b) ==
  /\ account.exists /\ account.active # b
  /\ account' = [account EXCEPT !.active = b]
  /\ UNCHANGED <<token, link, req, strays, asked, delayLost>>

\* Tokens and links go with the row.  What may keep the row is in Accounts.
HardDelete ==
  /\ account.exists
  /\ account' = [NewAccount EXCEPT !.exists = FALSE, !.active = FALSE]
  /\ token' = TokensGone
  /\ link' = {}
  /\ asked' = Cardinality(Asking)
  /\ UNCHANGED <<req, strays, delayLost>>

-----------------------------------------------------------------------------
(* Time and failure.                                                        *)

Tick ==
  /\ account.wait > 0
  /\ account' = [account EXCEPT !.wait = @ - 1]
  /\ UNCHANGED <<token, link, req, strays, asked, delayLost>>

\* A statement fails, a row is gone or the server dies: what was written stays.
GiveUp(r) ==
  /\ ~Doing(r, "idle")
  /\ delayLost' = (delayLost \/ (Doing(r, "delay") /\ ~account.retrySet))
  /\ Finish(r)
  /\ asked' = IF link = {} THEN Cardinality(Asking \ {r}) ELSE asked
  /\ UNCHANGED <<account, token, link, strays>>

Progress(r) ==
  \/ CountFailure(r) \/ WriteDelay(r) \/ ClearFailures(r) \/ WritePassword(r)
  \/ RevokeOwn(r) \/ Rotate(r) \/ Issue(r)
  \/ Supersede(r) \/ Spend(r)

Next ==
  \/ \E r \in Requests :
       \/ \E right \in BOOLEAN : LoginArrives(r, right) \/ ChangeArrives(r, right)
       \/ \E t \in Tokens : RefreshArrives(r, t)
       \/ ForgotArrives(r)
       \/ \E l \in Links : ResetArrives(r, l)
       \/ Progress(r) \/ GiveUp(r)
  \/ Logout
  \/ AdminReset \/ Deactivate \/ (\E b \in BOOLEAN : SetActive(b)) \/ HardDelete
  \/ Tick
  \/ \E t \in Tokens : RefreshExpired(t)

Spec == Init /\ [][Next]_vars

\* Time passes whatever requests do.
FairSpec == Spec /\ WF_vars(Tick)

-----------------------------------------------------------------------------
(* Properties.                                                              *)

\* A logout, a password change or reset and a deactivation end every session
\* but those being opened at that moment, and each of these carries on as one:
\* sessions begun before the last revocation, alive or being opened, are never
\* more than the requests that were under way when it happened, however many
\* requests present one refresh token at once.
StraysBounded ==
  Cardinality({t \in Tokens : token[t] = "STALE"})
    + Cardinality({r \in Requests : Proven(r) /\ req[r].stale}) <= strays

\* "Requesting five resets should leave one way in, not five" (forgotPassword):
\* several links stand only if as many requests for one were under way together,
\* since each spares the links its deleteMany was too early for and nothing
\* else, and a link that is used takes its siblings along, so that a reset
\* leaves no more links to come than requests it overlapped.
LinksBounded == Cardinality(link) <= asked

\* Whoever writes the password last, the owner is sent to choose a new one
\* exactly when the office wrote it: changePassword, resetPassword and the
\* office's reset may overlap in any way.
TemporaryMarked == account.mustChange <=> account.password = "temporary"

\* More failures than are free never stand without their delay, unless the
\* request that owes it is still at work or has died: no success that overlaps
\* takes the delay and leaves the count.
BackoffStanding ==
  account.failed > FreeAttempts =>
    account.retrySet \/ delayLost \/ \E r \in Requests : Doing(r, "delay")

\* The account's row tells the truth about its password and its failures,
\* whatever statements of several requests have written it.
AccountSound == TypeOK /\ TemporaryMarked /\ BackoffStanding

\* A delay comes to an end, so the owner gets to try: failures that were let in
\* before it began may prolong it, later ones are refused.
BackoffEnds == account.wait > 0 ~> account.wait = 0

\* What the comment on recordFailedPassword claims of concurrent failures: the
\* last to write its instant writes the longest.  Refuted.
StragglerWritesLongest ==
  [][\A r \in Requests : WriteDelay(r) => account'.wait >= account.wait]_vars
=============================================================================
