--------------------------- MODULE SessionsProofs ---------------------------
(***************************************************************************)
(* Sessions.tla for any number of requests, tokens and links, any free      *)
(* attempts and any longest delay: the account's row tells the truth about  *)
(* its password and its failures, a revocation ends every session but those *)
(* being opened, and reset links stand only where requests overlapped.      *)
(***************************************************************************)
EXTENDS Sessions, FiniteSetTheorems, WellFoundedInduction, TLAPS

Stale == {t \in Tokens : token[t] = "STALE"}
Late == {r \in Requests : Proven(r) /\ req[r].stale}

\* Of the token a request exchanges it knows what the row still says.
KnowsItsToken ==
  \A r \in Requests : Doing(r, "rotate") =>
    /\ req[r].token \in Tokens
    /\ token[req[r].token] # "NONE" =>
         (req[r].stale <=> token[req[r].token] = "STALE")

IInv == AccountSound /\ KnowsItsToken /\ StraysBounded

-----------------------------------------------------------------------------
(* The operators.                                                           *)

LEMMA MinOfTwo ==
  ASSUME NEW a \in Int, NEW b \in Int
  PROVE  Min({a, b}) = IF a <= b THEN a ELSE b
  BY DEF Min

LEMMA MaxOfTwo ==
  ASSUME NEW a \in Int, NEW b \in Int
  PROVE  Max({a, b}) = IF a >= b THEN a ELSE b
  BY DEF Max

\* An id is found when one is free.
LEMMA LeastOfSome ==
  ASSUME NEW ids \in SUBSET Nat, ids # {}
  PROVE  Min(ids) \in ids
  <1> DEFINE less == OpToRel(<, Nat)
  <1>0. less = {pair \in Nat \X Nat : pair[1] < pair[2]}
    BY Zenon DEF OpToRel
  <1>1. IsWellFoundedOn(less, Nat)
    BY NatLessThanWellFounded
  <1> HIDE DEF less
  <1>2. PICK n \in ids : \A m \in ids : <<m, n>> \notin less
    BY <1>1, WFMin
  <1>3. ASSUME NEW m \in ids
        PROVE  n <= m
    <2>1. m \in Nat /\ n \in Nat
      OBVIOUS
    <2>2. m < n => <<m, n>> \in less
      BY <1>0, <2>1, Zenon
    <2>3. QED
      BY <1>2, <2>1, <2>2
  <1>4. QED
    BY <1>3 DEF Min

\* passwordBackoffMs stays below its ceiling and is never zero past the free
\* attempts.
LEMMA BackoffBounds ==
  ASSUME NEW n \in 0..MaxFailures
  PROVE  /\ Backoff(n) \in 0..MaxDelay
         /\ Backoff(n) = 0 <=> n <= FreeAttempts
  <1>1. CASE n <= FreeAttempts
    BY <1>1, SessionsAssumption DEF Backoff
  <1>2. CASE n > FreeAttempts
    <2> DEFINE k == n - FreeAttempts - 1
    <2>1. k \in 0..MaxFailures
      BY <1>2, SessionsAssumption
    <2>2. 2 ^ k > 0 /\ 2 ^ k \in Int
      BY <2>1, SessionsAssumption
    <2>3. Min({2 ^ k, MaxDelay}) = IF 2 ^ k <= MaxDelay THEN 2 ^ k ELSE MaxDelay
      BY <2>2, MinOfTwo, SessionsAssumption
    <2>4. Backoff(n) = Min({2 ^ k, MaxDelay})
      BY <1>2, SessionsAssumption DEF Backoff
    <2> HIDE DEF k
    <2>5. QED
      BY <1>2, <2>2, <2>3, <2>4, SessionsAssumption
  <1>3. QED
    BY <1>1, <1>2, SessionsAssumption

\* One more failure, as far as it is told apart.
LEMMA OneMoreFailure ==
  ASSUME NEW n \in 0..MaxFailures
  PROVE  Min({n + 1, MaxFailures}) \in 0..MaxFailures
  BY MinOfTwo, SessionsAssumption

LEMMA AskingCounted == IsFiniteSet(Asking) /\ Cardinality(Asking) \in Nat
  BY FS_Subset, FS_CardinalityType, SessionsAssumption DEF Asking

LEMMA OneLessAsking ==
  ASSUME NEW r \in Requests
  PROVE  /\ IsFiniteSet(Asking \ {r}) /\ Cardinality(Asking \ {r}) \in Nat
         /\ Cardinality(Asking \ {r}) =
              IF r \in Asking THEN Cardinality(Asking) - 1 ELSE Cardinality(Asking)
  BY AskingCounted, FS_RemoveElement, FS_CardinalityType

LEMMA MoreAsked ==
  ASSUME asked \in Nat
  PROVE  /\ Max({asked, Cardinality(Asking) + 1}) \in Nat
         /\ Max({asked, Cardinality(Asking) + 1}) >= asked
         /\ Max({asked, Cardinality(Asking) + 1}) >= Cardinality(Asking) + 1
  BY AskingCounted, MaxOfTwo

LEMMA LeastFreeLink == FreeLinks # {} => Min(FreeLinks) \in FreeLinks
  <1>1. FreeLinks \in SUBSET Nat
    BY SessionsAssumption DEF FreeLinks
  <1>2. QED
    BY <1>1, LeastOfSome

LEMMA Finite ==
  /\ IsFiniteSet(Stale) /\ IsFiniteSet(Late)
  /\ Cardinality(Stale) \in Nat /\ Cardinality(Late) \in Nat
  <1>1. Stale \subseteq Tokens /\ Late \subseteq Requests
    BY DEF Stale, Late
  <1>2. IsFiniteSet(Stale) /\ IsFiniteSet(Late)
    BY <1>1, FS_Subset, SessionsAssumption
  <1>3. QED
    BY <1>2, FS_CardinalityType

LEMMA FiniteNext ==
  /\ IsFiniteSet(Stale') /\ IsFiniteSet(Late')
  /\ Cardinality(Stale') \in Nat /\ Cardinality(Late') \in Nat
  <1>1. Stale' \subseteq Tokens /\ Late' \subseteq Requests
    BY DEF Stale, Late
  <1>2. IsFiniteSet(Stale') /\ IsFiniteSet(Late')
    BY <1>1, FS_Subset, SessionsAssumption
  <1>3. QED
    BY <1>2, FS_CardinalityType

LEMMA StraysCounted == StraysBounded <=> Cardinality(Stale) + Cardinality(Late) <= strays
  BY DEF StraysBounded, Stale, Late

LEMMA StraysCountedNext ==
  StraysBounded' <=> Cardinality(Stale') + Cardinality(Late') <= strays'
  BY DEF StraysBounded, Stale, Late

\* The bound survives whatever opens no session.
LEMMA FewerStrays ==
  ASSUME StraysBounded, strays \in Nat, strays' = strays,
         Stale' \subseteq Stale, Late' \subseteq Late
  PROVE  StraysBounded'
  <1>1. Cardinality(Stale') <= Cardinality(Stale) /\ Cardinality(Late') <= Cardinality(Late)
    BY Finite, FS_Subset
  <1>2. QED
    BY <1>1, Finite, FiniteNext, StraysCounted, StraysCountedNext

\* After a revocation the sessions being opened are all there are.
LEMMA OnlyLateStrays ==
  ASSUME NEW late \in SUBSET Requests,
         Stale' = {}, Late' \subseteq late, strays' = Cardinality(late)
  PROVE  StraysBounded' /\ strays' \in Nat
  <1>1. Cardinality(Stale') = 0
    BY FS_EmptySet
  <1>2. IsFiniteSet(late)
    BY FS_Subset, SessionsAssumption
  <1>3. Cardinality(Late') <= Cardinality(late) /\ Cardinality(late) \in Nat
    BY <1>2, FS_Subset, FS_CardinalityType
  <1>4. QED
    BY <1>1, <1>3, FiniteNext, StraysCountedNext

-----------------------------------------------------------------------------
(* The steps, first what they do to the request.                            *)

LEMMA Limits ==
  /\ MaxDelay \in Nat \ {0} /\ MaxFailures \in Nat /\ FreeAttempts \in Nat
  /\ Tokens \subseteq Nat /\ Links \subseteq Nat /\ None \notin Nat
  BY SessionsAssumption

LEMMA IdleTyped ==
  /\ Idle \in Request
  /\ Idle.op = "idle" /\ ~Idle.stale
  BY Limits DEF Idle, Request, Ops

LEMMA LeadsTyped ==
  ASSUME NEW matches, NEW proceed \in {"issue", "write"}
  PROVE  AfterComparing(matches, proceed) \in {"count", "clear", "issue", "write"}
  BY DEF AfterComparing

\* A request that begins with nothing in hand but, perhaps, links.
LEMMA EnterStep ==
  ASSUME IInv, NEW r \in Requests, NEW q \in Request, Enter(r, q), asked' \in Nat,
         q.op # "delay", ~q.stale, q.op # "rotate"
  PROVE  IInv'
  <1>1. TypeOK'
    BY DEF IInv, AccountSound, TypeOK, Enter
  <1>2. TemporaryMarked'
    BY DEF IInv, AccountSound, TemporaryMarked, Enter
  <1>3. BackoffStanding'
    BY DEF IInv, AccountSound, TypeOK, BackoffStanding, Enter, Doing
  <1>4. KnowsItsToken'
    BY DEF IInv, AccountSound, TypeOK, KnowsItsToken, Enter, Doing
  <1>5. StraysBounded'
    <2>1. Stale' = Stale
      BY DEF Stale, Enter
    <2>2. Late' \subseteq Late
      BY DEF Late, Enter, Proven, IInv, AccountSound, TypeOK
    <2>3. QED
      BY <2>1, <2>2, FewerStrays DEF Enter, IInv, AccountSound, TypeOK
  <1>6. QED
    BY <1>1, <1>2, <1>3, <1>4, <1>5 DEF IInv, AccountSound

\* deleteMany of the refresh tokens: what is being opened is counted.
LEMMA DropStep ==
  ASSUME IInv, NEW own \in SUBSET Requests, DropTokens(own),
         \A r \in own : Doing(r, "revoke")
  PROVE  /\ token' \in [Tokens -> TokenRow] /\ req' \in [Requests -> Request]
         /\ StraysBounded' /\ strays' \in Nat
         /\ KnowsItsToken'
         /\ \A r \in Requests : Doing(r, "delay") => Doing(r, "delay")'
  <1> DEFINE late == {r \in Requests \ own : Proven(r)}
  <1>1. req' \in [Requests -> Request]
    <2>1. ASSUME NEW r \in Requests
          PROVE  /\ req[r] \in Request
                 /\ [req[r] EXCEPT !.stale = TRUE] \in Request
                 /\ [req[r] EXCEPT !.stale = FALSE, !.op = "issue"] \in Request
      BY DEF IInv, AccountSound, TypeOK, Request, Ops
    <2>2. QED
      BY <2>1, Zenon DEF DropTokens
  <1>2. token' = TokensGone /\ \A t \in Tokens : token'[t] = "NONE"
    BY DEF DropTokens, TokensGone
  <1>3. token' \in [Tokens -> TokenRow]
    BY <1>2 DEF TokensGone, TokenRow
  <1>4. Stale' = {}
    BY <1>2 DEF Stale
  <1>5. Late' \subseteq late
    <2> SUFFICES ASSUME NEW r \in Requests, Proven(r)', req'[r].stale
                 PROVE  r \in late
      BY DEF Late
    <2>1. req'[r] = IF r \in late THEN [req[r] EXCEPT !.stale = TRUE] ELSE
                    IF r \in own THEN [req[r] EXCEPT !.stale = FALSE, !.op = "issue"]
                    ELSE req[r]
      BY DEF DropTokens
    <2>2. r \notin own
      BY <2>1 DEF IInv, AccountSound, TypeOK, Request
    <2>3. r \notin late => req'[r] = req[r] /\ ~Proven(r)
      BY <2>1, <2>2
    <2>4. QED
      BY <2>3 DEF Proven
  <1>6. strays' = Cardinality(late)
    BY DEF DropTokens
  <1>7. StraysBounded' /\ strays' \in Nat
    <2> HIDE DEF late
    <2>1. late \in SUBSET Requests
      BY DEF late
    <2>2. QED
      BY <1>4, <1>5, <1>6, <2>1, OnlyLateStrays
  <1>8. \A r \in Requests : req'[r].token = req[r].token
    BY DEF DropTokens, IInv, AccountSound, TypeOK, Request
  <1>9. \A r \in Requests : Doing(r, "rotate")' => Doing(r, "rotate")
    BY DEF DropTokens, IInv, AccountSound, TypeOK, Request, Doing
  <1>10. KnowsItsToken'
    BY <1>2, <1>8, <1>9 DEF KnowsItsToken, IInv
  <1>11. \A r \in Requests : Doing(r, "delay") => Doing(r, "delay")'
    BY DEF DropTokens, IInv, AccountSound, TypeOK, Request, Doing
  <1>12. QED
    BY <1>1, <1>3, <1>7, <1>10, <1>11

\* Nothing touches the count of failures, its delay or who owes one.
LEMMA StandingKept ==
  ASSUME IInv,
         account'.failed = account.failed, account'.retrySet = account.retrySet,
         delayLost' = delayLost,
         \A r \in Requests : Doing(r, "delay") => Doing(r, "delay")'
  PROVE  BackoffStanding'
  BY DEF IInv, AccountSound, BackoffStanding

\* A step that changes in the account nothing but whether it is active and how
\* long it waits.
LEMMA QuietStep ==
  ASSUME IInv, UNCHANGED <<token, link, req, strays, asked, delayLost>>,
         account' \in AccountRow,
         account'.failed = account.failed, account'.retrySet = account.retrySet,
         account'.password = account.password, account'.mustChange = account.mustChange
  PROVE  IInv'
  <1>1. AccountSound'
    BY DEF IInv, AccountSound, TypeOK, TemporaryMarked, BackoffStanding, Doing
  <1>2. KnowsItsToken'
    BY DEF IInv, KnowsItsToken, Doing
  <1>3. StraysBounded'
    BY DEF IInv, StraysBounded, Proven
  <1>4. QED
    BY <1>1, <1>2, <1>3 DEF IInv

\* A request that takes its next step with nothing new to open.
LEMMA OwnStep ==
  ASSUME IInv, NEW r \in Requests, NEW q \in Request,
         req' = [req EXCEPT ![r] = q],
         token' = token, strays' = strays,
         q.op # "rotate",
         q.stale => req[r].stale /\ Proven(r)
  PROVE  KnowsItsToken' /\ StraysBounded'
  <1>1. KnowsItsToken'
    BY DEF IInv, AccountSound, TypeOK, KnowsItsToken, Doing
  <1>2. Stale' = Stale
    BY DEF Stale
  <1>3. Late' \subseteq Late
    BY DEF Late, Proven, IInv, AccountSound, TypeOK
  <1>4. StraysBounded'
    BY <1>2, <1>3, FewerStrays DEF IInv, AccountSound, TypeOK
  <1>5. QED
    BY <1>1, <1>4

-----------------------------------------------------------------------------
(* The steps of each component.                                             *)

\* Requests that arrive.
LEMMA ArrivalStep ==
  ASSUME IInv, NEW r \in Requests,
         \/ \E right \in BOOLEAN : LoginArrives(r, right) \/ ChangeArrives(r, right)
         \/ ForgotArrives(r)
         \/ \E l \in Links : ResetArrives(r, l)
         \/ \E t \in Tokens : RefreshArrives(r, t)
  PROVE  IInv'
  <1>1. ASSUME NEW right \in BOOLEAN, LoginArrives(r, right)
        PROVE  IInv'
    <2> DEFINE op == AfterComparing(right /\ account.active, "issue")
               q == [Idle EXCEPT !.op = op]
    <2>0. op \in {"count", "clear", "issue", "write"}
      BY LeadsTyped
    <2>1. q \in Request /\ q.op # "delay" /\ q.op # "rotate" /\ ~q.stale
      BY <2>0, IdleTyped DEF Request, Ops
    <2>2. Enter(r, q) /\ asked' \in Nat
      BY <1>1 DEF LoginArrives, Begin, IInv, AccountSound, TypeOK
    <2> HIDE DEF q
    <2>3. QED
      BY <2>1, <2>2, EnterStep
  <1>2. ASSUME NEW right \in BOOLEAN, ChangeArrives(r, right)
        PROVE  IInv'
    <2> DEFINE op == IF account.mustChange THEN "write"
                     ELSE AfterComparing(right, "write")
               q == [Idle EXCEPT !.change = TRUE, !.op = op]
    <2>0. op \in {"count", "clear", "issue", "write"}
      BY LeadsTyped
    <2>1. q \in Request /\ q.op # "delay" /\ q.op # "rotate" /\ ~q.stale
      BY <2>0, IdleTyped DEF Request, Ops
    <2>2. Enter(r, q) /\ asked' \in Nat
      BY <1>2 DEF ChangeArrives, Begin, IInv, AccountSound, TypeOK
    <2> HIDE DEF q
    <2>3. QED
      BY <2>1, <2>2, EnterStep
  <1>3. CASE ForgotArrives(r)
    <2> DEFINE q == [Idle EXCEPT !.op = "supersede", !.links = link]
    <2>1. q \in Request /\ q.op # "delay" /\ q.op # "rotate" /\ ~q.stale
      BY IdleTyped DEF Request, Ops, IInv, AccountSound, TypeOK
    <2>2. Enter(r, q) /\ asked' = Max({asked, Cardinality(Asking) + 1})
      BY <1>3 DEF ForgotArrives
    <2> HIDE DEF q
    <2>3. asked' \in Nat
      BY <2>2, MoreAsked DEF IInv, AccountSound, TypeOK
    <2>4. QED
      BY <2>1, <2>2, <2>3, EnterStep
  <1>4. ASSUME NEW l \in Links, ResetArrives(r, l)
        PROVE  IInv'
    <2> DEFINE q == [Idle EXCEPT !.op = "spend", !.links = {l}]
    <2>1. q \in Request /\ q.op # "delay" /\ q.op # "rotate" /\ ~q.stale
      BY IdleTyped DEF Request, Ops
    <2>2. Enter(r, q) /\ asked' \in Nat
      BY <1>4 DEF ResetArrives, Begin, IInv, AccountSound, TypeOK
    <2> HIDE DEF q
    <2>3. QED
      BY <2>1, <2>2, EnterStep
  <1>5. ASSUME NEW t \in Tokens, RefreshArrives(r, t)
        PROVE  IInv'
    <2> DEFINE q == [Idle EXCEPT !.op = "rotate", !.token = t,
                                 !.stale = token[t] = "STALE"]
    <2>1. q \in Request /\ q.op = "rotate" /\ q.token = t
            /\ (q.stale <=> token[t] = "STALE")
      BY IdleTyped DEF Request, Ops
    <2>2. Begin(r, q)
      BY <1>5 DEF RefreshArrives
    <2> HIDE DEF q
    <2>3. req' = [req EXCEPT ![r] = q] /\ Doing(r, "idle")
            /\ UNCHANGED <<account, token, link, strays, asked, delayLost>>
      BY <2>2 DEF Begin, Enter
    <2>4. AccountSound'
      BY <2>1, <2>3 DEF IInv, AccountSound, TypeOK, TemporaryMarked, BackoffStanding, Doing
    <2>5. KnowsItsToken'
      BY <2>1, <2>3 DEF IInv, AccountSound, TypeOK, KnowsItsToken, Doing
    <2>6. Stale' = Stale /\ Late' \subseteq Late
      BY <2>1, <2>3 DEF Stale, Late, Proven, IInv, AccountSound, TypeOK
    <2>7. StraysBounded'
      BY <2>3, <2>6, FewerStrays DEF IInv, AccountSound, TypeOK
    <2>8. QED
      BY <2>4, <2>5, <2>7 DEF IInv
  <1>6. QED
    BY <1>1, <1>2, <1>3, <1>4, <1>5

\* The statements of login and changePassword.
LEMMA PasswordStep ==
  ASSUME IInv, NEW r \in Requests,
         CountFailure(r) \/ WriteDelay(r) \/ ClearFailures(r) \/ WritePassword(r)
  PROVE  IInv'
  <1>1. CASE CountFailure(r)
    <2> DEFINE n == Min({account.failed + 1, MaxFailures})
               q == IF Backoff(n) = 0 THEN Idle
                    ELSE [Idle EXCEPT !.op = "delay", !.delay = Backoff(n)]
    <2>1. account.failed \in 0..MaxFailures /\ account \in AccountRow
      BY DEF IInv, AccountSound, TypeOK, AccountRow
    <2>2. n \in 0..MaxFailures
      BY <2>1, OneMoreFailure
    <2>3. /\ account' = [account EXCEPT !.failed = n]
          /\ req' = [req EXCEPT ![r] = q]
          /\ UNCHANGED <<token, link, strays, asked, delayLost>>
      BY <1>1 DEF CountFailure
    <2> HIDE DEF n
    <2>4. Backoff(n) \in 0..MaxDelay /\ (Backoff(n) = 0 <=> n <= FreeAttempts)
      BY <2>2, BackoffBounds
    <2>5. q \in Request /\ q.op # "rotate" /\ ~q.stale
      BY <2>4, IdleTyped DEF Idle, Request, Ops
    <2>6. q.op = "delay" \/ n <= FreeAttempts
      BY <2>4
    <2> HIDE DEF q
    <2>7. TypeOK'
      BY <2>1, <2>2, <2>3, <2>5 DEF IInv, AccountSound, TypeOK, AccountRow
    <2>8. TemporaryMarked'
      BY <2>1, <2>3 DEF IInv, AccountSound, TemporaryMarked, AccountRow
    <2>9. BackoffStanding'
      <3>1. account'.failed = n
        BY <2>1, <2>3 DEF AccountRow
      <3>2. CASE q.op = "delay"
        BY <2>3, <3>2 DEF BackoffStanding, Doing, IInv, AccountSound, TypeOK
      <3>3. CASE n <= FreeAttempts
        BY <2>2, <3>1, <3>3, SessionsAssumption DEF BackoffStanding
      <3>4. QED
        BY <2>6, <3>2, <3>3
    <2>10. KnowsItsToken' /\ StraysBounded'
      BY <2>3, <2>5, OwnStep
    <2>11. QED
      BY <2>7, <2>8, <2>9, <2>10 DEF IInv, AccountSound
  <1>2. CASE WriteDelay(r)
    <2>1. account \in AccountRow /\ req[r] \in Request
      BY DEF IInv, AccountSound, TypeOK
    <2>2. /\ account' = [account EXCEPT !.retrySet = TRUE, !.wait = req[r].delay]
          /\ req' = [req EXCEPT ![r] = Idle]
          /\ delayLost' = FALSE
          /\ UNCHANGED <<token, link, strays, asked>>
      BY <1>2 DEF WriteDelay, Finish
    <2>3. account' \in AccountRow /\ account'.retrySet = TRUE
      BY <2>1, <2>2 DEF AccountRow, Request
    <2>4. TypeOK'
      BY <2>2, <2>3, IdleTyped DEF IInv, AccountSound, TypeOK
    <2>5. TemporaryMarked'
      BY <2>1, <2>2 DEF IInv, AccountSound, TemporaryMarked, AccountRow
    <2>6. BackoffStanding'
      BY <2>3 DEF BackoffStanding
    <2>7. KnowsItsToken' /\ StraysBounded'
      BY <2>2, IdleTyped, OwnStep
    <2>8. QED
      BY <2>4, <2>5, <2>6, <2>7 DEF IInv, AccountSound
  <1>3. CASE ClearFailures(r)
    <2> DEFINE q == [req[r] EXCEPT !.op = IF req[r].change THEN "write" ELSE "issue"]
    <2>1. account \in AccountRow /\ req[r] \in Request
      BY DEF IInv, AccountSound, TypeOK
    <2>2. /\ account' = [account EXCEPT !.failed = 0, !.retrySet = FALSE, !.wait = 0]
          /\ req' = [req EXCEPT ![r] = q]
          /\ delayLost' = FALSE
          /\ UNCHANGED <<token, link, strays, asked>>
      BY <1>3 DEF ClearFailures, Continue
    <2>3. q \in Request /\ q.op # "rotate" /\ (q.stale <=> req[r].stale) /\ Proven(r)
      BY <1>3, <2>1 DEF ClearFailures, Doing, Proven, Request, Ops
    <2>4. account' \in AccountRow /\ account'.failed = 0
      <3>1. 0 \in 0..MaxFailures /\ 0 \in 0..MaxDelay
        BY Limits
      <3>2. QED
        BY <2>1, <2>2, <3>1 DEF AccountRow
    <2> HIDE DEF q
    <2>5. TypeOK'
      BY <2>2, <2>3, <2>4 DEF IInv, AccountSound, TypeOK
    <2>6. TemporaryMarked'
      BY <2>1, <2>2 DEF IInv, AccountSound, TemporaryMarked, AccountRow
    <2>7. BackoffStanding'
      BY <2>4, SessionsAssumption DEF BackoffStanding
    <2>8. KnowsItsToken' /\ StraysBounded'
      BY <2>2, <2>3, OwnStep
    <2>9. QED
      BY <2>5, <2>6, <2>7, <2>8 DEF IInv, AccountSound
  <1>4. CASE WritePassword(r)
    <2> DEFINE q == [req[r] EXCEPT !.op = "revoke"]
    <2>1. account \in AccountRow /\ req[r] \in Request
      BY DEF IInv, AccountSound, TypeOK
    <2>2. /\ account' = [account EXCEPT !.password = "chosen", !.mustChange = FALSE]
          /\ req' = [req EXCEPT ![r] = q]
          /\ UNCHANGED <<token, link, strays, asked, delayLost>>
      BY <1>4 DEF WritePassword, Continue
    <2>3. q \in Request /\ q.op # "rotate" /\ (q.stale <=> req[r].stale) /\ Proven(r)
      BY <1>4, <2>1 DEF WritePassword, Doing, Proven, Request, Ops
    <2>4. account' \in AccountRow /\ TemporaryMarked'
      BY <2>1, <2>2 DEF AccountRow, TemporaryMarked
    <2>5. BackoffStanding'
      <3>1. account'.failed = account.failed /\ account'.retrySet = account.retrySet
        BY <2>1, <2>2 DEF AccountRow
      <3>2. \A x \in Requests : Doing(x, "delay") => Doing(x, "delay")'
        BY <1>4, <2>2 DEF WritePassword, Doing, IInv, AccountSound, TypeOK
      <3>3. QED
        BY <2>2, <3>1, <3>2 DEF IInv, AccountSound, BackoffStanding
    <2> HIDE DEF q
    <2>6. TypeOK'
      BY <2>2, <2>3, <2>4 DEF IInv, AccountSound, TypeOK
    <2>7. KnowsItsToken' /\ StraysBounded'
      BY <2>2, <2>3, OwnStep
    <2>8. QED
      BY <2>4, <2>5, <2>6, <2>7 DEF IInv, AccountSound
  <1>5. QED
    BY <1>1, <1>2, <1>3, <1>4

\* Refresh tokens, exchanged and issued.
LEMMA TokenStep ==
  ASSUME IInv, NEW r \in Requests, RevokeOwn(r) \/ Rotate(r) \/ Issue(r)
  PROVE  IInv'
  <1>1. CASE RevokeOwn(r)
    <2>1. DropTokens({r}) /\ Doing(r, "revoke") /\ UNCHANGED <<account, link, asked, delayLost>>
      BY <1>1 DEF RevokeOwn
    <2>2. /\ token' \in [Tokens -> TokenRow] /\ req' \in [Requests -> Request]
          /\ StraysBounded' /\ strays' \in Nat /\ KnowsItsToken'
          /\ \A x \in Requests : Doing(x, "delay") => Doing(x, "delay")'
      BY <2>1, DropStep
    <2>3. AccountSound'
      BY <2>1, <2>2, StandingKept DEF IInv, AccountSound, TypeOK, TemporaryMarked
    <2>4. QED
      BY <2>1, <2>2, <2>3 DEF IInv
  <1>2. CASE Rotate(r)
    <2> DEFINE t == req[r].token
               q == [req[r] EXCEPT !.op = "issue", !.token = None]
    <2>1. /\ token' = [token EXCEPT ![t] = "NONE"]
          /\ req' = [req EXCEPT ![r] = q]
          /\ UNCHANGED <<account, link, strays, asked, delayLost>>
          /\ Doing(r, "rotate") /\ token[t] # "NONE"
      BY <1>2 DEF Rotate, IInv, AccountSound, TypeOK, Request
    <2>2. t \in Tokens /\ (req[r].stale <=> token[t] = "STALE")
      BY <2>1 DEF IInv, KnowsItsToken
    <2>3. req[r] \in Request
      BY DEF IInv, AccountSound, TypeOK
    <2>4. q \in Request /\ q.op = "issue" /\ (q.stale <=> req[r].stale)
      BY <2>3 DEF Request, Ops
    <2> HIDE DEF t, q
    <2>5. TypeOK'
      BY <2>1, <2>4 DEF IInv, AccountSound, TypeOK, TokenRow
    <2>6. TemporaryMarked'
      BY <2>1 DEF IInv, AccountSound, TemporaryMarked
    <2>7. BackoffStanding'
      BY <2>1, StandingKept DEF Doing, IInv, AccountSound, TypeOK
    <2>8. KnowsItsToken'
      BY <2>1, <2>2, <2>4 DEF IInv, AccountSound, TypeOK, KnowsItsToken, Doing
    <2>9. Stale' = Stale \ {t}
      BY <2>1, <2>2 DEF Stale, IInv, AccountSound, TypeOK
    <2>10. Late' \subseteq IF req[r].stale THEN Late \cup {r} ELSE Late
      BY <2>1, <2>4 DEF Late, Proven, IInv, AccountSound, TypeOK
    <2>11. StraysBounded'
      <3>1. CASE ~req[r].stale
        BY <2>1, <2>9, <2>10, <3>1, FewerStrays DEF IInv, AccountSound, TypeOK
      <3>2. CASE req[r].stale
        <4>1. t \in Stale
          BY <2>2, <3>2 DEF Stale
        <4>2. Cardinality(Stale') = Cardinality(Stale) - 1
          BY <2>9, <4>1, Finite, FS_RemoveElement
        <4>3. IsFiniteSet(Late \cup {r})
                /\ Cardinality(Late \cup {r}) \in {Cardinality(Late), Cardinality(Late) + 1}
          BY Finite, FS_AddElement
        <4>4. Cardinality(Late') <= Cardinality(Late \cup {r})
                /\ Cardinality(Late \cup {r}) \in Nat
          BY <2>10, <3>2, <4>3, FS_Subset, FS_CardinalityType
        <4>5. Cardinality(Stale) + Cardinality(Late) <= strays /\ strays' = strays
                /\ strays \in Nat
          BY <2>1, StraysCounted DEF IInv, AccountSound, TypeOK
        <4>6. QED
          BY <4>2, <4>3, <4>4, <4>5, Finite, FiniteNext, StraysCountedNext
      <3>3. QED
        BY <3>1, <3>2
    <2>12. QED
      BY <2>5, <2>6, <2>7, <2>8, <2>11 DEF IInv, AccountSound
  <1>3. CASE Issue(r)
    <2> DEFINE t == Min(FreeTokens)
               mark == IF req[r].stale THEN "STALE" ELSE "LIVE"
    <2>1. /\ token' = [token EXCEPT ![t] = mark]
          /\ req' = [req EXCEPT ![r] = Idle]
          /\ UNCHANGED <<account, link, strays, asked, delayLost>>
          /\ Doing(r, "issue")
      BY <1>3 DEF Issue, Finish
    <2>2. t \in FreeTokens
      <3>1. FreeTokens # {} /\ FreeTokens \in SUBSET Nat
        BY <1>3, SessionsAssumption DEF Issue, FreeTokens
      <3>2. QED
        BY <3>1, LeastOfSome
    <2> HIDE DEF t
    <2>3. t \in Tokens /\ token[t] = "NONE" /\ \A x \in Requests : req[x].token # t
      BY <2>2 DEF FreeTokens
    <2>4. TypeOK'
      BY <2>1, IdleTyped DEF IInv, AccountSound, TypeOK, TokenRow
    <2>5. TemporaryMarked'
      BY <2>1 DEF IInv, AccountSound, TemporaryMarked
    <2>6. BackoffStanding'
      BY <2>1, StandingKept DEF Doing, IInv, AccountSound, TypeOK
    <2>7. KnowsItsToken'
      BY <2>1, <2>3, IdleTyped DEF IInv, AccountSound, TypeOK, KnowsItsToken, Doing
    <2>8. Late' = Late \ {r}
      BY <2>1, IdleTyped DEF Late, Proven, IInv, AccountSound, TypeOK
    <2>9. Stale' = IF req[r].stale THEN Stale \cup {t} ELSE Stale
      BY <2>1, <2>3 DEF Stale, IInv, AccountSound, TypeOK
    <2>10. StraysBounded'
      <3>1. CASE ~req[r].stale
        BY <2>1, <2>8, <2>9, <3>1, FewerStrays DEF IInv, AccountSound, TypeOK
      <3>2. CASE req[r].stale
        <4>1. r \in Late /\ t \notin Stale
          BY <2>1, <2>3, <3>2 DEF Late, Stale, Proven, Doing
        <4>2. Cardinality(Stale') = Cardinality(Stale) + 1
          BY <2>9, <3>2, <4>1, Finite, FS_AddElement
        <4>3. Cardinality(Late') = Cardinality(Late) - 1
          BY <2>8, <4>1, Finite, FS_RemoveElement
        <4>4. Cardinality(Stale) + Cardinality(Late) <= strays /\ strays' = strays
                /\ strays \in Nat
          BY <2>1, StraysCounted DEF IInv, AccountSound, TypeOK
        <4>5. QED
          BY <4>2, <4>3, <4>4, Finite, FiniteNext, StraysCountedNext
      <3>3. QED
        BY <3>1, <3>2
    <2>11. QED
      BY <2>4, <2>5, <2>6, <2>7, <2>10 DEF IInv, AccountSound
  <1>4. QED
    BY <1>1, <1>2, <1>3

\* Reset links, asked for and used.
LEMMA LinkStep ==
  ASSUME IInv, NEW r \in Requests, Supersede(r) \/ Spend(r)
  PROVE  IInv'
  <1>1. CASE Supersede(r)
    <2>1. /\ req' = [req EXCEPT ![r] = Idle]
          /\ UNCHANGED <<account, token, strays, delayLost>>
          /\ asked' = Cardinality(Asking) \/ asked' = asked
          /\ Doing(r, "supersede")
      BY <1>1 DEF Supersede, Finish
    <2>2. link' \subseteq Links
      BY <1>1, LeastFreeLink DEF Supersede, FreeLinks, IInv, AccountSound, TypeOK
    <2>3. TypeOK'
      BY <2>1, <2>2, IdleTyped, AskingCounted DEF IInv, AccountSound, TypeOK
    <2>4. TemporaryMarked'
      BY <2>1 DEF IInv, AccountSound, TemporaryMarked
    <2>5. BackoffStanding'
      BY <2>1, StandingKept DEF Doing, IInv, AccountSound, TypeOK
    <2>6. KnowsItsToken' /\ StraysBounded'
      BY <2>1, IdleTyped, OwnStep
    <2>7. QED
      BY <2>3, <2>4, <2>5, <2>6 DEF IInv, AccountSound
  <1>2. CASE Spend(r)
    <2> DEFINE late == {x \in Requests : Proven(x)}
    <2>1. /\ Doing(r, "spend")
          /\ account' = [account EXCEPT !.password = "chosen", !.mustChange = FALSE]
          /\ link' = {} /\ asked' = Cardinality(Asking)
          /\ token' = TokensGone
          /\ strays' = Cardinality(late)
          /\ req' = [x \in Requests |->
               IF x = r THEN Idle ELSE
               IF x \in late THEN [req[x] EXCEPT !.stale = TRUE] ELSE req[x]]
          /\ UNCHANGED delayLost
      BY <1>2 DEF Spend, ResetWith
    <2>2. \A t \in Tokens : token'[t] = "NONE"
      BY <2>1 DEF TokensGone
    <2>3. link' \subseteq Links /\ asked' \in Nat
      BY <2>1, AskingCounted
    <2>4. req' \in [Requests -> Request]
      BY <2>1, IdleTyped DEF IInv, AccountSound, TypeOK, Request
    <2>5. \A x \in Requests : x # r => /\ req'[x].op = req[x].op
                                       /\ req'[x].token = req[x].token
      BY <2>1 DEF IInv, AccountSound, TypeOK, Request
    <2>6. req'[r] = Idle
      BY <2>1
    <2>7. account' \in AccountRow /\ TemporaryMarked'
      BY <2>1 DEF IInv, AccountSound, TypeOK, AccountRow, TemporaryMarked
    <2>8. StraysBounded' /\ strays' \in Nat
      <3>1. Stale' = {}
        BY <2>2 DEF Stale
      <3>2. Late' \subseteq late
        <4> SUFFICES ASSUME NEW x \in Requests, Proven(x)'
                     PROVE  Proven(x)
          BY DEF Late
        <4>1. CASE x = r
          BY <2>6, <4>1, IdleTyped DEF Proven
        <4>2. CASE x # r
          BY <2>5, <4>2 DEF Proven
        <4>3. QED
          BY <4>1, <4>2
      <3>3. late \in SUBSET Requests
        OBVIOUS
      <3>4. strays' = Cardinality(late)
        BY <2>1
      <3> HIDE DEF late
      <3>5. QED
        BY <3>1, <3>2, <3>3, <3>4, OnlyLateStrays
    <2>9. TypeOK'
      BY <2>1, <2>2, <2>3, <2>4, <2>7, <2>8 DEF IInv, AccountSound, TypeOK, TokensGone, TokenRow
    <2>10. BackoffStanding'
      <3>1. account'.failed = account.failed /\ account'.retrySet = account.retrySet
        BY <2>1 DEF IInv, AccountSound, TypeOK, AccountRow
      <3>2. \A x \in Requests : Doing(x, "delay") => Doing(x, "delay")'
        BY <2>1, <2>5 DEF Doing
      <3>3. QED
        BY <2>1, <3>1, <3>2, StandingKept
    <2>11. KnowsItsToken'
      BY <2>2, <2>5, <2>6, IdleTyped DEF KnowsItsToken, Doing, IInv
    <2>12. QED
      BY <2>7, <2>8, <2>9, <2>10, <2>11 DEF IInv, AccountSound
  <1>3. QED
    BY <1>1, <1>2

\* The office.
LEMMA OfficeStep ==
  ASSUME IInv,
         \/ Logout \/ AdminReset \/ Deactivate \/ HardDelete
         \/ \E b \in BOOLEAN : SetActive(b)
  PROVE  IInv'
  <1>1. ASSUME DropTokens({}), UNCHANGED <<link, asked, delayLost>>,
               account' \in AccountRow,
               account'.failed = account.failed, account'.retrySet = account.retrySet,
               TemporaryMarked'
        PROVE  IInv'
    <2>1. /\ token' \in [Tokens -> TokenRow] /\ req' \in [Requests -> Request]
          /\ StraysBounded' /\ strays' \in Nat /\ KnowsItsToken'
          /\ \A x \in Requests : Doing(x, "delay") => Doing(x, "delay")'
      BY <1>1, DropStep
    <2>2. AccountSound'
      BY <1>1, <2>1, StandingKept DEF IInv, AccountSound, TypeOK
    <2>3. QED
      BY <1>1, <2>1, <2>2 DEF IInv
  <1>2. account \in AccountRow /\ TemporaryMarked
    BY DEF IInv, AccountSound, TypeOK
  <1>3. CASE Logout
    BY <1>1, <1>2, <1>3 DEF Logout, TemporaryMarked
  <1>4. CASE AdminReset
    BY <1>1, <1>2, <1>4 DEF AdminReset, TemporaryMarked, AccountRow
  <1>5. CASE Deactivate
    BY <1>1, <1>2, <1>5 DEF Deactivate, TemporaryMarked, AccountRow
  <1>6. CASE HardDelete
    <2>1. /\ account' = [NewAccount EXCEPT !.exists = FALSE, !.active = FALSE]
          /\ token' = TokensGone
          /\ link' = {} /\ asked' = Cardinality(Asking)
          /\ UNCHANGED <<req, strays, delayLost>>
      BY <1>6 DEF HardDelete
    <2>2. 0 \in 0..MaxFailures /\ 0 \in 0..MaxDelay
      BY Limits
    <2>3. account' \in AccountRow /\ TemporaryMarked' /\ account'.failed = 0
      BY <2>1, <2>2 DEF NewAccount, AccountRow, TemporaryMarked
    <2>4. TypeOK'
      BY <2>1, <2>3, AskingCounted DEF IInv, AccountSound, TypeOK, TokensGone, TokenRow
    <2>5. BackoffStanding'
      BY <2>3, Limits DEF BackoffStanding
    <2>6. KnowsItsToken'
      BY <2>1 DEF KnowsItsToken, TokensGone, IInv, Doing
    <2>7. Stale' \subseteq Stale /\ Late' \subseteq Late
      BY <2>1 DEF Stale, Late, TokensGone, Proven
    <2>8. StraysBounded'
      BY <2>1, <2>7, FewerStrays DEF IInv, AccountSound, TypeOK
    <2>9. QED
      BY <2>3, <2>4, <2>5, <2>6, <2>8 DEF IInv, AccountSound
  <1>7. ASSUME NEW b \in BOOLEAN, SetActive(b)
        PROVE  IInv'
    <2>1. account' = [account EXCEPT !.active = b]
            /\ UNCHANGED <<token, link, req, strays, asked, delayLost>>
      BY <1>7 DEF SetActive
    <2>2. QED
      BY <1>2, <2>1, QuietStep DEF AccountRow
  <1>8. QED
    BY <1>3, <1>4, <1>5, <1>6, <1>7

\* Time and failure.
LEMMA TimeStep ==
  ASSUME IInv,
         \/ Tick
         \/ \E t \in Tokens : RefreshExpired(t)
         \/ \E r \in Requests : GiveUp(r)
  PROVE  IInv'
  <1>1. CASE Tick
    <2>1. account' = [account EXCEPT !.wait = @ - 1] /\ account.wait > 0
            /\ UNCHANGED <<token, link, req, strays, asked, delayLost>>
      BY <1>1 DEF Tick
    <2>2. account \in AccountRow
      BY DEF IInv, AccountSound, TypeOK
    <2>3. account.wait - 1 \in 0..MaxDelay
      BY <2>1, <2>2, Limits DEF AccountRow
    <2>4. QED
      BY <2>1, <2>2, <2>3, QuietStep DEF AccountRow
  <1>2. ASSUME NEW t \in Tokens, RefreshExpired(t)
        PROVE  IInv'
    <2>1. token' = [token EXCEPT ![t] = "NONE"]
            /\ UNCHANGED <<account, link, req, strays, asked, delayLost>>
      BY <1>2 DEF RefreshExpired
    <2>2. AccountSound'
      BY <2>1 DEF IInv, AccountSound, TypeOK, TokenRow, TemporaryMarked, BackoffStanding, Doing
    <2>3. KnowsItsToken'
      BY <2>1 DEF IInv, AccountSound, TypeOK, KnowsItsToken, Doing
    <2>4. Stale' \subseteq Stale /\ Late' \subseteq Late
      BY <2>1 DEF Stale, Late, Proven, IInv, AccountSound, TypeOK
    <2>5. StraysBounded'
      BY <2>1, <2>4, FewerStrays DEF IInv, AccountSound, TypeOK
    <2>6. QED
      BY <2>2, <2>3, <2>5 DEF IInv
  <1>3. ASSUME NEW r \in Requests, GiveUp(r)
        PROVE  IInv'
    <2>1. /\ delayLost' = (delayLost \/ (Doing(r, "delay") /\ ~account.retrySet))
          /\ req' = [req EXCEPT ![r] = Idle]
          /\ asked' = Cardinality(Asking \ {r}) \/ asked' = asked
          /\ UNCHANGED <<account, token, link, strays>>
      BY <1>3 DEF GiveUp, Finish
    <2>2. TypeOK'
      BY <2>1, IdleTyped, OneLessAsking DEF IInv, AccountSound, TypeOK
    <2>3. TemporaryMarked'
      BY <2>1 DEF IInv, AccountSound, TemporaryMarked
    <2>4. BackoffStanding'
      <3> SUFFICES ASSUME account.failed > FreeAttempts, ~account.retrySet, ~delayLost',
                          ~\E x \in Requests : Doing(x, "delay")'
                   PROVE  FALSE
        BY <2>1 DEF BackoffStanding
      <3>1. PICK x \in Requests : Doing(x, "delay")
        BY <2>1 DEF IInv, AccountSound, BackoffStanding
      <3>2. x # r
        BY <2>1, <3>1
      <3>3. Doing(x, "delay")'
        BY <2>1, <3>1, <3>2 DEF Doing, IInv, AccountSound, TypeOK
      <3>4. QED
        BY <3>3
    <2>5. KnowsItsToken' /\ StraysBounded'
      BY <2>1, IdleTyped, OwnStep
    <2>6. QED
      BY <2>2, <2>3, <2>4, <2>5 DEF IInv, AccountSound
  <1>4. QED
    BY <1>1, <1>2, <1>3

-----------------------------------------------------------------------------
(* The theorems.                                                            *)

LEMMA Initially == Init => IInv
  <1> SUFFICES ASSUME Init PROVE IInv
    OBVIOUS
  <1>1. 0 \in 0..MaxFailures /\ 0 \in 0..MaxDelay
    BY Limits
  <1>2. TypeOK
    BY <1>1, IdleTyped DEF Init, TypeOK, NewAccount, AccountRow, TokenRow
  <1>3. TemporaryMarked /\ BackoffStanding /\ KnowsItsToken
    BY Limits, IdleTyped DEF Init, NewAccount, TemporaryMarked, BackoffStanding,
       KnowsItsToken, Doing
  <1>4. Stale = {} /\ Late = {}
    BY IdleTyped DEF Init, Stale, Late, Proven
  <1>5. StraysBounded
    BY <1>4, FS_EmptySet, StraysCounted DEF Init
  <1>6. QED
    BY <1>2, <1>3, <1>5 DEF IInv, AccountSound

LEMMA Inductive == IInv /\ [Next]_vars => IInv'
  <1> SUFFICES ASSUME IInv, [Next]_vars PROVE IInv'
    OBVIOUS
  <1>1. CASE UNCHANGED vars
    <2>1. UNCHANGED <<account, token, link, req, strays, asked, delayLost>>
      BY <1>1 DEF vars
    <2>2. account \in AccountRow
      BY DEF IInv, AccountSound, TypeOK
    <2>3. QED
      BY <2>1, <2>2, QuietStep
  <1>2. CASE Next
    <2>1. ASSUME NEW r \in Requests, Progress(r)
          PROVE  IInv'
      BY <2>1, PasswordStep, TokenStep, LinkStep DEF Progress
    <2>2. QED
      BY <1>2, <2>1, ArrivalStep, OfficeStep, TimeStep DEF Next
  <1>3. QED
    BY <1>1, <1>2

\* What every overlap of login, refresh, logout, reset and the office's writes
\* keeps, dying requests included.
THEOREM SessionsInvariant == Spec => []IInv
  <1>1. Init => IInv
    BY Initially
  <1>2. IInv /\ [Next]_vars => IInv'
    BY Inductive
  <1>3. QED
    BY <1>1, <1>2, PTL DEF Spec

\* The account's row is well formed; a temporary password has to be changed and
\* no other one; failures past the free ones have their delay, are about to have
\* it, or lost it with a request that died (recordFailedPassword,
\* clearFailedPasswords, resetPassword).
THEOREM AccountSoundHolds == Spec => []AccountSound
  <1>1. IInv => AccountSound
    BY DEF IInv
  <1>2. QED
    BY <1>1, SessionsInvariant, PTL

\* A revocation ends every session but those being opened, and exchanging a
\* token, however often at once, never makes two of one (refreshTokens, logout,
\* changePassword, resetPassword).
THEOREM StraysBoundedHolds == Spec => []StraysBounded
  <1>1. IInv => StraysBounded
    BY DEF IInv
  <1>2. QED
    BY <1>1, SessionsInvariant, PTL

-----------------------------------------------------------------------------
(* Reset links.                                                             *)

\* The requests for a link whose deleteMany saw none of X.
Blind(X) == {r \in Asking : req[r].links \cap X = {}}

\* Any links that stand, with the requests that will spare them all: a request
\* that commits turns from one of these into one of those.
LinksInv == \A X \in SUBSET link : Cardinality(X) + Cardinality(Blind(X)) <= asked

LEMMA Counted ==
  ASSUME NEW X \in SUBSET Links
  PROVE  /\ IsFiniteSet(X) /\ Cardinality(X) \in Nat
         /\ IsFiniteSet(Blind(X)) /\ Cardinality(Blind(X)) \in Nat
         /\ IsFiniteSet(Blind(X)') /\ Cardinality(Blind(X)') \in Nat
  <1>1. Blind(X) \subseteq Requests /\ Blind(X)' \subseteq Requests
    BY DEF Blind, Asking
  <1>2. IsFiniteSet(X) /\ IsFiniteSet(Blind(X)) /\ IsFiniteSet(Blind(X)')
    BY <1>1, FS_Subset, SessionsAssumption
  <1>3. QED
    BY <1>2, FS_CardinalityType

\* No link more, no request for one more.
LEMMA FewerLinks ==
  ASSUME IInv, LinksInv, link' \subseteq link, asked' = asked,
         Asking' \subseteq Asking,
         \A r \in Asking' : req'[r].links = req[r].links
  PROVE  LinksInv'
  <1> SUFFICES ASSUME NEW X \in SUBSET link'
               PROVE  Cardinality(X) + Cardinality(Blind(X)') <= asked'
    BY DEF LinksInv
  <1>1. X \subseteq link /\ X \subseteq Links
    BY DEF IInv, AccountSound, TypeOK
  <1>2. Blind(X)' \subseteq Blind(X)
    BY DEF Blind
  <1>3. Cardinality(Blind(X)') <= Cardinality(Blind(X))
    BY <1>1, <1>2, Counted, FS_Subset
  <1>4. Cardinality(X) + Cardinality(Blind(X)) <= asked
    BY <1>1 DEF LinksInv
  <1>5. QED
    BY <1>1, <1>3, <1>4, Counted DEF IInv, AccountSound, TypeOK

\* The links are used up: those to come are those being made.
LEMMA NoLinks ==
  ASSUME link' = {}, NEW A \in SUBSET Requests, Asking' \subseteq A,
         asked' = Cardinality(A)
  PROVE  LinksInv'
  <1> SUFFICES ASSUME NEW X \in SUBSET link'
               PROVE  Cardinality(X) + Cardinality(Blind(X)') <= asked'
    BY DEF LinksInv
  <1>1. Cardinality(X) = 0 /\ X \subseteq Links
    BY FS_EmptySet
  <1>2. Blind(X)' \subseteq A
    BY DEF Blind
  <1>3. IsFiniteSet(A) /\ Cardinality(A) \in Nat
    BY FS_Subset, FS_CardinalityType, SessionsAssumption
  <1>4. Cardinality(Blind(X)') <= Cardinality(A)
    BY <1>2, <1>3, FS_Subset
  <1>5. QED
    BY <1>1, <1>3, <1>4, Counted

\* A request that is not to ask for a link, or no longer asks for one.
LEMMA OtherRequest ==
  ASSUME IInv, NEW r \in Requests, NEW q, q.op # "supersede",
         req' = [req EXCEPT ![r] = q]
  PROVE  /\ Asking' = Asking \ {r}
         /\ \A x \in Asking' : req'[x] = req[x]
  BY DEF Asking, Doing, IInv, AccountSound, TypeOK

\* It sees every link that stands, so only those without any count it.
LEMMA ForgotLinks ==
  ASSUME IInv, LinksInv, NEW r \in Requests, ForgotArrives(r)
  PROVE  LinksInv'
  <1> DEFINE q == [Idle EXCEPT !.op = "supersede", !.links = link]
  <1>1. /\ Doing(r, "idle") /\ req' = [req EXCEPT ![r] = q] /\ link' = link
        /\ asked' = Max({asked, Cardinality(Asking) + 1})
    BY DEF ForgotArrives, Enter
  <1>2. q.op = "supersede" /\ q.links = link
    BY DEF Idle
  <1> HIDE DEF q
  <1>3. r \notin Asking /\ Asking' = Asking \cup {r} /\ req'[r].links = link
    BY <1>1, <1>2 DEF Asking, Doing, IInv, AccountSound, TypeOK
  <1>4. \A x \in Asking : req'[x] = req[x]
    BY <1>1, <1>3 DEF IInv, AccountSound, TypeOK
  <1> SUFFICES ASSUME NEW X \in SUBSET link
               PROVE  Cardinality(X) + Cardinality(Blind(X)') <= asked'
    BY <1>1 DEF LinksInv
  <1>5. X \subseteq Links /\ asked \in Nat
    BY DEF IInv, AccountSound, TypeOK
  <1>6. asked' \in Nat /\ asked' >= asked /\ asked' >= Cardinality(Asking) + 1
    BY <1>1, <1>5, MoreAsked
  <1>7. CASE X = {}
    <2>1. Cardinality(X) = 0
      BY <1>7, FS_EmptySet
    <2>2. Blind(X)' \subseteq Asking \cup {r}
      BY <1>3 DEF Blind
    <2>3. IsFiniteSet(Asking \cup {r})
            /\ Cardinality(Asking \cup {r}) = Cardinality(Asking) + 1
      BY <1>3, AskingCounted, FS_AddElement
    <2>4. Cardinality(Blind(X)') <= Cardinality(Asking) + 1
      BY <2>2, <2>3, FS_Subset
    <2>5. QED
      BY <1>5, <1>6, <2>1, <2>4, AskingCounted, Counted
  <1>8. CASE X # {}
    <2>1. Blind(X)' \subseteq Blind(X)
      BY <1>3, <1>4, <1>8 DEF Blind
    <2>2. Cardinality(Blind(X)') <= Cardinality(Blind(X))
      BY <1>5, <2>1, Counted, FS_Subset
    <2>3. Cardinality(X) + Cardinality(Blind(X)) <= asked
      BY DEF LinksInv
    <2>4. QED
      BY <1>5, <1>6, <2>2, <2>3, Counted
  <1>9. QED
    BY <1>7, <1>8

\* What it saw goes, and of what it spares it was one of the blind.
LEMMA SupersedeLinks ==
  ASSUME IInv, LinksInv, NEW r \in Requests, Supersede(r)
  PROVE  LinksInv'
  <1> DEFINE l == Min(FreeLinks)
  <1>1. /\ Doing(r, "supersede") /\ req' = [req EXCEPT ![r] = Idle]
        /\ link' = (link \ req[r].links) \cup {l}
        /\ asked' = IF link \subseteq req[r].links THEN Cardinality(Asking) ELSE asked
        /\ l \in FreeLinks
    BY LeastFreeLink DEF Supersede, Finish
  <1> HIDE DEF l
  <1>2. /\ l \in Links /\ l \notin link /\ link \subseteq Links
        /\ r \in Asking /\ Asking' = Asking \ {r}
        /\ \A x \in Asking' : req'[x] = req[x]
    BY <1>1, IdleTyped, OtherRequest
       DEF FreeLinks, Asking, IInv, AccountSound, TypeOK
  <1> SUFFICES ASSUME NEW X \in SUBSET link'
               PROVE  Cardinality(X) + Cardinality(Blind(X)') <= asked'
    BY DEF LinksInv
  <1> DEFINE Y == X \ {l}
  <1>0. CASE link \subseteq req[r].links
    <2>1. Y = {} /\ X \subseteq Links
      BY <1>0, <1>1, <1>2
    <2>2. Cardinality(X) <= 1
      <3>1. IsFiniteSet(X) /\ Cardinality(X) \in Nat
        BY <2>1, Counted
      <3>2. Cardinality(Y) = IF l \in X THEN Cardinality(X) - 1 ELSE Cardinality(X)
        BY <3>1, FS_RemoveElement
      <3>3. Cardinality(Y) = 0
        BY <2>1, FS_EmptySet
      <3>4. QED
        BY <3>1, <3>2, <3>3
    <2>3. Blind(X)' \subseteq Asking \ {r}
      BY <1>2 DEF Blind
    <2>4. Cardinality(Blind(X)') <= Cardinality(Asking \ {r})
      BY <2>3, OneLessAsking, FS_Subset
    <2>5. Cardinality(Blind(X)') <= Cardinality(Asking) - 1
      BY <1>2, <2>4, OneLessAsking
    <2>6. QED
      BY <1>0, <1>1, <2>1, <2>2, <2>5, AskingCounted, Counted
  <1> SUFFICES ASSUME ~(link \subseteq req[r].links)
               PROVE  Cardinality(X) + Cardinality(Blind(X)') <= asked'
    BY <1>0
  <1>3. /\ Y \subseteq link \ req[r].links /\ Y \subseteq Links /\ X \subseteq Links
        /\ Cardinality(Y) + Cardinality(Blind(Y)) <= asked /\ asked \in Nat
    BY <1>1, <1>2 DEF LinksInv, IInv, AccountSound, TypeOK
  <1>4. r \in Blind(Y) /\ Blind(X)' \subseteq Blind(Y) \ {r}
    BY <1>2, <1>3 DEF Blind
  <1>5. Cardinality(Blind(Y) \ {r}) = Cardinality(Blind(Y)) - 1
          /\ IsFiniteSet(Blind(Y) \ {r})
    <2> HIDE DEF Y
    <2>1. IsFiniteSet(Blind(Y)) /\ Cardinality(Blind(Y)) \in Nat
      BY <1>3, Counted
    <2>2. QED
      BY <1>4, <2>1, FS_RemoveElement
  <1>6. Cardinality(Blind(X)') <= Cardinality(Blind(Y)) - 1
    <2>1. Blind(X)' \in SUBSET (Blind(Y) \ {r})
      BY <1>4
    <2>2. Cardinality(Blind(X)') <= Cardinality(Blind(Y) \ {r})
      BY <1>5, <2>1, FS_Subset
    <2>3. QED
      BY <1>5, <2>2
  <1>7. Cardinality(X) <= Cardinality(Y) + 1
    <2>1. IsFiniteSet(X) /\ Cardinality(X) \in Nat
      BY <1>3, Counted
    <2>2. Cardinality(Y) = IF l \in X THEN Cardinality(X) - 1 ELSE Cardinality(X)
      BY <2>1, FS_RemoveElement
    <2>3. QED
      BY <2>1, <2>2
  <1>8. QED
    BY <1>1, <1>3, <1>6, <1>7, Counted

\* Whatever else requests do adds no link and no request for one.
LEMMA LinksOfRequests ==
  ASSUME IInv, LinksInv, NEW r \in Requests,
         \/ \E right \in BOOLEAN : LoginArrives(r, right) \/ ChangeArrives(r, right)
         \/ \E t \in Tokens : RefreshArrives(r, t)
         \/ \E l \in Links : ResetArrives(r, l)
         \/ CountFailure(r) \/ WriteDelay(r) \/ ClearFailures(r) \/ WritePassword(r)
         \/ Rotate(r) \/ Issue(r)
  PROVE  LinksInv'
  <1>1. ASSUME NEW q, q.op # "supersede", req' = [req EXCEPT ![r] = q],
               UNCHANGED <<link, asked>>
        PROVE  LinksInv'
    BY <1>1, OtherRequest, FewerLinks
  <1>2. req[r] \in Request
    BY DEF IInv, AccountSound, TypeOK
  <1>3. ASSUME NEW matches, NEW proceed \in {"issue", "write"}
        PROVE  /\ AfterComparing(matches, proceed) # "supersede"
               /\ [Idle EXCEPT !.op = AfterComparing(matches, proceed)].op # "supersede"
    BY <1>3, LeadsTyped DEF Idle
  <1>4. ASSUME NEW right \in BOOLEAN, LoginArrives(r, right)
        PROVE  LinksInv'
    BY <1>1, <1>3, <1>4 DEF LoginArrives, Begin, Enter
  <1>5. ASSUME NEW right \in BOOLEAN, ChangeArrives(r, right)
        PROVE  LinksInv'
    <2> DEFINE op == IF account.mustChange THEN "write"
                     ELSE AfterComparing(right, "write")
               q == [Idle EXCEPT !.change = TRUE, !.op = op]
    <2>1. op # "supersede"
      BY <1>3
    <2>2. q.op # "supersede"
      BY <2>1 DEF Idle
    <2>3. req' = [req EXCEPT ![r] = q] /\ UNCHANGED <<link, asked>>
      BY <1>5 DEF ChangeArrives, Begin, Enter
    <2> HIDE DEF q
    <2>4. QED
      BY <1>1, <2>2, <2>3
  <1>6. ASSUME NEW t \in Tokens, RefreshArrives(r, t)
        PROVE  LinksInv'
    <2> DEFINE q == [Idle EXCEPT !.op = "rotate", !.token = t,
                                 !.stale = token[t] = "STALE"]
    <2>1. q.op = "rotate"
      BY DEF Idle
    <2>2. req' = [req EXCEPT ![r] = q] /\ UNCHANGED <<link, asked>>
      BY <1>6 DEF RefreshArrives, Begin, Enter
    <2> HIDE DEF q
    <2>3. QED
      BY <1>1, <2>1, <2>2
  <1>7. ASSUME NEW l \in Links, ResetArrives(r, l)
        PROVE  LinksInv'
    BY <1>1, <1>7 DEF ResetArrives, Begin, Enter, Idle
  <1>8. CASE CountFailure(r)
    <2> DEFINE n == Min({account.failed + 1, MaxFailures})
               q == IF Backoff(n) = 0 THEN Idle
                    ELSE [Idle EXCEPT !.op = "delay", !.delay = Backoff(n)]
    <2>1. q.op # "supersede"
      BY DEF Idle
    <2>2. req' = [req EXCEPT ![r] = q] /\ UNCHANGED <<link, asked>>
      BY <1>8 DEF CountFailure
    <2> HIDE DEF q
    <2>3. QED
      BY <1>1, <2>1, <2>2
  <1>9. CASE WriteDelay(r) \/ Issue(r)
    BY <1>1, <1>9, IdleTyped DEF WriteDelay, Issue, Finish
  <1>10. CASE ClearFailures(r) \/ WritePassword(r)
    BY <1>1, <1>2, <1>10 DEF ClearFailures, WritePassword, Continue, Request
  <1>11. CASE Rotate(r)
    <2> DEFINE q == [req[r] EXCEPT !.op = "issue", !.token = None]
    <2>1. q.op = "issue"
      BY <1>2 DEF Request
    <2>2. req' = [req EXCEPT ![r] = q] /\ UNCHANGED <<link, asked>>
      BY <1>11 DEF Rotate, IInv, AccountSound, TypeOK
    <2> HIDE DEF q
    <2>3. QED
      BY <1>1, <2>1, <2>2
  <1>12. QED
    BY <1>4, <1>5, <1>6, <1>7, <1>8, <1>9, <1>10, <1>11

\* Where no link stands, only the requests that are left will make one.
LEMMA GiveUpLinks ==
  ASSUME IInv, LinksInv, NEW r \in Requests, GiveUp(r)
  PROVE  LinksInv'
  <1>1. /\ req' = [req EXCEPT ![r] = Idle] /\ link' = link
        /\ asked' = IF link = {} THEN Cardinality(Asking \ {r}) ELSE asked
    BY DEF GiveUp, Finish
  <1>2. Asking' = Asking \ {r} /\ \A x \in Asking' : req'[x] = req[x]
    BY <1>1, IdleTyped, OtherRequest
  <1>3. CASE link = {}
    BY <1>1, <1>2, <1>3, NoLinks DEF Asking
  <1>4. CASE link # {}
    BY <1>1, <1>2, <1>4, FewerLinks
  <1>5. QED
    BY <1>3, <1>4

\* A revocation leaves requests for a link as they are.
LEMMA LinksOfRevocations ==
  ASSUME IInv, LinksInv, NEW own \in SUBSET Requests, DropTokens(own),
         \A r \in own : Doing(r, "revoke"), UNCHANGED <<link, asked>>
  PROVE  LinksInv'
  <1>1. ASSUME NEW x \in Requests
        PROVE  /\ req'[x].links = req[x].links
               /\ req'[x].op = "supersede" => req[x].op = "supersede"
    <2>1. req[x] \in Request
      BY DEF IInv, AccountSound, TypeOK
    <2>2. req'[x] \in {req[x], [req[x] EXCEPT !.stale = TRUE],
                      [req[x] EXCEPT !.stale = FALSE, !.op = "issue"]}
      BY DEF DropTokens
    <2>3. QED
      BY <2>1, <2>2 DEF Request
  <1>2. Asking' \subseteq Asking /\ \A x \in Asking' : req'[x].links = req[x].links
    BY <1>1 DEF Asking, Doing
  <1>3. QED
    BY <1>2, FewerLinks

LEMMA LinksInductive == IInv /\ LinksInv /\ [Next]_vars => LinksInv'
  <1> SUFFICES ASSUME IInv, LinksInv, [Next]_vars PROVE LinksInv'
    OBVIOUS
  <1>1. ASSUME UNCHANGED <<link, req, asked>>
        PROVE  LinksInv'
    <2>1. Asking' = Asking
      BY <1>1 DEF Asking, Doing
    <2>2. QED
      BY <1>1, <2>1, FewerLinks
  <1>2. CASE UNCHANGED vars
    BY <1>1, <1>2 DEF vars
  <1>3. ASSUME NEW r \in Requests, Spend(r)
        PROVE  LinksInv'
    <2>1. link' = {} /\ asked' = Cardinality(Asking)
      BY <1>3 DEF Spend, ResetWith
    <2>2. Asking' \subseteq Asking
      BY <1>3, IdleTyped DEF Spend, ResetWith, Asking, Doing, IInv, AccountSound, TypeOK,
         Request
    <2>3. Asking \in SUBSET Requests
      BY DEF Asking
    <2>4. QED
      BY <2>1, <2>2, <2>3, NoLinks
  <1>4. CASE HardDelete
    BY <1>4, NoLinks DEF HardDelete, Asking, Doing
  <1>5. ASSUME NEW r \in Requests, RevokeOwn(r)
        PROVE  LinksInv'
    BY <1>5, LinksOfRevocations DEF RevokeOwn
  <1>6. CASE Logout \/ AdminReset \/ Deactivate
    BY <1>6, LinksOfRevocations DEF Logout, AdminReset, Deactivate
  <1>7. CASE Tick \/ (\E b \in BOOLEAN : SetActive(b)) \/ (\E t \in Tokens : RefreshExpired(t))
    BY <1>1, <1>7 DEF Tick, SetActive, RefreshExpired
  <1>8. ASSUME NEW r \in Requests, Progress(r)
        PROVE  LinksInv'
    BY <1>3, <1>5, <1>8, LinksOfRequests, SupersedeLinks DEF Progress
  <1>9. QED
    BY <1>2, <1>4, <1>6, <1>7, <1>8, ForgotLinks, GiveUpLinks, LinksOfRequests DEF Next

\* No more reset links stand than requests for one overlapped since no link stood
\* or one replaced them all; so a reset leaves to come only the links of the
\* requests it overlapped (forgotPassword, resetPassword).
THEOREM LinksBoundedHolds == Spec => []LinksBounded
  <1>1. Init => LinksInv
    <2> SUFFICES ASSUME Init, NEW X \in SUBSET link
                 PROVE  Cardinality(X) + Cardinality(Blind(X)) <= asked
      BY DEF LinksInv
    <2>1. X = {} /\ Blind(X) = {} /\ asked = 0
      BY IdleTyped DEF Init, Blind, Asking, Doing
    <2>2. QED
      BY <2>1, FS_EmptySet
  <1>2. IInv /\ LinksInv => LinksBounded
    <2> SUFFICES ASSUME IInv, LinksInv PROVE LinksBounded
      OBVIOUS
    <2>1. link \subseteq Links /\ asked \in Nat
      BY DEF IInv, AccountSound, TypeOK
    <2>2. Cardinality(link) + Cardinality(Blind(link)) <= asked
      BY DEF LinksInv
    <2>3. QED
      BY <2>1, <2>2, Counted DEF LinksBounded
  <1>3. QED
    BY <1>1, <1>2, LinksInductive, SessionsInvariant, PTL DEF Spec
=============================================================================
