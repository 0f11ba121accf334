---------------------------- MODULE OfficeProofs ----------------------------
(***************************************************************************)
(* Office.tla for any number of rows, clerks, deadlines and readers: codes  *)
(* stay distinct, terms in order and alone but for requests that overlap,   *)
(* nothing that is referred to goes, and every deadline is told of in time  *)
(* and once.                                                                *)
(***************************************************************************)
EXTENDS Office, FiniteSetTheorems, TLAPS

\* What a request has read of a payload still holds when it writes: it has a
\* code to give, and the dates it merges were in order with what it read.
Knows(c) ==
  /\ clerk[c].op \notin {"idle", "create"} => clerk[c].id \in RowIds
  /\ Doing(c, "create") \/ Doing(c, "update") => clerk[c].code \in Codes
  /\ Doing(c, "dates") => /\ clerk[c].dates \in Payloads
                          /\ clerk[c].read \in Days \X Days
                          /\ InOrder(clerk[c].read, clerk[c].dates)

JobsKnow == \A c \in Clerks : Knows(c)

RowsDated == \A i \in RowIds : Term(i) => dates[i] \in Days \X Days

\* Nothing refers to a row that is not there.
RefsToRows == \A i \in RowIds : ~Exists(i) => refs[i] = {}

TermsInv ==
  /\ TermsTypeOK /\ JobsKnow /\ RowsDated /\ RefsToRows /\ IsFiniteSet(active)
  /\ CodesDistinct /\ DatesCrossOnlyByOverlap /\ OneTermUnlessOverlapped

-----------------------------------------------------------------------------
(* The tables.                                                              *)

LEMMA FreeTyped == Free \in Job /\ Free.op = "idle"
  BY DEF Free, Job

LEMMA PairsAreSequences ==
  ASSUME NEW S \in SUBSET Nat, NEW d \in S \X S
  PROVE  d \in Seq(Nat)
  <1>1. d = <<d[1], d[2]>>
    OBVIOUS
  <1>2. d[1] \in Nat /\ d[2] \in Nat
    OBVIOUS
  <1>3. <<d[1], d[2]>> \in Seq(Nat)
    BY <1>2
  <1>4. QED
    BY <1>1, <1>3

LEMMA MergedTyped ==
  ASSUME NEW old \in Days \X Days, NEW new \in Payloads
  PROVE  Merged(old, new) \in Days \X Days
  <1>1. /\ old[1] \in Days /\ old[2] \in Days
        /\ new[1] \in Days \cup {0} /\ new[2] \in Days \cup {0}
    BY TermsAssumption
  <1>2. Merged(old, new) = <<IF new[1] = 0 THEN old[1] ELSE new[1],
                             IF new[2] = 0 THEN old[2] ELSE new[2]>>
    BY DEF Merged
  <1>3. QED
    BY <1>1, <1>2

\* A request begins with what it has read and changes nothing.
LEMMA BeginKeeps ==
  ASSUME TermsInv, NEW c \in Clerks, NEW job \in Job, Begin(c, job),
         job.op # "idle", job.op # "create" => job.id \in RowIds,
         job.op \in {"create", "update"} => job.code \in Codes,
         job.op = "dates" => /\ job.dates \in Payloads /\ job.read \in Days \X Days
                             /\ InOrder(job.read, job.dates),
         UNCHANGED <<dates, active, overlapped>>
  PROVE  TermsInv'
  <1>1. /\ clerk' \in [Clerks -> Job] /\ clerk'[c] = job
        /\ \A d \in Clerks \ {c} : clerk'[d] = clerk[d]
        /\ table' = table /\ code' = code /\ refs' = refs
    BY DEF Begin, TermsInv, TermsTypeOK, CatalogTypeOK
  <1>2. JobsKnow'
    <2> SUFFICES ASSUME NEW d \in Clerks PROVE Knows(d)'
      BY DEF JobsKnow
    <2>1. CASE d = c
      BY <1>1, <2>1 DEF Knows, Doing, InOrder, Merged
    <2>2. CASE d # c
      BY <1>1, <2>2 DEF TermsInv, JobsKnow, Knows, Doing, InOrder, Merged
    <2>3. QED
      BY <2>1, <2>2
  <1>3. TermsTypeOK'
    BY <1>1 DEF TermsInv, TermsTypeOK, CatalogTypeOK, Term, Exists
  <1>4. /\ RowsDated' /\ RefsToRows' /\ IsFiniteSet(active)'
        /\ CodesDistinct' /\ DatesCrossOnlyByOverlap' /\ OneTermUnlessOverlapped'
    BY <1>1 DEF TermsInv, RowsDated, RefsToRows, CodesDistinct, DatesCrossOnlyByOverlap,
                OneTermUnlessOverlapped, Term, Exists
  <1>5. QED
    BY <1>2, <1>3, <1>4 DEF TermsInv

LEMMA ArrivalsKeep ==
  ASSUME TermsInv, NEW c \in Clerks,
         \/ /\ \/ \E x \in Codes : \/ CreateArrives(c, x)
                                   \/ \E i \in RowIds : UpdateArrives(c, i, x)
               \/ \E i \in RowIds : RemoveArrives(c, i)
            /\ UNCHANGED <<dates, active, overlapped>>
         \/ \E i \in RowIds : \/ \E new \in Payloads : MoveArrives(c, i, new)
                              \/ ActivateArrives(c, i)
  PROVE  TermsInv'
  <1>1. ASSUME NEW x \in Codes, CreateArrives(c, x), UNCHANGED <<dates, active, overlapped>>
        PROVE  TermsInv'
    <2> DEFINE job == [Free EXCEPT !.op = "create", !.code = x]
    <2>1. job \in Job /\ job.op = "create" /\ job.code = x
      BY FreeTyped DEF Job
    <2>2. Begin(c, job)
      BY <1>1 DEF CreateArrives
    <2> HIDE DEF job
    <2>3. QED
      BY <1>1, <2>1, <2>2, BeginKeeps
  <1>2. ASSUME NEW x \in Codes, NEW i \in RowIds, UpdateArrives(c, i, x),
               UNCHANGED <<dates, active, overlapped>>
        PROVE  TermsInv'
    <2> DEFINE job == [Free EXCEPT !.op = "update", !.id = i, !.code = x]
    <2>1. job \in Job /\ job.op = "update" /\ job.code = x /\ job.id = i
      BY FreeTyped DEF Job
    <2>2. Begin(c, job)
      BY <1>2 DEF UpdateArrives
    <2> HIDE DEF job
    <2>3. QED
      BY <1>2, <2>1, <2>2, BeginKeeps
  <1>3. ASSUME NEW i \in RowIds, RemoveArrives(c, i), UNCHANGED <<dates, active, overlapped>>
        PROVE  TermsInv'
    <2> DEFINE job == [Free EXCEPT !.op = "remove", !.id = i]
    <2>1. job \in Job /\ job.op = "remove" /\ job.id = i
      BY FreeTyped DEF Job
    <2>2. Begin(c, job)
      BY <1>3 DEF RemoveArrives
    <2> HIDE DEF job
    <2>3. QED
      BY <1>3, <2>1, <2>2, BeginKeeps
  <1>4. ASSUME NEW i \in RowIds, NEW new \in Payloads, MoveArrives(c, i, new)
        PROVE  TermsInv'
    <2> DEFINE job == [Free EXCEPT !.op = "dates", !.id = i, !.dates = new, !.read = dates[i]]
    <2>1. dates[i] \in Days \X Days /\ InOrder(dates[i], new)
      BY <1>4 DEF MoveArrives, TermsInv, RowsDated
    <2>2. dates[i] \in Seq(Nat)
      BY <2>1, PairsAreSequences, TermsAssumption
    <2>3. new \in Seq(Nat)
      <3>1. new \in (Days \cup {0}) \X (Days \cup {0}) /\ Days \cup {0} \in SUBSET Nat
        BY TermsAssumption
      <3>2. QED
        BY <3>1, PairsAreSequences
    <2>4. /\ job \in Job /\ job.op = "dates" /\ job.dates = new /\ job.read = dates[i]
          /\ job.id = i
      BY <2>2, <2>3, FreeTyped DEF Job
    <2>5. Begin(c, job) /\ UNCHANGED <<dates, active, overlapped>>
      BY <1>4 DEF MoveArrives
    <2> HIDE DEF job
    <2>6. QED
      BY <2>1, <2>4, <2>5, BeginKeeps
  <1>5. ASSUME NEW i \in RowIds, ActivateArrives(c, i)
        PROVE  TermsInv'
    <2> DEFINE job == [Free EXCEPT !.op = "activate", !.id = i, !.seen = active]
    <2>1. active \subseteq RowIds
      BY DEF TermsInv, TermsTypeOK
    <2>2. job \in Job /\ job.op = "activate" /\ job.id = i
      BY <2>1, FreeTyped DEF Job
    <2>3. Begin(c, job) /\ UNCHANGED <<dates, active, overlapped>>
      BY <1>5 DEF ActivateArrives
    <2> HIDE DEF job
    <2>4. QED
      BY <2>2, <2>3, BeginKeeps
  <1>6. QED
    BY <1>1, <1>2, <1>3, <1>4, <1>5

\* A request that ends leaves the others what they know.
LEMMA OthersKnow ==
  ASSUME TermsInv, NEW c \in Clerks, Finish(c)
  PROVE  clerk' \in [Clerks -> Job] /\ JobsKnow'
  <1>1. /\ clerk' \in [Clerks -> Job] /\ clerk'[c] = Free
        /\ \A d \in Clerks \ {c} : clerk'[d] = clerk[d]
    BY FreeTyped DEF Finish, TermsInv, TermsTypeOK, CatalogTypeOK
  <1>2. ASSUME NEW d \in Clerks
        PROVE  Knows(d)'
    <2>1. CASE d = c
      BY <1>1, <2>1, FreeTyped DEF Knows, Doing
    <2>2. CASE d # c
      BY <1>1, <2>2 DEF TermsInv, JobsKnow, Knows, Doing, InOrder, Merged
    <2>3. QED
      BY <2>1, <2>2
  <1>3. QED
    BY <1>1, <1>2 DEF JobsKnow

\* A code nobody else has, given to a row that keeps or gets its dates.
LEMMA CodeKeeps ==
  ASSUME TermsInv, NEW i \in RowIds, NEW x \in Codes, NobodyHas(x, i),
         code' = [code EXCEPT ![i] = x], table' = table, refs' = refs,
         clerk' \in [Clerks -> Job], JobsKnow', active' = active, overlapped' = overlapped,
         dates' \in [RowIds -> {<<>>} \cup (Days \X Days)],
         \A k \in RowIds \ {i} : dates'[k] = dates[k],
         table = "semesters" => /\ dates'[i] \in Days \X Days
                                /\ dates'[i][1] < dates'[i][2] \/ <<i, "dates">> \in overlapped
  PROVE  TermsInv'
  <1>1. /\ code' \in [RowIds -> Codes \cup {None}] /\ code'[i] = x /\ x # None
        /\ \A k \in RowIds \ {i} : code'[k] = code[k]
    BY CatalogAssumption DEF TermsInv, TermsTypeOK, CatalogTypeOK
  <1>2. \A k \in RowIds : (Term(k) => Term(k)') /\ (Term(k)' => k = i \/ Term(k))
    BY <1>1 DEF Term, Exists
  <1>3. TermsTypeOK'
    BY <1>1, <1>2 DEF TermsInv, TermsTypeOK, CatalogTypeOK
  <1>4. RowsDated' /\ RefsToRows'
    BY <1>1, <1>2 DEF TermsInv, RowsDated, RefsToRows, Term, Exists
  <1>5. CodesDistinct'
    BY <1>1 DEF TermsInv, CodesDistinct, NobodyHas, Exists
  <1>6. DatesCrossOnlyByOverlap'
    <2> SUFFICES ASSUME NEW k \in RowIds, Term(k)'
                 PROVE  dates'[k][1] < dates'[k][2] \/ <<k, "dates">> \in overlapped
      BY DEF DatesCrossOnlyByOverlap
    <2>1. CASE k = i
      BY <2>1 DEF Term
    <2>2. CASE k # i
      <3>1. Term(k) /\ dates'[k] = dates[k]
        BY <1>2, <2>2
      <3>2. dates[k][1] < dates[k][2] \/ <<k, "dates">> \in overlapped
        BY <3>1 DEF TermsInv, DatesCrossOnlyByOverlap
      <3>3. QED
        BY <3>1, <3>2
    <2>3. QED
      BY <2>1, <2>2
  <1>7. IsFiniteSet(active)' /\ OneTermUnlessOverlapped'
    BY DEF TermsInv, OneTermUnlessOverlapped
  <1>8. QED
    BY <1>3, <1>4, <1>5, <1>6, <1>7 DEF TermsInv

LEMMA CreateKeeps ==
  ASSUME TermsInv, NEW c \in Clerks, CreateCommitted(c)
  PROVE  TermsInv'
  <1>1. PICK i \in RowIds :
          /\ CommitCreate(c, i)
          /\ IF table = "semesters"
             THEN \E span \in Spans : dates' = [dates EXCEPT ![i] = span]
             ELSE UNCHANGED dates
          /\ UNCHANGED <<active, overlapped>>
    BY DEF CreateCommitted
  <1>2. clerk' \in [Clerks -> Job] /\ JobsKnow'
    BY <1>1, OthersKnow DEF CommitCreate
  <1>3. clerk[c].code \in Codes
    BY <1>1 DEF CommitCreate, TermsInv, JobsKnow, Knows
  <1>4. /\ dates' \in [RowIds -> {<<>>} \cup (Days \X Days)]
        /\ \A k \in RowIds \ {i} : dates'[k] = dates[k]
        /\ table = "semesters" => dates'[i] \in Days \X Days /\ dates'[i][1] < dates'[i][2]
    <2>1. dates \in [RowIds -> {<<>>} \cup (Days \X Days)]
      BY DEF TermsInv, TermsTypeOK
    <2>2. CASE table = "semesters"
      <3>1. PICK span \in Spans : dates' = [dates EXCEPT ![i] = span]
        BY <1>1, <2>2
      <3>2. span \in Days \X Days /\ span[1] < span[2]
        BY TermsAssumption
      <3>3. QED
        BY <2>1, <3>1, <3>2
    <2>3. CASE table # "semesters"
      BY <1>1, <2>1, <2>3
    <2>4. QED
      BY <2>2, <2>3
  <1>5. /\ NobodyHas(clerk[c].code, i) /\ table' = table /\ refs' = refs
        /\ code' = [code EXCEPT ![i] = clerk[c].code]
        /\ active' = active /\ overlapped' = overlapped
    BY <1>1 DEF CommitCreate
  <1>6. QED
    BY <1>2, <1>3, <1>4, <1>5, CodeKeeps

\* The request writes the row it read, if it is still there.
LEMMA RowInHand ==
  ASSUME TermsInv, NEW c \in Clerks, clerk[c].op \notin {"idle", "create"}
  PROVE  clerk[c].id \in RowIds
  BY DEF TermsInv, JobsKnow, Knows

LEMMA UpdateKeeps ==
  ASSUME TermsInv, NEW c \in Clerks, CommitUpdate(c), UNCHANGED <<dates, active, overlapped>>
  PROVE  TermsInv'
  <1> DEFINE i == clerk[c].id
  <1>1. /\ i \in RowIds /\ Exists(i) /\ NobodyHas(clerk[c].code, i)
        /\ table' = table /\ refs' = refs /\ code' = [code EXCEPT ![i] = clerk[c].code]
    BY RowInHand DEF CommitUpdate, Doing
  <1>2. clerk' \in [Clerks -> Job] /\ JobsKnow'
    BY OthersKnow DEF CommitUpdate
  <1>3. clerk[c].code \in Codes
    BY DEF CommitUpdate, TermsInv, JobsKnow, Knows
  <1> HIDE DEF i
  <1>4. dates' \in [RowIds -> {<<>>} \cup (Days \X Days)]
    BY DEF TermsInv, TermsTypeOK
  <1>5. table = "semesters" => /\ dates'[i] \in Days \X Days
                               /\ dates'[i][1] < dates'[i][2] \/ <<i, "dates">> \in overlapped
    BY <1>1 DEF TermsInv, RowsDated, DatesCrossOnlyByOverlap, Term
  <1>6. QED
    BY <1>1, <1>2, <1>3, <1>4, <1>5, CodeKeeps

LEMMA RemoveKeeps ==
  ASSUME TermsInv, NEW c \in Clerks, RemoveCommitted(c)
  PROVE  TermsInv'
  <1> DEFINE i == clerk[c].id
  <1>1. /\ i \in RowIds /\ Exists(i) /\ table' = table
        /\ code' = [code EXCEPT ![i] = None] /\ refs' = [refs EXCEPT ![i] = {}]
    BY RowInHand DEF RemoveCommitted, CommitRemove, Doing
  <1>2. clerk' \in [Clerks -> Job] /\ JobsKnow'
    BY OthersKnow DEF RemoveCommitted, CommitRemove
  <1>3. IF table = "semesters"
        THEN /\ dates' = [dates EXCEPT ![i] = <<>>] /\ active' = active \ {i}
             /\ overlapped' = overlapped \ {<<i, "dates">>}
        ELSE UNCHANGED <<dates, active, overlapped>>
    BY DEF RemoveCommitted
  <1> HIDE DEF i
  <1>4. /\ code \in [RowIds -> Codes \cup {None}] /\ refs \in [RowIds -> SUBSET Kinds]
        /\ dates \in [RowIds -> {<<>>} \cup (Days \X Days)]
        /\ active \subseteq {k \in RowIds : Term(k)}
    BY DEF TermsInv, TermsTypeOK, CatalogTypeOK
  <1>5. /\ code' \in [RowIds -> Codes \cup {None}] /\ code'[i] = None
        /\ refs' \in [RowIds -> SUBSET Kinds] /\ refs'[i] = {}
        /\ dates' \in [RowIds -> {<<>>} \cup (Days \X Days)]
        /\ \A k \in RowIds \ {i} : /\ code'[k] = code[k] /\ refs'[k] = refs[k]
                                   /\ dates'[k] = dates[k]
    BY <1>1, <1>3, <1>4
  <1>6. \A k \in RowIds : Term(k)' <=> k # i /\ Term(k)
    BY <1>1, <1>5 DEF Term, Exists
  <1>7. active' \subseteq active /\ active' \subseteq {k \in RowIds : Term(k)'}
    <2>1. CASE table = "semesters"
      BY <1>3, <1>4, <1>6, <2>1
    <2>2. CASE table # "semesters"
      BY <1>3, <1>4, <2>2 DEF Term
    <2>3. QED
      BY <2>1, <2>2
  <1>8. TermsTypeOK'
    BY <1>1, <1>2, <1>5, <1>7 DEF TermsInv, TermsTypeOK, CatalogTypeOK
  <1>9. RowsDated' /\ RefsToRows' /\ CodesDistinct'
    BY <1>5, <1>6 DEF TermsInv, RowsDated, RefsToRows, CodesDistinct, Exists
  <1>10. DatesCrossOnlyByOverlap'
    <2> SUFFICES ASSUME NEW k \in RowIds, Term(k)'
                 PROVE  dates'[k][1] < dates'[k][2] \/ <<k, "dates">> \in overlapped'
      BY DEF DatesCrossOnlyByOverlap
    <2>1. k # i /\ Term(k) /\ dates'[k] = dates[k]
      BY <1>5, <1>6
    <2>2. dates[k][1] < dates[k][2] \/ <<k, "dates">> \in overlapped
      BY <2>1 DEF TermsInv, DatesCrossOnlyByOverlap
    <2>3. <<k, "dates">> \in overlapped => <<k, "dates">> \in overlapped'
      BY <1>3, <2>1
    <2>4. QED
      BY <2>1, <2>2, <2>3
  <1>11. IsFiniteSet(active') /\ OneTermUnlessOverlapped'
    <2>1. IsFiniteSet(active)
      BY DEF TermsInv
    <2>2. IsFiniteSet(active') /\ Cardinality(active') <= Cardinality(active)
      BY <1>7, <2>1, FS_Subset
    <2>3. Cardinality(active') \in Nat /\ Cardinality(active) \in Nat
      BY <2>1, <2>2, FS_CardinalityType
    <2>4. <<None, "active">> \in overlapped => <<None, "active">> \in overlapped'
      BY <1>3
    <2>5. QED
      BY <2>2, <2>3, <2>4 DEF TermsInv, OneTermUnlessOverlapped
  <1>12. QED
    BY <1>2, <1>8, <1>9, <1>10, <1>11 DEF TermsInv

\* What refers to rows changes, or a request ends unanswered.
LEMMA RestKeeps ==
  ASSUME TermsInv, NEW c \in Clerks,
         GiveUp(c) \/ \E i \in RowIds, kind \in Kinds : Refer(i, kind),
         UNCHANGED <<dates, active, overlapped>>
  PROVE  TermsInv'
  <1>1. code' = code /\ table' = table
    BY DEF GiveUp, Refer
  <1>2. clerk' \in [Clerks -> Job] /\ JobsKnow'
    <2>1. CASE GiveUp(c)
      BY <2>1, OthersKnow DEF GiveUp
    <2>2. CASE clerk' = clerk
      BY <2>2 DEF TermsInv, TermsTypeOK, CatalogTypeOK, JobsKnow, Knows, Doing, InOrder, Merged
    <2>3. QED
      BY <2>1, <2>2 DEF Refer
  <1>3. refs' \in [RowIds -> SUBSET Kinds] /\ RefsToRows'
    <2>1. CASE refs' = refs
      BY <1>1, <2>1 DEF TermsInv, TermsTypeOK, CatalogTypeOK, RefsToRows, Exists
    <2>2. ASSUME NEW i \in RowIds, NEW kind \in Kinds, Refer(i, kind)
          PROVE  refs' \in [RowIds -> SUBSET Kinds] /\ RefsToRows'
      <3>1. /\ Exists(i)
            /\ \/ refs' = [refs EXCEPT ![i] = refs[i] \cup {kind}]
               \/ refs' = [refs EXCEPT ![i] = refs[i] \ {kind}]
        BY <2>2 DEF Refer
      <3>2. refs \in [RowIds -> SUBSET Kinds]
        BY DEF TermsInv, TermsTypeOK, CatalogTypeOK
      <3>3. /\ refs' \in [RowIds -> SUBSET Kinds]
            /\ \A k \in RowIds \ {i} : refs'[k] = refs[k]
        BY <3>1, <3>2
      <3>4. QED
        BY <1>1, <3>1, <3>3 DEF TermsInv, RefsToRows, Exists
    <2>3. QED
      BY <2>1, <2>2 DEF GiveUp
  <1>4. /\ TermsTypeOK' /\ RowsDated' /\ IsFiniteSet(active)' /\ CodesDistinct'
        /\ DatesCrossOnlyByOverlap' /\ OneTermUnlessOverlapped'
    BY <1>1, <1>2, <1>3 DEF TermsInv, TermsTypeOK, CatalogTypeOK, RowsDated, CodesDistinct,
       DatesCrossOnlyByOverlap, OneTermUnlessOverlapped, Term, Exists
  <1>5. QED
    BY <1>2, <1>3, <1>4 DEF TermsInv

\* Dates that were in order with what was read are in order with what is there,
\* or another has written in between.
LEMMA MoveKeeps ==
  ASSUME TermsInv, NEW c \in Clerks, CommitMove(c)
  PROVE  TermsInv'
  <1> DEFINE i == clerk[c].id
             new == Merged(dates[i], clerk[c].dates)
  <1>1. /\ i \in RowIds /\ Term(i) /\ table' = table /\ code' = code /\ refs' = refs
        /\ active' = active /\ clerk[c].dates \in Payloads
        /\ InOrder(clerk[c].read, clerk[c].dates)
    BY RowInHand DEF CommitMove, Doing, TermsInv, JobsKnow, Knows
  <1>2. clerk' \in [Clerks -> Job] /\ JobsKnow'
    BY OthersKnow DEF CommitMove
  <1>3. new \in Days \X Days
    BY <1>1, MergedTyped DEF TermsInv, RowsDated
  <1>4. /\ dates' = [dates EXCEPT ![i] = new]
        /\ overlapped' = IF dates[i] = clerk[c].read THEN overlapped
                         ELSE overlapped \cup {<<i, "dates">>}
    BY DEF CommitMove
  <1>5. dates[i] = clerk[c].read => new[1] < new[2]
    BY <1>1 DEF InOrder
  <1> HIDE DEF i, new
  <1>6. /\ dates' \in [RowIds -> {<<>>} \cup (Days \X Days)] /\ dates'[i] = new
        /\ \A k \in RowIds \ {i} : dates'[k] = dates[k]
    BY <1>1, <1>3, <1>4 DEF TermsInv, TermsTypeOK
  <1>7. /\ TermsTypeOK' /\ RowsDated' /\ RefsToRows' /\ IsFiniteSet(active)'
        /\ CodesDistinct'
    BY <1>1, <1>2, <1>3, <1>6 DEF TermsInv, TermsTypeOK, CatalogTypeOK, RowsDated,
       RefsToRows, CodesDistinct, Term, Exists
  <1>8. overlapped \subseteq overlapped'
    BY <1>4
  <1>9. DatesCrossOnlyByOverlap'
    <2> SUFFICES ASSUME NEW k \in RowIds, Term(k)
                 PROVE  dates'[k][1] < dates'[k][2] \/ <<k, "dates">> \in overlapped'
      BY <1>1 DEF DatesCrossOnlyByOverlap, Term, Exists
    <2>1. CASE k = i
      BY <1>4, <1>5, <1>6, <2>1
    <2>2. CASE k # i
      BY <1>6, <1>8, <2>2 DEF TermsInv, DatesCrossOnlyByOverlap
    <2>3. QED
      BY <2>1, <2>2
  <1>10. OneTermUnlessOverlapped'
    BY <1>1, <1>8 DEF TermsInv, OneTermUnlessOverlapped
  <1>11. QED
    BY <1>2, <1>7, <1>9, <1>10 DEF TermsInv

\* An activation that finds active what it saw leaves its own term alone.
LEMMA ActivateKeeps ==
  ASSUME TermsInv, NEW c \in Clerks, CommitActivate(c)
  PROVE  TermsInv'
  <1> DEFINE i == clerk[c].id
  <1>1. /\ i \in RowIds /\ Term(i) /\ table' = table /\ code' = code /\ refs' = refs
        /\ dates' = dates /\ active' = (active \ clerk[c].seen) \cup {i}
        /\ overlapped' = IF active = clerk[c].seen THEN overlapped
                         ELSE overlapped \cup {<<None, "active">>}
    BY RowInHand DEF CommitActivate, Doing
  <1>2. clerk' \in [Clerks -> Job] /\ JobsKnow'
    BY OthersKnow DEF CommitActivate
  <1> HIDE DEF i
  <1>3. /\ TermsTypeOK' /\ RowsDated' /\ RefsToRows' /\ CodesDistinct'
    BY <1>1, <1>2 DEF TermsInv, TermsTypeOK, CatalogTypeOK, RowsDated, RefsToRows,
       CodesDistinct, Term, Exists
  <1>4. overlapped \subseteq overlapped'
    BY <1>1
  <1>5. DatesCrossOnlyByOverlap'
    BY <1>1, <1>4 DEF TermsInv, DatesCrossOnlyByOverlap, Term, Exists
  <1>6. IsFiniteSet(active')
    <2>1. IsFiniteSet(active \ clerk[c].seen)
      BY FS_Subset DEF TermsInv
    <2>2. QED
      BY <1>1, <2>1, FS_AddElement
  <1>7. OneTermUnlessOverlapped'
    <2>1. CASE active = clerk[c].seen
      <3>1. active' = {i}
        BY <1>1, <2>1
      <3>2. Cardinality(active') = 1
        BY <3>1, FS_Singleton
      <3>3. QED
        BY <3>2 DEF OneTermUnlessOverlapped
    <2>2. CASE active # clerk[c].seen
      BY <1>1, <2>2 DEF OneTermUnlessOverlapped
    <2>3. QED
      BY <2>1, <2>2
  <1>8. QED
    BY <1>2, <1>3, <1>5, <1>6, <1>7 DEF TermsInv

LEMMA TermsInitIsSound == TermsInit => TermsInv
  <1> SUFFICES ASSUME TermsInit PROVE TermsInv
    OBVIOUS
  <1>1. /\ \A i \in RowIds : ~Exists(i) /\ refs[i] = {}
        /\ \A c \in Clerks : clerk[c].op = "idle"
    BY FreeTyped DEF TermsInit, CatalogInit, Exists
  <1>2. TermsTypeOK
    BY FreeTyped DEF TermsInit, CatalogInit, TermsTypeOK, CatalogTypeOK, Kinds
  <1>3. /\ JobsKnow /\ RowsDated /\ RefsToRows /\ CodesDistinct /\ DatesCrossOnlyByOverlap
    BY <1>1 DEF JobsKnow, Knows, Doing, RowsDated, RefsToRows, CodesDistinct,
                DatesCrossOnlyByOverlap, Term
  <1>4. IsFiniteSet(active) /\ OneTermUnlessOverlapped
    BY FS_EmptySet DEF TermsInit, OneTermUnlessOverlapped
  <1>5. QED
    BY <1>2, <1>3, <1>4 DEF TermsInv

LEMMA TermsStepIsSound == TermsInv /\ [TermsNext]_termVars => TermsInv'
  <1> SUFFICES ASSUME TermsInv, [TermsNext]_termVars PROVE TermsInv'
    OBVIOUS
  <1>1. CASE TermsNext
    BY <1>1, ArrivalsKeep, CreateKeeps, UpdateKeeps, RemoveKeeps, RestKeeps, MoveKeeps,
       ActivateKeeps DEF TermsNext, CatalogNext
  <1>2. CASE UNCHANGED termVars
    BY <1>2 DEF termVars, TermsInv, TermsTypeOK, CatalogTypeOK, JobsKnow, Knows, Doing,
       InOrder, Merged, RowsDated, RefsToRows, CodesDistinct, DatesCrossOnlyByOverlap,
       OneTermUnlessOverlapped, Term, Exists
  <1>3. QED
    BY <1>1, <1>2

-----------------------------------------------------------------------------
(* The reminders.                                                           *)

RunTyped ==
  /\ run \in [Halves -> [at : {"no", "gathered", "done"}, batch : SUBSET Notice]]
  /\ since \in [Pairs -> Mornings] /\ \A p \in Pairs : since[p] <= today
  /\ ranOn \subseteq Halves \X (0..today)

BatchToday == \A h \in Halves : \A n \in run[h].batch : n.on = today

Tells(n, p) == n.deadline = p[2] /\ n.due = due[p[2]] /\ n.reader = p[1]

\* What is about to be written tells of everything that is near and has not
\* changed today.
BatchComplete ==
  \A h \in Halves : run[h].at = "gathered" =>
    \A p \in owing : p[2] \in h \ shut /\ since[p] < today /\ ClosingSoon(p[2]) =>
      \E n \in run[h].batch : Tells(n, p)

RemindersInv ==
  /\ RemindersTypeOK /\ RunTyped /\ BatchToday /\ BatchComplete /\ ToldInTime /\ ToldOnce

LEMMA HalvesTyped ==
  /\ \A h \in Halves : h \subseteq Deadlines
  /\ NotYet \in [at : {"no", "gathered", "done"}, batch : SUBSET Notice]
  /\ NotYet.at = "no" /\ NotYet.batch = {}
  BY RemindersAssumption DEF Halves, NotYet

\* A reader who has owed a thing since before a run near the deadline.
Due(p) ==
  /\ p[2] \notin shut
  /\ \E h \in Halves, day \in Mornings :
       /\ <<h, day>> \in ranOn /\ p[2] \in h
       /\ since[p] < day /\ due[p[2]] - LeadDays <= day /\ day < due[p[2]]

LEMMA ToldMeans == ToldInTime <=> \A p \in owing : Due(p) => \E n \in notices : Tells(n, p)
  BY DEF ToldInTime, Due, Tells

LEMMA GatherKeeps ==
  ASSUME RemindersInv, NEW h \in Halves, Gather(h)
  PROVE  RemindersInv'
  <1> DEFINE near == {p \in owing : p[2] \in h \ shut /\ ClosingSoon(p[2])}
             N(p) == [deadline |-> p[2], due |-> due[p[2]], reader |-> p[1], on |-> today]
             batch == {N(p) : p \in near}
  <1>1. /\ run' = [run EXCEPT ![h] = [at |-> "gathered", batch |-> batch]]
        /\ UNCHANGED <<today, due, shut, owing, notices, moves, since, ranOn>>
    BY DEF Gather
  <1>2. ASSUME NEW p \in near
        PROVE  N(p) \in Notice /\ N(p).on = today /\ Tells(N(p), p)
    <2>1. /\ p[1] \in Readers /\ p[2] \in Deadlines /\ today < due[p[2]]
          /\ due[p[2]] \in Mornings /\ today \in Mornings
      BY DEF RemindersInv, RemindersTypeOK, Pairs, ClosingSoon
    <2>2. QED
      BY <2>1 DEF Notice, Tells
  <1>3. batch \subseteq Notice /\ \A n \in batch : n.on = today
    BY <1>2
  <1>4. \A p \in owing : p[2] \in h \ shut /\ ClosingSoon(p[2]) => \E n \in batch : Tells(n, p)
    BY <1>2
  <1> HIDE DEF batch
  <1>5. /\ run' \in [Halves -> [at : {"no", "gathered", "done"}, batch : SUBSET Notice]]
        /\ run'[h].batch = batch
        /\ \A k \in Halves \ {h} : run'[k] = run[k]
    BY <1>1, <1>3 DEF RemindersInv, RunTyped
  <1>6. RemindersTypeOK' /\ RunTyped'
    BY <1>1, <1>5 DEF RemindersInv, RemindersTypeOK, RunTyped
  <1>7. BatchToday'
    BY <1>1, <1>3, <1>5 DEF RemindersInv, BatchToday
  <1>8. BatchComplete'
    <2> SUFFICES ASSUME NEW k \in Halves, run'[k].at = "gathered", NEW p \in owing,
                        p[2] \in k \ shut, since[p] < today, ClosingSoon(p[2])
                 PROVE  \E n \in run'[k].batch : Tells(n, p)
      BY <1>1 DEF BatchComplete, ClosingSoon, Tells
    <2>1. CASE k = h
      BY <1>4, <1>5, <2>1
    <2>2. CASE k # h
      BY <1>5, <2>2 DEF RemindersInv, BatchComplete
    <2>3. QED
      BY <2>1, <2>2
  <1>9. ToldInTime' /\ ToldOnce'
    BY <1>1 DEF RemindersInv, ToldInTime, ToldOnce
  <1>10. QED
    BY <1>6, <1>7, <1>8, <1>9 DEF RemindersInv

\* The day's run is over for a half; nothing is left in its hands.
LEMMA RunOver ==
  ASSUME RemindersInv, NEW h \in Halves,
         run' = [run EXCEPT ![h] = [at |-> "done", batch |-> {}]],
         UNCHANGED <<today, due, shut, owing, since>>
  PROVE  /\ run' \in [Halves -> [at : {"no", "gathered", "done"}, batch : SUBSET Notice]]
         /\ BatchToday' /\ BatchComplete'
  <1>1. /\ run' \in [Halves -> [at : {"no", "gathered", "done"}, batch : SUBSET Notice]]
        /\ run'[h].at = "done" /\ run'[h].batch = {}
        /\ \A k \in Halves \ {h} : run'[k] = run[k]
    BY DEF RemindersInv, RunTyped
  <1>2. BatchToday'
    BY <1>1 DEF RemindersInv, BatchToday
  <1>3. BatchComplete'
    <2> SUFFICES ASSUME NEW k \in Halves, run'[k].at = "gathered", NEW p \in owing,
                        p[2] \in k \ shut, since[p] < today, ClosingSoon(p[2])
                 PROVE  \E n \in run'[k].batch : Tells(n, p)
      BY DEF BatchComplete, ClosingSoon, Tells
    <2>1. k # h
      BY <1>1
    <2>2. QED
      BY <1>1, <2>1 DEF RemindersInv, BatchComplete
  <1>4. QED
    BY <1>1, <1>2, <1>3

\* What is written adds one notice to a key that had none, all of today.
LEMMA NotifyKeeps ==
  ASSUME RemindersInv, NEW h \in Halves, Notify(h)
  PROVE  RemindersInv'
  <1> DEFINE fresh == {n \in run[h].batch : \A m \in notices : Key(m) # Key(n)}
  <1>1. /\ run[h].at = "gathered" /\ notices' = notices \cup fresh
        /\ run' = [run EXCEPT ![h] = [at |-> "done", batch |-> {}]]
        /\ ranOn' = ranOn \cup {<<h, today>>}
        /\ UNCHANGED <<today, due, shut, owing, moves, since>>
    BY DEF Notify
  <1>2. /\ run' \in [Halves -> [at : {"no", "gathered", "done"}, batch : SUBSET Notice]]
        /\ BatchToday' /\ BatchComplete'
    BY <1>1, RunOver
  <1>3. run[h].batch \subseteq Notice
    BY DEF RemindersInv, RunTyped
  <1>4. RemindersTypeOK' /\ RunTyped'
    <2>1. today \in 0..today
      BY RemindersAssumption DEF RemindersInv, RemindersTypeOK, Mornings
    <2>2. QED
      BY <1>1, <1>2, <1>3, <2>1 DEF RemindersInv, RemindersTypeOK, RunTyped
  <1>5. ASSUME NEW p \in owing, NEW n \in run[h].batch, Tells(n, p)
        PROVE  \E m \in notices' : Tells(m, p)
    <2>1. CASE n \in fresh
      BY <1>1, <1>5, <2>1
    <2>2. CASE n \notin fresh
      <3>1. PICK m \in notices : Key(m) = Key(n)
        BY <2>2
      <3>2. Tells(m, p)
        BY <1>5, <3>1 DEF Key, Tells
      <3>3. QED
        BY <1>1, <3>2
    <2>3. QED
      BY <2>1, <2>2
  <1>6. ToldInTime'
    <2> SUFFICES ASSUME NEW p \in owing, Due(p)'
                 PROVE  \E n \in notices' : Tells(n, p)
      BY <1>1 DEF ToldInTime, Due, Tells
    <2>1. PICK k \in Halves, day \in Mornings :
            /\ <<k, day>> \in ranOn' /\ p[2] \in k /\ p[2] \notin shut
            /\ since[p] < day /\ due[p[2]] - LeadDays <= day /\ day < due[p[2]]
      BY <1>1 DEF Due
    <2>2. CASE <<k, day>> \in ranOn
      <3>1. Due(p)
        BY <2>1, <2>2 DEF Due
      <3>2. QED
        BY <1>1, <3>1, ToldMeans DEF RemindersInv
    <2>3. CASE k = h /\ day = today
      <3>1. due[p[2]] \in Mornings /\ today \in Mornings
        BY DEF RemindersInv, RemindersTypeOK, Pairs
      <3>2. ClosingSoon(p[2])
        BY <2>1, <2>3, <3>1, RemindersAssumption DEF ClosingSoon, Mornings
      <3>3. \E n \in run[h].batch : Tells(n, p)
        BY <1>1, <2>1, <2>3, <3>2 DEF RemindersInv, BatchComplete
      <3>4. QED
        BY <1>5, <3>3
    <2>4. QED
      BY <1>1, <2>1, <2>2, <2>3
  <1>7. ToldOnce'
    <2> SUFFICES ASSUME NEW m \in notices', NEW n \in notices', Key(m) = Key(n)
                 PROVE  m.on = n.on
      BY DEF ToldOnce, Key
    <2>1. \A x \in fresh : x.on = today
      BY DEF RemindersInv, BatchToday
    <2>2. m \in notices /\ n \in notices => m.on = n.on
      BY DEF RemindersInv, ToldOnce, Key
    <2>3. QED
      BY <1>1, <2>1, <2>2
  <1>8. QED
    BY <1>2, <1>4, <1>6, <1>7 DEF RemindersInv

LEMMA NotifyFailsKeeps ==
  ASSUME RemindersInv, NEW h \in Halves, NotifyFails(h)
  PROVE  RemindersInv'
  <1>1. /\ run' = [run EXCEPT ![h] = [at |-> "done", batch |-> {}]]
        /\ UNCHANGED <<today, due, shut, owing, notices, moves, since, ranOn>>
    BY DEF NotifyFails
  <1>2. /\ run' \in [Halves -> [at : {"no", "gathered", "done"}, batch : SUBSET Notice]]
        /\ BatchToday' /\ BatchComplete'
    BY <1>1, RunOver
  <1>3. RemindersTypeOK' /\ RunTyped'
    BY <1>1, <1>2 DEF RemindersInv, RemindersTypeOK, RunTyped
  <1>4. ToldInTime' /\ ToldOnce'
    BY <1>1 DEF RemindersInv, ToldInTime, ToldOnce
  <1>5. QED
    BY <1>2, <1>3, <1>4 DEF RemindersInv

LEMMA NextDayKeeps ==
  ASSUME RemindersInv, NextDay
  PROVE  RemindersInv'
  <1>1. /\ today < LastDay /\ today' = today + 1 /\ run' = [h \in Halves |-> NotYet]
        /\ UNCHANGED <<due, shut, owing, notices, moves, since, ranOn>>
    BY DEF NextDay
  <1>2. today \in Mornings /\ today' \in Mornings /\ today <= today'
    BY <1>1, RemindersAssumption DEF RemindersInv, RemindersTypeOK, Mornings
  <1>3. RunTyped'
    <2>1. \A p \in Pairs : since[p] \in Mornings /\ since[p] <= today
      BY DEF RemindersInv, RunTyped
    <2>2. \A p \in Pairs : since[p] <= today'
      BY <1>2, <2>1, RemindersAssumption DEF Mornings
    <2>3. 0..today \subseteq 0..today'
      BY <1>2, RemindersAssumption DEF Mornings
    <2>4. run' \in [Halves -> [at : {"no", "gathered", "done"}, batch : SUBSET Notice]]
      BY <1>1, HalvesTyped
    <2>5. QED
      BY <1>1, <2>2, <2>3, <2>4 DEF RemindersInv, RunTyped
  <1>4. BatchToday' /\ BatchComplete'
    BY <1>1, HalvesTyped DEF BatchToday, BatchComplete
  <1>5. RemindersTypeOK'
    BY <1>1, <1>2, <1>3 DEF RemindersInv, RemindersTypeOK, RunTyped
  <1>6. ToldInTime' /\ ToldOnce'
    BY <1>1 DEF RemindersInv, ToldInTime, ToldOnce
  <1>7. QED
    BY <1>3, <1>4, <1>5, <1>6 DEF RemindersInv

\* Whatever changes for a pair puts off what has to be told of it to a later run.
LEMMA TouchedKeeps ==
  ASSUME RemindersInv, NEW pairs, Touched(pairs),
         UNCHANGED <<today, run, notices, ranOn>>,
         due' \in [Deadlines -> Mornings], shut' \subseteq Ends, owing' \subseteq Pairs,
         \A p \in Pairs \ pairs : /\ p \in owing' => p \in owing
                                  /\ p[2] \notin shut' => p[2] \notin shut
                                  /\ due'[p[2]] = due[p[2]]
  PROVE  RemindersInv'
  <1>1. today \in Mornings /\ \A p \in Pairs : since[p] \in Mornings /\ since[p] <= today
    BY DEF RemindersInv, RemindersTypeOK, RunTyped
  <1>2. /\ \A p \in Pairs : since'[p] = IF p \in pairs THEN today ELSE since[p]
        /\ since' \in [Pairs -> Mornings]
    BY <1>1 DEF Touched
  <1>3. RunTyped'
    <2>1. \A p \in Pairs : since'[p] <= today
      BY <1>1, <1>2, RemindersAssumption DEF Mornings
    <2>2. QED
      BY <1>2, <2>1 DEF RemindersInv, RunTyped
  <1>4. RemindersTypeOK' /\ BatchToday' /\ ToldOnce'
    BY DEF RemindersInv, RemindersTypeOK, BatchToday, ToldOnce
  <1>5. BatchComplete'
    <2> SUFFICES ASSUME NEW h \in Halves, run[h].at = "gathered", NEW p \in owing',
                        p[2] \in h \ shut', since'[p] < today, ClosingSoon(p[2])'
                 PROVE  \E n \in run[h].batch : Tells(n, p)'
      BY DEF BatchComplete, ClosingSoon, Tells
    <2>1. p \in Pairs \ pairs
      BY <1>1, <1>2, RemindersAssumption DEF Mornings
    <2>2. p \in owing /\ p[2] \notin shut /\ due'[p[2]] = due[p[2]] /\ since[p] < today
      BY <1>2, <2>1
    <2>3. ClosingSoon(p[2])
      BY <2>2 DEF ClosingSoon
    <2>4. PICK n \in run[h].batch : Tells(n, p)
      BY <2>2, <2>3 DEF RemindersInv, BatchComplete
    <2>5. QED
      BY <2>2, <2>4 DEF Tells
  <1>6. ToldInTime'
    <2> SUFFICES ASSUME NEW p \in owing', Due(p)'
                 PROVE  \E n \in notices : Tells(n, p)'
      BY DEF ToldInTime, Due, Tells
    <2>1. PICK h \in Halves, day \in Mornings :
            /\ <<h, day>> \in ranOn /\ p[2] \in h /\ p[2] \notin shut'
            /\ since'[p] < day /\ due'[p[2]] - LeadDays <= day /\ day < due'[p[2]]
      BY DEF Due
    <2>2. day \in 0..today
      BY <2>1 DEF RemindersInv, RunTyped
    <2>3. p \in Pairs \ pairs
      BY <1>1, <1>2, <2>1, <2>2, RemindersAssumption DEF Mornings
    <2>4. p \in owing /\ p[2] \notin shut /\ due'[p[2]] = due[p[2]] /\ since'[p] = since[p]
      BY <1>2, <2>1, <2>3
    <2>5. Due(p)
      BY <2>1, <2>4 DEF Due
    <2>6. PICK n \in notices : Tells(n, p)
      BY <2>4, <2>5, ToldMeans DEF RemindersInv
    <2>7. QED
      BY <2>4, <2>6 DEF Tells
  <1>7. QED
    BY <1>3, <1>4, <1>5, <1>6 DEF RemindersInv

LEMMA RemindersStepIsSound == RemindersInv /\ [RemindersNext]_reminderVars => RemindersInv'
  <1> SUFFICES ASSUME RemindersInv, [RemindersNext]_reminderVars PROVE RemindersInv'
    OBVIOUS
  <1> USE DEF Pairs
  <1>1. ASSUME NEW p \in Pairs, OwesOrNot(p)
        PROVE  RemindersInv'
    <2>1. /\ Touched({p}) /\ UNCHANGED <<today, run, due, shut, notices, ranOn>>
          /\ owing' \subseteq owing \cup {p}
      BY <1>1 DEF OwesOrNot
    <2>2. /\ due' \in [Deadlines -> Mornings] /\ shut' \subseteq Ends /\ owing' \subseteq Pairs
      BY <2>1 DEF RemindersInv, RemindersTypeOK
    <2>3. QED
      BY <2>1, <2>2, TouchedKeeps
  <1>2. ASSUME NEW d \in Deadlines, NEW day \in Mornings, MoveDeadline(d, day)
        PROVE  RemindersInv'
    <2>1. /\ Touched(Readers \X {d}) /\ UNCHANGED <<today, run, shut, owing, notices, ranOn>>
          /\ due' = [due EXCEPT ![d] = day]
      BY <1>2 DEF MoveDeadline
    <2>2. /\ due' \in [Deadlines -> Mornings] /\ shut' \subseteq Ends /\ owing' \subseteq Pairs
      BY <2>1 DEF RemindersInv, RemindersTypeOK
    <2>3. \A q \in Pairs \ (Readers \X {d}) : due'[q[2]] = due[q[2]]
      BY <2>1 DEF RemindersInv, RemindersTypeOK
    <2>4. QED
      BY <2>1, <2>2, <2>3, TouchedKeeps
  <1>3. ASSUME NEW d \in Ends, ShutOrOpen(d)
        PROVE  RemindersInv'
    <2>1. /\ Touched(Readers \X {d}) /\ UNCHANGED <<today, run, due, owing, notices, ranOn>>
          /\ shut \ {d} \subseteq shut' /\ shut' \subseteq shut \cup {d}
      BY <1>3 DEF ShutOrOpen
    <2>2. /\ due' \in [Deadlines -> Mornings] /\ shut' \subseteq Ends /\ owing' \subseteq Pairs
      BY <2>1 DEF RemindersInv, RemindersTypeOK
    <2>3. \A q \in Pairs \ (Readers \X {d}) : q[2] \notin shut' => q[2] \notin shut
      BY <2>1
    <2>4. QED
      BY <2>1, <2>2, <2>3, TouchedKeeps
  <1>4. CASE UNCHANGED reminderVars
    <2>1. UNCHANGED <<today, run, due, shut, owing, notices, moves, since, ranOn>>
      BY <1>4 DEF reminderVars
    <2>2. RemindersTypeOK' /\ RunTyped'
      BY <2>1 DEF RemindersInv, RemindersTypeOK, RunTyped
    <2>3. BatchToday' /\ BatchComplete'
      BY <2>1 DEF RemindersInv, BatchToday, BatchComplete, ClosingSoon, Tells
    <2>4. ToldInTime' /\ ToldOnce'
      BY <2>1 DEF RemindersInv, ToldInTime, ToldOnce
    <2>5. QED
      BY <2>2, <2>3, <2>4 DEF RemindersInv
  <1>5. QED
    BY <1>1, <1>2, <1>3, <1>4, GatherKeeps, NotifyKeeps, NotifyFailsKeeps, NextDayKeeps
       DEF RemindersNext

LEMMA RemindersInitIsSound == RemindersInit => RemindersInv
  <1> SUFFICES ASSUME RemindersInit PROVE RemindersInv
    OBVIOUS
  <1>1. /\ \A h \in Halves : run[h] = NotYet
        /\ run \in [Halves -> [at : {"no", "gathered", "done"}, batch : SUBSET Notice]]
    BY HalvesTyped DEF RemindersInit
  <1>2. today \in Mornings /\ 0 \in Mornings
    BY RemindersAssumption DEF RemindersInit, Mornings
  <1>3. RemindersTypeOK
    <2>1. \A h \in Halves : run[h].at \in {"no", "gathered", "done"} /\ run[h].batch \subseteq Notice
      BY <1>1, HalvesTyped
    <2>2. QED
      BY <1>2, <2>1 DEF RemindersInit, RemindersTypeOK
  <1>4. RunTyped
    BY <1>1, <1>2 DEF RemindersInit, RunTyped
  <1>5. BatchToday /\ BatchComplete
    BY <1>1, HalvesTyped DEF BatchToday, BatchComplete
  <1>6. ToldInTime /\ ToldOnce
    BY DEF RemindersInit, ToldInTime, ToldOnce
  <1>7. QED
    BY <1>3, <1>4, <1>5, <1>6 DEF RemindersInv

-----------------------------------------------------------------------------
(* The office.                                                              *)

IInv == TermsInv /\ RemindersInv

LEMMA Invariance == Spec => []IInv
  <1>1. Init => IInv
    BY TermsInitIsSound, RemindersInitIsSound DEF Init, IInv
  <1>2. IInv /\ [Next]_vars => IInv'
    <2> SUFFICES ASSUME IInv, [Next]_vars PROVE IInv'
      OBVIOUS
    <2>1. [TermsNext]_termVars /\ [RemindersNext]_reminderVars
      BY DEF Next, vars
    <2>2. QED
      BY <2>1, TermsStepIsSound, RemindersStepIsSound DEF IInv
  <1>3. QED
    BY <1>1, <1>2, PTL DEF Spec

\* Two requests at once, each on what it read, leave codes distinct, and terms
\* in order and one of them active, but for those that did overlap
\* (semesters.service.ts create, update, activate, remove; majors and project
\* types likewise).
THEOREM TablesSoundHolds == Spec => []TablesSound
  <1>1. IInv => TablesSound
    BY DEF IInv, TermsInv, RemindersInv, TablesSound, TypeOK
  <1>2. QED
    BY <1>1, Invariance, PTL

\* Everybody who has owed a thing since before a run near its deadline has been
\* told of it, and nobody of one deadline twice, whatever fails and moves
\* (reminders.service.ts run; notifications.service.ts notify).
THEOREM RemindedHolds == Spec => []Reminded
  <1>1. IInv => Reminded
    BY DEF IInv, RemindersInv, Reminded
  <1>2. QED
    BY <1>1, Invariance, PTL

\* A row goes only by a removal, which finds nothing that is counted.
LEMMA OnlyUncountedGo ==
  ASSUME TermsInv, TermsNext, table \notin SetNull, NEW i \in RowIds, "counted" \in refs[i]
  PROVE  code'[i] # None
  <1>1. Exists(i)
    BY DEF TermsInv, RefsToRows
  <1>2. code \in [RowIds -> Codes \cup {None}]
    BY DEF TermsInv, TermsTypeOK, CatalogTypeOK
  <1>3. CASE code' = code
    BY <1>1, <1>3 DEF Exists
  <1>4. ASSUME NEW c \in Clerks, NEW k \in RowIds, CommitCreate(c, k)
        PROVE  code'[i] # None
    <2>1. clerk[c].code \in Codes /\ code' = [code EXCEPT ![k] = clerk[c].code]
      BY <1>4 DEF CommitCreate, TermsInv, JobsKnow, Knows
    <2>2. QED
      BY <1>1, <1>2, <2>1, CatalogAssumption DEF Exists
  <1>5. ASSUME NEW c \in Clerks, CommitUpdate(c)
        PROVE  code'[i] # None
    <2>1. clerk[c].code \in Codes /\ code' = [code EXCEPT ![clerk[c].id] = clerk[c].code]
      BY <1>5 DEF CommitUpdate, TermsInv, JobsKnow, Knows
    <2>2. QED
      BY <1>1, <1>2, <2>1, CatalogAssumption DEF Exists
  <1>6. ASSUME NEW c \in Clerks, RemoveCommitted(c)
        PROVE  code'[i] # None
    <2>1. MayGo(clerk[c].id) /\ code' = [code EXCEPT ![clerk[c].id] = None]
      BY <1>6 DEF RemoveCommitted, CommitRemove
    <2>2. clerk[c].id # i
      BY <2>1 DEF MayGo, Uncounted
    <2>3. QED
      BY <1>1, <1>2, <2>1, <2>2 DEF Exists
  <1>7. QED
    BY <1>3, <1>4, <1>5, <1>6 DEF TermsNext, CatalogNext, CreateCommitted, CreateArrives,
       UpdateArrives, RemoveArrives, MoveArrives, ActivateArrives, Begin, Refer, GiveUp,
       CommitMove, CommitActivate

\* The last active term only goes with its row.
LEMMA OnlyRemovalLeavesNone ==
  ASSUME TermsInv, TermsNext, active # {}, active' = {}
  PROVE  \E i \in active : code'[i] = None
  <1>1. PICK c \in Clerks : RemoveCommitted(c)
    BY DEF TermsNext, CatalogNext, CreateCommitted, MoveArrives, ActivateArrives,
           CommitMove, CommitActivate
  <1>2. clerk[c].id \in RowIds /\ code' = [code EXCEPT ![clerk[c].id] = None]
    BY <1>1, RowInHand DEF RemoveCommitted, CommitRemove, Doing
  <1>3. code \in [RowIds -> Codes \cup {None}]
    BY DEF TermsInv, TermsTypeOK, CatalogTypeOK
  <1>4. active' = active \/ active' = active \ {clerk[c].id}
    BY <1>1 DEF RemoveCommitted
  <1>5. clerk[c].id \in active
    BY <1>4
  <1>6. QED
    BY <1>2, <1>3, <1>5

\* A row that is counted on stays, though what refers to it may have come after
\* the count, and a current term is replaced or removed, never just dropped
\* (semesters.service.ts remove, activate; project-types.service.ts remove).
THEOREM TablesKeptHolds == Spec => TablesKept
  <1>1. IInv /\ [Next]_vars =>
          [ table \notin SetNull =>
              \A i \in RowIds : "counted" \in refs[i] => code'[i] # None ]_<<code, refs>>
    BY OnlyUncountedGo DEF IInv, Next, vars, termVars
  <1>2. IInv /\ [Next]_vars =>
          [ active # {} /\ active' = {} => \E i \in active : code'[i] = None ]_termVars
    BY OnlyRemovalLeavesNone DEF IInv, Next, vars
  <1>3. QED
    BY <1>1, <1>2, Invariance, PTL DEF Spec, TablesKept, ReferredToStays, SomeTermStaysActive
=============================================================================
