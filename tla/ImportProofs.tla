---------------------------- MODULE ImportProofs ----------------------------
(***************************************************************************)
(* ImportRows.tla for any file, any fields and any synonyms: the rows that  *)
(* pass fit each other and none is lost, the columns suggested are the      *)
(* greedy choice, and the distance it goes by counts single edits.          *)
(***************************************************************************)
EXTENDS ImportRows, FiniteSetTheorems, SequenceTheorems, WellFoundedInduction, TLAPS

-----------------------------------------------------------------------------
(* Numbers.                                                                 *)

\* Of some numbers one is least.
LEMMA LeastOfSome ==
  ASSUME NEW some \in SUBSET Nat, some # {}
  PROVE  Min(some) \in some /\ \A m \in some : Min(some) <= m
  <1> DEFINE less == OpToRel(<, Nat)
  <1>1. less = {pair \in Nat \X Nat : pair[1] < pair[2]}
    BY Zenon DEF OpToRel
  <1>2. IsWellFoundedOn(less, Nat)
    BY NatLessThanWellFounded
  <1> HIDE DEF less
  <1>3. PICK n \in some : \A m \in some : <<m, n>> \notin less
    BY <1>2, WFMin
  <1>4. ASSUME NEW m \in some
        PROVE  n <= m
    <2>1. m \in Nat /\ n \in Nat
      OBVIOUS
    <2>2. m < n => <<m, n>> \in less
      BY <1>1, <2>1, Zenon
    <2>3. QED
      BY <1>3, <2>1, <2>2
  <1>5. QED
    BY <1>4 DEF Min

\* What can be got to from 0 one by one covers a span.
LEMMA OneByOne ==
  ASSUME NEW S \in SUBSET Nat, NEW length \in Nat, 0 \in S,
         \A n \in S : n < length => n + 1 \in S
  PROVE  0..length \subseteq S
  <1> DEFINE missed == (0..length) \ S
  <1>1. SUFFICES ASSUME missed # {} PROVE FALSE
    OBVIOUS
  <1>2. missed \in SUBSET Nat
    OBVIOUS
  <1>3. PICK n \in missed : \A m \in missed : n <= m
    BY <1>1, <1>2, LeastOfSome
  <1>4. n \in Nat /\ n # 0 /\ n <= length /\ n \notin S
    BY <1>3
  <1>5. n - 1 \in S
    <2>1. n - 1 \in 0..length
      BY <1>4
    <2>2. QED
      BY <1>3, <1>4, <2>1
  <1>6. QED
    BY <1>4, <1>5

\* What is made one by one can be made, each step from what the last made.
Steps(length, start, step, g) ==
  g = [m \in 0..length |-> IF m = 0 THEN start ELSE step[m][g[m - 1]]]

LEMMA StepByStep ==
  ASSUME NEW length \in Nat, NEW S, NEW step, NEW start \in S[0],
         \A m \in 1..length : \A x \in S[m - 1] : step[m][x] \in S[m]
  PROVE  \E g : Steps(length, start, step, g) /\ \A m \in 0..length : g[m] \in S[m]
  <1> DEFINE Made(g, n) ==
               /\ \A m \in 0..n : g[m] = IF m = 0 THEN start ELSE step[m][g[m - 1]]
               /\ \A m \in 0..n : g[m] \in S[m]
             N == {n \in Nat : n <= length => \E g : Made(g, n)}
  <1>1. 0 \in N
    <2> DEFINE g == [m \in 0..0 |-> start]
    <2>1. Made(g, 0)
      OBVIOUS
    <2> HIDE DEF g, Made
    <2>2. QED
      BY <2>1
  <1>2. ASSUME NEW n \in N, n < length
        PROVE  n + 1 \in N
    <2>1. n \in Nat
      OBVIOUS
    <2>2. PICK g : Made(g, n)
      BY <1>2, <2>1
    <2> DEFINE next == step[n + 1][g[n]]
               h == [m \in 0..(n + 1) |-> IF m = n + 1 THEN next ELSE g[m]]
    <2>3. next \in S[n + 1]
      <3>1. n + 1 \in 1..length /\ n \in 0..n /\ (n + 1) - 1 = n
        BY <1>2, <2>1
      <3>2. g[n] \in S[n]
        BY <2>2, <3>1
      <3>3. \A x \in S[(n + 1) - 1] : step[n + 1][x] \in S[n + 1]
        BY <3>1
      <3>4. QED
        BY <3>1, <3>2, <3>3
    <2> HIDE DEF next
    <2>4. ASSUME NEW m \in 0..(n + 1)
          PROVE  /\ h[m] = IF m = 0 THEN start ELSE step[m][h[m - 1]]
                 /\ h[m] \in S[m]
      <3>1. CASE m = n + 1
        <4>1. h[m] = next /\ m # 0 /\ m - 1 = n /\ h[m - 1] = g[n]
          BY <2>1, <3>1
        <4> HIDE DEF h
        <4>2. QED
          BY <2>3, <3>1, <4>1 DEF next
      <3>2. CASE m # n + 1
        <4>1. m \in 0..n
          BY <2>1, <3>2
        <4>2. h[m] = g[m] /\ (m # 0 => h[m - 1] = g[m - 1])
          BY <2>1, <4>1, <3>2
        <4> HIDE DEF h
        <4>3. QED
          BY <2>2, <4>1, <4>2
      <3>3. QED
        BY <3>1, <3>2
    <2> HIDE DEF h
    <2>5. Made(h, n + 1)
      BY <2>4
    <2> HIDE DEF Made
    <2>6. QED
      BY <2>1, <2>5
  <1>3. 0..length \subseteq N
    <2> HIDE DEF N
    <2>1. N \in SUBSET Nat
      BY DEF N
    <2>2. QED
      BY <1>1, <1>2, <2>1, OneByOne
  <1>4. PICK g : Made(g, length)
    BY <1>3
  <1> DEFINE h == [m \in 0..length |-> g[m]]
  <1>5. \A m \in 0..length : h[m] = IF m = 0 THEN start ELSE step[m][h[m - 1]]
    <2> SUFFICES ASSUME NEW m \in 0..length
                 PROVE  h[m] = IF m = 0 THEN start ELSE step[m][h[m - 1]]
      OBVIOUS
    <2>1. h[m] = g[m] /\ (m # 0 => h[m - 1] = g[m - 1])
      OBVIOUS
    <2> HIDE DEF h
    <2>2. QED
      BY <1>4, <2>1
  <1>6. h = [m \in 0..length |-> IF m = 0 THEN start ELSE step[m][h[m - 1]]]
    <2>1. h = [m \in 0..length |-> h[m]]
      OBVIOUS
    <2> HIDE DEF h
    <2>2. QED
      BY <1>5, <2>1, Zenon
  <1>7. \A m \in 0..length : h[m] \in S[m]
    BY <1>4
  <1> HIDE DEF h
  <1>8. QED
    BY <1>6, <1>7, Zenon DEF Steps

-----------------------------------------------------------------------------
(* The rows.                                                                *)

FieldsRead == {"role", "email", "code", "majorCode", "class"}

\* A row that passed, as judged: it is among what has been seen.
Passed(d, known) ==
  /\ WellFormed(d)
  /\ d.role = Student => ~Contradiction(d)
  /\ d.email \in known.emails /\ CodeKey(d) \in known.codes
  /\ d.role = Student /\ InForm(d) => <<ClassOf(d), d.majorCode>> \in known.majors

AllPassed == \A n \in DOMAIN valid : Passed(valid[n], seen)

\* What has been seen was seen in a well-formed row before.
Read(m) == m \in DOMAIN rows /\ m < at /\ WellFormed(Data(m))
SeenBefore ==
  /\ \A e \in seen.emails : \E m \in DOMAIN rows : Read(m) /\ Data(m).email = e
  /\ \A k \in seen.codes : \E m \in DOMAIN rows :
       /\ Read(m) /\ Data(m).role = k[1]
       /\ Data(m).code \in {k[2], None}
  /\ \A q \in seen.majors : \E m \in DOMAIN rows :
       /\ Read(m) /\ Data(m).role = Student /\ InForm(Data(m))
       /\ ClassOf(Data(m)) = q[1] /\ Data(m).majorCode = q[2]

\* One major for a class.
OneMajor == \A p, q \in seen.majors : p[1] = q[1] => p[2] = q[2]

SeenTyped == DOMAIN seen = {"emails", "codes", "majors"}

NothingYet == at = 0 => valid = <<>> /\ failed = {} /\ seen = Unseen

RowsTyped ==
  /\ Len(rows) \in Nat /\ DOMAIN rows = 1..Len(rows)
  /\ headers \in Seq(Words)
  /\ column \in [DOMAIN Fields -> 0..Len(headers)]
  /\ at \in 0..Len(rows) + 2

RowsInv ==
  /\ RowsTyped /\ SeenTyped /\ NothingYet
  /\ EveryRowReported
  /\ AllPassed /\ SeenBefore /\ OneMajor /\ FileConsistent /\ RejectedForCause

-----------------------------------------------------------------------------
LEMMA DataHasFields ==
  ASSUME NEW i PROVE FieldsRead \subseteq DOMAIN Data(i)
  BY RowsAssumption DEF Data, FieldsRead

\* A code that is given changes nothing the checks of a row's form look at.
LEMMA CodeGiven ==
  ASSUME NEW i, NEW d \in WithCode(Data(i))
  PROVE  /\ d.role = Data(i).role /\ d.email = Data(i).email
         /\ d.majorCode = Data(i).majorCode /\ d.class = Data(i).class
         /\ d.code = Data(i).code \/ (d.role = Lecturer /\ Data(i).code = None)
         /\ WellFormed(d) <=> WellFormed(Data(i))
  <1> DEFINE r == Data(i)
  <1>1. FieldsRead \subseteq DOMAIN r
    BY DataHasFields
  <1>2. Student # Lecturer
    BY RowsAssumption
  <1>3. d = r \/ (r.role = Lecturer /\ r.code = None /\ \E c : d = [r EXCEPT !.code = c])
    BY Zenon DEF WithCode
  <1> HIDE DEF r
  <1>4. CASE d = r
    BY <1>4 DEF r
  <1>5. ASSUME NEW c, r.role = Lecturer, r.code = None, d = [r EXCEPT !.code = c]
        PROVE  /\ d.role = r.role /\ d.email = r.email
               /\ d.majorCode = r.majorCode /\ d.class = r.class
               /\ WellFormed(d) <=> WellFormed(r)
    <2>1. d.role = r.role /\ d.email = r.email /\ d.majorCode = r.majorCode /\ d.class = r.class
      BY <1>1, <1>5 DEF FieldsRead
    <2>2. QED
      BY <1>2, <1>5, <2>1 DEF WellFormed, StudentRow, LecturerRow
  <1>6. QED
    BY <1>3, <1>4, <1>5 DEF r

\* As long as the file and the columns stand, so does what a row says.
LEMMA DataStands ==
  ASSUME UNCHANGED <<headers, column, rows>>
  PROVE  \A i : Data(i)' = Data(i) /\ Blank(i)' = Blank(i)
  BY DEF Data, Mapped, CellsNamed, Blank

\* What a judged row adds to what has been seen.
Adds(d) ==
  /\ SeenTyped'
  /\ seen.emails \subseteq seen'.emails /\ seen'.emails \subseteq seen.emails \cup {d.email}
  /\ seen.codes \subseteq seen'.codes /\ seen'.codes \subseteq seen.codes \cup {CodeKey(d)}
  /\ seen.majors \subseteq seen'.majors
  /\ seen'.majors = seen.majors
       \/ /\ d.role = Student /\ InForm(d) /\ ~Unfit(d)
          /\ seen'.majors = seen.majors \cup {<<ClassOf(d), d.majorCode>>}
  /\ seen' # seen => WellFormed(d)

\* What judging a row comes to.
Verdict(d) ==
  \/ Fail /\ ~WellFormed(d)
  \/ Fail /\ d.email \in seen.emails
  \/ Fail /\ CodeKey(d) \in seen.codes
  \/ Fail /\ Unfit(d)
  \/ /\ WellFormed(d) /\ ~Unfit(d)
     /\ d.email \notin seen.emails /\ d.email \in seen'.emails
     /\ CodeKey(d) \notin seen.codes /\ CodeKey(d) \in seen'.codes
     /\ d.role = Student /\ InForm(d) => <<ClassOf(d), d.majorCode>> \in seen'.majors
     /\ valid' = [n \in DOMAIN valid \cup {at} |-> IF n = at THEN d ELSE valid[n]]
     /\ failed' = failed

LEMMA Judged ==
  ASSUME NEW d, SeenTyped, Judge(d)
  PROVE  Adds(d) /\ Verdict(d)
  <1> DEFINE bad == ~WellFormed(d) \/ d.email \in seen.emails
             told == <<ClassOf(d), d.majorCode>>
             noted == d.role = Student /\ InForm(d) /\ ~Unfit(d)
  <1>1. CASE bad
    BY <1>1 DEF Judge, Adds, Verdict, SeenTyped
  <1>2. CASE ~bad /\ CodeKey(d) \in seen.codes
    <2>1. Fail /\ seen' = [seen EXCEPT !.emails = @ \cup {d.email}]
      BY <1>2 DEF Judge
    <2>2. QED
      BY <1>2, <2>1 DEF Adds, Verdict, SeenTyped
  <1>3. CASE ~bad /\ CodeKey(d) \notin seen.codes
    <2>1. /\ seen' = [emails |-> seen.emails \cup {d.email},
                      codes |-> seen.codes \cup {CodeKey(d)},
                      majors |-> seen.majors \cup IF noted THEN {told} ELSE {}]
          /\ IF Unfit(d) THEN Fail
             ELSE valid' = [n \in DOMAIN valid \cup {at} |-> IF n = at THEN d ELSE valid[n]]
                  /\ UNCHANGED failed
      BY <1>3 DEF Judge
    <2> HIDE DEF told
    <2>2. /\ seen'.emails = seen.emails \cup {d.email}
          /\ seen'.codes = seen.codes \cup {CodeKey(d)}
          /\ noted => seen'.majors = seen.majors \cup {told}
          /\ ~noted => seen'.majors = seen.majors
          /\ DOMAIN seen' = {"emails", "codes", "majors"}
      BY <2>1
    <2>3. Adds(d)
      BY <1>3, <2>2 DEF Adds, SeenTyped, told
    <2>4. Verdict(d)
      <3>1. CASE Unfit(d)
        BY <2>1, <3>1 DEF Verdict
      <3>2. CASE ~Unfit(d)
        BY <1>3, <2>1, <2>2, <3>2 DEF Verdict, told
      <3>3. QED
        BY <3>1, <3>2
    <2>5. QED
      BY <2>3, <2>4
  <1>4. QED
    BY <1>1, <1>2, <1>3

LEMMA SeenGrows ==
  ASSUME RowsInv, at \in DOMAIN rows, at' = at + 1, UNCHANGED <<headers, column, rows>>,
         NEW d \in WithCode(Data(at)), Adds(d)
  PROVE  SeenBefore' /\ OneMajor'
  <1>0a. PICK n \in DOMAIN rows : n = at
    OBVIOUS
  <1>0. /\ d.role = Data(n).role /\ d.email = Data(n).email
        /\ d.majorCode = Data(n).majorCode /\ d.class = Data(n).class
        /\ Data(n).code \in {d.code, None}
        /\ WellFormed(d) <=> WellFormed(Data(n))
    BY <1>0a, CodeGiven
  <1>1. \A i : Data(i)' = Data(i)
    BY DataStands
  <1>2. \A m : Read(m) => Read(m)'
    BY <1>1 DEF Read, RowsInv, RowsTyped
  <1>3. WellFormed(d) => Read(n)'
    BY <1>0, <1>0a, <1>1 DEF Read, RowsInv, RowsTyped
  <1>4. \A e \in seen'.emails : \E m \in DOMAIN rows' : Read(m)' /\ Data(m)'.email = e
    <2> SUFFICES ASSUME NEW e \in seen'.emails
                 PROVE  \E m \in DOMAIN rows : Read(m)' /\ Data(m).email = e
      BY <1>1
    <2>1. CASE e \in seen.emails
      BY <1>2, <2>1 DEF RowsInv, SeenBefore
    <2>2. CASE e \notin seen.emails
      BY <1>0, <1>3, <2>2 DEF Adds
    <2>3. QED
      BY <2>1, <2>2
  <1>5. \A k \in seen'.codes : \E m \in DOMAIN rows' :
          Read(m)' /\ Data(m)'.role = k[1] /\ Data(m)'.code \in {k[2], None}
    <2> SUFFICES ASSUME NEW k \in seen'.codes
                 PROVE  \E m \in DOMAIN rows :
                          Read(m)' /\ Data(m).role = k[1] /\ Data(m).code \in {k[2], None}
      BY <1>1
    <2>1. CASE k \in seen.codes
      BY <1>2, <2>1 DEF RowsInv, SeenBefore
    <2>2. CASE k \notin seen.codes
      <3>1. k = CodeKey(d) /\ WellFormed(d)
        BY <2>2 DEF Adds
      <3>2. k[1] = d.role /\ k[2] = d.code
        BY <3>1 DEF CodeKey
      <3>3. QED
        BY <1>0, <1>3, <3>1, <3>2
    <2>3. QED
      BY <2>1, <2>2
  <1>6. CASE seen'.majors = seen.majors
    <2>1. \A q \in seen'.majors : \E m \in DOMAIN rows' :
            /\ Read(m)' /\ Data(m)'.role = Student /\ InForm(Data(m)')
            /\ ClassOf(Data(m)') = q[1] /\ Data(m)'.majorCode = q[2]
      BY <1>1, <1>2, <1>6 DEF RowsInv, SeenBefore
    <2>2. OneMajor'
      BY <1>6 DEF RowsInv, OneMajor
    <2>3. QED
      BY <1>1, <1>4, <1>5, <2>1, <2>2 DEF SeenBefore
  <1>7. CASE seen'.majors # seen.majors
    <2> DEFINE told == <<ClassOf(d), d.majorCode>>
    <2>1. /\ d.role = Student /\ InForm(d) /\ ~Unfit(d) /\ WellFormed(d)
          /\ seen'.majors = seen.majors \cup {told}
      BY <1>7 DEF Adds
    <2>2. told[1] = ClassOf(d) /\ told[2] = d.majorCode
      OBVIOUS
    <2>3. InForm(Data(n)) /\ ClassOf(Data(n)) = ClassOf(d)
      BY <1>0, <2>1 DEF InForm, ClassOf
    <2> HIDE DEF told
    <2>4. \A q \in seen'.majors : \E m \in DOMAIN rows' :
            /\ Read(m)' /\ Data(m)'.role = Student /\ InForm(Data(m)')
            /\ ClassOf(Data(m)') = q[1] /\ Data(m)'.majorCode = q[2]
      <3> SUFFICES ASSUME NEW q \in seen'.majors
                   PROVE  \E m \in DOMAIN rows :
                            /\ Read(m)' /\ Data(m).role = Student /\ InForm(Data(m))
                            /\ ClassOf(Data(m)) = q[1] /\ Data(m).majorCode = q[2]
        BY <1>1
      <3>1. CASE q \in seen.majors
        BY <1>2, <3>1 DEF RowsInv, SeenBefore
      <3>2. CASE q = told
        BY <1>0, <1>3, <2>1, <2>2, <2>3, <3>2
      <3>3. QED
        BY <2>1, <3>1, <3>2
    <2>5. \A q \in seen.majors : q[1] = told[1] => q[2] = told[2]
      BY <2>1, <2>2 DEF Unfit
    <2>6. OneMajor'
      BY <2>1, <2>5 DEF RowsInv, OneMajor
    <2>7. QED
      BY <1>1, <1>4, <1>5, <2>4, <2>6 DEF SeenBefore
  <1>8. QED
    BY <1>6, <1>7

\* What has passed fits: any two rows, and a student's own data.
Fits(x, y) ==
  /\ x.email # y.email
  /\ x.role = y.role => x.code # y.code
  /\ x.role = Student /\ y.role = Student /\ InForm(x) /\ InForm(y)
       /\ ClassOf(x) = ClassOf(y) => x.majorCode = y.majorCode
Agrees(x) ==
  x.role = Student =>
    /\ x.email.local = x.code
    /\ InForm(x) => KhoaCohort(x.class.khoa) = Cohort(x.code)

LEMMA Consistent ==
  FileConsistent <=> /\ \A n, m \in DOMAIN valid : n # m => Fits(valid[n], valid[m])
                     /\ \A n \in DOMAIN valid : Agrees(valid[n])
  BY DEF FileConsistent, Fits, Agrees

LEMMA PassedAgrees ==
  ASSUME NEW d, NEW known, Passed(d, known)
  PROVE  Agrees(d)
  BY RowsAssumption DEF Passed, Agrees, WellFormed, StudentRow, LecturerRow, Contradiction

\* A row that fails has a fault the whole file shows.
LEMMA FailedForCause ==
  ASSUME RowsInv, at \in DOMAIN rows, NEW d \in WithCode(Data(at)),
         \/ ~WellFormed(d) \/ d.email \in seen.emails
         \/ CodeKey(d) \in seen.codes \/ Unfit(d)
  PROVE  FaultOf(at)
  <1> DEFINE own == Data(at)
  <1>1. CASE ~WellFormed(d)
    BY <1>1, CodeGiven DEF FaultOf
  <1>2. CASE d.email \in seen.emails
    <2>1. PICK m \in DOMAIN rows : Read(m) /\ Data(m).email = d.email
      BY <1>2 DEF RowsInv, SeenBefore
    <2>2. QED
      BY <2>1, CodeGiven DEF FaultOf, Read
  <1>3. CASE CodeKey(d) \in seen.codes
    <2>1. CodeKey(d)[1] = d.role /\ CodeKey(d)[2] = d.code
      BY DEF CodeKey
    <2>2. PICK m \in DOMAIN rows :
            Read(m) /\ Data(m).role = d.role /\ Data(m).code \in {d.code, None}
      BY <1>3, <2>1 DEF RowsInv, SeenBefore
    <2>3. own.role = d.role /\ (own.code = d.code \/ own.code = None)
      BY CodeGiven
    <2>4. Data(m).code = own.code \/ None \in {Data(m).code, own.code}
      BY <2>2, <2>3
    <2>5. QED
      BY <2>2, <2>3, <2>4 DEF FaultOf, Read
  <1>4. CASE Unfit(d)
    <2>1. /\ own.role = d.role /\ own.majorCode = d.majorCode /\ own.class = d.class
          /\ d.role = Student => own.code = d.code
      BY CodeGiven, RowsAssumption
    <2>2. CASE d.majorCode \notin Majors \/ Contradiction(d)
      BY <1>4, <2>1, <2>2 DEF FaultOf, Unfit, Contradiction, InForm, Cohort
    <2>3. CASE InForm(d) /\ \E q \in seen.majors : q[1] = ClassOf(d) /\ q[2] # d.majorCode
      <3>1. PICK q \in seen.majors : q[1] = ClassOf(d) /\ q[2] # d.majorCode
        BY <2>3
      <3>2. PICK m \in DOMAIN rows :
              /\ Read(m) /\ Data(m).role = Student /\ InForm(Data(m))
              /\ ClassOf(Data(m)) = q[1] /\ Data(m).majorCode = q[2]
        BY DEF RowsInv, SeenBefore
      <3>3. InForm(own) /\ ClassOf(own) = ClassOf(d)
        BY <2>1, <2>3 DEF InForm, ClassOf
      <3>4. QED
        BY <2>1, <3>1, <3>2, <3>3 DEF FaultOf, Read
    <2>4. QED
      BY <1>4, <2>2, <2>3 DEF Unfit
  <1>5. QED
    BY <1>1, <1>2, <1>3, <1>4

\* What passed stays passed; what is new fits what passed.
LEMMA PassedStays ==
  ASSUME NEW d, Adds(d), NEW x, Passed(x, seen)
  PROVE  Passed(x, seen')
  BY DEF Adds, Passed

LEMMA NewPassed ==
  ASSUME NEW d, Verdict(d), valid' # valid
  PROVE  /\ Passed(d, seen')
         /\ valid' = [n \in DOMAIN valid \cup {at} |-> IF n = at THEN d ELSE valid[n]]
         /\ failed' = failed
  BY DEF Verdict, Passed, Fail, Unfit

LEMMA NewFits ==
  ASSUME OneMajor, NEW x, Passed(x, seen), NEW d, Verdict(d), valid' # valid
  PROVE  Fits(x, d) /\ Fits(d, x)
  <1>1. /\ WellFormed(d) /\ ~Unfit(d)
        /\ d.email \notin seen.emails /\ CodeKey(d) \notin seen.codes
    BY DEF Verdict, Fail
  <1>2. x.email \in seen.emails /\ CodeKey(x) \in seen.codes
    BY DEF Passed
  <1>3. x.email # d.email
    BY <1>1, <1>2
  <1>4. x.role = d.role => x.code # d.code
    BY <1>1, <1>2 DEF CodeKey
  <1>5. ASSUME x.role = Student, d.role = Student, InForm(x), InForm(d), ClassOf(x) = ClassOf(d)
        PROVE  x.majorCode = d.majorCode
    <2> DEFINE told == <<ClassOf(x), x.majorCode>>
    <2>1. told \in seen.majors
      BY <1>5 DEF Passed
    <2>2. told[1] = ClassOf(x) /\ told[2] = x.majorCode
      OBVIOUS
    <2> HIDE DEF told
    <2>3. QED
      BY <1>1, <1>5, <2>1, <2>2 DEF Unfit
  <1>6. QED
    BY <1>3, <1>4, <1>5 DEF Fits

\* Judging one row.
LEMMA JudgeRowKeeps ==
  ASSUME RowsInv, JudgeRow
  PROVE  RowsInv'
  <1>1. /\ at \in DOMAIN rows /\ at' = at + 1
        /\ UNCHANGED <<headers, column, rows>>
    BY DEF JudgeRow, fuzzyVars
  <1>2. RowsTyped' /\ NothingYet'
    BY <1>1 DEF RowsInv, RowsTyped, NothingYet
  <1>3. \A i : Data(i)' = Data(i) /\ Blank(i)' = Blank(i)
    BY <1>1, DataStands
  <1>3a. \A i : FaultOf(i)' = FaultOf(i)
    BY <1>1, <1>3 DEF FaultOf
  <1>4. PICK here \in DOMAIN rows : here = at
    BY <1>1
  <1>5. here \in Nat /\ \A n \in DOMAIN rows : n \in Nat
    BY DEF RowsInv, RowsTyped
  <1>6. /\ DOMAIN valid \cup failed = {n \in DOMAIN rows : n < here /\ ~Blank(n)}
        /\ DOMAIN valid \cap failed = {}
        /\ here \notin DOMAIN valid \cup failed
    BY <1>4, <1>5 DEF RowsInv, EveryRowReported, RowsTyped
  <1>7. CASE Blank(at)
    <2>1. UNCHANGED <<seen, valid, failed>>
      BY <1>7 DEF JudgeRow
    <2>2. EveryRowReported'
      BY <1>1, <1>3, <1>4, <1>5, <1>6, <1>7, <2>1 DEF EveryRowReported
    <2>3. SeenTyped' /\ AllPassed' /\ OneMajor' /\ FileConsistent'
      BY <2>1 DEF RowsInv, SeenTyped, AllPassed, OneMajor, FileConsistent
    <2>4. SeenBefore'
      <3>1. \A m : Read(m) => Read(m)'
        BY <1>1, <1>3 DEF Read, RowsInv, RowsTyped
      <3>2. QED
        BY <1>1, <1>3, <2>1, <3>1 DEF RowsInv, SeenBefore
    <2>5. RejectedForCause'
      BY <1>1, <1>3a, <1>5, <2>1 DEF RowsInv, RowsTyped, RejectedForCause
    <2>6. QED
      BY <1>2, <2>2, <2>3, <2>4, <2>5 DEF RowsInv
  <1>8. CASE ~Blank(at)
    <2>1. PICK d \in WithCode(Data(at)) : Judge(d)
      BY <1>8 DEF JudgeRow
    <2>2. Adds(d) /\ Verdict(d)
      BY <2>1, Judged DEF RowsInv
    <2>3. SeenTyped' /\ SeenBefore' /\ OneMajor'
      BY <1>1, <2>2, SeenGrows DEF Adds
    <2>4. CASE Fail
      <3>1. failed' = failed \cup {at} /\ valid' = valid
        BY <2>4 DEF Fail
      <3>2. EveryRowReported'
        BY <1>1, <1>3, <1>4, <1>5, <1>6, <1>8, <3>1 DEF EveryRowReported
      <3>3. AllPassed'
        BY <2>2, <3>1, PassedStays DEF RowsInv, AllPassed
      <3>4. FileConsistent'
        BY <3>1 DEF RowsInv, FileConsistent
      <3>5. FaultOf(here)
        <4>1. ~WellFormed(d) \/ d.email \in seen.emails \/ CodeKey(d) \in seen.codes \/ Unfit(d)
          BY <1>4, <1>6, <2>2, <3>1 DEF Verdict, Fail
        <4>2. QED
          BY <1>1, <1>4, <2>1, <4>1, FailedForCause
      <3>6. RejectedForCause'
        BY <1>1, <1>3a, <1>4, <1>5, <3>1, <3>5 DEF RowsInv, RowsTyped, RejectedForCause
      <3>7. QED
        BY <1>2, <2>3, <3>2, <3>3, <3>4, <3>6 DEF RowsInv
    <2>5. CASE ~Fail
      <3>1. /\ failed' = failed
            /\ valid' = [n \in DOMAIN valid \cup {here} |-> IF n = here THEN d ELSE valid[n]]
        BY <1>4, <2>2, <2>5 DEF Verdict
      <3>2. here \in DOMAIN valid' /\ valid' # valid
        BY <1>6, <3>1
      <3>3. Passed(d, seen')
        BY <2>2, <3>2, NewPassed
      <3>4. EveryRowReported'
        BY <1>1, <1>3, <1>4, <1>5, <1>6, <1>8, <3>1 DEF EveryRowReported
      <3>5. AllPassed'
        BY <2>2, <3>1, <3>3, PassedStays DEF RowsInv, AllPassed
      <3>6. \A n \in DOMAIN valid : Fits(valid[n], d) /\ Fits(d, valid[n])
        BY <2>2, <3>2, NewFits DEF RowsInv, AllPassed
      <3>7. \A n, m \in DOMAIN valid' : n # m => Fits(valid'[n], valid'[m])
        BY <3>1, <3>6, Consistent DEF RowsInv
      <3>8. \A n \in DOMAIN valid' : Agrees(valid'[n])
        BY <3>5, PassedAgrees DEF AllPassed
      <3>9. FileConsistent'
        BY <3>7, <3>8 DEF FileConsistent, Fits, Agrees
      <3>10. RejectedForCause'
        BY <1>1, <1>3a, <1>5, <3>1 DEF RowsInv, RowsTyped, RejectedForCause
      <3>11. QED
        BY <1>2, <2>3, <3>4, <3>5, <3>9, <3>10 DEF RowsInv
    <2>6. QED
      BY <2>4, <2>5
  <1>9. QED
    BY <1>7, <1>8

\* Before the loop nothing is judged, whatever the columns.
LEMMA BeginKeeps ==
  ASSUME RowsInv, NEW chosen \in [DOMAIN Fields -> 0..Len(headers)], Begin(chosen)
  PROVE  RowsInv'
  <1>1. /\ at = 0 /\ at' = 1 /\ rows # <<>> /\ column' = chosen
        /\ UNCHANGED <<headers, rows, seen, valid, failed>>
    BY DEF Begin, fuzzyVars
  <1>2. valid = <<>> /\ failed = {} /\ seen = Unseen
    BY <1>1 DEF RowsInv, NothingYet
  <1>3. RowsTyped' /\ SeenTyped' /\ NothingYet'
    BY <1>1 DEF RowsInv, RowsTyped, SeenTyped, NothingYet
  <1>4. DOMAIN valid' = {} /\ failed' = {}
    BY <1>1, <1>2
  <1>5. EveryRowReported'
    <2>1. \A n \in DOMAIN rows : ~(n < 1)
      BY DEF RowsInv, RowsTyped
    <2>2. QED
      BY <1>1, <1>4, <2>1 DEF EveryRowReported
  <1>6. AllPassed' /\ FileConsistent' /\ RejectedForCause'
    BY <1>4 DEF AllPassed, FileConsistent, RejectedForCause
  <1>7. SeenBefore' /\ OneMajor'
    BY <1>1, <1>2 DEF SeenBefore, OneMajor, Unseen
  <1>8. QED
    BY <1>3, <1>5, <1>6, <1>7 DEF RowsInv

LEMMA StandardTyped ==
  ASSUME Len(headers) \in Nat, DOMAIN headers = 1..Len(headers)
  PROVE  Standard \in [DOMAIN Fields -> 0..Len(headers)]
  <1> SUFFICES ASSUME NEW f \in DOMAIN Fields
               PROVE  Standard[f] \in 0..Len(headers)
    BY DEF Standard
  <1> DEFINE named == {h \in DOMAIN headers : headers[h] = StandardNames[f]}
  <1>1. Standard[f] = IF named = {} THEN 0 ELSE Min(named)
    BY DEF Standard
  <1>2. named \in SUBSET Nat
    OBVIOUS
  <1>3. named \subseteq 1..Len(headers)
    OBVIOUS
  <1> HIDE DEF named
  <1>4. named # {} => Min(named) \in named
    BY <1>2, LeastOfSome
  <1>5. CASE named = {}
    BY <1>1, <1>5
  <1>6. CASE named # {}
    <2>1. Standard[f] = Min(named)
      BY <1>1, <1>6
    <2>2. Min(named) \in 1..Len(headers)
      BY <1>3, <1>4, <1>6
    <2>3. QED
      BY <2>1, <2>2
  <1>7. QED
    BY <1>5, <1>6

\* The addresses that are taken leave the rest of what passed.
LEMMA RejectTakenKeeps ==
  ASSUME RowsInv, RejectTaken
  PROVE  RowsInv'
  <1>1. PICK taken \in SUBSET {valid[n].email : n \in DOMAIN valid} :
          LET kept == {n \in DOMAIN valid : valid[n].email \notin taken} IN
          /\ valid' = [n \in kept |-> valid[n]]
          /\ failed' = failed \cup (DOMAIN valid \ kept)
    BY DEF RejectTaken
  <1> DEFINE kept == {n \in DOMAIN valid : valid[n].email \notin taken}
  <1>2. /\ at = Len(rows) + 1 /\ at' = at + 1
        /\ UNCHANGED <<headers, rows, column, seen>>
    BY DEF RejectTaken, fuzzyVars
  <1>3. kept \subseteq DOMAIN valid /\ DOMAIN valid' = kept
        /\ \A n \in kept : valid'[n] = valid[n]
    BY <1>1
  <1>4. failed' = failed \cup (DOMAIN valid \ kept)
    BY <1>1
  <1> HIDE DEF kept
  <1>5. RowsTyped' /\ SeenTyped' /\ NothingYet' /\ RejectedForCause'
    BY <1>2 DEF RowsInv, RowsTyped, SeenTyped, NothingYet, RejectedForCause
  <1>6. \A i : Data(i)' = Data(i) /\ Blank(i)' = Blank(i)
    BY <1>2, DataStands
  <1>7. EveryRowReported'
    <2>1. at > 0 /\ at' > 0 /\ \A n \in DOMAIN rows : n < at /\ n < at'
      BY <1>2 DEF RowsInv, RowsTyped
    <2>2. /\ DOMAIN valid \cup failed = {n \in DOMAIN rows : n < at /\ ~Blank(n)}
          /\ DOMAIN valid \cap failed = {}
      BY <2>1 DEF RowsInv, EveryRowReported
    <2>3. DOMAIN valid' \cup failed' = DOMAIN valid \cup failed
      BY <1>3, <1>4
    <2>4. DOMAIN valid' \cap failed' = {}
      BY <1>3, <1>4, <2>2
    <2>5. QED
      BY <1>2, <1>6, <2>1, <2>2, <2>3, <2>4 DEF EveryRowReported
  <1>8. AllPassed' /\ OneMajor'
    BY <1>2, <1>3 DEF RowsInv, AllPassed, OneMajor
  <1>9. SeenBefore'
    <2>1. \A m : Read(m) => Read(m)'
      BY <1>2, <1>6 DEF Read, RowsInv, RowsTyped
    <2>2. QED
      BY <1>2, <1>6, <2>1 DEF RowsInv, SeenBefore
  <1>10. FileConsistent'
    BY <1>3 DEF RowsInv, FileConsistent
  <1>11. QED
    BY <1>5, <1>7, <1>8, <1>9, <1>10 DEF RowsInv

LEMMA InitRows ==
  ASSUME Init
  PROVE  FuzzyTypeOK /\ RowsInv
  <1>1. PICK s \in Sheets : FuzzyInit(s.headers) /\ rows = s.rows
    BY DEF Init
  <1>2. headers \in Seq(Words) /\ Len(rows) \in Nat /\ DOMAIN rows = 1..Len(rows)
    BY <1>1, RowsAssumption DEF FuzzyInit
  <1>3. FuzzyTypeOK
    BY <1>1, <1>2 DEF FuzzyInit, FuzzyTypeOK
  <1>4. /\ column = [f \in DOMAIN Fields |-> 0] /\ at = 0
        /\ seen = Unseen /\ valid = <<>> /\ failed = {}
    BY DEF Init
  <1>5. RowsTyped /\ SeenTyped /\ NothingYet
    BY <1>2, <1>4 DEF RowsTyped, SeenTyped, NothingYet, Unseen
  <1>6. EveryRowReported /\ AllPassed /\ FileConsistent /\ RejectedForCause
    BY <1>4 DEF EveryRowReported, AllPassed, FileConsistent, RejectedForCause
  <1>7. SeenBefore /\ OneMajor
    BY <1>4 DEF SeenBefore, OneMajor, Unseen
  <1>8. QED
    BY <1>3, <1>5, <1>6, <1>7 DEF RowsInv

LEMMA RowsStand ==
  ASSUME RowsInv, UNCHANGED <<headers, rows, column, at, seen, valid, failed>>
  PROVE  RowsInv'
  <1>1. \A i : Data(i)' = Data(i) /\ Blank(i)' = Blank(i)
    BY DataStands
  <1>2. \A i : FaultOf(i)' = FaultOf(i)
    BY <1>1 DEF FaultOf
  <1>3. \A m : Read(m)' = Read(m)
    BY <1>1 DEF Read
  <1>4. RowsTyped' /\ SeenTyped' /\ NothingYet'
    BY DEF RowsInv, RowsTyped, SeenTyped, NothingYet
  <1>5. EveryRowReported' /\ AllPassed' /\ FileConsistent' /\ OneMajor'
    BY <1>1 DEF RowsInv, EveryRowReported, AllPassed, FileConsistent, OneMajor
  <1>6. RejectedForCause'
    BY <1>2 DEF RowsInv, RejectedForCause
  <1>7. SeenBefore'
    BY <1>1, <1>3 DEF RowsInv, SeenBefore
  <1>8. QED
    BY <1>4, <1>5, <1>6, <1>7 DEF RowsInv

LEMMA AssignTyped ==
  ASSUME Len(headers) \in Nat, DOMAIN headers = 1..Len(headers), FuzzyTypeOK, Assign
  PROVE  FuzzyTypeOK'
  <1>1. PICK c \in candidates :
          /\ candidates' = candidates \ {c}
          /\ suggested' = IF Free(c) THEN [suggested EXCEPT ![c.field] = c.column]
                          ELSE suggested
          /\ headers' = headers
    BY DEF Assign
  <1>2. c.field \in DOMAIN Fields /\ c.column \in DOMAIN headers
    BY DEF FuzzyTypeOK, Candidates
  <1>3. Candidates' = Candidates
    BY <1>1 DEF Candidates
  <1>4. candidates' \subseteq Candidates
    BY <1>1, <1>3 DEF FuzzyTypeOK
  <1>5. suggested' \in [DOMAIN Fields -> 0..Len(headers)]
    BY <1>1, <1>2 DEF FuzzyTypeOK
  <1>6. QED
    BY <1>1, <1>3, <1>4, <1>5 DEF FuzzyTypeOK

LEMMA NextRows ==
  ASSUME FuzzyTypeOK, RowsInv, [Next]_vars
  PROVE  FuzzyTypeOK' /\ RowsInv'
  <1>1. Len(headers) \in Nat /\ DOMAIN headers = 1..Len(headers)
    BY DEF RowsInv, RowsTyped
  <1>2. ASSUME UNCHANGED fuzzyVars PROVE FuzzyTypeOK'
    BY <1>2 DEF fuzzyVars, FuzzyTypeOK, Candidates
  <1>3. CASE Assign /\ UNCHANGED <<rows, column, at, seen, valid, failed>>
    <2>1. headers' = headers
      BY <1>3 DEF Assign
    <2>2. QED
      BY <1>1, <1>3, <2>1, AssignTyped, RowsStand
  <1>4. CASE Confirm
    <2>1. PICK chosen \in [DOMAIN Fields -> 0..Len(headers)] : Begin(chosen)
      <3>1. suggested \in [DOMAIN Fields -> 0..Len(headers)]
        BY DEF FuzzyTypeOK
      <3>2. PICK changed \in SUBSET DOMAIN Fields :
              \E other \in [changed -> 0..Len(headers)] :
                Begin([f \in DOMAIN Fields |->
                  IF f \in changed THEN other[f] ELSE suggested[f]])
        BY <1>4, Zenon DEF Confirm
      <3> PICK other \in [changed -> 0..Len(headers)] :
            Begin([f \in DOMAIN Fields |->
              IF f \in changed THEN other[f] ELSE suggested[f]])
        BY <3>2
      <3> DEFINE chosen == [f \in DOMAIN Fields |->
                    IF f \in changed THEN other[f] ELSE suggested[f]]
      <3>3. chosen \in [DOMAIN Fields -> 0..Len(headers)]
        BY <3>1
      <3>4. Begin(chosen)
        BY <3>2
      <3> HIDE DEF chosen
      <3>5. QED
        BY <3>3, <3>4
    <2>2. UNCHANGED fuzzyVars
      BY <2>1 DEF Begin
    <2>3. QED
      BY <1>2, <2>1, <2>2, BeginKeeps
  <1>5. CASE BulkImport
    <2>1. Begin(Standard) /\ Standard \in [DOMAIN Fields -> 0..Len(headers)]
      BY <1>1, <1>5, StandardTyped DEF BulkImport
    <2>2. UNCHANGED fuzzyVars
      BY <2>1 DEF Begin
    <2>3. QED
      BY <1>2, <2>1, <2>2, BeginKeeps
  <1>6. CASE JudgeRow
    BY <1>2, <1>6, JudgeRowKeeps DEF JudgeRow
  <1>7. CASE RejectTaken
    BY <1>2, <1>7, RejectTakenKeeps DEF RejectTaken
  <1>8. CASE UNCHANGED vars
    BY <1>2, <1>8, RowsStand DEF vars, fuzzyVars
  <1>9. QED
    BY <1>3, <1>4, <1>5, <1>6, <1>7, <1>8 DEF Next

LEMMA RowsInvHolds == Spec => [](FuzzyTypeOK /\ RowsInv)
  <1>1. Init => FuzzyTypeOK /\ RowsInv
    BY InitRows
  <1>2. FuzzyTypeOK /\ RowsInv /\ [Next]_vars => FuzzyTypeOK' /\ RowsInv'
    BY NextRows
  <1>3. QED
    BY <1>1, <1>2, PTL DEF Spec

\* Whatever the file, its columns and the addresses there are, every row that
\* is not blank is reported once, those that pass could all be accounts at once,
\* and no row fails but for a fault of its own or an earlier row's
\* (users.service.ts validateImportRows, validateImportRowsMapped).
THEOREM RowsSoundHolds == Spec => []RowsSound
  <1>1. FuzzyTypeOK /\ RowsInv => RowsSound
    <2> SUFFICES ASSUME FuzzyTypeOK, RowsInv PROVE RowsSound
      OBVIOUS
    <2>1. DOMAIN valid \cup failed \subseteq DOMAIN rows
      <3>1. CASE at = 0
        BY <3>1 DEF RowsInv, NothingYet
      <3>2. CASE at > 0
        BY <3>2 DEF RowsInv, EveryRowReported
      <3>3. QED
        BY <3>1, <3>2 DEF RowsInv, RowsTyped
    <2>2. QED
      BY <2>1 DEF RowsInv, RowsTyped, RowsSound, TypeOK
  <1>2. QED
    BY <1>1, RowsInvHolds, PTL

-----------------------------------------------------------------------------
(* The distance: one row of the table after another.                        *)

Cells(word) == [1..Len(word) + 1 -> Nat]
Cost(x, y) == IF x = y THEN 0 ELSE 1

\* A row as its neighbours make it.
Follows(next, prev, ch, word) ==
  /\ next \in Cells(word)
  /\ next[1] = prev[1] + 1
  /\ \A j \in 1..Len(word) :
       /\ next[j + 1] <= prev[j + 1] + 1
       /\ next[j + 1] <= next[j] + 1
       /\ next[j + 1] <= prev[j] + Cost(ch, word[j])
       /\ \/ next[j + 1] = prev[j + 1] + 1
          \/ next[j + 1] = next[j] + 1
          \/ next[j + 1] = prev[j] + Cost(ch, word[j])

LEMMA LeastOfThree ==
  ASSUME NEW x \in Nat, NEW y \in Nat, NEW z \in Nat
  PROVE  LET least == Min({x, y, z}) IN
         /\ least \in Nat /\ least <= x /\ least <= y /\ least <= z
         /\ least = x \/ least = y \/ least = z
  <1> DEFINE three == {x, y, z}
  <1>1. three \in SUBSET Nat /\ three # {}
    OBVIOUS
  <1> HIDE DEF three
  <1>2. Min(three) \in three /\ \A m \in three : Min(three) <= m
    BY <1>1, LeastOfSome
  <1>3. QED
    BY <1>2 DEF three

\* A row with one more cell, the next after j.
Longer(next, row, prev, ch, word, j) ==
  /\ next \in [1..j + 1 -> Nat]
  /\ \A k \in 1..j : next[k] = row[k]
  /\ next[j + 1] <= prev[j + 1] + 1
  /\ next[j + 1] <= row[j] + 1
  /\ next[j + 1] <= prev[j] + Cost(ch, word[j])
  /\ \/ next[j + 1] = prev[j + 1] + 1
     \/ next[j + 1] = row[j] + 1
     \/ next[j + 1] = prev[j] + Cost(ch, word[j])

LEMMA OneMoreCell ==
  ASSUME NEW word, Len(word) \in Nat, NEW prev \in Cells(word), NEW ch,
         NEW j \in 1..Len(word), NEW row \in [1..j -> Nat]
  PROVE  Longer(Extended(row, prev, ch, word[j]), row, prev, ch, word, j)
  <1> DEFINE x == prev[j + 1] + 1
             y == row[j] + 1
             z == prev[j] + Cost(ch, word[j])
             least == Min({x, y, z})
             next == Extended(row, prev, ch, word[j])
  <1>1. row \in Seq(Nat) /\ Len(row) = j
    OBVIOUS
  <1>2. prev[j] \in Nat /\ prev[j + 1] \in Nat /\ row[j] \in Nat
    BY DEF Cells
  <1>3. x \in Nat /\ y \in Nat /\ z \in Nat
    BY <1>2 DEF Cost
  <1>4. z = IF ch = word[j] THEN prev[j] ELSE prev[j] + 1
    BY <1>2 DEF Cost
  <1>5. next = Append(row, least)
    BY <1>1, <1>4 DEF Extended
  <1> HIDE DEF x, y, z
  <1>6. /\ least \in Nat /\ least <= x /\ least <= y /\ least <= z
        /\ least = x \/ least = y \/ least = z
    BY <1>3, LeastOfThree
  <1> HIDE DEF least, next
  <1>7. /\ next \in Seq(Nat) /\ Len(next) = j + 1 /\ next[j + 1] = least
        /\ \A k \in 1..j : next[k] = row[k]
    BY <1>1, <1>5, <1>6
  <1>8. next \in [1..j + 1 -> Nat]
    BY <1>7
  <1>9. QED
    BY <1>6, <1>7, <1>8 DEF x, y, z, next, Longer

RowFilling(prev, ch, word, g) ==
  g = [j \in 0..Len(word) |->
         IF j = 0 THEN <<prev[1] + 1>> ELSE Extended(g[j - 1], prev, ch, word[j])]

LEMMA RowFilled ==
  ASSUME NEW word, Len(word) \in Nat, NEW prev \in Cells(word), NEW ch
  PROVE  \E g : RowFilling(prev, ch, word, g)
  <1> DEFINE S == [m \in 0..Len(word) |-> [1..m + 1 -> Nat]]
             step == [m \in 1..Len(word) |->
                        [row \in S[m - 1] |-> Extended(row, prev, ch, word[m])]]
             start == <<prev[1] + 1>>
  <1>1. start \in S[0]
    <2>1. prev[1] \in Nat
      BY DEF Cells
    <2>2. S[0] = [1..1 -> Nat]
      OBVIOUS
    <2>3. QED
      BY <2>1, <2>2
  <1>2. ASSUME NEW m \in 1..Len(word), NEW x \in S[m - 1]
        PROVE  step[m][x] = Extended(x, prev, ch, word[m]) /\ step[m][x] \in S[m]
    <2>1. S[m - 1] = [1..m -> Nat] /\ S[m] = [1..m + 1 -> Nat]
      OBVIOUS
    <2>2. step[m][x] = Extended(x, prev, ch, word[m])
      OBVIOUS
    <2> HIDE DEF S, step
    <2>3. Extended(x, prev, ch, word[m]) \in [1..m + 1 -> Nat]
      BY <2>1, OneMoreCell DEF Longer
    <2>4. QED
      BY <2>1, <2>2, <2>3
  <1> HIDE DEF S, step, start
  <1>3. PICK g : Steps(Len(word), start, step, g) /\ \A m \in 0..Len(word) : g[m] \in S[m]
    <2>1. \A m \in 1..Len(word) : \A x \in S[m - 1] : step[m][x] \in S[m]
      BY <1>2
    <2>2. QED
      BY <1>1, <2>1, StepByStep
  <1>4. \A m \in 0..Len(word) :
          (IF m = 0 THEN start ELSE step[m][g[m - 1]])
            = IF m = 0 THEN <<prev[1] + 1>> ELSE Extended(g[m - 1], prev, ch, word[m])
    BY <1>2, <1>3 DEF start
  <1>5. RowFilling(prev, ch, word, g)
    BY <1>3, <1>4, Zenon DEF RowFilling, Steps
  <1>6. QED
    BY <1>5

LEMMA NextRowFollows ==
  ASSUME NEW word, Len(word) \in Nat, NEW prev \in Cells(word), NEW ch
  PROVE  Follows(NextRow(prev, ch, word), prev, ch, word)
  <1> DEFINE n == Len(word)
             curr == CHOOSE g : RowFilling(prev, ch, word, g)
  <1>1. NextRow(prev, ch, word) = curr[n]
    BY Zenon DEF NextRow, RowFilling
  <1>2. RowFilling(prev, ch, word, curr)
    BY RowFilled
  <1> HIDE DEF curr
  <1>3. \A j \in 0..n : curr[j] = IF j = 0 THEN <<prev[1] + 1>>
                                  ELSE Extended(curr[j - 1], prev, ch, word[j])
    BY <1>2, Zenon DEF RowFilling
  <1> DEFINE Good(row, j) ==
               /\ row \in [1..j + 1 -> Nat]
               /\ row[1] = prev[1] + 1
               /\ \A k \in 1..j :
                    /\ row[k + 1] <= prev[k + 1] + 1
                    /\ row[k + 1] <= row[k] + 1
                    /\ row[k + 1] <= prev[k] + Cost(ch, word[k])
                    /\ \/ row[k + 1] = prev[k + 1] + 1
                       \/ row[k + 1] = row[k] + 1
                       \/ row[k + 1] = prev[k] + Cost(ch, word[k])
             N == {j \in 0..n : Good(curr[j], j)}
  <1>4. 0 \in N
    <2> DEFINE first == <<prev[1] + 1>>
    <2>1. curr[0] = first /\ prev[1] \in Nat
      BY <1>3 DEF Cells
    <2>2. first \in [1..1 -> Nat] /\ first[1] = prev[1] + 1
      BY <2>1
    <2> HIDE DEF first
    <2>3. Good(first, 0)
      BY <2>2
    <2> HIDE DEF Good
    <2>4. QED
      BY <2>1, <2>3
  <1>5. ASSUME NEW j \in N, j < n
        PROVE  j + 1 \in N
    <2> DEFINE row == curr[j]
               next == curr[j + 1]
    <2>1. j \in 0..n /\ Good(row, j)
      OBVIOUS
    <2> HIDE DEF N
    <2>2. j \in Nat /\ j + 1 \in 1..n /\ j + 1 \in 0..n /\ (j + 1) - 1 = j
      BY <1>5, <2>1
    <2>3. next = Extended(row, prev, ch, word[j + 1])
      BY <1>3, <2>2, j + 1 # 0
    <2> HIDE DEF row, next
    <2> DEFINE i == j + 1
    <2>4. i \in 1..n /\ row \in [1..i -> Nat] /\ next = Extended(row, prev, ch, word[i])
      BY <2>1, <2>2, <2>3
    <2> HIDE DEF i, Good
    <2>4a. Longer(next, row, prev, ch, word, i)
      BY <2>4, OneMoreCell
    <2> USE DEF i, Good
    <2>5. next[1] = prev[1] + 1
      BY <2>1, <2>2, <2>4a DEF Longer
    <2>6. ASSUME NEW k \in 1..j + 1
          PROVE  /\ next[k + 1] <= prev[k + 1] + 1
                 /\ next[k + 1] <= next[k] + 1
                 /\ next[k + 1] <= prev[k] + Cost(ch, word[k])
                 /\ \/ next[k + 1] = prev[k + 1] + 1
                    \/ next[k + 1] = next[k] + 1
                    \/ next[k + 1] = prev[k] + Cost(ch, word[k])
      <3>1. CASE k = j + 1
        BY <2>1, <2>2, <2>4a, <3>1 DEF Longer
      <3>2. CASE k # j + 1
        <4>1. k \in 1..j /\ k + 1 \in 1..j + 1
          BY <2>2, <3>2
        <4>2. next[k] = row[k] /\ next[k + 1] = row[k + 1]
          BY <2>2, <2>4a, <4>1 DEF Longer
        <4>3. QED
          BY <2>1, <4>1, <4>2
      <3>3. QED
        BY <3>1, <3>2
    <2>7. Good(next, j + 1)
      BY <2>2, <2>4a, <2>5, <2>6 DEF Longer
    <2> HIDE DEF Good
    <2>8. QED
      BY <2>2, <2>7 DEF next, N
  <1>6. n \in N
    <2> HIDE DEF N
    <2>1. N \in SUBSET Nat
      BY DEF N
    <2>2. 0..n \subseteq N
      BY <1>4, <1>5, <2>1, OneByOne
    <2>3. QED
      BY <2>2
  <1>7. Good(curr[n], n)
    BY <1>6
  <1>8. QED
    BY <1>1, <1>7 DEF Follows, Cells

\* The table, row by row.
FirstRow(b) == [j \in 1..Len(b) + 1 |-> j - 1]
TableFilling(a, b, g) ==
  g = [i \in 0..Len(a) |-> IF i = 0 THEN FirstRow(b) ELSE NextRow(g[i - 1], a[i], b)]
Table(a, b) == CHOOSE g : TableFilling(a, b, g)

LEMMA TableFilled ==
  ASSUME NEW a, NEW b, Len(a) \in Nat, Len(b) \in Nat
  PROVE  \E g : TableFilling(a, b, g)
  <1> DEFINE S == [m \in 0..Len(a) |-> Cells(b)]
             step == [m \in 1..Len(a) |-> [row \in S[m - 1] |-> NextRow(row, a[m], b)]]
             start == FirstRow(b)
  <1>1. start \in S[0]
    BY DEF Cells, FirstRow
  <1>2. ASSUME NEW m \in 1..Len(a), NEW x \in S[m - 1]
        PROVE  step[m][x] = NextRow(x, a[m], b) /\ step[m][x] \in S[m]
    <2>1. S[m - 1] = Cells(b) /\ S[m] = Cells(b)
      OBVIOUS
    <2>2. step[m][x] = NextRow(x, a[m], b)
      OBVIOUS
    <2> HIDE DEF S, step
    <2>3. NextRow(x, a[m], b) \in Cells(b)
      BY <2>1, NextRowFollows DEF Follows
    <2>4. QED
      BY <2>1, <2>2, <2>3
  <1> HIDE DEF S, step, start
  <1>3. PICK g : Steps(Len(a), start, step, g) /\ \A m \in 0..Len(a) : g[m] \in S[m]
    <2>1. \A m \in 1..Len(a) : \A x \in S[m - 1] : step[m][x] \in S[m]
      BY <1>2
    <2>2. QED
      BY <1>1, <2>1, StepByStep
  <1>4. \A m \in 0..Len(a) :
          (IF m = 0 THEN start ELSE step[m][g[m - 1]])
            = IF m = 0 THEN FirstRow(b) ELSE NextRow(g[m - 1], a[m], b)
    BY <1>2, <1>3 DEF start
  <1>5. TableFilling(a, b, g)
    BY <1>3, <1>4, Zenon DEF TableFilling, Steps
  <1>6. QED
    BY <1>5

LEMMA TableRows ==
  ASSUME NEW a, NEW b, Len(a) \in Nat, Len(b) \in Nat
  PROVE  /\ Table(a, b)[0] = FirstRow(b)
         /\ \A i \in 0..Len(a) : Table(a, b)[i] \in Cells(b)
         /\ \A i \in 1..Len(a) :
              /\ Table(a, b)[i] = NextRow(Table(a, b)[i - 1], a[i], b)
              /\ Follows(Table(a, b)[i], Table(a, b)[i - 1], a[i], b)
  <1> DEFINE T == Table(a, b)
             n == Len(a)
             N == {i \in 0..n : T[i] \in Cells(b)}
  <1>1. TableFilling(a, b, T)
    BY TableFilled DEF Table
  <1> HIDE DEF T
  <1>2. \A i \in 0..n : T[i] = IF i = 0 THEN FirstRow(b) ELSE NextRow(T[i - 1], a[i], b)
    BY <1>1, Zenon DEF TableFilling
  <1>3. T[0] = FirstRow(b) /\ 0 \in N
    BY <1>2 DEF FirstRow, Cells
  <1>4. \A i \in 1..n : T[i] = NextRow(T[i - 1], a[i], b)
    BY <1>2
  <1>5. ASSUME NEW i \in N, i < n
        PROVE  i + 1 \in N
    <2>1. i + 1 \in 1..n /\ i + 1 \in 0..n /\ (i + 1) - 1 = i /\ T[i] \in Cells(b)
      BY <1>5
    <2>2. T[i + 1] = NextRow(T[i], a[i + 1], b)
      BY <1>4, <2>1
    <2>3. T[i + 1] \in Cells(b)
      BY <2>1, <2>2, NextRowFollows DEF Follows
    <2>4. QED
      BY <2>1, <2>3
  <1>6. \A i \in 0..n : T[i] \in Cells(b)
    <2> HIDE DEF N
    <2>1. N \in SUBSET Nat
      BY DEF N
    <2>2. 0..n \subseteq N
      BY <1>3, <1>5, <2>1, OneByOne
    <2>3. QED
      BY <2>2 DEF N
  <1>7. \A i \in 1..n : Follows(T[i], T[i - 1], a[i], b)
    <2> SUFFICES ASSUME NEW i \in 1..n PROVE Follows(T[i], T[i - 1], a[i], b)
      OBVIOUS
    <2>1. T[i - 1] \in Cells(b) /\ T[i] = NextRow(T[i - 1], a[i], b)
      BY <1>4, <1>6
    <2>2. QED
      BY <2>1, NextRowFollows
  <1>8. QED
    BY <1>3, <1>4, <1>6, <1>7 DEF T

\* The answer is the last cell.
Answer(a, b) == Table(a, b)[Len(a)][Len(b) + 1]

LEMMA DistanceIsAnswer ==
  ASSUME NEW a, NEW b, Len(a) \in Nat, Len(b) \in Nat
  PROVE  /\ Levenshtein(a, b) = IF a = b THEN 0 ELSE Answer(a, b)
         /\ Answer(a, b) \in Nat
  <1>1. Levenshtein(a, b) = IF a = b THEN 0 ELSE Last(Table(a, b)[Len(a)])
    BY Zenon DEF Levenshtein, Table, TableFilling, FirstRow
  <1> DEFINE row == Table(a, b)[Len(a)]
  <1>2. row \in [1..Len(b) + 1 -> Nat]
    BY TableRows DEF Cells
  <1> HIDE DEF row
  <1>3. row \in Seq(Nat) /\ Len(row) = Len(b) + 1
    BY <1>2
  <1>4. Last(row) = row[Len(b) + 1] /\ row[Len(b) + 1] \in Nat
    BY <1>2, <1>3 DEF Last
  <1>5. QED
    BY <1>1, <1>4 DEF row, Answer

-----------------------------------------------------------------------------
(* Words one edit apart are at most one apart from any other.               *)

Near(row, other, b) ==
  \A j \in 1..Len(b) + 1 : row[j] <= other[j] + 1 /\ other[j] <= row[j] + 1
Slopes(row, b) == \A j \in 1..Len(b) : row[j + 1] <= row[j] + 1

LEMMA TableSlopes ==
  ASSUME NEW a, NEW b, Len(a) \in Nat, Len(b) \in Nat, NEW i \in 0..Len(a)
  PROVE  Slopes(Table(a, b)[i], b)
  <1>1. CASE i = 0
    <2>1. Table(a, b)[i] = FirstRow(b)
      BY <1>1, TableRows
    <2>2. QED
      BY <2>1 DEF FirstRow, Slopes
  <1>2. CASE i # 0
    <2>1. Follows(Table(a, b)[i], Table(a, b)[i - 1], a[i], b)
      BY <1>2, TableRows
    <2>2. QED
      BY <2>1 DEF Follows, Slopes
  <1>3. QED
    BY <1>1, <1>2

\* A row and the one before it.
LEMMA NextIsNear ==
  ASSUME NEW b, Len(b) \in Nat, NEW prev \in Cells(b), Slopes(prev, b),
         NEW ch, NEW next, Follows(next, prev, ch, b)
  PROVE  Near(prev, next, b)
  <1> DEFINE N == {j \in 0..Len(b) : prev[j + 1] <= next[j + 1] + 1 /\ next[j + 1] <= prev[j + 1] + 1}
  <1>1. \A j \in 1..Len(b) + 1 : prev[j] \in Nat /\ next[j] \in Nat
    BY DEF Cells, Follows
  <1>2. 0 \in N
    BY <1>1 DEF Follows
  <1>3. ASSUME NEW j \in N, j < Len(b)
        PROVE  j + 1 \in N
    <2> DEFINE k == j + 1
    <2>1. k \in 1..Len(b) /\ k \in 1..Len(b) + 1 /\ k + 1 \in 1..Len(b) + 1 /\ k \in 0..Len(b)
      BY <1>3
    <2>2. prev[k] <= next[k] + 1
      OBVIOUS
    <2> HIDE DEF N, k
    <2>3. /\ prev[k] \in Nat /\ next[k] \in Nat /\ prev[k + 1] \in Nat /\ next[k + 1] \in Nat
      BY <1>1, <2>1
    <2>4. prev[k + 1] <= prev[k] + 1
      BY <2>1 DEF Slopes
    <2>5. /\ next[k + 1] <= prev[k + 1] + 1
          /\ \/ next[k + 1] = prev[k + 1] + 1
             \/ next[k + 1] = next[k] + 1
             \/ next[k + 1] = prev[k] + Cost(ch, b[k])
      BY <2>1 DEF Follows
    <2>6. prev[k + 1] <= next[k + 1] + 1
      BY <2>2, <2>3, <2>4, <2>5 DEF Cost
    <2>7. QED
      BY <2>1, <2>5, <2>6 DEF N, k
  <1>4. 0..Len(b) \subseteq N
    <2> HIDE DEF N
    <2>1. N \in SUBSET Nat
      BY DEF N
    <2>2. QED
      BY <1>2, <1>3, <2>1, OneByOne
  <1>5. ASSUME NEW j \in 1..Len(b) + 1
        PROVE  prev[j] <= next[j] + 1 /\ next[j] <= prev[j] + 1
    <2> HIDE DEF N
    <2>1. j - 1 \in 0..Len(b) /\ (j - 1) + 1 = j
      OBVIOUS
    <2>2. j - 1 \in N
      BY <1>4, <2>1
    <2>3. QED
      BY <2>1, <2>2 DEF N
  <1>6. QED
    BY <1>5 DEF Near

\* Two rows after rows that are near, where the letter is the same or the rows are.
LEMMA NearStaysNear ==
  ASSUME NEW b, Len(b) \in Nat, NEW prev \in Cells(b), NEW prev2 \in Cells(b),
         NEW ch, NEW ch2, NEW next, NEW next2,
         Follows(next, prev, ch, b), Follows(next2, prev2, ch2, b),
         (Near(prev, prev2, b) /\ ch = ch2) \/ prev = prev2
  PROVE  Near(next, next2, b)
  <1> DEFINE N == {j \in 0..Len(b) : next[j + 1] <= next2[j + 1] + 1 /\ next2[j + 1] <= next[j + 1] + 1}
  <1>1. \A j \in 1..Len(b) + 1 :
          /\ prev[j] \in Nat /\ next[j] \in Nat /\ prev2[j] \in Nat /\ next2[j] \in Nat
          /\ prev[j] <= prev2[j] + 1 /\ prev2[j] <= prev[j] + 1
    BY DEF Cells, Follows, Near
  <1>2. 0 \in N
    <2>1. next[1] = prev[1] + 1 /\ next2[1] = prev2[1] + 1 /\ 1 \in 1..Len(b) + 1
      BY DEF Follows
    <2>2. QED
      BY <1>1, <2>1
  <1>3. ASSUME NEW j \in N, j < Len(b)
        PROVE  j + 1 \in N
    <2> DEFINE k == j + 1
    <2>1. k \in 1..Len(b) /\ k \in 1..Len(b) + 1 /\ k + 1 \in 1..Len(b) + 1 /\ k \in 0..Len(b)
      BY <1>3
    <2>2. next[k] <= next2[k] + 1 /\ next2[k] <= next[k] + 1
      OBVIOUS
    <2> HIDE DEF N, k
    <2> DEFINE p0 == prev[k]
               q0 == prev2[k]
               p1 == prev[k + 1]
               q1 == prev2[k + 1]
               x0 == next[k]
               y0 == next2[k]
               x1 == next[k + 1]
               y1 == next2[k + 1]
               c == Cost(ch, b[k])
               d == Cost(ch2, b[k])
    <2>3. /\ p0 \in Nat /\ q0 \in Nat /\ p1 \in Nat /\ q1 \in Nat
          /\ x0 \in Nat /\ y0 \in Nat /\ x1 \in Nat /\ y1 \in Nat
          /\ p0 <= q0 + 1 /\ q0 <= p0 + 1 /\ p1 <= q1 + 1 /\ q1 <= p1 + 1
      BY <1>1, <2>1
    <2>4. c \in 0..1 /\ d \in 0..1 /\ (c = d \/ p0 = q0)
      BY DEF Cost
    <2>5. /\ x1 <= p1 + 1 /\ x1 <= x0 + 1 /\ x1 <= p0 + c
          /\ x1 = p1 + 1 \/ x1 = x0 + 1 \/ x1 = p0 + c
      BY <2>1 DEF Follows
    <2>6. /\ y1 <= q1 + 1 /\ y1 <= y0 + 1 /\ y1 <= q0 + d
          /\ y1 = q1 + 1 \/ y1 = y0 + 1 \/ y1 = q0 + d
      BY <2>1 DEF Follows
    <2>7. x0 <= y0 + 1 /\ y0 <= x0 + 1
      BY <2>2
    <2> HIDE DEF p0, q0, p1, q1, x0, y0, x1, y1, c, d
    <2>8. x1 <= y1 + 1 /\ y1 <= x1 + 1
      BY <2>3, <2>4, <2>5, <2>6, <2>7
    <2>9. QED
      BY <2>1, <2>8 DEF N, k, x1, y1
  <1>4. 0..Len(b) \subseteq N
    <2> HIDE DEF N
    <2>1. N \in SUBSET Nat
      BY DEF N
    <2>2. QED
      BY <1>2, <1>3, <2>1, OneByOne
  <1>5. ASSUME NEW j \in 1..Len(b) + 1
        PROVE  next[j] <= next2[j] + 1 /\ next2[j] <= next[j] + 1
    <2> HIDE DEF N
    <2>1. j - 1 \in 0..Len(b) /\ (j - 1) + 1 = j
      OBVIOUS
    <2>2. j - 1 \in N
      BY <1>4, <2>1
    <2>3. QED
      BY <2>1, <2>2 DEF N
  <1>6. QED
    BY <1>5 DEF Near

\* Words that start alike have the same rows so far.
LEMMA SameStart ==
  ASSUME NEW a, NEW c, NEW b, Len(a) \in Nat, Len(c) \in Nat, Len(b) \in Nat,
         NEW m \in Nat, m <= Len(a), m <= Len(c), \A k \in 1..m : a[k] = c[k]
  PROVE  Table(a, b)[m] = Table(c, b)[m]
  <1> DEFINE T == Table(a, b)
             U == Table(c, b)
             N == {k \in 0..m : T[k] = U[k]}
  <1>1. 0 \in N
    BY TableRows
  <1>2. ASSUME NEW k \in N, k < m
        PROVE  k + 1 \in N
    <2> DEFINE l == k + 1
    <2>1. l \in 1..m /\ l \in 1..Len(a) /\ l \in 1..Len(c) /\ l \in 0..m /\ l - 1 = k
      BY <1>2
    <2>2. T[k] = U[k]
      OBVIOUS
    <2> HIDE DEF l, N
    <2>3. T[l] = NextRow(T[l - 1], a[l], b) /\ U[l] = NextRow(U[l - 1], c[l], b)
      BY <2>1, TableRows
    <2>4. T[l] = U[l]
      BY <2>1, <2>2, <2>3
    <2>5. QED
      BY <2>1, <2>4 DEF l, N
  <1> HIDE DEF N
  <1>3. N \in SUBSET Nat
    BY DEF N
  <1>4. 0..m \subseteq N
    BY <1>1, <1>2, <1>3, OneByOne
  <1>5. QED
    BY <1>4 DEF N

\* Words that go on alike, from rows that are near, have answers that are.
GoOnAlike(a, p, c, q) ==
  /\ p \in 0..Len(a) /\ q \in 0..Len(c) /\ Len(a) - p = Len(c) - q
  /\ \A k \in 1..Len(a) - p : a[p + k] = c[q + k]

LEMMA SameEnd ==
  ASSUME NEW a, NEW c, NEW b, Len(a) \in Nat, Len(c) \in Nat, Len(b) \in Nat,
         NEW p, NEW q, GoOnAlike(a, p, c, q), Near(Table(a, b)[p], Table(c, b)[q], b)
  PROVE  Answer(a, b) <= Answer(c, b) + 1 /\ Answer(c, b) <= Answer(a, b) + 1
  <1> DEFINE T == Table(a, b)
             U == Table(c, b)
             rest == Len(a) - p
             N == {k \in 0..rest : Near(T[p + k], U[q + k], b)}
  <1>1. rest \in Nat /\ p \in Nat /\ q \in Nat /\ p + rest = Len(a) /\ q + rest = Len(c)
    BY DEF GoOnAlike
  <1>2. 0 \in N
    <2>1. p + 0 = p /\ q + 0 = q
      BY <1>1
    <2>2. QED
      BY <1>1, <2>1
  <1>3. ASSUME NEW k \in N, k < rest
        PROVE  k + 1 \in N
    <2> DEFINE i == p + (k + 1)
               j == q + (k + 1)
    <2>1. /\ k + 1 \in 1..rest /\ k + 1 \in 0..rest
          /\ i \in 1..Len(a) /\ i - 1 = p + k /\ i - 1 \in 0..Len(a)
          /\ j \in 1..Len(c) /\ j - 1 = q + k /\ j - 1 \in 0..Len(c)
      BY <1>1, <1>3
    <2>2. a[i] = c[j]
      BY <2>1 DEF GoOnAlike
    <2>3. Near(T[p + k], U[q + k], b)
      OBVIOUS
    <2> HIDE DEF i, j, N, rest
    <2>4. Near(T[i - 1], U[j - 1], b)
      BY <2>1, <2>3
    <2>5. /\ T[i - 1] \in Cells(b) /\ U[j - 1] \in Cells(b)
          /\ Follows(T[i], T[i - 1], a[i], b) /\ Follows(U[j], U[j - 1], c[j], b)
      BY <2>1, TableRows
    <2>6. Near(T[i], U[j], b)
      BY <2>2, <2>4, <2>5, NearStaysNear
    <2>7. QED
      BY <2>1, <2>6 DEF i, j, N
  <1> HIDE DEF N, rest
  <1>4. N \in SUBSET Nat
    BY DEF N
  <1>5. 0..rest \subseteq N
    BY <1>1, <1>2, <1>3, <1>4, OneByOne
  <1>6. Near(T[p + rest], U[q + rest], b)
    BY <1>1, <1>5 DEF N
  <1>7. QED
    BY <1>1, <1>6 DEF Near, Answer

\* c is a with a letter put in, or changed, at i.
Inserted(a, c, i) ==
  /\ i \in 1..Len(a) + 1 /\ Len(c) = Len(a) + 1
  /\ \A k \in 1..i - 1 : c[k] = a[k]
  /\ \A k \in i..Len(a) : c[k + 1] = a[k]
Replaced(a, c, i) ==
  /\ i \in 1..Len(a) /\ Len(c) = Len(a)
  /\ \A k \in 1..Len(a) : k # i => c[k] = a[k]

LEMMA InsertedNear ==
  ASSUME NEW a, NEW c, NEW b, Len(a) \in Nat, Len(c) \in Nat, Len(b) \in Nat,
         NEW i, Inserted(a, c, i)
  PROVE  Answer(a, b) <= Answer(c, b) + 1 /\ Answer(c, b) <= Answer(a, b) + 1
  <1>1. i \in 1..Len(c) /\ i - 1 \in 0..Len(a) /\ i - 1 \in Nat /\ i - 1 <= Len(c)
    BY DEF Inserted
  <1>2. Table(a, b)[i - 1] = Table(c, b)[i - 1]
    BY <1>1, SameStart DEF Inserted
  <1>3. Near(Table(a, b)[i - 1], Table(c, b)[i], b)
    <2>1. Table(a, b)[i - 1] \in Cells(b) /\ Slopes(Table(a, b)[i - 1], b)
      BY <1>1, TableRows, TableSlopes
    <2>2. Follows(Table(c, b)[i], Table(a, b)[i - 1], c[i], b)
      BY <1>1, <1>2, TableRows
    <2>3. QED
      BY <2>1, <2>2, NextIsNear
  <1>4. GoOnAlike(a, i - 1, c, i)
    <2>1. i \in 0..Len(c) /\ Len(a) - (i - 1) = Len(c) - i
      BY <1>1 DEF Inserted
    <2>2. ASSUME NEW k \in 1..Len(a) - (i - 1)
          PROVE  a[(i - 1) + k] = c[i + k]
      <3>1. (i - 1) + k \in i..Len(a) /\ ((i - 1) + k) + 1 = i + k
        BY <1>1
      <3>2. QED
        BY <3>1 DEF Inserted
    <2>3. QED
      BY <1>1, <2>1, <2>2 DEF GoOnAlike
  <1>5. QED
    BY <1>3, <1>4, SameEnd

LEMMA ReplacedNear ==
  ASSUME NEW a, NEW c, NEW b, Len(a) \in Nat, Len(c) \in Nat, Len(b) \in Nat,
         NEW i, Replaced(a, c, i)
  PROVE  Answer(a, b) <= Answer(c, b) + 1 /\ Answer(c, b) <= Answer(a, b) + 1
  <1>1. i \in 1..Len(a) /\ i \in 1..Len(c) /\ i - 1 \in 0..Len(a) /\ i - 1 \in Nat
    BY DEF Replaced
  <1>2. Table(a, b)[i - 1] = Table(c, b)[i - 1]
    <2>1. i - 1 <= Len(a) /\ i - 1 <= Len(c) /\ \A k \in 1..i - 1 : a[k] = c[k]
      BY <1>1 DEF Replaced
    <2>2. QED
      BY <1>1, <2>1, SameStart
  <1>3. Near(Table(a, b)[i], Table(c, b)[i], b)
    <2>1. Table(a, b)[i - 1] \in Cells(b)
      BY <1>1, TableRows
    <2>2. /\ Follows(Table(a, b)[i], Table(a, b)[i - 1], a[i], b)
          /\ Follows(Table(c, b)[i], Table(a, b)[i - 1], c[i], b)
      BY <1>1, <1>2, TableRows
    <2>3. QED
      BY <2>1, <2>2, NearStaysNear
  <1>4. GoOnAlike(a, i, c, i)
    <2>1. \A k \in 1..Len(a) - i : i + k \in 1..Len(a) /\ i + k # i
      BY <1>1
    <2>2. QED
      BY <1>1, <2>1 DEF Replaced, GoOnAlike
  <1>5. QED
    BY <1>3, <1>4, SameEnd

-----------------------------------------------------------------------------
(* A word that is not the other has a word one edit nearer.                 *)

LEMMA InsertAtIs ==
  ASSUME NEW L, NEW a \in Seq(L), NEW x \in L, NEW i \in 1..Len(a) + 1
  PROVE  /\ InsertAt(a, i, x) \in Seq(L)
         /\ Inserted(a, InsertAt(a, i, x), i)
         /\ InsertAt(a, i, x)[i] = x
  <1> DEFINE u == SubSeq(a, 1, i - 1)
             w == SubSeq(a, i, Len(a))
             v == u \o <<x>>
             c == v \o w
  <1>1. InsertAt(a, i, x) = c
    BY Zenon DEF InsertAt
  <1>2. Len(a) \in Nat /\ i \in Nat /\ i >= 1 /\ i <= Len(a) + 1
    OBVIOUS
  <1>3. u \in Seq(L) /\ Len(u) = i - 1 /\ \A k \in 1..i - 1 : u[k] = a[k]
    BY <1>2
  <1>4. w \in Seq(L) /\ Len(w) = Len(a) + 1 - i /\ \A k \in 1..Len(a) + 1 - i : w[k] = a[(i + k) - 1]
    BY <1>2
  <1> HIDE DEF u, w
  <1>5. v \in Seq(L) /\ Len(v) = i /\ v[i] = x /\ \A k \in 1..i - 1 : v[k] = a[k]
    BY <1>2, <1>3
  <1> HIDE DEF v
  <1>6. /\ c \in Seq(L) /\ Len(c) = Len(a) + 1
        /\ \A k \in 1..i : c[k] = v[k]
        /\ \A k \in 1..Len(a) + 1 - i : c[i + k] = w[k]
    <2>1. c \in Seq(L) /\ Len(c) = Len(v) + Len(w)
      BY <1>4, <1>5
    <2>2. \A k \in 1..Len(v) : c[k] = v[k]
      BY <1>4, <1>5
    <2>3. \A k \in 1..Len(w) : c[Len(v) + k] = w[k]
      BY <1>4, <1>5
    <2> HIDE DEF c
    <2>4. QED
      BY <1>2, <1>4, <1>5, <2>1, <2>2, <2>3
  <1> HIDE DEF c
  <1>7. c[i] = x /\ \A k \in 1..i - 1 : c[k] = a[k]
    BY <1>2, <1>5, <1>6
  <1>8. ASSUME NEW k \in i..Len(a)
        PROVE  c[k + 1] = a[k]
    <2> DEFINE m == k + 1 - i
    <2>1. m \in 1..Len(a) + 1 - i /\ i + m = k + 1 /\ (i + m) - 1 = k
      BY <1>2
    <2> HIDE DEF m
    <2>2. c[i + m] = w[m] /\ w[m] = a[(i + m) - 1]
      BY <1>4, <1>6, <2>1
    <2>3. QED
      BY <2>1, <2>2
  <1>9. QED
    BY <1>1, <1>6, <1>7, <1>8 DEF Inserted

LEMMA RemoveAtIs ==
  ASSUME NEW L, NEW a \in Seq(L), NEW i \in 1..Len(a)
  PROVE  RemoveAt(a, i) \in Seq(L) /\ Inserted(RemoveAt(a, i), a, i)
  <1> DEFINE u == SubSeq(a, 1, i - 1)
             w == SubSeq(a, i + 1, Len(a))
             c == u \o w
  <1>1. RemoveAt(a, i) = c
    BY Zenon DEF RemoveAt
  <1>2. Len(a) \in Nat /\ i \in Nat /\ i >= 1 /\ i <= Len(a)
    OBVIOUS
  <1>3. u \in Seq(L) /\ Len(u) = i - 1 /\ \A k \in 1..i - 1 : u[k] = a[k]
    BY <1>2
  <1>4. w \in Seq(L) /\ Len(w) = Len(a) - i /\ \A k \in 1..Len(a) - i : w[k] = a[i + k]
    BY <1>2
  <1> HIDE DEF u, w
  <1>5. /\ c \in Seq(L) /\ Len(c) = Len(a) - 1
        /\ \A k \in 1..i - 1 : c[k] = u[k]
        /\ \A k \in 1..Len(a) - i : c[(i - 1) + k] = w[k]
    BY <1>2, <1>3, <1>4
  <1> HIDE DEF c
  <1>6. \A k \in 1..i - 1 : a[k] = c[k]
    BY <1>3, <1>5
  <1>7. ASSUME NEW k \in i..Len(c)
        PROVE  a[k + 1] = c[k]
    <2> DEFINE m == k + 1 - i
    <2>1. m \in 1..Len(a) - i /\ (i - 1) + m = k /\ i + m = k + 1
      BY <1>2, <1>5
    <2> HIDE DEF m
    <2>2. c[(i - 1) + m] = w[m] /\ w[m] = a[i + m]
      BY <1>4, <1>5, <2>1
    <2>3. QED
      BY <2>1, <2>2
  <1>8. i \in 1..Len(c) + 1 /\ Len(a) = Len(c) + 1
    BY <1>2, <1>5
  <1>9. QED
    BY <1>1, <1>5, <1>6, <1>7, <1>8 DEF Inserted

LEMMA ReplaceAtIs ==
  ASSUME NEW L, NEW a \in Seq(L), NEW x \in L, NEW i \in 1..Len(a)
  PROVE  /\ ReplaceAt(a, i, x) \in Seq(L)
         /\ Replaced(a, ReplaceAt(a, i, x), i)
         /\ ReplaceAt(a, i, x)[i] = x
  <1> DEFINE c == [a EXCEPT ![i] = x]
  <1>1. ReplaceAt(a, i, x) = c
    BY DEF ReplaceAt
  <1>2. c \in Seq(L) /\ Len(c) = Len(a) /\ c[i] = x /\ \A k \in 1..Len(a) : k # i => c[k] = a[k]
    OBVIOUS
  <1>3. QED
    BY <1>1, <1>2 DEF Replaced

\* c is one edit of a, and its first part is nearer to that of b.
Gains(a, b, i, j, c, p) ==
  /\ c \in OneEdit(a)
  /\ c \in Seq(Letters)
  /\ GoOnAlike(a, i, c, p)
  /\ Table(c, b)[p][j + 1] < Table(a, b)[i][j + 1]

\* A letter that matches costs nothing on top.
LEMMA Matching ==
  ASSUME NEW a, NEW b, Len(a) \in Nat, Len(b) \in Nat, NEW i \in 1..Len(a), NEW j \in 1..Len(b),
         a[i] = b[j]
  PROVE  Table(a, b)[i][j + 1] <= Table(a, b)[i - 1][j]
  <1>1. Follows(Table(a, b)[i], Table(a, b)[i - 1], a[i], b)
    BY TableRows
  <1>2. Table(a, b)[i - 1] \in Cells(b)
    BY TableRows
  <1>3. Table(a, b)[i - 1][j] \in Nat
    BY <1>2 DEF Cells
  <1>4. QED
    BY <1>1, <1>3 DEF Follows, Cost

LEMMA ByRemoving ==
  ASSUME NEW a \in Seq(Letters), NEW b \in Seq(Letters), NEW i \in 1..Len(a), NEW j \in 0..Len(b),
         Table(a, b)[i][j + 1] = Table(a, b)[i - 1][j + 1] + 1
  PROVE  \E c, p : Gains(a, b, i, j, c, p)
  <1> DEFINE c == RemoveAt(a, i)
  <1>1. c \in Seq(Letters) /\ Inserted(c, a, i) /\ c \in OneEdit(a)
    BY RemoveAtIs DEF OneEdit
  <1> HIDE DEF c
  <1>2. /\ Len(a) \in Nat /\ Len(b) \in Nat /\ Len(c) = Len(a) - 1 /\ Len(c) \in Nat
        /\ i - 1 \in Nat /\ i - 1 \in 0..Len(a) /\ i - 1 <= Len(c) /\ j + 1 \in 1..Len(b) + 1
    BY <1>1 DEF Inserted
  <1>3. Table(c, b)[i - 1] = Table(a, b)[i - 1]
    <2>1. \A k \in 1..i - 1 : c[k] = a[k]
      BY <1>1 DEF Inserted
    <2>2. QED
      BY <1>2, <2>1, SameStart
  <1>4. GoOnAlike(a, i, c, i - 1)
    <2>1. ASSUME NEW k \in 1..Len(a) - i
          PROVE  a[i + k] = c[(i - 1) + k]
      <3>1. (i - 1) + k \in i..Len(c) /\ ((i - 1) + k) + 1 = i + k
        BY <1>2
      <3>2. QED
        BY <1>1, <3>1 DEF Inserted
    <2>2. QED
      BY <1>2, <2>1 DEF GoOnAlike
  <1>5. Table(a, b)[i - 1] \in Cells(b)
    BY <1>2, TableRows
  <1>6. Table(a, b)[i - 1][j + 1] \in Nat
    BY <1>2, <1>5 DEF Cells
  <1>7. QED
    BY <1>1, <1>3, <1>4, <1>6 DEF Gains

LEMMA ByInserting ==
  ASSUME NEW a \in Seq(Letters), NEW b \in Seq(Letters), NEW i \in 0..Len(a), NEW j \in 1..Len(b),
         Table(a, b)[i][j + 1] = Table(a, b)[i][j] + 1
  PROVE  \E c, p : Gains(a, b, i, j, c, p)
  <1> DEFINE c == InsertAt(a, i + 1, b[j])
  <1>1. c \in Seq(Letters) /\ Inserted(a, c, i + 1) /\ c[i + 1] = b[j] /\ c \in OneEdit(a)
    <2>1. b[j] \in Letters /\ i + 1 \in 1..Len(a) + 1
      OBVIOUS
    <2>2. QED
      BY <2>1, InsertAtIs DEF OneEdit
  <1> HIDE DEF c
  <1>2. /\ Len(a) \in Nat /\ Len(b) \in Nat /\ Len(c) = Len(a) + 1 /\ Len(c) \in Nat
        /\ i \in Nat /\ i <= Len(c) /\ (i + 1) - 1 = i /\ i + 1 \in 1..Len(c)
    BY <1>1 DEF Inserted
  <1>3. Table(c, b)[i] = Table(a, b)[i]
    <2>1. \A k \in 1..i : c[k] = a[k]
      BY <1>1, <1>2 DEF Inserted
    <2>2. QED
      BY <1>2, <2>1, SameStart
  <1>4. GoOnAlike(a, i, c, i + 1)
    <2>1. ASSUME NEW k \in 1..Len(a) - i
          PROVE  a[i + k] = c[(i + 1) + k]
      <3>1. i + k \in (i + 1)..Len(a) /\ (i + k) + 1 = (i + 1) + k
        BY <1>2
      <3>2. QED
        BY <1>1, <3>1 DEF Inserted
    <2>2. QED
      BY <1>2, <2>1 DEF GoOnAlike
  <1>5. Table(a, b)[i] \in Cells(b) /\ Table(c, b)[i + 1] \in Cells(b)
    BY <1>2, TableRows
  <1>6. Table(a, b)[i][j] \in Nat /\ Table(c, b)[i + 1][j + 1] \in Nat
    <2>1. j \in 1..Len(b) + 1 /\ j + 1 \in 1..Len(b) + 1
      BY <1>2
    <2>2. QED
      BY <1>5, <2>1 DEF Cells
  <1>7. Table(c, b)[i + 1][j + 1] <= Table(c, b)[i][j]
    BY <1>1, <1>2, Matching
  <1>8. QED
    BY <1>1, <1>3, <1>4, <1>6, <1>7 DEF Gains

LEMMA ByReplacing ==
  ASSUME NEW a \in Seq(Letters), NEW b \in Seq(Letters), NEW i \in 1..Len(a), NEW j \in 1..Len(b),
         Table(a, b)[i][j + 1] = Table(a, b)[i - 1][j] + 1
  PROVE  \E c, p : Gains(a, b, i, j, c, p)
  <1> DEFINE c == ReplaceAt(a, i, b[j])
  <1>1. c \in Seq(Letters) /\ Replaced(a, c, i) /\ c[i] = b[j] /\ c \in OneEdit(a)
    <2>1. b[j] \in Letters /\ i \in DOMAIN a
      OBVIOUS
    <2>2. c \in OneEdit(a)
      BY <2>1, SMT DEF OneEdit
    <2>3. QED
      BY <2>1, <2>2, ReplaceAtIs
  <1> HIDE DEF c
  <1>2. /\ Len(a) \in Nat /\ Len(b) \in Nat /\ Len(c) = Len(a) /\ i - 1 \in Nat
        /\ i - 1 \in 0..Len(a) /\ i - 1 <= Len(a)
    BY <1>1 DEF Replaced
  <1>3. Table(c, b)[i - 1] = Table(a, b)[i - 1]
    <2>1. \A k \in 1..i - 1 : c[k] = a[k]
      BY <1>1, <1>2 DEF Replaced
    <2>2. QED
      BY <1>2, <2>1, SameStart
  <1>4. GoOnAlike(a, i, c, i)
    <2>1. \A k \in 1..Len(a) - i : i + k \in 1..Len(a) /\ i + k # i
      BY <1>2
    <2>2. QED
      BY <1>1, <1>2, <2>1 DEF Replaced, GoOnAlike
  <1>5. Table(a, b)[i - 1] \in Cells(b) /\ Table(c, b)[i] \in Cells(b)
    BY <1>2, TableRows
  <1>6. Table(a, b)[i - 1][j] \in Nat /\ Table(c, b)[i][j + 1] \in Nat
    <2>1. j \in 1..Len(b) + 1 /\ j + 1 \in 1..Len(b) + 1
      BY <1>2
    <2>2. QED
      BY <1>5, <2>1 DEF Cells
  <1>7. Table(c, b)[i][j + 1] <= Table(c, b)[i - 1][j]
    BY <1>1, <1>2, Matching
  <1>8. QED
    BY <1>1, <1>3, <1>4, <1>6, <1>7 DEF Gains

LEMMA SomeEditGains ==
  ASSUME NEW a \in Seq(Letters), NEW b \in Seq(Letters)
  PROVE  \A i \in 0..Len(a) : \A j \in 0..Len(b) :
           Table(a, b)[i][j + 1] > 0 => \E c, p : Gains(a, b, i, j, c, p)
  <1> DEFINE T == Table(a, b)
             N == {i \in 0..Len(a) : \A j \in 0..Len(b) :
                     T[i][j + 1] > 0 => \E c, p : Gains(a, b, i, j, c, p)}
  <1>1. Len(a) \in Nat /\ Len(b) \in Nat
    OBVIOUS
  <1>2. \A i \in 0..Len(a) : \A j \in 1..Len(b) + 1 : T[i][j] \in Nat
    BY <1>1, TableRows DEF Cells
  <1>3. 0 \in N
    <2> SUFFICES ASSUME NEW j \in 0..Len(b), T[0][j + 1] > 0
                 PROVE  \E c, p : Gains(a, b, 0, j, c, p)
      BY <1>1
    <2>1. T[0] = FirstRow(b)
      BY <1>1, TableRows
    <2>2. T[0][j + 1] = j /\ j # 0
      BY <2>1 DEF FirstRow
    <2>3. j \in 1..Len(b) /\ T[0][j] = j - 1
      BY <2>1, <2>2 DEF FirstRow
    <2>4. QED
      BY <1>1, <2>2, <2>3, ByInserting
  <1>4. ASSUME NEW m \in N, m < Len(a)
        PROVE  m + 1 \in N
    <2> DEFINE i == m + 1
    <2>1. /\ m \in 0..Len(a) /\ i \in 1..Len(a) /\ i \in 0..Len(a) /\ i - 1 = m
          /\ \A j \in 0..Len(b) : T[m][j + 1] > 0 => \E c, p : Gains(a, b, m, j, c, p)
      BY <1>4
    <2> HIDE DEF N, i
    <2>2. Follows(T[i], T[i - 1], a[i], b)
      BY <1>1, <2>1, TableRows
    <2>3. ASSUME NEW j \in 0..Len(b), T[i][j + 1] > 0
          PROVE  \E c, p : Gains(a, b, i, j, c, p)
      <3>1. CASE j = 0
        <4>1. T[i][j + 1] = T[i - 1][j + 1] + 1
          BY <2>2, <3>1 DEF Follows
        <4>2. QED
          BY <2>1, <4>1, ByRemoving
      <3>2. CASE j # 0 /\ T[i][j + 1] = T[i - 1][j + 1] + 1
        BY <2>1, <3>2, ByRemoving
      <3>3. CASE j # 0 /\ T[i][j + 1] = T[i][j] + 1
        <4>1. j \in 1..Len(b)
          BY <3>3
        <4>2. QED
          BY <2>1, <3>3, <4>1, ByInserting
      <3>4. CASE j # 0 /\ a[i] # b[j] /\ T[i][j + 1] = T[i - 1][j] + 1
        <4>1. j \in 1..Len(b)
          BY <3>4
        <4>2. QED
          BY <2>1, <3>4, <4>1, ByReplacing
      <3>5. CASE j # 0 /\ a[i] = b[j] /\ T[i][j + 1] = T[i - 1][j]
        <4> DEFINE k == j - 1
        <4>1. k \in 0..Len(b) /\ k + 1 = j /\ j \in 1..Len(b)
          BY <3>5
        <4> HIDE DEF k
        <4>2. T[m][k + 1] = T[i][j + 1] /\ T[m][k + 1] > 0
          BY <2>1, <2>3, <3>5, <4>1
        <4>3. PICK c, p : Gains(a, b, m, k, c, p)
          BY <2>1, <4>1, <4>2
        <4>4. /\ c \in Seq(Letters) /\ GoOnAlike(a, m, c, p)
              /\ p \in 0..Len(c) /\ Len(a) - m = Len(c) - p /\ Len(c) \in Nat
          BY <4>3 DEF Gains, GoOnAlike
        <4>5. p + 1 \in 1..Len(c) /\ (p + 1) - 1 = p /\ Len(a) - i = Len(c) - (p + 1)
          <5>1. /\ m \in Nat /\ i \in Nat /\ i - 1 = m /\ m < Len(a)
                /\ p \in Nat /\ Len(c) \in Nat /\ Len(a) - m = Len(c) - p
            BY <1>1, <1>4, <2>1, <4>4
          <5>2. QED
            BY <1>1, <5>1
        <4>6. c[p + 1] = a[i]
          <5>1. 1 \in 1..Len(a) - m /\ m + 1 = i
            BY <1>1, <2>1
          <5>2. QED
            BY <4>4, <5>1 DEF GoOnAlike
        <4>7. Table(c, b)[p + 1][j + 1] <= Table(c, b)[p][j]
          BY <1>1, <3>5, <4>1, <4>4, <4>5, <4>6, Matching
        <4>8. Table(c, b)[p][k + 1] < T[m][k + 1]
          BY <4>3 DEF Gains
        <4>9. Table(c, b)[p + 1][j + 1] < T[i][j + 1]
          <5>1. Table(c, b)[p] \in Cells(b) /\ Table(c, b)[p + 1] \in Cells(b)
            BY <1>1, <4>4, <4>5, TableRows
          <5>2. j \in 1..Len(b) + 1 /\ j + 1 \in 1..Len(b) + 1
            BY <1>1, <4>1
          <5>3. Table(c, b)[p][j] \in Nat /\ Table(c, b)[p + 1][j + 1] \in Nat /\ T[i][j + 1] \in Nat
            BY <1>2, <2>1, <5>1, <5>2 DEF Cells
          <5>4. QED
            BY <4>1, <4>2, <4>7, <4>8, <5>3
        <4>10. GoOnAlike(a, i, c, p + 1)
          <5>1. ASSUME NEW l \in 1..Len(a) - i
                PROVE  a[i + l] = c[(p + 1) + l]
            <6>1. 1 + l \in 1..Len(a) - m /\ m + (1 + l) = i + l /\ p + (1 + l) = (p + 1) + l
              BY <1>1, <2>1, <4>4
            <6>2. QED
              BY <4>4, <6>1 DEF GoOnAlike
          <5>2. p + 1 \in 0..Len(c)
            BY <4>5
          <5>3. QED
            BY <2>1, <4>5, <5>1, <5>2 DEF GoOnAlike
        <4>11. Gains(a, b, i, j, c, p + 1)
          BY <4>3, <4>9, <4>10 DEF Gains
        <4>12. QED
          BY <4>11
      <3>6. j # 0 => j \in 1..Len(b) /\ T[i - 1][j] \in Nat
        BY <1>1, <1>2, <2>1
      <3>7. QED
        BY <2>2, <3>1, <3>2, <3>3, <3>4, <3>5, <3>6 DEF Follows, Cost
    <2>4. QED
      BY <2>1, <2>3 DEF N, i
  <1> HIDE DEF N
  <1>5. N \in SUBSET Nat
    BY DEF N
  <1>6. 0..Len(a) \subseteq N
    BY <1>1, <1>3, <1>4, <1>5, OneByOne
  <1>7. QED
    BY <1>6 DEF N

\* Nothing is left to edit between equal words only.
LEMMA NoneForEqual ==
  ASSUME NEW a, Len(a) \in Nat
  PROVE  Answer(a, a) = 0
  <1> DEFINE T == Table(a, a)
             N == {i \in 0..Len(a) : T[i][i + 1] = 0}
  <1>1. 0 \in N
    <2>1. T[0] = FirstRow(a)
      BY TableRows
    <2>2. QED
      BY <2>1 DEF FirstRow
  <1>2. ASSUME NEW m \in N, m < Len(a)
        PROVE  m + 1 \in N
    <2> DEFINE i == m + 1
    <2>1. i \in 1..Len(a) /\ i \in 0..Len(a) /\ i - 1 = m /\ i + 1 \in 1..Len(a) + 1 /\ T[m][i] = 0
      BY <1>2
    <2> HIDE DEF i, N
    <2>2. T[i][i + 1] <= T[i - 1][i]
      BY <2>1, Matching
    <2>3. T[i] \in Cells(a)
      BY <2>1, TableRows
    <2>4. T[i][i + 1] \in Nat
      BY <2>1, <2>3 DEF Cells
    <2>5. T[i][i + 1] = 0
      BY <2>1, <2>2, <2>4
    <2>6. QED
      BY <2>1, <2>5 DEF i, N
  <1> HIDE DEF N
  <1>3. N \in SUBSET Nat
    BY DEF N
  <1>4. 0..Len(a) \subseteq N
    BY <1>1, <1>2, <1>3, OneByOne
  <1>5. QED
    BY <1>4 DEF N, Answer

LEMMA NoneMeansEqual ==
  ASSUME NEW a \in Seq(Letters), NEW b \in Seq(Letters), Answer(a, b) = 0
  PROVE  a = b
  <1> DEFINE T == Table(a, b)
             Same(i, j) == i = j /\ \A k \in 1..i : a[k] = b[k]
             N == {i \in 0..Len(a) : \A j \in 0..Len(b) : T[i][j + 1] = 0 => Same(i, j)}
  <1>1. Len(a) \in Nat /\ Len(b) \in Nat
    OBVIOUS
  <1>2. \A i \in 0..Len(a) : \A j \in 1..Len(b) + 1 : T[i][j] \in Nat
    BY <1>1, TableRows DEF Cells
  <1>3. 0 \in N
    <2>1. T[0] = FirstRow(b)
      BY <1>1, TableRows
    <2>2. \A j \in 0..Len(b) : T[0][j + 1] = j
      BY <2>1 DEF FirstRow
    <2>3. QED
      BY <1>1, <2>2
  <1>4. ASSUME NEW m \in N, m < Len(a)
        PROVE  m + 1 \in N
    <2> DEFINE i == m + 1
    <2>1. /\ m \in 0..Len(a) /\ i \in 1..Len(a) /\ i \in 0..Len(a) /\ i - 1 = m
          /\ \A j \in 0..Len(b) : T[m][j + 1] = 0 => Same(m, j)
      BY <1>4
    <2>1a. i = m + 1
      OBVIOUS
    <2> HIDE DEF N, i, Same
    <2>2. Follows(T[i], T[i - 1], a[i], b)
      BY <1>1, <2>1, TableRows
    <2>3. ASSUME NEW j \in 0..Len(b), T[i][j + 1] = 0
          PROVE  Same(i, j)
      <3>1. j # 0
        <4>1. T[i - 1][1] \in Nat
          BY <1>1, <1>2, <2>1
        <4>2. QED
          BY <2>2, <2>3, <4>1 DEF Follows
      <3>2. j \in 1..Len(b) /\ j \in 1..Len(b) + 1 /\ j + 1 \in 1..Len(b) + 1
        BY <1>1, <3>1
      <3>3. T[i - 1][j + 1] \in Nat /\ T[i][j] \in Nat /\ T[i - 1][j] \in Nat
        BY <1>2, <2>1, <3>2
      <3>4. 0 = T[i - 1][j] + Cost(a[i], b[j])
        <4>1. \/ T[i][j + 1] = T[i - 1][j + 1] + 1
              \/ T[i][j + 1] = T[i][j] + 1
              \/ T[i][j + 1] = T[i - 1][j] + Cost(a[i], b[j])
          BY <2>2, <3>2 DEF Follows
        <4>2. QED
          BY <2>3, <3>3, <4>1
      <3>5. a[i] = b[j] /\ T[m][j] = 0
        BY <2>1, <3>3, <3>4 DEF Cost
      <3> DEFINE l == j - 1
      <3>6. l \in 0..Len(b) /\ l + 1 = j
        BY <3>2
      <3> HIDE DEF l
      <3>7. Same(m, l)
        BY <2>1, <3>5, <3>6
      <3>8. i = j /\ m \in Nat
        BY <2>1, <2>1a, <3>6, <3>7 DEF Same
      <3>9. \A k \in 1..i : a[k] = b[k]
        <4> SUFFICES ASSUME NEW k \in 1..i PROVE a[k] = b[k]
          OBVIOUS
        <4>1. k = i \/ k \in 1..m
          BY <2>1a, <3>8
        <4>2. QED
          BY <3>5, <3>7, <3>8, <4>1 DEF Same
      <3>10. QED
        BY <3>8, <3>9 DEF Same
    <2>4. QED
      BY <2>1, <2>3 DEF N, i
  <1> HIDE DEF N
  <1>5. N \in SUBSET Nat
    BY DEF N
  <1>6. 0..Len(a) \subseteq N
    BY <1>1, <1>3, <1>4, <1>5, OneByOne
  <1>7. Len(a) \in N /\ Len(b) \in 0..Len(b)
    BY <1>1, <1>6
  <1>8. Same(Len(a), Len(b))
    BY <1>7 DEF N, Answer
  <1>9. QED
    BY <1>8, SeqEqual

\* The words one edit away.
LEMMA EditedWords ==
  ASSUME NEW a \in Seq(Letters), NEW c \in OneEdit(a)
  PROVE  /\ c \in Seq(Letters)
         /\ \E i : Inserted(a, c, i) \/ Inserted(c, a, i) \/ Replaced(a, c, i)
  <1>1. CASE \E i \in 1..Len(a) + 1, ch \in Letters : c = InsertAt(a, i, ch)
    BY <1>1, InsertAtIs
  <1>2. CASE \E i \in DOMAIN a : c = RemoveAt(a, i)
    <2>1. PICK i \in 1..Len(a) : c = RemoveAt(a, i)
      BY <1>2
    <2>2. QED
      BY <2>1, RemoveAtIs
  <1>3. CASE \E i \in DOMAIN a, ch \in Letters : c = ReplaceAt(a, i, ch)
    <2>1. PICK i \in 1..Len(a), ch \in Letters : c = ReplaceAt(a, i, ch)
      BY <1>3
    <2>2. QED
      BY <2>1, ReplaceAtIs
  <1>4. QED
    BY <1>1, <1>2, <1>3 DEF OneEdit

LEMMA EditedDistance ==
  ASSUME NEW a \in Seq(Letters), NEW b \in Seq(Letters)
  PROVE  Levenshtein(a, b) = Answer(a, b) /\ Levenshtein(a, b) \in Nat
  <1>1. Len(a) \in Nat /\ Len(b) \in Nat
    OBVIOUS
  <1>2. QED
    BY <1>1, DistanceIsAnswer, NoneForEqual

\* The table's answer is the least number of single edits between any two
\* words: none between equal words only, and otherwise one more than from the
\* nearest of the words one edit away (fuzzy-match.util.ts levenshtein).
THEOREM DistanceIsLeast ==
  ASSUME NEW a \in Seq(Letters), NEW b \in Seq(Letters)
  PROVE  IF a = b THEN Levenshtein(a, b) = 0
         ELSE Levenshtein(a, b) = 1 + Min({Levenshtein(c, b) : c \in OneEdit(a)})
  <1>1. Len(a) \in Nat /\ Len(b) \in Nat
    OBVIOUS
  <1>2. CASE a = b
    BY <1>1, <1>2, DistanceIsAnswer
  <1>3. CASE a # b
    <2> DEFINE E == {Levenshtein(c, b) : c \in OneEdit(a)}
    <2>1. Levenshtein(a, b) = Answer(a, b) /\ Answer(a, b) \in Nat /\ Answer(a, b) > 0
      BY <1>3, EditedDistance, NoneMeansEqual
    <2>2. ASSUME NEW c \in OneEdit(a)
          PROVE  /\ Levenshtein(c, b) \in Nat
                 /\ Levenshtein(a, b) <= Levenshtein(c, b) + 1
      <3>1. c \in Seq(Letters) /\ Len(c) \in Nat
        BY EditedWords
      <3>2. Levenshtein(c, b) = Answer(c, b) /\ Answer(c, b) \in Nat
        BY <3>1, EditedDistance
      <3>3. Answer(a, b) <= Answer(c, b) + 1
        BY <1>1, <3>1, EditedWords, InsertedNear, ReplacedNear
      <3>4. QED
        BY <2>1, <3>2, <3>3
    <2>3. PICK d \in OneEdit(a) : Levenshtein(d, b) < Levenshtein(a, b)
      <3>1. Len(a) \in 0..Len(a) /\ Len(b) \in 0..Len(b)
        BY <1>1
      <3>2. PICK c, p : Gains(a, b, Len(a), Len(b), c, p)
        BY <2>1, <3>1, SomeEditGains DEF Answer
      <3>3. p = Len(c)
        BY <1>1, <3>2 DEF Gains, GoOnAlike
      <3>4. Answer(c, b) < Answer(a, b)
        BY <3>2, <3>3 DEF Gains, Answer
      <3>5. QED
        BY <2>1, <3>2, <3>4, EditedDistance DEF Gains
    <2>4. E \in SUBSET Nat /\ E # {}
      BY <2>2, <2>3
    <2>5. Min(E) \in E /\ \A m \in E : Min(E) <= m
      <3> HIDE DEF E
      <3>1. QED
        BY <2>4, LeastOfSome
    <2>6. Min(E) <= Levenshtein(d, b) /\ Levenshtein(d, b) \in Nat
      BY <2>2, <2>5
    <2>7. PICK c \in OneEdit(a) : Min(E) = Levenshtein(c, b)
      BY <2>5
    <2> HIDE DEF E
    <2>8. Levenshtein(a, b) <= Min(E) + 1 /\ Min(E) \in Nat
      BY <2>2, <2>7
    <2>9. Levenshtein(a, b) = 1 + Min(E)
      BY <2>1, <2>3, <2>6, <2>8
    <2>10. QED
      BY <1>3, <2>9 DEF E
  <1>4. QED
    BY <1>2, <1>3

-----------------------------------------------------------------------------
(* What a header is compared as.                                            *)

NormalFilling(word, g) ==
  g = [n \in 0..Len(word) |-> IF n = 0 THEN <<>> ELSE Kept(g[n - 1], word[n])]

LEMMA NormalIsWord ==
  ASSUME NEW word \in Seq(Letters \cup {Filler})
  PROVE  Normalize(word) \in Seq(Letters)
  <1> DEFINE S == [m \in 0..Len(word) |-> Seq(Letters)]
             step == [m \in 1..Len(word) |-> [so \in Seq(Letters) |-> Kept(so, word[m])]]
             chosen == CHOOSE g : NormalFilling(word, g)
             N == {n \in 0..Len(word) : chosen[n] \in Seq(Letters)}
  <1>1. Len(word) \in Nat /\ \A n \in 1..Len(word) : word[n] \in Letters \cup {Filler}
    OBVIOUS
  <1>2. \A n \in 1..Len(word) : \A so \in Seq(Letters) : Kept(so, word[n]) \in Seq(Letters)
    BY <1>1 DEF Kept
  <1>3. ASSUME NEW m \in 1..Len(word), NEW x \in S[m - 1]
        PROVE  step[m][x] = Kept(x, word[m]) /\ step[m][x] \in S[m]
    <2>1. S[m - 1] = Seq(Letters) /\ S[m] = Seq(Letters)
      OBVIOUS
    <2>2. x \in Seq(Letters)
      BY <2>1
    <2>3. step[m][x] = Kept(x, word[m])
      BY <2>2
    <2> HIDE DEF S, step
    <2>4. QED
      BY <1>2, <2>1, <2>2, <2>3
  <1>4. <<>> \in S[0]
    BY <1>1
  <1> HIDE DEF S, step
  <1>5. PICK g : Steps(Len(word), <<>>, step, g) /\ \A m \in 0..Len(word) : g[m] \in S[m]
    <2>1. \A m \in 1..Len(word) : \A x \in S[m - 1] : step[m][x] \in S[m]
      BY <1>3
    <2>2. QED
      BY <1>1, <1>4, <2>1, StepByStep
  <1>6. \A m \in 0..Len(word) :
          (IF m = 0 THEN <<>> ELSE step[m][g[m - 1]])
            = IF m = 0 THEN <<>> ELSE Kept(g[m - 1], word[m])
    BY <1>3, <1>5
  <1>7. NormalFilling(word, g)
    BY <1>5, <1>6, Zenon DEF NormalFilling, Steps
  <1>8. NormalFilling(word, chosen)
    BY <1>7
  <1>9. Normalize(word) = chosen[Len(word)]
    BY Zenon DEF Normalize, NormalFilling
  <1> HIDE DEF chosen
  <1>10. \A n \in 0..Len(word) : chosen[n] = IF n = 0 THEN <<>> ELSE Kept(chosen[n - 1], word[n])
    BY <1>8, Zenon DEF NormalFilling
  <1>11. 0 \in N
    <2>1. 0 \in 0..Len(word) /\ chosen[0] = <<>>
      BY <1>1, <1>10
    <2>2. <<>> \in Seq(Letters)
      OBVIOUS
    <2>3. chosen[0] \in Seq(Letters)
      BY <2>1, <2>2
    <2>4. QED
      BY <2>1, <2>3
  <1>12. ASSUME NEW n \in N, n < Len(word)
         PROVE  n + 1 \in N
    <2>1. n + 1 \in 1..Len(word) /\ n + 1 \in 0..Len(word) /\ (n + 1) - 1 = n /\ n + 1 # 0
      BY <1>1, <1>12
    <2>2. chosen[n + 1] = Kept(chosen[n], word[n + 1]) /\ chosen[n] \in Seq(Letters)
      BY <1>10, <2>1
    <2>3. QED
      BY <1>2, <2>1, <2>2
  <1> HIDE DEF N
  <1>13. N \in SUBSET Nat
    BY DEF N
  <1>14. 0..Len(word) \subseteq N
    BY <1>1, <1>11, <1>12, <1>13, OneByOne
  <1>15. QED
    BY <1>1, <1>9, <1>14 DEF N

LEMMA WordsAreWords ==
  /\ \A w \in Words : Normalize(w) \in Seq(Letters)
  /\ \A f \in DOMAIN Fields : \A word \in Synonyms[f] : Normalize(word) \in Seq(Letters)
  <1>1. \A w \in Words : Normalize(w) \in Seq(Letters)
    BY NormalIsWord, FuzzyAssumption
  <1>2. ASSUME NEW f \in DOMAIN Fields, NEW word \in Synonyms[f]
        PROVE  Normalize(word) \in Seq(Letters)
    <2>1. word \in Seq(Letters \cup {Filler})
      BY FuzzyAssumption
    <2>2. QED
      BY <2>1, NormalIsWord
  <1>3. QED
    BY <1>1, <1>2

LEMMA AllMeasured == Words \subseteq Measured
  <1> SUFFICES ASSUME NEW w \in Words, NEW f \in DOMAIN Fields, NEW word \in Synonyms[f]
               PROVE  LET a == Normalize(w)
                          b == Normalize(word)
                      IN IF a = b THEN Levenshtein(a, b) = 0
                         ELSE Levenshtein(a, b)
                                = 1 + Min({Levenshtein(c, b) : c \in OneEdit(a)})
    BY DEF Measured
  <1> DEFINE a == Normalize(w)
             b == Normalize(word)
  <1>1. a \in Seq(Letters) /\ b \in Seq(Letters)
    BY WordsAreWords
  <1> HIDE DEF a, b
  <1>2. IF a = b THEN Levenshtein(a, b) = 0
        ELSE Levenshtein(a, b) = 1 + Min({Levenshtein(c, b) : c \in OneEdit(a)})
    BY <1>1, DistanceIsLeast
  <1>3. QED
    BY <1>2 DEF a, b

-----------------------------------------------------------------------------
(* Confidences.                                                             *)

IsConfidence(c) == c.num \in Int /\ c.den \in Nat /\ c.den > 0

LEMMA ConfidenceTyped ==
  ASSUME NEW a \in Seq(Letters), NEW b \in Seq(Letters)
  PROVE  IsConfidence(Confidence(a, b))
  <1> DEFINE lengths == {Len(a), Len(b)}
             longest == Max(lengths)
  <1>1. Len(a) \in Nat /\ Len(b) \in Nat
    OBVIOUS
  <1>2. longest \in Nat /\ longest >= Len(a) /\ longest >= Len(b)
    <2> DEFINE top == IF Len(a) >= Len(b) THEN Len(a) ELSE Len(b)
    <2>1. top \in lengths /\ \A y \in lengths : top >= y
      BY <1>1
    <2> HIDE DEF top
    <2>2. longest \in lengths /\ \A y \in lengths : longest >= y
      BY <2>1, Zenon DEF Max
    <2> HIDE DEF longest
    <2>3. QED
      BY <1>1, <2>2
  <1>3. a = b => Confidence(a, b) = [num |-> 1, den |-> 1]
    BY DEF Confidence
  <1>4. a # b => Confidence(a, b) = [num |-> longest - Levenshtein(a, b), den |-> longest]
    BY DEF Confidence
  <1> HIDE DEF longest
  <1>5. a # b => longest > 0
    <2>1. CASE Len(a) = 0 /\ Len(b) = 0
      <3>1. a = b
        BY <2>1, SeqEqual
      <3>2. QED
        BY <3>1
    <2>2. CASE Len(a) # 0 \/ Len(b) # 0
      BY <1>1, <1>2, <2>2
    <2>3. QED
      BY <2>1, <2>2
  <1>6. Levenshtein(a, b) \in Nat
    BY EditedDistance
  <1>7. QED
    BY <1>2, <1>3, <1>4, <1>5, <1>6 DEF IsConfidence

LEMMA Scaled ==
  ASSUME NEW x \in Int, NEW y \in Int, NEW k \in Int, k > 0
  PROVE  /\ x > y => x * k > y * k
         /\ x <= y => x * k <= y * k
  OBVIOUS

\* What is no better than what x is better than is no better than x.
LEMMA BetterThan ==
  ASSUME NEW x, NEW m, NEW d, IsConfidence(x), IsConfidence(m), IsConfidence(d),
         Better(x, m), ~Better(d, m)
  PROVE  ~Better(d, x)
  <1> DEFINE xn == x.num
             xd == x.den
             mn == m.num
             md == m.den
             dn == d.num
             dd == d.den
  <1>1. /\ xn \in Int /\ mn \in Int /\ dn \in Int
        /\ xd \in Int /\ md \in Int /\ dd \in Int /\ xd > 0 /\ md > 0 /\ dd > 0
    BY DEF IsConfidence
  <1>2. xn * md > mn * xd /\ dn * md <= mn * dd
    <2>1. xn * md > mn * xd /\ ~(dn * md > mn * dd)
      BY DEF Better
    <2> HIDE DEF xn, xd, mn, md, dn, dd
    <2>2. dn * md \in Int /\ mn * dd \in Int
      BY <1>1
    <2>3. QED
      BY <2>1, <2>2
  <1>3. SUFFICES ASSUME dn * xd > xn * dd PROVE FALSE
    BY DEF Better
  <1> HIDE DEF xn, xd, mn, md, dn, dd
  <1>4. /\ xn * md \in Int /\ mn * xd \in Int /\ dn * md \in Int /\ mn * dd \in Int
        /\ dn * xd \in Int /\ xn * dd \in Int
    BY <1>1
  <1>5. (xn * md) * dd > (mn * xd) * dd
    BY <1>1, <1>2, <1>4, Scaled
  <1>6. (dn * md) * xd <= (mn * dd) * xd
    BY <1>1, <1>2, <1>4, Scaled
  <1>7. (dn * xd) * md > (xn * dd) * md
    BY <1>1, <1>3, <1>4, Scaled
  <1>8. /\ (mn * xd) * dd = (mn * dd) * xd
        /\ (dn * xd) * md = (dn * md) * xd
        /\ (xn * md) * dd = (xn * dd) * md
    BY <1>1
  <1>9. /\ (xn * dd) * md \in Int /\ (mn * dd) * xd \in Int /\ (dn * md) * xd \in Int
    BY <1>1, <1>4
  <1>10. QED
    BY <1>5, <1>6, <1>7, <1>8, <1>9

\* Of some confidences one is best: of the finite sets without a best, one would be least.
LEMMA BestOfSome ==
  ASSUME NEW all, IsFiniteSet(all), all # {}, \A c \in all : IsConfidence(c)
  PROVE  \E c \in all : \A d \in all : ~Better(d, c)
  <1> DEFINE Topped(S) == \E c \in S : \A d \in S : ~Better(d, c)
             smaller == StrictSubsetOrdering(all)
             bad == {S \in FiniteSubsetsOf(all) : S # {} /\ ~Topped(S)}
  <1>1. SUFFICES ASSUME ~Topped(all) PROVE FALSE
    OBVIOUS
  <1>2. all \in bad
    BY <1>1 DEF FiniteSubsetsOf
  <1>3. IsWellFoundedOn(smaller, FiniteSubsetsOf(all))
    BY FS_StrictSubsetOrderingWellFounded
  <1>4. bad \subseteq FiniteSubsetsOf(all) /\ bad # {}
    BY <1>2
  <1> HIDE DEF bad, smaller
  <1>5. PICK S \in bad : \A T \in bad : <<T, S>> \notin smaller
    BY <1>3, <1>4, WFMin
  <1>6. S \subseteq all /\ IsFiniteSet(S) /\ S # {} /\ ~Topped(S)
    BY <1>5 DEF bad, FiniteSubsetsOf
  <1>7. PICK x : x \in S
    BY <1>6
  <1> DEFINE T == S \ {x}
  <1>8. T \subseteq all /\ IsFiniteSet(T) /\ T \subseteq S /\ T # S
    BY <1>6, <1>7, FS_Subset
  <1>9. IsConfidence(x) /\ ~Better(x, x)
    <2>1. IsConfidence(x)
      BY <1>6, <1>7
    <2> DEFINE own == x.num * x.den
    <2>2. own \in Int
      BY <2>1 DEF IsConfidence
    <2>3. Better(x, x) <=> own > own
      BY DEF Better
    <2> HIDE DEF own
    <2>4. QED
      BY <2>1, <2>2, <2>3
  <1>10. S = T \cup {x}
    BY <1>7
  <1> HIDE DEF T
  <1>11. <<T, S>> \in smaller
    BY <1>6, <1>8, Zenon DEF smaller, StrictSubsetOrdering
  <1>12. T = {} \/ Topped(T)
    BY <1>5, <1>8, <1>11 DEF bad, FiniteSubsetsOf
  <1>13. CASE T = {}
    BY <1>6, <1>9, <1>10, <1>13
  <1>14. CASE Topped(T)
    <2>1. PICK m \in T : \A d \in T : ~Better(d, m)
      BY <1>14
    <2>2. CASE ~Better(x, m)
      BY <1>6, <1>10, <2>1, <2>2
    <2>3. CASE Better(x, m)
      <3>1. \A d \in T : ~Better(d, x)
        BY <1>8, <1>9, <2>1, <2>3, BetterThan
      <3>2. QED
        BY <1>6, <1>9, <1>10, <3>1
    <2>4. QED
      BY <2>2, <2>3
  <1>15. QED
    BY <1>12, <1>13, <1>14

LEMMA ScoresTyped ==
  ASSUME NEW f \in DOMAIN Fields, NEW w \in Words
  PROVE  IsConfidence(Scores[f][w])
  <1> DEFINE Of(word) == Confidence(Normalize(w), Normalize(word))
             all == {Of(word) : word \in Synonyms[f]}
  <1>1. Scores[f][w] = CHOOSE c \in all : \A d \in all : ~Better(d, c)
    BY DEF Scores
  <1>2. \A word \in Synonyms[f] : IsConfidence(Of(word))
    BY WordsAreWords, ConfidenceTyped
  <1> HIDE DEF Of
  <1>3. Synonyms[f] # {} /\ IsFiniteSet(Synonyms[f])
    BY FuzzyAssumption
  <1>4. IsFiniteSet(all) /\ all # {} /\ \A c \in all : IsConfidence(c)
    <2>1. IsFiniteSet(all)
      <3> DEFINE g == [word \in Synonyms[f] |-> Of(word)]
      <3>1. g \in Surjection(Synonyms[f], all)
        BY DEF Surjection
      <3> HIDE DEF g, all
      <3>2. QED
        BY <1>3, <3>1, FS_Surjection
    <2>2. QED
      BY <1>2, <1>3, <2>1
  <1> HIDE DEF all
  <1>5. \E c \in all : \A d \in all : ~Better(d, c)
    BY <1>4, BestOfSome
  <1>6. Scores[f][w] \in all
    BY <1>1, <1>5, Zenon
  <1>7. QED
    BY <1>4, <1>6

-----------------------------------------------------------------------------
(* The columns suggested.                                                   *)

LEMMA CandidatesTyped ==
  ASSUME headers \in Seq(Words)
  PROVE  /\ \A c \in Candidates :
              /\ c.field \in DOMAIN Fields /\ c.column \in 1..Len(headers)
              /\ IsConfidence(c.score)
         /\ \A c, d \in Candidates : c.field = d.field /\ c.column = d.column => c = d
  <1> DEFINE Of(f, h) == [field |-> f, column |-> h, score |-> Scores[f][headers[h]]]
  <1>1. ASSUME NEW c \in Candidates
        PROVE  \E f \in DOMAIN Fields, h \in DOMAIN headers : c = Of(f, h)
    BY DEF Candidates
  <1>2. ASSUME NEW f \in DOMAIN Fields, NEW h \in DOMAIN headers
        PROVE  /\ Of(f, h).field = f /\ Of(f, h).column = h /\ h \in 1..Len(headers)
               /\ IsConfidence(Of(f, h).score)
    <2>1. headers[h] \in Words /\ h \in 1..Len(headers)
      OBVIOUS
    <2>2. QED
      BY <2>1, ScoresTyped
  <1> HIDE DEF Of
  <1>3. QED
    BY <1>1, <1>2

\* The order has no circles of one or two.
LEMMA OneWay ==
  ASSUME NEW x, NEW y, IsConfidence(x.score), IsConfidence(y.score),
         x.field \in Nat, y.field \in Nat, x.column \in Nat, y.column \in Nat
  PROVE  ~(Precedes(x, y) /\ Precedes(y, x))
  <1> DEFINE p == x.score.num * y.score.den
             q == y.score.num * x.score.den
  <1>1. p \in Int /\ q \in Int
    BY DEF IsConfidence
  <1>2. (Better(x.score, y.score) <=> p > q) /\ (Better(y.score, x.score) <=> q > p)
    BY DEF Better
  <1> HIDE DEF p, q
  <1>3. ~(Better(x.score, y.score) /\ Better(y.score, x.score))
    BY <1>1, <1>2
  <1>4. QED
    BY <1>3 DEF Precedes

\* The greedy rule for one candidate.
Settled(all, mapping, c) ==
  (mapping[c.field] = c.column) <=>
    ~\E d \in all : /\ Precedes(d, c) /\ mapping[d.field] = d.column
                    /\ d.field = c.field \/ d.column = c.column

\* Those the loop has been through come before the rest, what was taken was
\* taken by one of them, and each of them is settled.
GreedyInv ==
  /\ \A r \in Candidates \ candidates : \A c \in candidates : Precedes(r, c)
  /\ \A f \in DOMAIN Fields : suggested[f] # 0 =>
       \E r \in Candidates \ candidates : r.field = f /\ r.column = suggested[f]
  /\ \A c \in Candidates \ candidates : Settled(Candidates, suggested, c)

LEMMA SettledIsNoBetterPair ==
  NoBetterPair <=> \A c \in Candidates \ candidates : Settled(Candidates, suggested, c)
  BY Zenon DEF NoBetterPair, Settled

LEMMA AssignGreedy ==
  ASSUME headers \in Seq(Words), FuzzyTypeOK, GreedyInv, Assign
  PROVE  GreedyInv'
  <1> DEFINE all == Candidates
  <1>1. PICK c \in candidates :
          /\ \A d \in candidates \ {c} : Precedes(c, d)
          /\ candidates' = candidates \ {c}
          /\ suggested' = IF Free(c) THEN [suggested EXCEPT ![c.field] = c.column]
                          ELSE suggested
          /\ headers' = headers
    BY DEF Assign
  <1>2. Candidates' = Candidates
    BY <1>1 DEF Candidates
  <1>3. /\ candidates \subseteq all /\ c \in all
        /\ suggested \in [DOMAIN Fields -> 0..Len(headers)]
    BY DEF FuzzyTypeOK
  <1>4. /\ \A d \in all : /\ d.field \in DOMAIN Fields /\ d.column \in 1..Len(headers)
                          /\ d.column # 0
        /\ \A d, e \in all : d.field = e.field /\ d.column = e.column => d = e
    BY CandidatesTyped
  <1>5. \A d, e \in all : ~(Precedes(d, e) /\ Precedes(e, d))
    <2> SUFFICES ASSUME NEW d \in all, NEW e \in all
                 PROVE  ~(Precedes(d, e) /\ Precedes(e, d))
      OBVIOUS
    <2>1. /\ IsConfidence(d.score) /\ IsConfidence(e.score)
          /\ d.field \in Nat /\ e.field \in Nat /\ d.column \in Nat /\ e.column \in Nat
      BY CandidatesTyped, FuzzyAssumption
    <2>2. QED
      BY <2>1, OneWay
  <1>6. /\ \A r \in all \ candidates : \A d \in candidates : Precedes(r, d)
        /\ \A f \in DOMAIN Fields : suggested[f] # 0 =>
             \E r \in all \ candidates : r.field = f /\ r.column = suggested[f]
        /\ \A d \in all \ candidates : Settled(all, suggested, d)
    BY DEF GreedyInv
  <1> HIDE DEF all
  <1>7. all \ candidates' = (all \ candidates) \cup {c}
    BY <1>1, <1>3
  <1>8. \A r \in all \ candidates' : \A d \in candidates' : Precedes(r, d)
    BY <1>1, <1>6, <1>7
  <1>9. c \notin all \ candidates
    OBVIOUS
  <1>10. CASE Free(c)
    <2>1. suggested' = [suggested EXCEPT ![c.field] = c.column]
      BY <1>1, <1>10
    <2>2. /\ \A f \in DOMAIN Fields : suggested'[f] = IF f = c.field THEN c.column ELSE suggested[f]
          /\ suggested[c.field] = 0
          /\ \A f \in DOMAIN Fields : suggested[f] # c.column
      BY <1>3, <1>4, <1>10, <2>1 DEF Free
    <2>3. \A f \in DOMAIN Fields : suggested'[f] # 0 =>
            \E r \in all \ candidates' : r.field = f /\ r.column = suggested'[f]
      BY <1>3, <1>6, <1>7, <2>2
    <2>4. Settled(all, suggested', c)
      <3>1. suggested'[c.field] = c.column
        BY <1>3, <1>4, <2>2
      <3>2. ASSUME NEW d \in all, Precedes(d, c), suggested'[d.field] = d.column,
                   d.field = c.field \/ d.column = c.column
            PROVE  FALSE
        <4>1. d.field = c.field
          BY <1>4, <2>2, <3>2
        <4>2. d = c
          BY <1>3, <1>4, <3>1, <3>2, <4>1
        <4>3. QED
          BY <1>3, <1>5, <3>2, <4>2
      <3>3. QED
        BY <3>1, <3>2 DEF Settled
    <2>5. ASSUME NEW d \in all \ candidates
          PROVE  Settled(all, suggested', d)
      <3>1. d # c /\ d \in all /\ Precedes(d, c) /\ ~Precedes(c, d)
        BY <1>3, <1>5, <1>6
      <3>2. \A e \in all : (suggested'[e.field] = e.column) <=>
                            (suggested[e.field] = e.column \/ e = c)
        BY <1>3, <1>4, <2>2
      <3>3. QED
        BY <1>6, <3>1, <3>2 DEF Settled
    <2>6. QED
      BY <1>2, <1>7, <1>8, <2>3, <2>4, <2>5 DEF GreedyInv, all
  <1>11. CASE ~Free(c)
    <2>1. suggested' = suggested
      BY <1>1, <1>11
    <2>2. suggested[c.field] # c.column
      <3> SUFFICES ASSUME suggested[c.field] = c.column PROVE FALSE
        OBVIOUS
      <3>1. PICK r \in all \ candidates : r.field = c.field /\ r.column = suggested[c.field]
        BY <1>3, <1>4, <1>6
      <3>2. r = c
        BY <1>3, <1>4, <3>1
      <3>3. QED
        BY <1>9, <3>2
    <2>3. \E r \in all \ candidates :
            /\ suggested[r.field] = r.column
            /\ r.field = c.field \/ r.column = c.column
      <3>1. CASE suggested[c.field] # 0
        <4>1. PICK r \in all \ candidates : r.field = c.field /\ r.column = suggested[c.field]
          BY <1>3, <1>4, <1>6, <3>1
        <4>2. QED
          BY <4>1
      <3>2. CASE suggested[c.field] = 0
        <4>1. PICK f \in DOMAIN Fields : suggested[f] = c.column
          BY <1>11, <3>2 DEF Free
        <4>2. PICK r \in all \ candidates : r.field = f /\ r.column = suggested[f]
          BY <1>3, <1>4, <1>6, <4>1
        <4>3. QED
          BY <4>1, <4>2
      <3>3. QED
        BY <3>1, <3>2
    <2>4. Settled(all, suggested', c)
      BY <1>6, <2>1, <2>2, <2>3 DEF Settled
    <2>5. QED
      BY <1>2, <1>6, <1>7, <1>8, <2>1, <2>4 DEF GreedyInv, all
  <1>12. QED
    BY <1>10, <1>11

LEMMA GreedyHolds == Spec => [](FuzzyTypeOK /\ RowsInv /\ GreedyInv)
  <1>1. Init => GreedyInv
    <2> SUFFICES ASSUME Init PROVE GreedyInv
      OBVIOUS
    <2>1. candidates = Candidates /\ suggested = [f \in DOMAIN Fields |-> 0]
      BY DEF Init, FuzzyInit
    <2>2. QED
      BY <2>1 DEF GreedyInv
  <1>2. FuzzyTypeOK /\ RowsInv /\ GreedyInv /\ [Next]_vars => GreedyInv'
    <2> SUFFICES ASSUME FuzzyTypeOK, RowsInv, GreedyInv, [Next]_vars PROVE GreedyInv'
      OBVIOUS
    <2>1. headers \in Seq(Words)
      BY DEF RowsInv, RowsTyped
    <2>2. CASE Assign
      BY <2>1, <2>2, AssignGreedy
    <2>3. ASSUME UNCHANGED fuzzyVars PROVE GreedyInv'
      <3>1. /\ headers' = headers /\ candidates' = candidates /\ suggested' = suggested
            /\ Candidates' = Candidates
        BY <2>3 DEF fuzzyVars, Candidates
      <3>2. QED
        BY <3>1 DEF GreedyInv
    <2>4. Assign \/ UNCHANGED fuzzyVars
      BY DEF Next, Confirm, BulkImport, Begin, JudgeRow, RejectTaken, vars, fuzzyVars
    <2>5. QED
      BY <2>2, <2>3, <2>4
  <1>3. QED
    BY <1>1, <1>2, RowsInvHolds, PTL DEF Spec

\* Whatever the headers, the fields and the synonyms, the table's answer is the
\* least number of edits, and a candidate is passed over only for one before it
\* that has its field or its column (fuzzy-match.util.ts suggestMapping).
THEOREM MatchingSoundHolds == Spec => []MatchingSound
  <1>1. FuzzyTypeOK /\ RowsInv /\ GreedyInv => MatchingSound
    <2> SUFFICES ASSUME FuzzyTypeOK, RowsInv, GreedyInv PROVE MatchingSound
      OBVIOUS
    <2>1. \A h \in DOMAIN headers : headers[h] \in Words
      BY DEF RowsInv, RowsTyped
    <2>2. DistanceCountsEdits
      BY <2>1, AllMeasured DEF DistanceCountsEdits
    <2>3. NoBetterPair
      BY SettledIsNoBetterPair DEF GreedyInv
    <2>4. QED
      BY <2>2, <2>3 DEF MatchingSound
  <1>2. QED
    BY <1>1, GreedyHolds, PTL
=============================================================================
