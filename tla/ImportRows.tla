----------------------------- MODULE ImportRows -----------------------------
(***************************************************************************)
(* What an import accepts of a file: the header row and the cells, the      *)
(* columns suggested and confirmed, then the rows, one after the other,     *)
(* against the schema and against the rows before them.  The wizard's       *)
(* preview and commit and the older bulk import differ in the columns they  *)
(* read.  Fields that no check compares are left out.                       *)
(***************************************************************************)
EXTENDS FuzzyMatch

CONSTANTS
  Sheets,        \* files: [headers, rows], a row being a sequence of cells
  StandardNames, \* Fields' indices to the header the bulk import expects
  Student, Lecturer,
  RoleNames,     \* what normalizeRole makes of a cell, a function
  StudentCodes,  \* cells [year: 0..99, number]
  OtherCodes,    \* cells that may be a lecturer's code
  Emails,        \* cells [local]: a student code or another local part
  Majors,        \* majors there are
  Classes,       \* cells [khoa, suffix, spelling] in the faculty's form
  Year,          \* of the clock
  Changes,       \* how many fields an administrator maps otherwise (a bound)
  Spaces,        \* a cell of nothing but white space, which is trimmed
  None           \* an empty cell, or no cell

ASSUME RowsAssumption ==
  /\ Student # Lecturer
  /\ Year \in Nat /\ Changes \in Nat
  /\ {"role", "email", "code", "majorCode", "class"} \subseteq Range(Fields)
  /\ \A s \in Sheets :
       /\ s.headers \in Seq(Words)
       /\ Len(s.rows) \in Nat /\ DOMAIN s.rows = 1..Len(s.rows)
       /\ \A i \in DOMAIN s.rows : Len(s.rows[i]) = Len(s.headers)

VARIABLES
  rows,      \* rows of the file, cells by column
  column,    \* mapping: for each field the index of a column, 0: none
  at,        \* the next row of the loop
  seen,      \* emailsSeenInFile, codesSeenInFile, majorByClassCode
  valid, failed  \* rows judged: numbers to data, and numbers

vars == <<headers, candidates, suggested, rows, column, at, seen, valid, failed>>

NoRow == [f \in DOMAIN Fields |-> None]
Unseen == [emails |-> {}, codes |-> {}, majors |-> {}]

Init ==
  /\ \E s \in Sheets : FuzzyInit(s.headers) /\ rows = s.rows
  /\ column = [f \in DOMAIN Fields |-> 0]
  /\ at = 0
  /\ seen = Unseen
  /\ valid = <<>> /\ failed = {}

-----------------------------------------------------------------------------
(* Reading a row.                                                           *)

Trimmed(cell) == IF cell = Spaces THEN None ELSE cell

\* parseImportFile keys cells by lower-cased header and skips empty ones, so that
\* of two columns of one name the last that holds anything has its way, even
\* white space alone; a row without text is no row.
CellsNamed(i, name) ==
  LET held == {h \in DOMAIN headers : headers[h] = name /\ rows[i][h] # None} IN
  IF held = {} THEN None ELSE Trimmed(rows[i][Max(held)])

\* applyMapping.
Mapped(i) == [f \in DOMAIN Fields |->
  IF column[f] = 0 THEN None ELSE CellsNamed(i, headers[column[f]])]

\* toImportRowInput, which the bulk import calls: the standard names.
Standard == [f \in DOMAIN Fields |->
  LET named == {h \in DOMAIN headers : headers[h] = StandardNames[f]} IN
  IF named = {} THEN 0 ELSE Min(named)]

Blank(i) == \A h \in DOMAIN headers : Trimmed(rows[i][h]) = None

Field(name) == CHOOSE f \in DOMAIN Fields : Fields[f] = name
Data(i) == [name \in Range(Fields) |->
  LET cell == Mapped(i)[Field(name)] IN
  IF name = "role" /\ cell \in DOMAIN RoleNames THEN RoleNames[cell] ELSE cell]

-----------------------------------------------------------------------------
(* ImportRowSchema and the codes.                                           *)

Century == (Year \div 100) * 100
CohortEpoch == 1976
Cohort(code) == Century + code.year
KhoaCohort(khoa) == khoa + CohortEpoch

\* The two arms of the union; a code is the local part of its student's email.
StudentRow(d) ==
  /\ d.role = Student
  /\ d.email \in Emails /\ d.code \in StudentCodes
  /\ d.email.local = d.code
  /\ d.majorCode # None
LecturerRow(d) ==
  /\ d.role = Lecturer
  /\ d.email \in Emails
WellFormed(d) == StudentRow(d) \/ LecturerRow(d)

\* A lecturer without a code is given one at random.
WithCode(d) ==
  IF d.role = Lecturer /\ d.code = None
  THEN {[d EXCEPT !.code = c] : c \in OtherCodes} ELSE {d}

\* checkClassCode: a class that is not in the faculty's form is only warned of.
InForm(d) == d.class \in Classes
Contradiction(d) == InForm(d) /\ KhoaCohort(d.class.khoa) # Cohort(d.code)
\* normalised: however it is spelled.
ClassOf(d) == <<d.class.khoa, d.class.suffix>>

-----------------------------------------------------------------------------
(* validateImportRows and validateImportRowsMapped: one row.                *)

CodeKey(d) == <<d.role, d.code>>

\* Mutated form: a class may have several majors.
UnfitKeepsClasses(d) ==
  d.role = Student /\ (d.majorCode \notin Majors \/ Contradiction(d))

\* What a student's row may still fail on.
Unfit(d) ==
  /\ d.role = Student
  /\ \/ d.majorCode \notin Majors
     \/ Contradiction(d)
     \/ InForm(d) /\ \E m \in seen.majors : m[1] = ClassOf(d) /\ m[2] # d.majorCode

Fail == failed' = failed \cup {at} /\ UNCHANGED valid

Judge(d) ==
  IF ~WellFormed(d) \/ d.email \in seen.emails
  THEN Fail /\ UNCHANGED seen
  ELSE IF CodeKey(d) \in seen.codes
  THEN Fail /\ seen' = [seen EXCEPT !.emails = @ \cup {d.email}]
  ELSE
    /\ seen' = [emails |-> seen.emails \cup {d.email},
                codes |-> seen.codes \cup {CodeKey(d)},
                majors |-> seen.majors \cup
                  IF d.role = Student /\ InForm(d) /\ ~Unfit(d)
                  THEN {<<ClassOf(d), d.majorCode>>} ELSE {}]
    /\ IF Unfit(d) THEN Fail
       ELSE valid' = [n \in DOMAIN valid \cup {at} |-> IF n = at THEN d ELSE valid[n]]
            /\ UNCHANGED failed

JudgeRow ==
  /\ at \in DOMAIN rows
  /\ IF Blank(at) THEN UNCHANGED <<seen, valid, failed>>
     ELSE \E d \in WithCode(Data(at)) : Judge(d)
  /\ at' = at + 1
  /\ UNCHANGED <<fuzzyVars, rows, column>>

-----------------------------------------------------------------------------
(* The whole.                                                               *)

Begin(chosen) ==
  /\ at = 0 /\ rows # <<>>
  /\ column' = chosen
  /\ at' = 1
  /\ UNCHANGED <<fuzzyVars, rows, seen, valid, failed>>

\* The administrator confirms any mapping: what was suggested, but for at most
\* Changes fields.  A name the file does not have reads as no column.
Confirm ==
  /\ Suggested
  /\ \E changed \in SUBSET DOMAIN Fields :
       /\ Cardinality(changed) <= Changes
       /\ \E other \in [changed -> 0..Len(headers)] :
            Begin([f \in DOMAIN Fields |->
              IF f \in changed THEN other[f] ELSE suggested[f]])

\* bulkImport has no step between the file and the rows.
BulkImport == Suggested /\ Begin(Standard)

\* rejectTakenEmails: taken are the addresses the database has.
RejectTaken ==
  /\ at = Len(rows) + 1
  /\ \E taken \in SUBSET {valid[n].email : n \in DOMAIN valid} :
       LET kept == {n \in DOMAIN valid : valid[n].email \notin taken} IN
       /\ valid' = [n \in kept |-> valid[n]]
       /\ failed' = failed \cup (DOMAIN valid \ kept)
  /\ at' = at + 1
  /\ UNCHANGED <<fuzzyVars, rows, column, seen>>

Next ==
  \/ Assign /\ UNCHANGED <<rows, column, at, seen, valid, failed>>
  \/ Confirm \/ BulkImport
  \/ JudgeRow \/ RejectTaken

Spec == Init /\ [][Next]_vars

-----------------------------------------------------------------------------
(* Properties.                                                              *)

TypeOK ==
  /\ FuzzyTypeOK
  /\ column \in [DOMAIN Fields -> 0..Len(headers)]
  /\ at \in 0..Len(rows) + 2
  /\ DOMAIN valid \cup failed \subseteq DOMAIN rows

\* Each row looked at is reported once, as valid or as failed, unless it is
\* blank (users.service.ts previewImport puts the two lists together again).
EveryRowReported ==
  at > 0 =>
    /\ DOMAIN valid \cup failed = {n \in DOMAIN rows : n < at /\ ~Blank(n)}
    /\ DOMAIN valid \cap failed = {}

\* The rows that pass could all be accounts at once: no address twice, no code
\* twice in one table, one major for a class however it is spelled, and a
\* student's intake, class, code and address agreeing.
FileConsistent ==
  \A n, m \in DOMAIN valid :
    LET x == valid[n]
        y == valid[m] IN
    /\ n # m => x.email # y.email
    /\ n # m /\ x.role = y.role => x.code # y.code
    /\ x.role = Student /\ y.role = Student /\ InForm(x) /\ InForm(y)
         /\ ClassOf(x) = ClassOf(y) => x.majorCode = y.majorCode
    /\ x.role = Student =>
         /\ x.email.local = x.code
         /\ InForm(x) => KhoaCohort(x.class.khoa) = Cohort(x.code)

\* A row fails for a fault of its own, for an address the database has, or for
\* an earlier row with its address, with its code in the same table, or with
\* its class under another major.
FaultOf(n) ==
  LET d == Data(n)
      Earlier(same(_)) == \E m \in DOMAIN rows : m < n /\ WellFormed(Data(m)) /\ same(Data(m)) IN
  \/ ~WellFormed(d)
  \/ d.role = Student /\ (d.majorCode \notin Majors \/ Contradiction(d))
  \/ Earlier(LAMBDA e : e.email = d.email)
  \/ Earlier(LAMBDA e : e.role = d.role /\ (e.code = d.code \/ None \in {e.code, d.code}))
  \/ InForm(d) /\ Earlier(LAMBDA e : e.role = Student /\ InForm(e)
                            /\ ClassOf(e) = ClassOf(d) /\ e.majorCode # d.majorCode)
RejectedForCause == at <= Len(rows) + 1 => \A n \in failed : FaultOf(n)

\* Rows judged one after the other, each against those before it, end where the
\* file as a whole would have them: none lost, none failed without a cause, and
\* those that pass fit each other.
RowsSound == TypeOK /\ EveryRowReported /\ FileConsistent /\ RejectedForCause
=============================================================================
