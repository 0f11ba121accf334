------------------------------- MODULE Catalog -------------------------------
(***************************************************************************)
(* The tables other tables refer to by a code: semesters, project types and *)
(* majors.  Their services have one shape: look for the code or count what  *)
(* refers to the row, await, write.  What semesters have besides is Terms.  *)
(*                                                                         *)
(* No request of theirs touches two tables: this is any one of the three.   *)
(***************************************************************************)
EXTENDS Integers, FiniteSets, Sequences

CONSTANTS
  RowIds, Codes,
  Clerks,        \* requests in flight at once
  None

Tables == {"semesters", "project_types", "majors"}

\* Students keep their rows when their major goes (onDelete: SetNull).
SetNull == {"majors"}

\* What refers to a row: what its service counts, which also keeps the row by
\* its foreign key (Restrict), and the rounds of a semester, which go with it
\* (Cascade).  Proposals keep a semester too and are not counted: one that is
\* there already is to the delete what a topic is that came after the count.
Kinds == {"counted", "round"}

ASSUME CatalogAssumption == RowIds \subseteq Nat /\ None \notin Codes \cup RowIds

VARIABLES
  table,    \* which of the tables this is
  code,     \* codes of its rows, None: no such row
  refs,     \* what refers to each row
  clerk     \* requests

Job == [op : {"idle", "create", "update", "remove", "dates", "activate"},
        id : RowIds \cup {None}, code : Codes \cup {None},
        dates : Seq(Nat), read : Seq(Nat), seen : SUBSET RowIds]  \* Terms'
Free == [op |-> "idle", id |-> None, code |-> None,
         dates |-> <<>>, read |-> <<>>, seen |-> {}]

CatalogTypeOK ==
  /\ table \in Tables
  /\ code \in [RowIds -> Codes \cup {None}]
  /\ refs \in [RowIds -> SUBSET Kinds]
  /\ clerk \in [Clerks -> Job]

CatalogInit ==
  /\ table \in Tables
  /\ code = [i \in RowIds |-> None]
  /\ refs = [i \in RowIds |-> {}]
  /\ clerk = [c \in Clerks |-> Free]

Exists(i) == code[i] # None
Doing(c, op) == clerk[c].op = op
Finish(c) == clerk' = [clerk EXCEPT ![c] = Free]
Begin(c, job) ==
  /\ Doing(c, "idle")
  /\ clerk' = [clerk EXCEPT ![c] = job]
  /\ UNCHANGED <<table, code, refs>>

\* checkDuplicateCode and the unique index: nobody else has it.
NobodyHas(x, i) == \A j \in RowIds \ {i} : code[j] # x

-----------------------------------------------------------------------------
(* create, update and remove.                                               *)

CreateArrives(c, x) ==
  /\ NobodyHas(x, None)
  /\ Begin(c, [Free EXCEPT !.op = "create", !.code = x])

\* The id is new: no request knows it.
CommitCreate(c, i) ==
  /\ Doing(c, "create") /\ ~Exists(i)
  /\ \A d \in Clerks : clerk[d].id # i
  /\ NobodyHas(clerk[c].code, i)
  /\ code' = [code EXCEPT ![i] = clerk[c].code]
  /\ Finish(c)
  /\ UNCHANGED <<table, refs>>

UpdateArrives(c, i, x) ==
  /\ Exists(i) /\ NobodyHas(x, i)
  /\ Begin(c, [Free EXCEPT !.op = "update", !.id = i, !.code = x])

CommitUpdate(c) ==
  LET i == clerk[c].id IN
  /\ Doing(c, "update") /\ Exists(i)
  /\ NobodyHas(clerk[c].code, i)
  /\ code' = [code EXCEPT ![i] = clerk[c].code]
  /\ Finish(c)
  /\ UNCHANGED <<table, refs>>

Uncounted(i) == "counted" \notin refs[i]

RemoveArrives(c, i) ==
  /\ Exists(i)
  /\ Uncounted(i)
  /\ Begin(c, [Free EXCEPT !.op = "remove", !.id = i])

\* Mutated form: every foreign key sets null.
MayGoAlways(i) == TRUE

\* What the foreign keys say by then.
MayGo(i) == table \in SetNull \/ Uncounted(i)

CommitRemove(c) ==
  LET i == clerk[c].id IN
  /\ Doing(c, "remove") /\ Exists(i)
  /\ MayGo(i)
  /\ code' = [code EXCEPT ![i] = None]
  /\ refs' = [refs EXCEPT ![i] = {}]
  /\ Finish(c)
  /\ UNCHANGED table

\* The rest of the system begins and ceases to refer to a row; a topic of a
\* semester is in one of its rounds.
Refer(i, kind) ==
  /\ Exists(i) /\ (kind # "counted" => table = "semesters")
  /\ refs' \in {[refs EXCEPT ![i] = @ \cup {kind}], [refs EXCEPT ![i] = @ \ {kind}]}
  /\ table = "semesters" /\ "counted" \in refs'[i] => "round" \in refs'[i]
  /\ UNCHANGED <<table, code, clerk>>

\* A refusal, or the end of a request that was never answered.
GiveUp(c) ==
  /\ ~Doing(c, "idle")
  /\ Finish(c)
  /\ UNCHANGED <<table, code, refs>>

CatalogNext(c) ==
  \/ \E x \in Codes : CreateArrives(c, x) \/ \E i \in RowIds : UpdateArrives(c, i, x)
  \/ \E i \in RowIds : RemoveArrives(c, i) \/ \E kind \in Kinds : Refer(i, kind)
  \/ CommitUpdate(c)
  \/ GiveUp(c)

-----------------------------------------------------------------------------
(* Properties.                                                              *)

\* No two rows of a table have one code, though each request looks before it
\* writes and another may write in between (checkDuplicateCode).
CodesDistinct ==
  \A i, j \in RowIds : i # j /\ Exists(i) => code[i] # code[j]

\* A semester with topics, groups or proposals and a project type with rounds are
\* not removed, though what refers to them may have come after the count
\* (SemestersService.remove, ProjectTypesService.remove).
ReferredToStays ==
  [][ table \notin SetNull =>
        \A i \in RowIds : "counted" \in refs[i] => code'[i] # None ]_<<code, refs>>

\* As majors.service.ts:58 has it, a major that has students cannot be deleted.
\* Refuted: a student who comes between the count and the delete loses it.
StudentsKeepTheirMajor ==
  [][ table = "majors" =>
        \A i \in RowIds : refs[i] # {} => code'[i] # None ]_<<code, refs>>
=============================================================================
