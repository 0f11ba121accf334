# Verification of the Probase API

Probase (`src/`) is the back end with which a faculty runs its project
registration: the office announces rounds, lecturers put topics on offer,
students register alone or in groups while the gate is open, the office places
whoever is left and finalises the list, and the groups hand in their work. It is
a NestJS application over PostgreSQL (Prisma). Nothing in it runs in memory
between requests except the import wizard's sessions; everything else is rows,
and everything hard about it is requests that read rows, wait, and write.

This directory holds TLA+ models of that behaviour, the TLC configurations
that check them, and theorems TLAPS proves about them.

    tlc -workers 2 -config <run>.cfg <module>     # see the table of runs
    tlapm <module>                                # the modules named ...Proofs

Paths below are relative to the repository root.

## 1. Inventory

| component | state | operations | talks to |
|---|---|---|---|
| rounds (`src/rounds`) | `registration_rounds`: phase, the two dates, who finalised; cohorts; audit log | `setSemesterRounds`, `update`, `extend`, `unlock`; `RoundPhaseService.resolve` moves an overdue phase when somebody reads it | everything that asks for the phase; topics (`topic-lifecycle`); notifications |
| registration groups (`src/registration/registration-groups.service.ts`) | `registration_groups`, `registration_group_members` | `register`, `joinTopic`, `joinByCode`, `update`, `removeMember`, `disband`, `leave` | rounds (phase), topics (status), notifications |
| allocation (`src/registration/allocation.service.ts`) | the same rows, the round's phase | `place`, `unplace`, `finalize`, the desk's lists | rounds, topics, roster, notifications |
| topics (`src/topics`) | `topics`: status, maxStudents, round | `create`, `update`, `remove`, `approve`, `open`, `close`, `bulkOpen`, the catalogue | rounds, groups |
| proposals and mentoring load (`src/proposals`, `src/lecturers/mentoring-load.service.ts`) | `topic_proposals` | `create`, `update`, `remove`, `accept`, `reject`; the quota check | rounds, topics, notifications |
| submissions and requirements (`src/submissions`, `src/rounds/requirements.service.ts`) | `submissions`, `submission_requirements`, uploaded files | `create`, `giveFeedback`, `setForRound` | groups, Cloudinary, notifications |
| notifications and reminders (`src/notifications`, `src/reminders`) | `notifications` with a dedupe key | `notify`, `markRead`, a daily run | everything that announces |
| semesters (`src/semesters`) | `semesters`: code, dates, isActive | `create`, `update`, `remove`, `activate` | rounds, everything that asks for the active term |
| majors and project types (`src/majors`, `src/project-types`) | their rows | `create`, `update`, `remove` | whatever refers to them |
| authentication (`src/auth`) | refresh tokens, reset links, failed-password counter | `login`, `refreshTokens`, `logout`, `changePassword`, `forgotPassword`, `resetPassword` | users, mail |
| accounts (`src/users`) | `users` and their profiles | `create`, `update`, profiles, `resetPassword`, `remove`, `hardDelete` | mail, authentication |
| import wizard (`src/users`, `src/users/import`) | import sessions in memory | `parseImport`, `previewImport`, `commitImport`, `sendImportEmails`, `bulkImport` | accounts, mail |
| import parsing (`src/users/import`) | none | column matching, mapping, row validation | import wizard |
| own profile (`src/me`, `src/cloudinary`) | avatar URL and file handle | `setAvatar`, `removeAvatar`, `updateProfile` | Cloudinary |
| reports (`src/reports`), directories (`src/students`, `src/lecturers`), audit pages | none | counts and lists | reads the rows of all the others |

What each component has to get right, and what makes it hard:

- **Rounds.** The phase is a stored column that only legal edges change, and a
  settled round names who settled it. Hard because there is no scheduler: any
  reader may have to move the phase, on a row it read earlier, while
  administrators extend, settle and unlock.
- **Registration groups and allocation.** One live group per topic, one seat per
  student and semester, no more students than the topic holds, a leader who is a
  member, statuses that tell the seats, nothing changed after the list is final.
  Hard because checks run before transactions, transactions run at READ
  COMMITTED, students lock the group's row and the office the topic's, and the
  phase moves in between.
- **Pages and reports.** The catalogue, the invitation, the desk and the report
  repeat the rules of the requests in queries of their own: an offer has to be one
  the request behind it grants, and every count of one thing the same count.
- **Topics.** Work is under way in settled rounds only, and a topic somebody holds
  is not deleted. Checks and writes are separate.
- **Proposals.** One pending proposal per student, at most one answer, at most
  one topic per proposal, the lecturer's quota. All check-then-act.
- **Submissions.** Versions count up per group and requirement, work outlives an
  edit of the list it was handed in against, and no file is left without a row.
  A file is at a provider, outside every transaction.
- **Reminders.** A reminder reaches each student in time and once per deadline,
  although a run may fail and deadlines move.
- **Reference tables and terms.** Codes are unique, what is referred to stays, one
  term is active and its dates are in order. Looked up before written.
- **Authentication.** A revocation ends the sessions there are, reset links
  are one way in, and a delay stands against failures, although each of these is
  several statements and none of them a transaction with the others.
- **Accounts and import wizard.** Distinct accounts, with the profile of their
  role, and for each new password somebody who will mail it. The wizard awaits
  between looking at its session and writing to it, and its memory dies with the
  server.
- **Import parsing.** The suggested columns are the best match, each row is judged
  against those before it, and those that pass could all be accounts.
- **Avatars.** The stored handle names a file that exists and is never destroyed
  while it is shown.

`PROJECT.json` lists the hazards at the lines where they bite, and for each the
properties that watch it or the reason why none does.

## 2. The modules

| module | models | kind |
|---|---|---|
| `RoundLifecycle` | what a round promises about its phase and its author | abstract specification |
| `Rounds` | one round, its requests cut at every `await`, the lazy phase, the calendar | detailed, refines `RoundLifecycle` |
| `RoundsProofs` | the inductive invariant and the refinement, proved | proofs |
| `SeatAllocation` | who may gain or lose a seat in which phase | abstract specification |
| `Registration` | the seats of one round: students, leaders, office, lecturers, locks and indexes | detailed, refines `SeatAllocation` when requests do not overlap |
| `Screens` | catalogue, invitation, group page and the office's desk over `Registration` | queries |
| `Reports` | the faculty report, the student list and whom a notice reaches, over `Screens` | queries |
| `RegistrationProofs` | the safety of the seats under any overlap; capacity and the pages within a phase; for requests one at a time the groups, the settlement, the refinement and the report | proofs |
| `Proposals` | topics, the proposals some come from, the lecturers' load, over several rounds | detailed |
| `ProposalsProofs` | what overlapping requests cannot break; what check-then-act gives when they take turns | proofs |
| `Sessions` | one account: password, back-off, refresh tokens, reset links | detailed |
| `SessionsProofs` | what overlapping requests about one account cannot break | proofs |
| `Accounts` | users and their profiles, single requests | detailed, part of `ImportWizard` |
| `ImportWizard` | import sessions, commit, mails, restart, over `Accounts` | detailed, composes |
| `WizardProofs` | the unique columns, the mails that are owed, the cap of sessions | proofs |
| `FuzzyMatch` | edit distance and the greedy mapping of columns | algorithm |
| `ImportRows` | mapping and validation of rows, over `FuzzyMatch` | algorithm |
| `ImportProofs` | least distances, the greedy choice and the rows that pass, for files of any length | proofs |
| `FileStore` | what rows that name uploaded files promise | abstract specification |
| `Submissions` | requirements, versions, files, answers of one round | detailed |
| `Progress` | the progress report over `Submissions` | queries |
| `Avatars` | a user's picture | detailed |
| `Files` | `Submissions`, `Progress` and `Avatars` over one provider | composes, refines `FileStore` |
| `FilesProofs` | the refinement of `FileStore`, the versions of a document, the list and the progress report | proofs |
| `Catalog` | the shape semesters, project types and majors share | detailed, part of `Terms` |
| `Terms` | a term's dates and the active term, over `Catalog` | detailed |
| `Reminders` | the daily run and its notices | detailed |
| `Office` | `Terms` and `Reminders` | composes |
| `OfficeProofs` | what overlapping clerks leave of the tables, and that deadlines are told of in time and once | proofs |
| `MC...` | constants and symmetry of small instances | model checking |

The families meet in the rows they share, and each keeps of the others what its
own component reads. `Registration` takes from `Rounds` the phase a reader would
be told and adds that it may move under a request; `Proposals` takes from
`Registration` who holds a topic and whether dead groups are left on it;
`Submissions` takes from it that a group may be rejected; `Sessions` takes from
`Accounts` that an account may be reset, deactivated or deleted at any moment.

The directory is organised so that a query module `EXTENDS` the state it reads:
`Screens` and `Reports` have no variables of their own, and their properties are
about every state of `Registration`.

### Rounds

`phase`, `finalisedBy`, `registrationStart`, `registrationEnd` are the columns of
the round's row (`"ABSENT"` when there is none), `hasTopics` says whether the
foreign key from `topics` holds the row, `lastDecision` is the newest of the
EXTEND / FINALIZE / UNLOCK audit entries, `now` the server's clock. `req[c]` is
the request of caller `c`: its operation, how far it has got, the copy of the row
it holds, the phase it found due and the dates its payload asks for.

A request goes through the steps the code awaits between:

1. it arrives (`UpdateArrives` ... `View`), loading what the service loads before
   it resolves: `update` fills missing bounds from that row and compares with
   it, `setSemesterRounds` resolves the very rows it loaded;
2. `ReadRow` is `RoundPhaseService.load`;
3. `JudgeRow` is `duePhase` over that copy and the clock;
4. `AdvancePhase` is the `updateMany` guarded on the phase that was read;
5. `CheckRule` is the operation's own check (`Allowed`), `GiveUp` a refusal or a
   lost request;
6. `CommitUpdate` ... `CommitUnlock` are the transactions with their guards.

The calendar is kept as the code has it: a date is an instant, and
`StartOfNamedDay` takes the UTC day it falls on and shifts it by the offset of
local midnight. `DayTicks` and `OffsetTicks` scale 24 h and 7 h down to a few
ticks; that the offset is neither zero nor a whole day is what matters.

### Registration

One round and its topics. `group` holds the rows of `registration_groups`
(`status = "NONE"` for an id not yet used), `accepted`, `assigned` and `declined`
the member rows by status and source, `topicStatus` the topics' column, `phase`
the phase `resolve` would report (Rounds models how it gets there),
`sealedWithGaps` whether the last finalize carried an acknowledgement, and
`req[r]` what a request in flight has read, which rows it has locked and what it
will write.

A request is a check on committed rows (`CheckRegister`, `CheckJoin`, ...: every
guard of the service before its transaction, in one step, since between two of
these reads nothing is written by it) and then its transaction. The rules of those
checks a page repeats have names of their own (`MayRegister`, `MayJoin`, `MayPlace`,
`MayUnplace`). A transaction
that one statement or one row lock makes atomic is one step: `CommitRegister`,
`CommitJoin` (which runs wholly under `FOR UPDATE` on the group), `CommitUpdate`,
`CommitFinalize`. The others are cut where another transaction can act inside
them:

- `leave` / `removeMember`: `DeleteRow` deletes the member's row and counts the
  rest, `CommitDrop` writes the status that count gives;
- `disband`: `DeclineMembers` takes the members accepted at that moment,
  `CommitDisband` rejects the group;
- `place`: `LockTopic` locks the topic, reads its live group and counts,
  `CommitPlace` / `CommitPlaceInNew` insert the member and write the status;
- `unplace`: `LockUnplace` locks the topic, deletes the row and reads who is left,
  `CommitUnplace` / `CommitUnplaceLast` write.

Uncommitted writes are invisible: they are applied at the commit step, and until
then `rows` and `TopicFree` keep out who PostgreSQL would keep out. The two
partial unique indexes are guards of the commits: `IndexAllowsLive` and
`LiveOn(t) = {}` for `registration_groups_one_live_per_topic`,
`AcceptedSomewhere` for `registration_group_members_one_accepted_per_semester`
(which looks at members only, live group or not). A request an index or a rule
refuses, or one whose server dies, ends in `Refused` with no effect, which is
what the rollback leaves.

Simplifications, each with its reason: all students are active and of the
round's cohorts (a static filter on payloads); `update` writes one field per
request (each field is independent of the others, so several are several
requests in a row); a hold is a flag that may lapse at any moment (`HoldLapses`)
instead of a clock; group ids run out after `Groups`; notices, audit entries and
rendering are left out except for the acknowledgement of gaps.

`Kinds` selects which requests arrive and `StraddleGate` whether the phase may
change while a request is in flight, so that a run can ask its question of the
smallest instance that has the case. The theorems hold for every value of both.

### Proposals

`phase[k]` is what `resolve` would report of round `k` now; `proposal` and
`topic` are the rows of `topic_proposals` and `topics` (`"NONE"` before a row
exists, `"GONE"` after its deletion). Of a topic's groups this module keeps
`held`, the leader of the live one, and `past`, whether rejected ones are left:
that is all `remove`, the load and `requireNoGroup` look at. `req[r]` is what a
request in flight has read.

`CheckPropose`, `CheckWithdraw`, `CheckAccept`, ... are the services' checks,
`CommitPropose`, ... their statement or transaction. `accept` has more steps:
`MentoringLoadService` runs its two counts side by side and without a snapshot,
so `CountGroups` and `CountReserved` may see different states, and `CheckRoom`
compares their sum with the quota. The guards of the commits are those of the
statements: `accept` and `reject` update only a PENDING row, `sourceProposalId`
is unique, deleting a proposal sets the source of its topic to null, deleting a
topic is refused while any group row, live or dead, points at it. What the
statement does not ask is not in the guard either: `remove` of a proposal,
`setStatus` and `update` of a topic write whatever they find.

Registering a topic is cut in two, since it competes with all of these.
Disbanding, placing, taking back, settling, unlocking and the gate's moves are
single steps here; `Registration` and `Rounds` have their insides. `Create` and
`BulkOpen` are one statement after checks of rows nothing changes.

`Interleave` says whether anything else may commit inside a request. With FALSE
the module is the program as its authors thought of it, one request after the
other, and the rules that are only checked before they are written must hold;
with TRUE only what a guard or an index enforces may be expected to.

Simplifications: `update` of a proposal and of a topic's wording is left out
(nothing reads it), and so is a change of `maxStudents`; quotas do not change;
accounts are not deleted; a student acts for themselves, since every operation
first asks for the caller's own proposal or topic.

### Screens and Reports

Every definition of `Screens` is one query of the code: `Published` is
`visibleStatusFilter`, `Viewer` and `Card` are `availabilityFor` and
`withActiveGroup` of `topics.service.ts`, `Invites` is `previewByCode`, `GroupPage`
is `render`, `Roster`, `Unplaced`, `FreeSeats` and `Desk` are the allocation
desk's. They do not call the guards of the requests, because the code does not:
`SeatsLeft` works out the held seats a second time, the card never looks at the
topic's status, the desk filters by memberships and not by topics. The properties
compare them with the requests' own rules in `Registration` (`MayRegister`, ...), plus
what the indexes would say of the transaction behind: a button is there exactly
when the request behind it would be taken.

`Reports` adds `ReportsService`'s rows, the roster's filter by lecturer and
`studentsWithoutGroupIn`. A lecturer is a set of topics and a major a set of
students, and the properties quantify over all of these sets. A query here is of
one state; the several reads of one report have no snapshot in the code, and what
a change between them does to its columns is not modelled.

### Sessions

One account, whose row is `account`; `token` and `link` are the rows of
`refresh_tokens` and `password_reset_tokens`; `req[r]` is a request, cut at every
statement it awaits. `LoginArrives` and `ChangeArrives` are the comparison with
the row as it is then, `CountFailure` and `WriteDelay` the two statements of
`recordFailedPassword`, `ClearFailures` that of a success, `WritePassword` and
`RevokeOwn` `changePassword`'s two, `Rotate` and `Issue` the two of a refresh,
`ForgotArrives` and `Supersede` the halves of `forgotPassword`'s transaction (its
`deleteMany` sees the links committed when it runs), `ResetArrives` and `Spend`
lookup and transaction of `resetPassword`. `AdminReset`, `Deactivate`, `SetActive`
and `HardDelete` are what `users.service.ts` does to the same rows.

Of a password only who chose it is kept; of an instant the time left until it; of
`failed` what is below `MaxFailures`, past which the delay no longer grows. An
expired token or link is one nobody presents. Two histories are kept for the
properties: a token begun before the last revocation is `STALE` rather than `LIVE`
and `strays` counts the sessions being opened at that moment; `asked` is the most
requests for a link that have been under way together since there was none or one
replaced all there were. No guard reads either.

### Accounts and ImportWizard

`user` holds accounts with their profiles; of a password only whether the mail that
brings it is `due`, `tried`, or nobody's any more (`lost`, `recommitted`) and who
is about to send it. `Fits` is the three unique indexes. Requests are cut between
the lookup and the write: `CreateArrives`/`CommitCreate`, `UpdateArrives` or
`ProfileArrives`/`CommitUpdate`, which writes its own column on whatever the row is
by then.

The wizard's session is a JavaScript object: between two awaits a request has the
process to itself, so `ParseImport`, which ends in `create` without awaiting, is
one step, while `commitImport` is cut into `CommitArrives`, one `InsertRow` for each
account (a transaction of its own, five at a time and in no order) and
`MarkCommitted`; `sendImportEmails` into `SendArrives`, one `Rewrite` and one
`Deliver` for each account and `MarkEmailsSent`. `Lapse` and `Discard` are the 30
minutes and the sweep, `Restart` the process. A file is the set of its usable rows;
which those are is `ImportRows`.

### FuzzyMatch and ImportRows

`Levenshtein` is a recursive function over the rows of the table, and `NextRow` one
over the cells of a row, as the code's two loops have them; confidences are
fractions, compared exactly, one for each field and word (`Scores`); `Assign` is one turn of the greedy loop over the
sorted candidates, with the sort's ties by field and then by column. `ImportRows`
keys cells by lower-cased header as the parser does, applies the mapping confirmed
by the administrator or the standard names of the bulk import (`Confirm`,
`BulkImport`), and judges a row for each step against the
schema, the class's form, the intake of the code, the majors there are, and what
`seen` has of the rows before. Cells are model values or small records, one of
them white space alone (`Spaces`), and only the fields some check compares are there.
The request may carry any mapping, and so may `Confirm`, within `Changes`, the number
of fields that differ from the suggestion: one in the run, any number in the theorems.

### Submissions, Progress, Avatars, Files

`list` is the requirements' names by id, `work` the submissions, `documents` and
`pictures` the provider's files. `create` is `CreateArrives`, `Upload`, `ReadLatest`,
`Insert` (or, refused by the foreign key, `Cleanup` or `CleanupFails`): the transaction
runs at READ COMMITTED, so reading the highest version and inserting are apart.
`setForRound` is `EditArrives`, which judges what it drops, and `CommitEdit`, which
deletes, renames and creates in order, one entry at a time (`WriteEntry`) under the
unique index; the foreign key judges again what it drops. `CrashWriter` is the end
of a request anywhere.

`Progress` is `progressRows` of the report: the newest version of each document, and
who is complete or awaits an answer. Where two rows have one version the code keeps
the one the database returned first, and there are two candidates.

`Avatars` is `setAvatar` and `removeAvatar` with an await between any two of reading,
uploading, writing and destroying. `Files` puts both over one `FileStore`. They share
no row and no file name, so a behaviour of `Files` is of one of them (`SubmissionsOnly`,
`AvatarsOnly`), which is a bound of the instance and loses no interaction.

### Catalog, Terms, Reminders, Office

Semesters, project types and majors have services of one shape: `Catalog` is any one
of the three (`table`), with the index on the code and what each foreign key does:
`Restrict`, `SetNull` for a major's students, `Cascade` for a semester's rounds.
`Terms` adds what semesters have besides, dates merged from the payload and the
row that was read, and the activation, whose first statement sees what is active
when it starts. `overlapped` is a history of the writes on a row another request had
changed since it was read, so that the properties can say what only an overlap does.

`Reminders` has one step a day for each half of the run: `Gather` finds who owes what
in the next `LeadDays` days, `Notify` writes the notices past the unique key, or
`NotifyFails`. Deadlines move, gates shut, students come to owe and cease to.
`Office` composes the two, again one of them in a behaviour (`FarOff`, `TermsOnly`,
`RemindersOnly`).

## 3. What TLC checks

| run | instance | properties | shows |
|---|---|---|---|
| `rounds` | 2 administrators, one of them also the viewer, 2 closing dates, 2-tick days, clock to 5; 2.0M states | `TypeOK`, `SealedByAuthor`, `AuditTellsPhase`, `LifecycleRefined`, `AuthorNotOverwritten`, `GateEventuallyCloses` | whatever stale copies two requests hold, the guarded writes implement the lifecycle and keep author, phase and audit together; the lazy gate closes as long as somebody looks |
| `reg_serial` | 3 students, 2 topics, 2 groups, 1 request, all kinds; 0.4M states | `TypeOK`, `GroupsWellFormed`, `SettlementComplete`, `ReportAddsUp`, `SeatsFollowPhase`, `SeatsRefined` | one at a time, the operations keep groups well formed and implement `SeatAllocation`, and every report, list and notice counts the seats alike |
| `reg_phase` | 3 students, 2 topics reserved for one of them, 3 requests, no phase change in flight; 0.4M states | `SeatsWithinCapacity`, `OffersHonest`, `OneTopicPerStudent` | within a phase no interleaving oversells a topic, and every page offers what the request behind it grants |
| `reg_races` | 4 students, 1 topic, 3 requests, phase changes in flight; 0.3M states | `OvershootAtMostOne`, `SelfServeWithinCapacity`, `OneLiveGroupPerTopic` | across phases a topic is oversold by at most one, and by students alone never |
| `reg_oversold` | 3 students, 2 requests | `SeatsWithinCapacity` | violated, see 5 |
| `prop_serial` | 2 students, 1 lecturer of quota 1, 2 proposals, 2 topics, 2 rounds, 1 request; 3.7M states | `TypeOK`, `OnePendingPerStudent`, `UnderwayOnlyWhenFinal`, `QuotaRespected` | taken in turn, the rules checked before a write hold, although topics change rounds and rounds are settled and unlocked |
| `prop_races` | the same with 1 round and 2 overlapping requests; 3.1M states | `SourceAnswered`, `AnswersStand`, `RegisteredTopicStays` | however requests overlap, answers stand, a topic names one accepted proposal, and no topic is deleted under its group |
| `sessions` | 2 requests, 2 tokens, 2 links, one free attempt, delays of 1 and 2; 2.0M states | `AccountSound`, `StraysBounded`, `LinksBounded`, `BackoffEnds` | only sessions being opened outlive a revocation, no more links stand than requests for one overlapped, a temporary password stays marked, failures keep their delay and the delay ends |
| `wizard` | 2 ids, a file of 2 rows, cap 1, one single request, 2 wizard requests; 2.3M states | `AccountsSound`, `SessionsCapped`, `NobodyForgotten` | accounts stay distinct with the profile of their role however imports and edits overlap, and every mail that is due has somebody to send it |
| `import_rows` | every 3-column header out of 11 words, every sheet of 2 and selected sheets of 3 rows, one field mapped otherwise than suggested; 1.2M states | `MatchingSound`, `RowsSound` | the matching is greedy over true edit distances; rows judged one by one end as the file as a whole would have them |
| `files` | 1 group, 2 documents, 2 rows, 2 requests, 6 bodies of edits; 1 user, 2 requests, 3 pictures; 0.6M states | `WorkSound`, `StoreImplemented`, `WorkKept` | both implement `FileStore`; work and what the report said of it outlive every edit; versions have no gap |
| `office` | 2 rows, 2 codes, 2 requests, 3 days; 2 students, 1 deadline moved once, 5 mornings; 1.4M states | `TablesSound`, `Reminded`, `TablesKept` | keys and referenced rows hold; only an overlap crosses dates or activates two terms; each deadline is told in time and once |

Properties that belong together are conjunctions of named parts:

- `GroupsWellFormed`: `LeaderIsMember`, `MembersOnlyInLiveGroups`.
- `SettlementComplete`: `UnderwayWhenFinal`, `GapsAcknowledged`.
- `SeatsFollowPhase`: an extension only adds seats, a final list is frozen.
- `OffersHonest`: `StatusMatchesSeats`, `RegisterOffered`, `JoinOffered`,
  `InvitationKept`, `DeskHonest`.
- `ReportAddsUp`: `SeatsCountedOnce`, `FinalReportSettled`.
- `AccountSound`: `TypeOK`, `TemporaryMarked`, `BackoffStanding`.
- `AccountsSound`: `TypeOK`, `RoleHasProfile`, `AccountsDistinct`.
- `MatchingSound`: `DistanceCountsEdits`, `NoBetterPair`. `RowsSound`: `TypeOK`,
  `EveryRowReported`, `FileConsistent`, `RejectedForCause`.
- `WorkSound`: `TypeOK`, `NoVersionSkipped`, `ToldOfAnAnswer`, `DocumentsAccounted`.
  `WorkKept`: `WorkStaysListed`, `ProgressStands`.
- `TablesSound`: `TypeOK`, `CodesDistinct`, `DatesCrossOnlyByOverlap`,
  `OneTermUnlessOverlapped`. `TablesKept`: `ReferredToStays`, `SomeTermStaysActive`.
  `Reminded`: `ToldInTime`, `ToldOnce`.

**Bounds.** Two callers are enough for every race of the rounds: a request only
ever loses to one other write. Two closing dates let an edit move the gate both
ways, a start date after time 0 lets a round be in preparation, and a clock that
runs past both closing days lets every date expire. Topics hold two students, so
that a group is short of, at and past its capacity; four students and three
requests are what two placements and a join on one topic need, the case in which
a missing lock would oversell by two; two topics of one proposer keep a seat for him
on one while he sits on the other; `reg_serial` and `reg_races` have topics without a
proposer, and the theorems hold for any choice of them; two group ids let a topic be taken again
after a disbanding. Where an instance leaves a kind of request out it is
because the property's question does not need it and the state space would not
end; the theorems cover all kinds at once. In Proposals a quota of one is met by
the first acceptance, so the second proposal, the lecturer's own topics and a
round that is extended all press on it; two rounds let a topic be moved out of
the one that is settled; a second request only matters between a check and a
commit, where one other already does every harm.

In Sessions a request between two of its statements meets one other at each of
its own; one free attempt and two lengths of delay are a first, a longer and a
longest delay. In the wizard two jobs are two commits, two sends or one of each of
a session, a cap of one is met by the first session, and a single request beside
them creates, renames or deletes under both. In import_rows the words are chosen so
that confidences tie, lie just under and just over the threshold and compete for a
column; the rows repeat addresses, codes and classes in every pair, and three rows
are what a refused row needs to have claimed something the third would lose. In
files one group is enough, as no action looks at two; two rows are two versions of
one document or two documents; the bodies keep, rename, swap, add and drop. In
office three days hold two moves that only together cross, and five mornings with a
lead of three hold a run before, in and after the window.

**Fairness.** `rounds` assumes that the clock runs on and that its viewer keeps
reading the round (`WF` of that caller's next step). That is what the lazy design
rests on: every page and request that shows or needs the round resolves it. It
is not what the daily reminders do, which only look at rounds whose end is still to
come (`src/reminders/reminders.service.ts`): a round nobody visits stays open. No
fairness is assumed of administrators. `sessions` assumes that time passes (`WF` of
`Tick`) and nothing of requests; a delay ends although failures that were let in
before it began may still prolong it. The others have no liveness of their own:
every request ends or is refused by itself, and nobody waits for anybody but a row
lock.

**Deadlock** is checked in every run but two: a file has been read when its last row
has been judged (`import_rows`), and an account that is deleted for good has nothing
left to do (`sessions`).

## 4. What TLAPS proves

All with any number of callers, students, lecturers, topics, proposals, groups,
rounds and requests, any dates, capacities and quotas, and, unless an assumption
is named, every kind of request and phase changes in flight.

**Rounds** (`RoundsProofs`; assumes `CallersAssumption`, `ClockAssumption`).
`TypeCorrect`, `SealedByAuthorHolds`, `AuditTellsPhaseHolds`, `RefinesLifecycle`,
`AuthorNotOverwrittenHolds`. The properties are not inductive by themselves:
whether a late `AdvancePhase` may be harmful depends on what a request holds. The
invariant adds that a request about to write a phase found it due from the phase
it read, and that such a pair is always one of the gate's own moves, so the
guarded write can only take an edge of `RoundLifecycle`.

**Registration** (`RegistrationProofs`, as are the next four; assumes
`SeatsAssumption`). `Base` is inductive: types, every group that ever existed stands
on a topic with an unused id empty, and what a request in flight addresses exists
and keeps its topic. `RegistrationTypeCorrect` follows.

**Seats** (on top of `Base`).

- `OneTopicPerStudentHolds`: every step either seats one student who sat nowhere,
  or seats nobody.
- `OneLiveGroupPerTopicHolds`: a group that becomes live does so past the index,
  which found no other live group on its topic; everything else keeps or ends lives.
- `OvershootAtMostOneHolds`, `SelfServeWithinCapacityHolds`: neither bound is
  inductive, since a placement writes on a count it made earlier. `Seated` adds
  `RoomLeft` (the group a placement counted is still within its capacity; joins
  recount under the group's lock, so they cannot push it beyond) and `OneHolder`
  (the topic's lock has one holder, so no second placement is in that position).
- `UnderwayIsFinalHolds`: a topic is under way in a final round only.

**Capacity** (on top of `Seated`). `SeatsWithinCapacityHolds`
assumes `~StraddleGate`, as `reg_phase` does: then a registration in flight means an
open gate and a placement in flight a closed one (`InPhase`), so nobody joins
beside a placement and it still finds the seat it counted (`SeatKept`). The run
`reg_oversold` shows that the assumption is needed.

**Pages** (on top of what capacity rests on). `OffersHonestHolds` and
`RejectedGroupsEmptyHolds` assume `~StraddleGate` and that no request disbands a group
(`"disband" \notin Kinds`), as `reg_phase` does; section 5 has what becomes of a
status after a disband. A page and the request behind it read the same rows, so
only a row that lies can part them: a status that is not that of the seats, a member
of a rejected group, a topic under way while a gate is open. Statuses are written
from counts made some steps before, by requests that lock different rows, and
`PagesInv` says what is left of a count when it is written (`Kept`). A placement and
an `unplace` hold the topic's lock while nobody may join, so their counts are still
so. A leaver's may be stale, since two members may leave and a third join
beside it; but whoever leaves an open group still holds the row it deletes, so
that it counted a group short of full, and the group is short of full again when it
writes. `RowsApart` (two leavers delete different rows) is what makes that so for
two at a time. From `RowsTell` and the two indexes each page follows by itself:
`SeatsAgree` shows the card's seats and the group page's to be one number, and
`FreeSeatsRead` that no seat is counted where none is, so that a desk without a
shortfall has a topic for everybody it lists.

**One request at a time** (on top of `Base` and the two indexes; each
theorem assumes `OneAtATime`, which the instance of `reg_serial` satisfies).
`GroupsWellFormedHolds`, `StatusMatchesSeatsHolds`, `SettlementCompleteHolds`,
`SeatsFollowPhaseHolds`, `SeatsRefinedHolds`, `ReportAddsUpHolds`. The invariant
`SerialInv` needs two things more than these properties. `Current` says that what the
one request in flight has read is still so: the phase it was let in by, the members it
counted, the leader it hands over or drops beside; without it a commit writes a
status or a leader for a group it no longer describes. `NobodyPlacedYet` says that
nobody is placed before the gate closes: a student who leaves a group while it is
open leaves no placement of the office behind. `SeatStep` then says what any step is
to the seats: somebody `SitsDown`, somebody `GetsUp`, a group `Dissolves`, or all
`StaysSeated` while the round moves. What the invariant says of groups and of the
settlement, `SeatsFollowPhase` and the refinement are each proved once for these four
kinds and not once for every action. `SeatsRefinedHolds` needs `OneTopicPerStudent` and
`OneLiveGroupPerTopic` besides, since `SeatAllocation` maps a student to one topic
and counts its holders: on a topic with a live group these are the accepted members
of that group (`OnTopic`). `ReportAddsUpHolds` is about numbers of rows: a student and their
membership correspond one to one (`SameNumber`), and a set split by majors or by
lecturers has as many elements as its parts together (`Parts`); the live groups are
finitely many, since each has a leader of its own (`FewLiveGroups`).

**Proposals** (`ProposalsProofs`; assumes `ProposalsAssumption`). `Sound` is
inductive: types, what a request in flight addresses exists (`RequestsAddress`), a
held topic is still there (`HeldStands`), and `SourceAnswered`.
`ProposalsTypeCorrect`, `SourceAnsweredHolds`, `AnswersStandHolds` and
`RegisteredTopicStaysHolds` follow for requests that overlap in any way.

**Taking turns** (`ProposalsProofs`, on top of `Sound`; each theorem assumes
`~Interleave`, as `prop_serial` does). `OnePendingPerStudentHolds`,
`UnderwayOnlyWhenFinalHolds` and `QuotaRespectedHolds`. The invariant `InTurn` says
that at most one request is in flight (`Alone`) and that what it has found is still
so (`StillSo`: its counts are the counts, its student has nothing pending, the
topic it edits is not under way). With overlapping requests `StillSo` is exactly
what fails, and section 5 says with what consequence.

**Sessions** (`SessionsProofs`; assumes `SessionsAssumption`, which states `2 ^ n > 0`
for the delays because the provers have no exponents). `AccountSoundHolds`,
`StraysBoundedHolds`, `LinksBoundedHolds`. The second needs what a request
knows to be true: `KnowsItsToken` says that a request exchanging a token knows of it,
while its row is there, whether it is from before the last revocation. Strays are then counted with
cardinalities: an exchange takes the old token out as it puts the new one in, so that
the old sessions and the requests past their checks together never grow. The third
needs `LinksInv`: of any links that stand, their number and that of the requests whose
`deleteMany` saw none of them are together at most `asked`. A request that commits turns
from one that will spare these links into one of the links; one that arrives sees all
that stand and spares none of them; and what a reset leaves are the requests alone.

**Files** (`FilesProofs`; assumes `SubmissionsAssumption`, `AvatarsAssumption`,
`FilesAssumption`). `StoreImplementedHolds` shows the refinement of `FileStore`,
`WorkSoundHolds` and `WorkKeptHolds` state the run's other two properties. Each side has
an invariant of its own. A document in a request's hands is there, in no other hands and in no row
(`FilesInHand`); a version about to be written continues what the group has handed in
(`VersionInHand`). A new picture is known to its request alone (`NewIsPrivate`), and an
old one still in use is used by whom it was read of, and never by then to be deleted
(`OldIsOwn`): without it `destroy` could take a picture two requests pass to each
other. A step of one side is then a step of the store while the other stands
still (`StoreStep`), so the theorem does not use that TLC runs the two sides apart.

For the list, `ListInv` adds that work names requirements that are listed
(`requirementId` is a foreign key), which with the count in the transaction is what
lets no edit take away a requirement that has work. A body is written entry by entry,
and each entry leaves a list or violates the index (`EntryWritten`); `ListWritten`
carries that along a body of any length, by the first entry that would not. This uses
that a body is a sequence of entries with a name and at most an id, which
`SubmissionsAssumption` states and the DTO's validation enforces.

**Accounts and the wizard** (`WizardProofs`; assumes `AccountsAssumption`,
`WizardAssumption`). `AccountsSoundHolds`, `NobodyForgottenHolds`,
`SessionsCappedHolds`. The indexes judge every write, so distinctness needs little;
the profile of the role does: `RequestsKnow` says that the row an update has read
had the profile that it is about to change or relies on, and that a profile is not
taken away while the account stands. `NobodyForgotten` is far from inductive.
`SendersMail` says that whoever is noted as about to mail a password is a request that will, `OwedListed`
that an owed password nobody is mailing is listed, and `SendsKnow` that a request
sending for a session has all in hand that the session still owes, so that the session
may be discarded when it ends. A plain "somebody is noted as the sender" would
have allowed a sender that died; `AboutToMail` does not. The cap counts a
session as `parseImport` puts it in, which it does without an await after having
made room; every other step only takes sessions out of `Unexpired` (`OthersFade`).

**The office** (`OfficeProofs`; assumes `CatalogAssumption`, `TermsAssumption`,
`RemindersAssumption`). `TablesSoundHolds`, `TablesKeptHolds`, `RemindedHolds`.
`JobsKnow` says that dates a clerk is about to write were in order with the dates it
read, so they can only be out of order on a row written since, which is what
`overlapped` records; `RefsToRows`, that nothing refers to a row that is gone, so
that a new row under the id starts without references. For the reminders,
`BatchComplete` says that what a run has gathered and not yet written tells everyone
of all that is near and has not changed since yesterday, and `BatchToday` that it
was gathered today: between the two steps deadlines move and readers come and go.

**Imports** (`ImportProofs`; assumes `FuzzyAssumption`, `RowsAssumption`).
`RowsSoundHolds`, `DistanceIsLeast`, `MatchingSoundHolds`, for files, headers and words
of any length. `RowsInv` says of the loop over the rows that `seen` is what the rows
that passed have claimed (`SeenBefore`), and that each of them passed against what
those before it had claimed (`AllPassed`); that the file as a whole is consistent and
that nobody was refused without a cause follows. `GreedyInv` says of the loop over
the candidates that those it has been through come before the rest, that what is
taken one of them took, and that each of them is settled; it needs that `Precedes`
orders candidates linearly, comparisons of fractions included, and that a field's
synonyms have a best.

That the table computes a least number of edits is not an induction the library could
be used for, and goes by least counterexamples instead: the first cell of a row,
and the first row, that would not be what the usual equations of the distance give.
From these equations two facts follow by the same means, along both words at once: one
edit changes the distance to any word by at most one, and of two words that differ
some edit of the first comes nearer by one. Together they are `DistanceIsLeast`.
Filler is not a letter, which is why `Normalize` leaves words of letters.

The assumptions are that every field has synonyms and finitely many, that the five
fields the checks read are among the system's, and that a sheet is an array of
headers and one of rows with a cell, maybe empty, for each header. The first two
are the constants `SYNONYMS` and `ALL_SYSTEM_FIELDS` of
`src/users/import/fuzzy-match.util.ts`, the third is what the parser makes of a file.

Where an argument needs the least of some ids or the greatest version, it goes by
a least counterexample: the library's well-foundedness of `<` and of strict
inclusion is stated for sets, which the provers can use, and not for operators.

TLC finds the strengthened invariants (`SerialInv`, `IInv` of the wizard and of the
office, `FilesInv`) true of the instances of `reg_serial`, `wizard`, `office` and `files`;
what `PagesInv` adds it finds true of three requests of all kinds but `disband` by two
students on one topic;
`AboutToMail` and the assumption on bodies are what those proofs brought to the models.

Left to TLC: `GateEventuallyCloses` and `BackoffEnds`, which are liveness under
fairness. Every other property of a passing run is a theorem, under the assumptions
above. What is said of requests one at a time has no theorem for overlapping ones
because it fails for these, as section 5 shows.

## 5. Where code and words disagree

**One seat too many** (run `reg_oversold`, `SeatsWithinCapacity`). The comment at
`src/registration/allocation.service.ts:93` says that locking the topic serialises
both shapes of a placement. A join that passed the open gate locks the group
instead, and commits between the placement's count and its write.

The same models refute more readings. No run is kept for these; the property named
is in the module and is refuted by naming it in the run's configuration. They fall
into four sorts.

*A check overtaken before its write.*

- Rounds: `ScheduleFrozen`, `update` checks the phase and then writes both dates
  without a guard, so dates move after the gate has closed. `GateClosesOnTime`, a
  reader that loaded the row before its closing date was moved closes the gate
  early, since the guard compares the phase only.
- Registration, with two requests: `LeaderIsMember`, the successor leaves between
  the check and the write of `update`. `MembersOnlyInLiveGroups`, a join commits
  between the two statements of `disband`, and that student can take no other topic
  this semester. `RejectedIsFinal`, `syncStatus` of a member who leaves during a
  disband writes FORMING over REJECTED, after which `StatusMatchesSeats` fails too.
  `SeatsFollowPhase`, `place` does not look at the phase again, so a placement
  commits after `finalize`. `GapsAcknowledged`, an `unplace` commits after
  `finalize` listed the unplaced.
- Proposals, with two requests: `OnePendingPerStudent`, a double submission inserts
  two, no index keeps it out. `QuotaRespected`, two acceptances count the same
  load. `AnsweredNotWithdrawn`, `remove` looks for PENDING and deletes by id
  (`src/proposals/proposals.service.ts:193`); the topic made of the proposal loses its
  source, and with it the proposer's right to it. `UnderwayOnlyWhenFinal`, a move into
  another round commits after `finalize` put the topic under way.
- Sessions: `StragglerWritesLongest`, the comment at `src/auth/auth.service.ts:382`
  has the last of several overlapping failures write the longest delay; their two
  statements are not in one order. "Single use" and "one live link per account" are
  no properties of the table as `prisma/schema.prisma:885` has it: two overlapping
  requests for a link leave two, a request that overlaps a reset leaves one after it,
  and a link looked up before another reset still resets
  (`src/auth/auth.service.ts:330`). All three are in the model. `LinksBounded` is what
  holds: as many links as requests for one overlapped, and after a reset only those of
  requests it overlapped. A change of password and the office's reset leave the links.
- ImportWizard: `CommittedOnce`, "a session can only be committed once"
  (`src/users/users.service.ts:426`): `committed` is read before the inserts are
  awaited and set after, and the ids of the first commit are overwritten.
- Submissions: `VersionsDistinct` (`src/submissions/submissions.service.ts:113`), two
  members of a group submit at once and get one version; no index keeps it out. As
  a consequence `AwaitingSettled` (Progress) fails: of two first versions one may
  be answered, and either may be the one the report keeps.
- Terms: `OneTermActive` (`src/semesters/semesters.service.ts:160`), of two
  activations each deactivates what it saw.
- Catalog: `StudentsKeepTheirMajor` (`src/majors/majors.service.ts:58`), a student
  who comes between the count and the delete loses the major.

*Code against its own comments, one request at a time.*

- Rounds: `ExtensionReachesFuture`, the message at
  `src/rounds/rounds.service.ts:344` promises a new end in the future; `extend`
  compares an instant, `duePhase` reads a local day, and an extension may name a
  day that is already over.
- Proposals: `AbandonedTopicDeletable`, `remove` takes care not to count rejected
  groups (`src/topics/topics.service.ts:470`), and the foreign key of
  `registration_groups` counts them.
- Submissions: `SwapsSurvive` (`src/rounds/requirements.service.ts:83`), the writes are
  ordered and the unique index judges each, so swapping two names fails.
- Screens: `ReservedIsRefused` (`src/topics/topics.service.ts:342`), what the
  catalogue does not offer is refused, of joining too: friends of a proposer join
  the group it does not offer them.
- Reports: `NobodyCovered` (`src/registration/allocation.service.ts:353`), a round
  without declared cohorts covers nobody yet; the roster takes the empty list for no
  filter, and the report counts the whole faculty.
- Accounts: an update with `isActive` set to false leaves the refresh tokens, which
  `remove` deletes (`src/users/users.service.ts:732`).
- ImportRows: of two columns of one name the first is suggested and the last that
  holds anything, white space included, is read.
- The roster's filter by lecturer replaces the conditions that a group be live and
  that there be one (`src/students/student-roster.query.ts:78`); the lists are right
  only because rejected groups keep no accepted member (`MembersOnlyInLiveGroups`).

*Rules of the documents the code does not have.* `QuotaIsCeiling` (Proposals):
`doc/database_analysis.md:45` calls the quota the largest number of groups a
lecturer mentors; the lecturer's own topics are registered regardless, one request
at a time. `OnlyDocumentedMoves` (Rounds): a round nobody reads between its dates
goes from PREP to RECONCILING, which `doc/fr_nfr_analysis.md:33` excludes.
`StrangersWaitOutHold` (Registration): with a declared size below the capacity
strangers take the rest at once, against `doc/database_analysis.md:114`.
`SettledGroupsApproved` (Registration): nothing writes APPROVED, against
`doc/fr_nfr_analysis.md:175`.

*Steps of the documents the code leaves out*, and with it the models:
`doc/fr_nfr_analysis.md:138` lets a student hand a rejected proposal in again
(`requireOwnPending` refuses), `doc/database_analysis.md:88` has an acceptance
found the group (it creates the topic only).

## 6. Not modelled

- Mail, the HTTP layer, Prisma's wiring, the seed: pure I/O, routing, validation and
  data. The models enumerate payloads the schemas accept.
- Councils and grades: tables without code.
- The import's template, how a spreadsheet is read and written, the report's export:
  formatting.
- The audit log's pages, paging and sorting, the roster's other filters, the
  lecturers' directory, the list of notices and marking them as read: queries and
  flags nothing else reads.
- `updateProfile` of one's own account, `update` of a proposal and of a topic's
  wording, the text of feedback, links handed in instead of files: one row, written
  by its owner, read by nothing modelled.
- Cohorts and `allocationMode` of a round: replaced wholesale in the transactions
  Rounds models, and read by queries only (`Screens` quantifies over the cohorts).
- A change of a topic's `maxStudents`: capacities are constants. Nothing in
  `update` looks at the groups, so every property about seats speaks of the capacity
  a topic was offered with.
- The several reads of one report have no snapshot; here nothing comes between them.
- What may keep an account from being deleted. The author of any audit entry cannot
  be (`onDelete: Restrict`), which only makes `HardDelete` rarer.

## 7. What is left

1. In Registration, capacities that `topics.update` may lower under a group, with the
   properties about seats relative to the capacity at the time of each seat.
2. Proofs of the strengthened bounds under `StraddleGate` where section 5 refutes the
   plain ones, such as by how many members a dead group may be ahead.
3. Reports whose reads are apart, with the bound on what their columns may differ by.
