# SmartCourse backend: TLA+ models, checks and proofs

The modules in this directory model the SmartCourse backend: an HTTP API over
Postgres (FastAPI, SQLAlchemy, one transaction per request) and a Temporal
workflow that publishes courses in the background. They are translated from the
code under `src/src/smartcourse`; paths below are relative to it.
`PROJECT.json` lists the runs, the properties each checks, the mutants that
break each property, the code each definition stands for, the hazards and the
findings.

## 1. The system

| Part | State | Operations | Meets |
|---|---|---|---|
| Publishing workflow (`workflows/`, `services/publishing.py`, `worker.py`) | the run in Temporal's history: `is_first`, `lesson_ids`, attempts | `begin_publish`, `list_lesson_ids`, `chunk_one_lesson`, `mark_ready`, `mark_failed` | writes `courses.status`, `published_at`, `chunks`; reads `lessons` |
| Publish endpoints (`api/routers/courses.py`) | none | `publish_course`, `get_publish_status` | starts the workflow; reads the row and Temporal |
| Course content (`services/course.py`, `repositories/course.py`) | `courses`, `modules`, `lessons`, positions | create, update, delete, reorder | locked out while `publishing`, by a status check |
| Prerequisites (`services/course.py`, `CoursePrerequisite`) | `course_prerequisites` | replace the list, delete a course | decides who may enroll |
| Enrollment (`services/enrollment.py`) | `enrollments` | `enroll`, `withdraw`, listings | locks the course's row; reads capacity, prerequisites |
| Chunk reconciliation (`chunk_lesson`) | `chunks` of one lesson | hash, reuse, insert, delete | called by `chunk_one_lesson` |
| Chunking text (`services/chunking.py`) | none | `chunk_text` | called by `chunk_lesson` |
| Access rules (`can_view`, `may_read_content`, `_assert_can_edit`, `require_roles`) | none | the 401, 403 and 404 of every endpoint of a course | read the caller's row, then the course, then the enrollment |
| Accounts (`services/auth.py`, `api/deps.py`) | `users` | register, login with a rehash, `PATCH /users/me`, the lookup of the caller | every request; an operator switches accounts off in the database |
| Admin seeding (`seed.py`) | `users` | `seed_admin` | races with a registration of the same email |
| Everything else | none, or written by nobody | listings and search, HTTP and errors, tokens, configuration, migrations, `FailedEvent`, assets, lesson progress | |

What is hard, and what the properties are for:

- **Two stores, no shared transaction.** Temporal knows what ran, Postgres what
  was committed. A worker may die between the commit of an activity and the
  report of its result, so every activity may run more than once.
- **READ COMMITTED and decisions on what was read.** Every request and every
  activity reads, decides and writes at its commit. Only enrollment and
  appending a module or lesson take a lock.
- **Requests that meet.** Edits and deletions while a publish runs, two
  publishes, two students for one place, two edits of the prerequisite graph,
  a registration and the seed command with one email.
- **Decisions over several statements that lock nothing.** A request is let in by
  the caller's row, then by the course's, then by the enrollment; all three may
  have changed by the time it answers. A status request asks the row and Temporal.
- **Constraints as the last line.** Partial unique index, foreign keys with
  RESTRICT and CASCADE, a deferred unique position.

`PROJECT.json` "hazards" has each of these at its line.

## 2. Modules

| Module | Models | Composes with |
|---|---|---|
| `CourseLifecycle` | what the API promises of one course (abstract) | implemented by `Publishing`, used by `Access` |
| `SeatBooking` | one-step joining and leaving (abstract) | implemented by `Enrollment`, used by `Access` |
| `Directory` | one-step account keeping (abstract) | implemented by `Accounts`, used by `Access` |
| `Publishing` | one course: rows, workflow, publish requests, edits, deletion | |
| `PublishingLate` | the same, with attempts that outlive their timeout | extends `Publishing` |
| `PublishStatus` | the same, with a status request | extends `Publishing` |
| `Enrollment` | enroll and withdraw, statement by statement | |
| `Accounts` | registration, seeding, login, profile changes, statement by statement | |
| `Access` | one request at any endpoint of a course | the three abstract modules, which change what it reads |
| `Prerequisites` | the graph of requirements over several courses | |
| `Reconcile` | the inside of one `chunk_lesson` over rows with ids | the detail of `Publishing`'s `CommitChunk` |
| `ReconcileLate` | the same, with the reads and the commit of each attempt apart, and attempts that outlive their timeout | extends `Reconcile`; the detail of `PublishingLate`'s late chunk commits |
| `Chunking` | `chunk_text` | its results are the `Pieces` of `Reconcile` |
| `ContentOrder` | positions of the rows of one parent: adding, reordering, deleting | its deletions and additions are those of `Publishing`'s edits |
| `MC*` | symmetry and small sets for TLC | |
| `*Proofs` | theorems about the module they are named for | extend it and `TLAPS`; `PublishingProofs` also `PublishingLate` and `PublishStatus`, `ReconcileProofs` also `ReconcileLate` |

### Publishing

The course's row is `status`, `publishedAt`; a lesson is the text it has, or
`unborn` or `deleted`; `chunks[l]` is the text its chunk rows were built from.
The run of the workflow is `wf` (Temporal's execution status), `step` (the
activity it waits for), `isFirst`, `todo`/`cur` (what is left of
`lesson_ids`) and `attempt`. `phase` says how far the current attempt is:
scheduled, transaction open with what it read in `seen` and `built`, or
committed and not reported.

| Action | Code |
|---|---|
| `CheckPublish`, `StartWorkflow` | `publish_course`: `assert_can_publish`, then `start_workflow` with the id that admits one run |
| `OpenStatus`, `CommitStatus` | the SELECT and the flush and COMMIT of `begin_publish`, `mark_ready`, `mark_failed`; `BeginEffect`, `ReadyEffect`, `FailEffect` are what they write |
| `ListLessons` | `list_lesson_ids`, and the `for` loop it starts |
| `OpenChunk`, `CommitChunk` | `chunk_one_lesson` |
| `Report` | Temporal records the result, and the workflow goes on |
| `AttemptLost` | an exception, a dead worker (before or after the commit) or a timeout: retry, or the `except` branch after the third failure of a lesson |
| `CheckEdit`, `CommitEdit`, `DropEdit` | `add_lesson`, `update_lesson`, `delete_lesson`, `delete_module`: `_assert_editable`, then the commit at the end of the request |
| `DeleteCourse` | `delete_course` |

SQLAlchemy emits an UPDATE only for a column whose value changed against what
it loaded; `WriteStatus` says so, and says that the UPDATE of a row that is gone
raises. `touched` is a history variable: the lessons written since the run
listed them. The docstring of `list_lesson_ids` says that later edits are for the next
publish, so the promises about chunks exclude exactly these.

### PublishingLate

`start_to_close_timeout` is kept by the Temporal server; a worker that is paused
inside an activity's transaction does not hear of it, and may commit after the
retry has. `late` holds such transactions, of any of the four activities that
write: `TimeOut` adds one, `CommitLate` is its commit, `DropLate` its loss. A late
`begin_publish`, `mark_ready` or `mark_failed` writes what it decided on the row
it read. What a late `chunk_one_lesson` leaves depends on chunk rows, which are
the matter of `ReconcileLate`; here it may leave those of any text.

### PublishStatus

`ask` is the request of `get_publish_status`: the row is read
(`assert_publishing_access`), `Describe` asks Temporal for the last run, and if that
has completed `Result` asks for its result, of whichever run is the last by then.
When that run is open the request waits, and it returns when it closes: `told`
remembers that, whatever is started afterwards.

### Enrollment

One course. A request's `pc` names the statement it is at; `capacity` in it is
the value of the object the session loaded first. That object is also what
`select(...).with_for_update()` returns: SQLAlchemy does not overwrite the
attributes of an object that is in the identity map unless told to
(`populate_existing`). `lock` is the row lock; the foreign key of an insert takes
a KEY SHARE lock that waits for it. `live` is `draft` for every status a student cannot see. `Completers` is the set of students who have completed what is
required: nothing in this commit completes an enrollment. `offered` and
`everOpen` are history: which limits the course has had, and whether it was ever
without prerequisites. They let the promises be stated while the instructor
changes both: with an unchanged limit, `SeatsRespected` is exactly FR-07, and
`SeatBooking` admits a student on a limit offered earlier, since that is what a
request may have read.

### Accounts

`users` is the table by id; `req` is each open transaction, with what it was sent
and what it has read. `free` has found no row for its email, `inserted` has sent
its INSERT, `created` has committed and not answered. `UniqueEmail` is the unique
index, which also makes an INSERT wait for another that has not committed. A token
is the id it carries, a password hash the password it was made from; whether a
login rehashes depends on the age of the hash, so it is a free choice. `alone` and
`welcomed` are history: whether somebody else has changed the roles of the row a
request loaded, and what has been answered with "created". `Switch` is the operator who sets `is_active`
in the database; no endpoint does. `Directory` is the table with every
request as one step.

### Access

One request of one caller at one of nine doors: the course, a module, a lesson, the
lists of them, an edit, publishing (and its status, with the same ladder), the
roster, enrolling, and the listing of courses with a status filter. `Ask` is
`get_current_user` and the route's `require_roles`, `LoadCourse` the SELECT of the course with
the ladder of that endpoint (`CanView`, `CanEdit`, `CanPublish`, `MayEnroll`,
`OnPage`), `GetActive` the query of `may_read_content`. Between them the
world changes: it is not modelled again, but taken from the three abstract modules,
which the detailed ones are proved to implement.

`Rule` is what the documentation's access rules say of one moment; `due` is history: what they
have said since the request began, for the caller as it was then. A stricter
promise, with the caller's own row also of that moment, does not hold: the user
object is loaded once, so a role that is given up during a request still counts.

### Prerequisites

`requires` is the table. A request reads and checks, its DELETE sees the rows
committed when it starts (`saw`), and its INSERTs become visible at the commit,
refused by the primary key or a foreign key. A DELETE that waits for another's
finds the rows dead and does not see the new ones. `alone` is history: nobody
else has committed since the request's checks.

### Reconcile

Rows have `id`, `hash`, `position`; a text is the sequence of the hashes of its
pieces. `ByHash` is the Python dict (the last row of a hash wins), `IsFirst` the
`kept` set, `LeftAlone` the rows that are neither reused nor stale.

### ReconcileLate

One lesson of a course that is published again and again. `run` is the last
workflow run, `tries` the attempts of `chunk_one_lesson` it has started, `current`
the one Temporal waits for. Each attempt has its two SELECTs (`GetLesson` into
`text`, `ExistingForLesson` into `found`) and its `Commit` as steps of their own;
`TimeOut` makes it one that nobody waits for, which goes on, over the retry and
into later runs, until it commits or is lost (`Die`). `Flushed` is what the
statements decided on the found rows do to the rows of now: each names an id, so a
DELETE or UPDATE of a row that is gone changes nothing (an UPDATE also raises, which
is a `Die`), and `delete_for_lesson` names the lesson, so it deletes them all.
`edited` is history: whether the lesson was edited since the last
`list_lesson_ids`. Deleting the lesson is left to `Publishing`.

`LateSpec` is all that can happen. `InStepSpec` is what happens as long as no
attempt goes astray: each `Commit` is `InStep`, that is, the last commit was of
the same text, or there was none since the rows were found and an attempt nobody
waits for has the text the lesson has now. Among these are the attempt that
commits after its retry, before it, between the retry's reads, or in a later run.
Not among them is one that lingers across an edit, of which section 3 says what
it does.

### Chunking

A text is a sequence of words; of a word the code sees whether it ends a
sentence (`stop`) and whether a blank line or a space is before it (`para`).
`place` tells words apart, so a property can say what was lost or repeated.
`SplitToFit` gives the places where parts begin: all paragraphs, the sentences of
those that do not fit, the cuts inside of sentences that do not fit either. `PartAt` is
the part that begins at a place, with its `Separator` as the `para` of its first
word. `Assemble` is one turn of the loop of `_assemble`, with `placed` the words
it has taken, and `StartNext` is `_start_next`: `Kept` is where the sentences it may
repeat begin, `LastSentences` those sentences joined with spaces. Token estimates are the integers Python's `round(1.3 * words)`
gives. Kinds of white space, and words that end in a full stop without ending
a sentence, are the same to the code and to the model.

### ContentOrder

One parent and its rows: a course and its modules, or a module and its lessons,
which have the same code twice. `at` is the column `position`. `Add`,
`NextPosition`, `AddRow` are the three statements of an addition (find the
parent, lock it and read `MAX(position)`, insert and commit); `ListItems` and
`Reorder` the read and the commit of a reorder, which locks nothing and writes
only the positions that changed against what it read. `since` is history: what
others committed since a request read, and whether it may have left a mixture
(an order that another order or a delete came across, or that names an id twice).

## 3. Runs

| Run | Question | Result |
|---|---|---|
| `publishing` | safety of publishing and the refinement of `CourseLifecycle` | pass, 427,326 states |
| `publishing_live` | a publish in progress ends, with it the liveness of `CourseLifecycle`; a status request is answered | pass, 143,088 states |
| `enrollment` | places, qualification, indexes and keys, while the course changes; one-step booking | pass, 1,033,357 states |
| `prerequisites` | no dangling requirement; a request nobody overtook does what it says | pass, 11,923 states |
| `reconcile` | with attempts that overlap and come late: rows are the pieces; what did not change is kept; a second run changes nothing; a completed publish left current chunks | pass, 1,685,732 states |
| `chunking` | ceiling, completeness, overlap, where it cuts, what a chunk reads like | pass, 447,365 states |
| `content_order` | an added row goes last; an undisturbed order takes effect | pass, 263,411 states |
| `accounts` | one account per email, answers are stored; the one-step `Directory` | pass, 410,545 states |
| `access` | what is shown and what is refused was due at one moment | pass, 267,798 states |
| `publishing_late`, `enrollment_patched`, `reconcile_twice` | a statement of a comment that the code does not keep | violation |

The violations, each quoted in `PROJECT.json` "findings":

- `publishing_late`: an attempt that outlives its timeout can put a finished
  course back on `publishing` with nothing running. It takes a late `begin_publish`
  (theorem `OnlyBeginStrands`), whatever late attempts of the other three write.
- `enrollment_patched`: the lock reads no new capacity. It takes an instructor who
  lowers it (theorem `OnlyLoweringOverbooks`).
- `reconcile_twice`: with a repeated piece, a second run of `chunk_lesson` is
  refused by the unique position: such a lesson, left as it is, can be published once and fails
  every publish after that. `chunk_text` does return repeated pieces: two
  identical 300-word paragraphs at the default sizes are two. The second run is
  refused for every such text and whatever was chunked before (theorem `RepeatsAreRefused`),
  and nothing is missing from the rows meanwhile (`NothingMissing`). Publishing knows of
  it as an attempt that is lost three times.

More follows from the same code and has no run of its own:

- A lesson can change while the course is on `publishing`: `_assert_editable` reads
  the status and the edit commits later. The promises about chunks survive, since
  the lesson counts as touched.
- An attempt of `chunk_one_lesson` that lingers across an edit can leave a completed
  publish with stale chunks. It reads the lesson's old text and is timed out; the
  lesson is edited; the course is published once more, which lists the lesson, chunks
  the new text and completes; then the lingering attempt commits, and what it deletes,
  moves and inserts was decided for the old text. Nothing in the transaction looks at the lesson
  or its chunks again. Chunks may come back for a lesson that was emptied, and where
  both texts have a piece, the rows may come to hold its hash twice. `LateSpec` does not
  keep `ChunksAreCurrent` for this reason; `InStepSpec`, without such attempts, does.
- A publish that fails leaves the chunks of the lessons it had done before the one
  that failed, not "exactly" the course as it was (`workflows/activities.py:165`).
- Two concurrent edits can make two courses require each other, each refused alone;
  requests that do not meet cannot (theorem `MutualOnlyWhenOvertaken`).
- A status request whose `describe` says COMPLETED may wait for a run started in
  between (the comment at `api/routers/courses.py:318-321` counts on a closed run),
  and without end if the course is deleted under that run.
- `PATCH /users/me` by an admin replaces the roles, so `admin` is lost; the seed
  command then finds the email taken, and no endpoint grants the role.
- A seed command that loses the race for its email fails with the IntegrityError of
  the index, which nothing catches there.
- The roster and the content of a course stay open to an owner who has given up the
  instructor role, the first at any status.
- The total of a listing and its page are two statements and may disagree.
- `published_at` is "set once" (`services/publishing.py:191-193`), but a
  `mark_ready` that is retried after its commit sets it again.
- A course deleted during its publish leaves a run that never closes in Temporal:
  `mark_ready` and `mark_failed` raise NotFoundError under the default policy,
  which retries without limit.
- The sentences an overlap repeats are joined with spaces (`chunking.py:214`), also
  across a paragraph's end: `"A. b.\n\nC\n\nD"` at ceiling 4 and overlap 3 gives
  `"b. C\n\nD"`, which is not a slice of the lesson. `BlankLinesKept` is therefore
  about what a chunk does not repeat.
- `_reposition` refuses an order unless it lists "every one exactly once", but
  compares sets: an id may be listed twice, and leaves a hole. Two overlapping
  orders may leave a mixture neither sent, or be refused.
- Two concurrent lists of prerequisites may merge (`RunsAsIfAlone` speaks only of
  requests nobody overtook), and three requests in a row can close a loop of three
  courses (the check is one hop on purpose, `services/course.py:470-480`).

### Bounds

- Publishing: two lessons (one being chunked while the other is done or
  waiting), two texts (an old and a new one), two publish requests (a slow one
  and a fast one), two editors, the real three attempts. Texts carry no order,
  so more of them add no case. The run for liveness has two lessons, one text, one
  publisher, one editor, one status request and two attempts: each waits for one
  thing at a time.
- `PublishingLate`: one lesson, one publisher and `MaxLate` = 1 lingering attempt, enough for the violation.
- Enrollment: three students, two concurrent requests, capacities 1, 2 and none:
  a free place, the last place, none. `MaxRows` = 3 bounds the insertions: a
  student can leave and return while another joins. It stops the model, not the
  code.
- Prerequisites: three courses, two requests: the two that race, and a third
  course that is required or deleted meanwhile.
- Accounts: two emails (the seed's and another), two passwords, two ids, two
  concurrent requests. A race needs two requests and one email; the second id takes
  an account that must not be there.
- Access: the owner and the admin's email, whose account may also be a
  student's, an instructor's or nobody's, and one password. A request writes
  nothing, so one at a time shows all that one can be answered. The proofs are for any emails.
- Reconcile: `reconcile` has four texts over three hashes: none, two in either
  order, and one with a third piece between, so that rows are kept, moved, inserted
  and deleted. Two attempts are open at once (one waited for and one not), two are
  tried per run, any number of runs, and six rows are inserted (`MaxIds`).
  `reconcile_twice` is about `Reconcile` alone: two hashes and all texts of at most three
  pieces. The proofs are for any texts.
- Chunking: all texts of at most six words, any sentence ends, any blank lines:
  sentences and paragraphs above, at and below every ceiling. Ceilings 1 to 4 and
  6 tokens are one to five words, with both directions of rounding; overlaps 0 to
  4 include none and one as large as the ceiling.
- ContentOrder: three requests, so that two reorders and an addition, or two
  additions and a reorder, are open at once; two rows at first, one more
  to add, orders of at most two ids (`MaxOrder`), so an order that names an id
  twice is one for a single row. Four rows with two requests and three ids have
  the same result (1,754,127 states).

Deadlock is not checked where the system may stop: a deleted course that
nobody publishes or edits, a text that is chunked, or a bound reached. `ReconcileLate` and `Access` never stop, and
there it is checked.

### Fairness

`FairSpec` is for a worker that keeps polling (`worker.py` runs until it is
stopped). Reads are weakly fair. Commits and reports are strongly fair: an
attempt may be lost any number of times, and each loss disables them, but not
every attempt is lost. Temporal's default policy retries for ever, which is what
makes this reasonable, and the three attempts of `chunk_one_lesson` may still all
be lost, since the loss itself is never prevented. A transaction that the
database rejects (`RejectedChunk`) does not stay open for ever. `StatusSpec` adds that the API goes on with a status request as long as it
has nothing to wait for: it is one coroutine. Nothing is assumed of the clients, who
may abandon a request or never send one.

## 4. Proofs

Eight modules of proofs, each for every value of the constants and from the named
assumptions of the module it is about:

| Theorem | States |
|---|---|
| `PublishingProofs!TypeCorrect` | `TypeOK` |
| `NeverStranded` | `publishing` implies a running workflow |
| `OutcomesAgree`, `StampMatches` | Temporal, the status and `published_at` agree |
| `ImplementsLifecycle` | `Publishing` implements `CourseLifecycle!Safety` |
| `NeverUnpublished` | a live course stays live until it is deleted |
| `CompletedIsFresh` | a completed publish left untouched lessons with current chunks |
| `ReadyIsProcessed` | so did one at the moment it goes live |
| `OnlyBeginStrands` | with late attempts of any activity but `begin_publish`, `publishing` still implies a running workflow |
| `WaitsForARun` | a status request that waits has a run to wait for |
| `EnrollmentProofs!TypeCorrect` | `TypeOK` |
| `NoOrphans`, `OnlyTheQualified` | no enrollment of a deleted course, none of the unqualified |
| `TheCountIsTrue`, `SeatsAreRespected` | what was counted under the lock holds; places are not exceeded |
| `OneActive` | one active enrollment per student |
| `BooksAtomically` | `Enrollment` implements `SeatBooking` |
| `OnlyLoweringOverbooks` | if the limit is never lowered, places stay within the limit of the moment |
| `AccountsProofs!TypeCorrect` | `TypeOK` |
| `OneAccount`, `AnswersStored` | one account per email; what was answered is stored |
| `ImplementsTheDirectory` | `Accounts` implements `Directory` |
| `OnlyTheSeedIsAdmin` | an admin has the email of the seed command |
| `AccessProofs!TypeCorrect` | `TypeOK` |
| `GrantedDue`, `RefusalDue` | what is granted, and what is refused, was due |
| `PrerequisitesProofs!TypeCorrect` | `TypeOK` |
| `NothingDangles`, `RunsAlone` | no dangling requirement; an undisturbed replacement does what it says |
| `MutualOnlyWhenOvertaken` | if no commit is overtaken, no two courses require each other |
| `ContentOrderProofs!TypeCorrect` | `TypeOK`, and no two rows are at one position |
| `AppendsLast`, `OrdersTakeEffect` | an added row goes last; an undisturbed order takes effect |
| `ReconcileProofs!TypeCorrect` | `TypeOK` |
| `EmbeddingsSurvive` | a hash that is still in the text keeps its row, for any text |
| `NothingMissing` | every piece of the text has a row, for any text |
| `RowsExact`, `RetryIsHarmless` | rows are the pieces, a second run changes nothing, if no text repeats a piece |
| `RepeatsAreRefused` | if the text does repeat one, a second run is refused |
| `LateTypeCorrect` | `LateTypeOK` of `ReconcileLate` |
| `RowsExactWithLateAttempts`, `EmbeddingsSurviveLateAttempts`, `RetryIsHarmlessLate` | the three promises above, of attempts that overlap and come late |
| `CompletedIsCurrent` | with them, a completed publish left an unedited lesson with current chunks |
| `ChunkingProofs!TypeCorrect` | `TypeOK` |
| `NoneTooBig` | no chunk exceeds the ceiling |
| `NothingIsLost` | chunks are runs of the text without gaps, to its end |
| `OverlapInBudget` | what a chunk repeats is whole sentences within the budget |
| `CutsOnlyWhereItMust` | paragraphs and sentences that fit are not cut |
| `BlankLinesAreKept` | what is not repeated reads as in the text |
| `EndsForEveryText` | each turn of the loop gets further, and chunks are no more than words |

The assumptions: `MaxAttempts` is positive, names of values differ from the status
words, the `Nobody` or the `NoAttempt` they share a variable with, sets of rows and the bound on
insertions are finite, the seed's email and the owner's are emails, and a ceiling is a
positive number of tokens, an overlap a natural one (`config.py` has 400 and 60; with a
ceiling of 0 no chunk would fit, since a text is estimated at 1 at least).

Some theorems have a hypothesis on the behaviour or the texts, which the theorem names:
`OnlyBeginStrands`, `OnlyLoweringOverbooks`, `MutualOnlyWhenOvertaken`, the
theorems from `RowsExact` on that need texts without repeated pieces (`Distinct`), and those
of `ReconcileLate`, which are of `InStepSpec`. In each case the promise is false
without it, by a run or by an interleaving listed above.

### Publishing

Two invariants carry them.

`StatusInv` says which statuses are possible at each place of the run. None of
the promises about the status is inductive: that a failing run ends with
`failed` depends on `begin_publish` having left `publishing` and on nobody else
writing the column, so `BeginLeaves`, `ChunkingLeaves`, `ReadyLeaves` and
`FailLeaves` follow the status through the steps, and `SoleWriter` says that an
open transaction still holds the value it read (or the row is gone). The
refinement then needs one lemma, `OnlyTwoWriters`: only `CommitStatus` and
`DeleteCourse` write the row.

`FreshInv` says what is chunked: every untouched lesson that is not in `todo`
(`OthersChunked`), the current one once its transaction has committed
(`CurrentWritten`), which follows from what it read being what is there
(`CurrentRead`), and so all of them at the end (`AllChunked`). Edits only move
lessons out of the claim (`EditsAreTouched`).

With late attempts neither holds. `FreshInv` fails by a late `chunk_one_lesson`, for which
see `ReconcileLate`. `StatusInv` fails since
the run is no longer the only writer of the status. `LateInv` is what remains of it when no
`begin_publish` is among them: the others overwrite the column with `ready` or
`failed`, never with `publishing`, so a run that has found the course live, or has
settled it, leaves it settled (`SettledWhenLive`, `SettledWhenDone`). `MaxLate` is in no
proof. A status request changes nothing (`AskingChangesNothing`), so all that is proved
of `Publishing` holds of `PublishStatus`.

### Enrollment

`ReadInv` says that a request under way has a student, or a row that is there.
`SeatInv` carries FR-07: the holder of the lock is the one request that is past
the SELECT FOR UPDATE (`LockInv`); a request goes by a limit that has been offered, and
by one at all when it locks (`LimitInv`); the count it took still bounds the active
rows (`CountStaysTrue`, which is not inductive without the other two: a withdrawal
lowers the count, and an insertion needs the lock, or no limit, which is then
among those offered); so the places are respected. `UniqueRows` is the partial
unique index said of pairs of rows; `OneActiveEach` and the refinement follow from
it, with `Members` a set of at most as many students as there are active rows.

The limit of the moment needs more than `SeatInv`: that the limit a request goes by
is no higher than the one that applies (`ReadNoHigher`). Raising the limit keeps it,
lowering it does not, and nothing in a request repairs it, since the lock does not
read the column again.

### Accounts

`Pending` makes the index one: an inserted row is the only claim on its email until
it is committed. `StoredInv` says that a request that has committed is still
matched by a row with its email and password (`Created`, `Welcomed`), and an
undisturbed update by the roles it wrote (`KnowsRoles`); `SeedOnly` that nobody but the seed's email has `admin`,
or is about to (so `AdminIsSeeded`: the commit of a new row is the only step that can add
the role). The refinement maps each email to the one row `OneAccountPerEmail` leaves it.

### Access

`DecidedByRule` and `GatedByRule` compare the code's ladders with the rules, door
by door, for one moment. `VisitInv` carries that over the request's several
moments: until it is answered, what the rules say now is among what was due; behind the
course the course is live, or is gone, and then nobody had a place when it went
(`GoneIsEmpty`, which rests on the RESTRICT of the foreign key).

### Prerequisites

`NoDanglingLink` is inductive, since the keys are checked at COMMIT. `AloneInv`
says of a request nobody has overtaken that it does not name itself, that no course it
names has come to require its own, and that its DELETE saw every row there is. If that is
so of every commit, the graph has no two courses that require each other and none
that requires itself. Loops of three are what the code does not look for.

### ContentOrder

`OrderInv` has a part for each kind of request: what was counted under the lock on
the parent stays the end of the order (`Counted`), what an undisturbed reorder read is what it
writes over (`Listed`). That a finite set of positions has a maximum is proved from
the well-foundedness of strict inclusion (`WFMin`), without induction.

### Reconcile

`EmbeddingsSurvive` needs that a piece that occurs in a text occurs first somewhere,
proved like the maximum above. `RowsInv` (each row is a piece, each piece has a row, one per
place) is inductive only when no text repeats a piece (`Distinct`): then two rows never
share a hash (`OneRowEach`), and nothing is left alone. `reconcile_twice` shows that the
hypothesis is needed. What is left of it for any text is `AnyTextInv`: rows have ids of their
own, and each piece has a row with its hash. Two places with one hash then are two rows, of which a second run
reuses one and leaves the other alone, at a place the reused one is moved
to; this is `RepeatsAreRefused`.

With overlapping attempts (`ReconcileLate`) two lemmas take the place of that one step. A
commit over the rows it found is a run of `chunk_lesson` (`CommitIsARun`). A commit of the text
that was committed last changes nothing (`CommitOfTheSame`): the rows it would
delete are gone, those it would move are where it moves them, and an insertion would
be at a taken position, so it is refused. It rests on ids never being used again: a row found
with an id has the same hash as a row that has the id now. `InTime` carries
`CompletedIsCurrent`: while a run goes on over an unedited lesson, what the
attempt it waits for has read is the lesson's text, and what it has committed is what
the rows are, until an edit.

### Chunking

`Packed` carries all of it. Each finished chunk, and the one being filled, is a run of the
text within the ceiling (`Run`), with the blank lines of the text behind what it
repeats; the first begins with the text, each other one follows the one before
(`Follows`: it begins in it or right behind, at a sentence, within the overlap's
budget, and gets further), and the one being filled ends at `placed`. None of the
properties is inductive without the others: that the next chunk has no gap needs that
this one ends where the next part begins, and that it fits needs that the sentences it
repeats are a run of the text.

That a part fits (`EachPartFits`) has three cases, one for each level it may be cut at, the
last by arithmetic: a cut every `10 * max \div 13` words is within the ceiling,
however `round` rounds (`Tokens` is monotone). That a cut was needed (`CutsOnlyWhereItMust`)
follows from the same cases: a level is tried only where the one above is too big. No
induction over the text is needed, because the parts are given by the set of
places where they begin, and a part is what lies between two of them. That `SplitToFit`
is the code's recursion over paragraphs, sentences and words is how the module is
read, and the run checks its results by their properties.

### Only model-checked

Liveness (`LifecycleSpec`, `StatusAnswered`), which is beyond the prover as is ENABLED.
Every other property of the passing runs is proved. The three violations are
counterexamples, and need no proof.

## 5. Not modelled

- Password hashing and tokens (`infra/security.py`): wrappers of argon2 and PyJWT without state.
- Ranking, paging and counting of search and listings: read-only SQL. What a
  listing may contain is in `Access`.
- Schemas, error mapping and start-up: no state. The refusals they report are guards
  of the modules.
- Configuration and migrations: the constraints they create are modelled where they bite.
- `failed_events`, `assets`, `lesson_progress`: no code writes them.
- Cancelling or terminating a workflow from Temporal's own tools is not something this code does.

## 6. Plan

Done: every component with state and behaviour of its own, its properties and their proofs.
What may follow:

1. `Publishing` with `Reconcile` inside: a lesson that repeats a piece as an attempt
   that is always refused, which is what `reconcile_twice` leads to.
2. Completion of enrollments, as soon as code writes it: `Completers` becomes a variable.
