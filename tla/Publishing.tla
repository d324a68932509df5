------------------------------ MODULE Publishing ------------------------------
(***************************************************************************)
(* Publishing one course: the rows of the course and of its lessons, the   *)
(* Temporal workflow publish-course-{id} with its five activities, the     *)
(* requests that start it, and the requests that edit or delete the course *)
(* meanwhile.                                                              *)
(*                                                                         *)
(* Every activity and every request is one READ COMMITTED transaction in   *)
(* two steps, the SELECT that opens it and the flush-and-COMMIT that ends  *)
(* it; whatever the code decides in between, it decides on what it read.   *)
(* An activity has a third step, the report of its result to Temporal: a   *)
(* worker that dies before it makes Temporal run the activity again.       *)
(***************************************************************************)
EXTENDS Naturals

CONSTANTS
  Lessons,      \* ids of the lessons the course has, had or may get
  Texts,        \* what lessons.content may be
  Publishers,   \* concurrent POST /courses/{id}/publish requests
  Editors,      \* concurrent requests that edit lessons
  MaxAttempts   \* RetryPolicy(maximum_attempts=3) of chunk_one_lesson

ASSUME AttemptsAssumption == MaxAttempts \in Nat \ {0}
ASSUME NamesAssumption ==
  /\ Texts \cap {"draft", "publishing", "ready", "failed", "none",
                 "unborn", "deleted"} = {}
  /\ Lessons \cap {"none", "idle", "module"} = {}

VARIABLES
  status,       \* courses.status, "gone" once the row is deleted
  publishedAt,  \* courses.published_at: "null" or "set"
  content,      \* lessons.content per lesson, or "unborn" or "deleted"
  chunks,       \* the text a lesson's chunk rows were built from, or "none"
  wf,           \* the last run of the workflow: its execution status
  step,         \* the activity the run is waiting for
  isFirst,      \* the workflow's local is_first
  todo,         \* lesson_ids not yet chunked, `cur` included
  cur,          \* the lesson of the current chunk_one_lesson
  attempt,      \* which attempt of the activity this is
  phase,        \* "scheduled", "open" (transaction begun), "done" (committed)
  seen,         \* the column the open transaction read
  built,        \* the chunk rows the open chunk_one_lesson read
  request,      \* publish request: "idle", or past assert_can_publish
  edit,         \* edit request: "idle", or its target once _assert_editable passed
  touched       \* history: lessons written since the last list_lesson_ids

course == <<status, publishedAt>>
run == <<wf, step, isFirst, todo, cur, attempt>>
read == <<seen, built>>
vars == <<course, content, chunks, run, phase, read, request, edit, touched>>

Absent == {"unborn", "deleted"}
Exists == status # "gone"
Present(l) == content[l] \notin Absent
PublishableStatuses == {"draft", "failed", "ready"}
EditableStatuses == {"draft", "failed", "ready"}

Init ==
  /\ status = "draft" /\ publishedAt = "null"
  /\ content \in [Lessons -> Texts \cup {"unborn"}]
  /\ chunks = [l \in Lessons |-> "none"]
  /\ wf = "none" /\ step = "begin" /\ isFirst = FALSE
  /\ todo = {} /\ cur = "none" /\ attempt = 1
  /\ phase = "scheduled" /\ seen = "none" /\ built = "none"
  /\ request = [p \in Publishers |-> "idle"]
  /\ edit = [e \in Editors |-> "idle"]
  /\ touched = {}

(***************************************************************************)
(* The publish request: check the status, then ask Temporal to start.      *)
(***************************************************************************)
CheckPublish(p) ==
  /\ request[p] = "idle"
  /\ status \in PublishableStatuses
  /\ request' = [request EXCEPT ![p] = "checked"]
  /\ UNCHANGED <<course, content, chunks, run, phase, read, edit, touched>>

(* Temporal refuses an id that is already running: 409, nothing changes.   *)
StartWorkflow(p) ==
  /\ request[p] = "checked"
  /\ request' = [request EXCEPT ![p] = "idle"]
  /\ IF wf = "running"
     THEN UNCHANGED <<run, phase>>
     ELSE /\ wf' = "running" /\ step' = "begin" /\ isFirst' = FALSE
          /\ todo' = {} /\ cur' = "none" /\ attempt' = 1
          /\ phase' = "scheduled"
  /\ UNCHANGED <<course, content, chunks, read, edit, touched>>

(***************************************************************************)
(* Opening an activity's transaction. get_by_id finding no row raises      *)
(* NotFoundError: the attempt fails, which AttemptLost stands for.         *)
(***************************************************************************)
OpenStatus ==
  /\ wf = "running" /\ phase = "scheduled"
  /\ step \in {"begin", "ready", "fail"}
  /\ Exists
  /\ seen' = status
  /\ phase' = "open"
  /\ UNCHANGED <<course, content, chunks, run, built, request, edit, touched>>

(* One SELECT and nothing to commit: the run has its list in one step.     *)
ListLessons ==
  /\ wf = "running" /\ phase = "scheduled" /\ step = "list"
  /\ LET ids == {l \in Lessons : Present(l)} IN
       /\ todo' = ids
       /\ step' = IF ids # {} THEN "chunk" ELSE IF isFirst THEN "ready" ELSE step
       /\ wf' = IF ids = {} /\ ~isFirst THEN "completed" ELSE wf
       /\ cur' \in IF ids # {} THEN ids ELSE {"none"}
  /\ attempt' = 1
  /\ touched' = {}
  /\ UNCHANGED <<course, content, chunks, isFirst, phase, read, request, edit>>

OpenChunk ==
  /\ wf = "running" /\ phase = "scheduled" /\ step = "chunk"
  /\ seen' = content[cur]
  /\ built' = chunks[cur]
  /\ phase' = "open"
  /\ UNCHANGED <<course, content, chunks, run, request, edit, touched>>

(***************************************************************************)
(* Committing it. SQLAlchemy writes a column only when the assigned value  *)
(* differs from the one it loaded, and an UPDATE that finds its row gone   *)
(* raises: the commit is then not possible and the attempt is lost.        *)
(***************************************************************************)
WriteStatus(loaded, new) ==
  IF loaded = new THEN UNCHANGED status ELSE Exists /\ status' = new

(* Mutant: begin_publish moves a live course too.                          *)
BeginAlwaysPublishing(loaded) ==
  /\ WriteStatus(loaded, "publishing")
  /\ UNCHANGED publishedAt

BeginEffect(loaded) ==
  /\ WriteStatus(loaded, IF loaded = "ready" THEN loaded ELSE "publishing")
  /\ UNCHANGED publishedAt

ReadyEffect(loaded) ==
  /\ Exists
  /\ WriteStatus(loaded, "ready")
  /\ publishedAt' = "set"

(* Mutant: the compensation puts the course back to where it started.      *)
FailBackToDraft(loaded) ==
  /\ WriteStatus(loaded, "draft")
  /\ UNCHANGED publishedAt

FailEffect(loaded) ==
  /\ WriteStatus(loaded, "failed")
  /\ UNCHANGED publishedAt

(* Mutant: mark_failed is not among the worker's ALL_ACTIVITIES.           *)
StatusEffectNoMarkFailed(activity, loaded) ==
  \/ activity = "begin" /\ BeginEffect(loaded)
  \/ activity = "ready" /\ ReadyEffect(loaded)

StatusEffect(activity, loaded) ==
  \/ activity = "begin" /\ BeginEffect(loaded)
  \/ activity = "ready" /\ ReadyEffect(loaded)
  \/ activity = "fail" /\ FailEffect(loaded)

CommitStatus ==
  /\ wf = "running" /\ phase = "open"
  /\ StatusEffect(step, seen)
  /\ phase' = "done"
  /\ UNCHANGED <<content, chunks, run, read, request, edit, touched>>

(* A lesson that was gone at the read has nothing to chunk; chunks equal   *)
(* to the stored ones need no write; a new chunk needs its lesson's row,   *)
(* and the foreign key rejects the commit of one that lost it.             *)
Orphaned == seen \notin Absent \cup {built} /\ ~Present(cur)

(* Mutant: a lesson that has chunks is taken to be up to date.             *)
CommitChunkOnce ==
  /\ wf = "running" /\ phase = "open" /\ step = "chunk"
  /\ IF seen \in Absent \/ built # "none"
     THEN UNCHANGED chunks
     ELSE ~Orphaned /\ chunks' = [chunks EXCEPT ![cur] = seen]
  /\ phase' = "done"
  /\ UNCHANGED <<course, content, run, read, request, edit, touched>>

CommitChunk ==
  /\ wf = "running" /\ phase = "open" /\ step = "chunk"
  /\ IF seen \in Absent \cup {built}
     THEN UNCHANGED chunks
     ELSE ~Orphaned /\ chunks' = [chunks EXCEPT ![cur] = seen]
  /\ phase' = "done"
  /\ UNCHANGED <<course, content, run, read, request, edit, touched>>

(***************************************************************************)
(* Temporal records the result and the workflow moves on.                  *)
(***************************************************************************)
ReportBegin ==
  /\ step = "begin"
  /\ isFirst' = (seen # "ready")
  /\ step' = "list"
  /\ UNCHANGED <<wf, todo, cur>>

(* Mutant: the loop over lesson_ids does not advance.                      *)
ReportChunkAgain ==
  /\ step = "chunk"
  /\ UNCHANGED <<todo, cur, wf, step, isFirst>>

ReportChunk ==
  /\ step = "chunk"
  /\ todo' = todo \ {cur}
  /\ IF todo' # {}
     THEN cur' \in todo' /\ UNCHANGED <<wf, step>>
     ELSE /\ cur' = "none"
          /\ step' = IF isFirst THEN "ready" ELSE step
          /\ wf' = IF isFirst THEN wf ELSE "completed"
  /\ UNCHANGED isFirst

(* Mutant: the except branch does not raise again.                         *)
ReportLastSwallowed ==
  /\ step \in {"ready", "fail"}
  /\ wf' = "completed"
  /\ UNCHANGED <<step, isFirst, todo, cur>>

ReportLast ==
  /\ step \in {"ready", "fail"}
  /\ wf' = IF step = "ready" THEN "completed" ELSE "failed"
  /\ UNCHANGED <<step, isFirst, todo, cur>>

Report ==
  /\ wf = "running" /\ phase = "done"
  /\ ReportBegin \/ ReportChunk \/ ReportLast
  /\ phase' = "scheduled" /\ attempt' = 1
  /\ UNCHANGED <<course, content, chunks, read, request, edit, touched>>

(* Mutants: no compensation; the failed lesson is skipped and the course   *)
(* goes live; the count of attempts runs on.                               *)
GivenUpUncompensated ==
  /\ step = "chunk" /\ attempt = MaxAttempts
  /\ attempt' = 1 /\ wf' = "failed"
  /\ UNCHANGED step

GivenUpIgnored ==
  /\ step = "chunk" /\ attempt = MaxAttempts
  /\ attempt' = 1
  /\ step' = IF isFirst THEN "ready" ELSE step
  /\ wf' = IF isFirst THEN wf ELSE "failed"

GivenUpLate ==
  /\ step = "chunk" /\ attempt = MaxAttempts
  /\ attempt' = attempt + 1
  /\ UNCHANGED <<step, wf>>

(***************************************************************************)
(* The attempt dies: an exception, a lost worker (before or after the      *)
(* commit) or a timeout. Temporal retries for ever, except chunk_one_lesson,*)
(* whose last attempt sends the workflow into its except branch.           *)
(***************************************************************************)
ChunkGivenUp ==
  /\ step = "chunk" /\ attempt = MaxAttempts
  /\ attempt' = 1
  /\ step' = IF isFirst THEN "fail" ELSE step
  /\ wf' = IF isFirst THEN wf ELSE "failed"

AttemptLost ==
  /\ wf = "running"
  /\ \/ ChunkGivenUp
     \/ step = "chunk" /\ attempt < MaxAttempts /\ attempt' = attempt + 1
        /\ UNCHANGED <<wf, step>>
     \/ step # "chunk" /\ UNCHANGED <<wf, step, attempt>>
  /\ phase' = "scheduled"
  /\ UNCHANGED <<course, content, chunks, isFirst, todo, cur, read, request,
                 edit, touched>>

(***************************************************************************)
(* Editing. The check of the status and the write are one transaction, and *)
(* nothing locks the course's row in between.                              *)
(***************************************************************************)
CheckEdit(e) ==
  /\ edit[e] = "idle"
  /\ status \in EditableStatuses
  /\ \E t \in Lessons \cup {"module"} :
       /\ t \in Lessons => content[t] # "deleted"
       /\ t \in Lessons /\ content[t] = "unborn" => \A f \in Editors : edit[f] # t
       /\ edit' = [edit EXCEPT ![e] = t]
  /\ UNCHANGED <<course, content, chunks, run, phase, read, request, touched>>

(* add_lesson and update_lesson                                            *)
WriteLesson(l) ==
  /\ content[l] # "deleted"
  /\ \E t \in Texts : content' = [content EXCEPT ![l] = t]
  /\ touched' = touched \cup {l}
  /\ UNCHANGED chunks

(* delete_lesson, or delete_module with the lessons it has at the commit   *)
RemoveLessons(S) ==
  /\ content' = [l \in Lessons |-> IF l \in S THEN "deleted" ELSE content[l]]
  /\ chunks' = [l \in Lessons |-> IF l \in S THEN "none" ELSE chunks[l]]
  /\ touched' = touched \cup S

CommitEdit(e) ==
  /\ edit[e] # "idle" /\ Exists
  /\ \/ edit[e] \in Lessons /\ WriteLesson(edit[e])
     \/ edit[e] \in Lessons /\ Present(edit[e]) /\ RemoveLessons({edit[e]})
     \/ edit[e] = "module" /\ \E S \in SUBSET {l \in Lessons : Present(l)} :
                                RemoveLessons(S)
  /\ edit' = [edit EXCEPT ![e] = "idle"]
  /\ UNCHANGED <<course, run, phase, read, request>>

(* The request ends without a commit: a stale row, an error, a lost client.*)
DropEdit(e) ==
  /\ edit[e] # "idle"
  /\ edit' = [edit EXCEPT ![e] = "idle"]
  /\ UNCHANGED <<course, content, chunks, run, phase, read, request, touched>>

(* No status is checked; the modules, lessons and chunks go with the row.  *)
DeleteCourse ==
  /\ Exists
  /\ status' = "gone"
  /\ RemoveLessons({l \in Lessons : Present(l)})
  /\ UNCHANGED <<publishedAt, run, phase, read, request, edit>>

Workflow ==
  \/ OpenStatus \/ ListLessons \/ OpenChunk
  \/ CommitStatus \/ CommitChunk \/ Report \/ AttemptLost

Next ==
  \/ Workflow
  \/ \E p \in Publishers : CheckPublish(p) \/ StartWorkflow(p)
  \/ \E e \in Editors : CheckEdit(e) \/ CommitEdit(e) \/ DropEdit(e)
  \/ DeleteCourse

Spec == Init /\ [][Next]_vars

(* A worker keeps polling, and attempts may be lost any number of times    *)
(* but not for ever: one that can commit eventually does, one that has     *)
(* committed eventually gets its report through, and one that the database *)
(* rejects ends.                                                           *)
RejectedChunk == phase = "open" /\ step = "chunk" /\ Orphaned /\ AttemptLost

Fairness ==
  /\ WF_vars(OpenStatus) /\ WF_vars(ListLessons) /\ WF_vars(OpenChunk)
  /\ SF_vars(CommitStatus) /\ SF_vars(CommitChunk) /\ SF_vars(Report)
  /\ WF_vars(RejectedChunk)

FairSpec == Spec /\ Fairness

(***************************************************************************)
(* Properties                                                              *)
(***************************************************************************)
TypeOK ==
  /\ status \in {"draft", "publishing", "ready", "failed", "gone"}
  /\ publishedAt \in {"null", "set"}
  /\ content \in [Lessons -> Texts \cup Absent]
  /\ chunks \in [Lessons -> Texts \cup {"none"}]
  /\ wf \in {"none", "running", "completed", "failed"}
  /\ step \in {"begin", "list", "chunk", "ready", "fail"}
  /\ isFirst \in BOOLEAN
  /\ todo \in SUBSET Lessons
  /\ cur \in Lessons \cup {"none"}
  /\ wf = "running" /\ step = "chunk" =>
       cur \in todo /\ (phase = "open" => seen \in Texts \cup Absent)
  /\ attempt \in 1 .. MaxAttempts
  /\ phase \in {"scheduled", "open", "done"}
  /\ seen \in {"none", "draft", "publishing", "ready", "failed"}
                \cup Texts \cup Absent
  /\ built \in Texts \cup {"none"}
  /\ request \in [Publishers -> {"idle", "checked"}]
  /\ edit \in [Editors -> Lessons \cup {"idle", "module"}]
  /\ touched \in SUBSET Lessons

(* FR-13, mark_failed: a course is never left on `publishing` with nothing *)
(* running, wherever a worker dies and whatever is retried.                *)
NoStrandedPublish == status = "publishing" => wf = "running"

(* begin_publish, mark_failed: publishing again never takes a live course  *)
(* out of the catalogue, even when the second publish is retried or fails. *)
LiveStaysLive == [][status = "ready" => status' \in {"ready", "gone"}]_status

(* FR-12, mark_ready: when a course goes live every lesson nobody has      *)
(* written since the listing has the chunks of the text it has now.        *)
Fresh(l) == Present(l) => chunks[l] = content[l]
ReadyMeansProcessed ==
  [][status # "ready" /\ status' = "ready"
       => \A l \in Lessons \ touched : Fresh(l)]_status

(* chunk_lesson, list_lesson_ids: a publish that Temporal reports as       *)
(* completed, first or repeated, has left no untouched lesson with old     *)
(* chunks, although attempts of it may have run more than once.            *)
CompletedMeansFresh ==
  wf = "completed" => \A l \in Lessons \ touched : Fresh(l)

(* get_publish_status answers from two stores: what Temporal says of the   *)
(* last publish and what the course's row says never contradict.           *)
OutcomeAgrees ==
  /\ wf = "completed" => status \in {"ready", "gone"}
  /\ wf = "failed" => status \in {IF isFirst THEN "failed" ELSE "ready", "gone"}

(* published_at says a course went live exactly when the status says so.   *)
StampMatchesStatus == Exists => (status = "ready" <=> publishedAt # "null")

(* What the API promises of a course, implemented by all of the above.     *)
Lifecycle == INSTANCE CourseLifecycle WITH stamped <- (publishedAt # "null")
LifecycleSafety == Lifecycle!Safety
LifecycleSpec == Lifecycle!Spec
==============================================================================
