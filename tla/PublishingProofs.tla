--------------------------- MODULE PublishingProofs ---------------------------
(***************************************************************************)
(* Theorems about Publishing, for any lessons, texts, requests and number  *)
(* of attempts, and about what it becomes with a status request and with   *)
(* attempts that outlive their timeout.                                    *)
(***************************************************************************)
EXTENDS PublishStatus, PublishingLate, TLAPS

(***************************************************************************)
(* Type correctness                                                        *)
(***************************************************************************)
(* The course as create_course left it, before anything was started, is    *)
(* well typed.                                                             *)
LEMMA InitTypeOK == Init => TypeOK
<1> SUFFICES ASSUME Init PROVE TypeOK
  OBVIOUS
<1>1. content \in [Lessons -> Texts \cup Absent]
  BY DEF Init, Absent
<1>2. /\ chunks \in [Lessons -> Texts \cup {"none"}]
      /\ request \in [Publishers -> {"idle", "checked"}]
      /\ edit \in [Editors -> Lessons \cup {"idle", "module"}]
  BY DEF Init
<1>3. attempt \in 1 .. MaxAttempts
  BY AttemptsAssumption DEF Init
<1>. QED
  BY <1>1, <1>2, <1>3 DEF Init, TypeOK

(* No step of the workflow, of a request or of an editor puts a variable   *)
(* out of its type, nor the current lesson out of the listed ones.         *)
LEMMA NextTypeOK == TypeOK /\ [Next]_vars => TypeOK'
<1> SUFFICES ASSUME TypeOK, [Next]_vars PROVE TypeOK'
  OBVIOUS
<1> USE DEF TypeOK
<1>1. CASE OpenStatus
  BY <1>1 DEF OpenStatus, Exists, course, run
<1>2. CASE ListLessons
  <2>1. /\ todo' \in SUBSET Lessons
        /\ cur' \in Lessons \cup {"none"}
        /\ step' \in {"list", "chunk", "ready"} /\ wf' \in {"running", "completed"}
        /\ step' = "chunk" => cur' \in todo'
    BY <1>2 DEF ListLessons
  <2>2. attempt' \in 1 .. MaxAttempts
    BY <1>2, AttemptsAssumption DEF ListLessons
  <2>. QED
    BY <1>2, <2>1, <2>2 DEF ListLessons, course, read
<1>3. CASE OpenChunk
  BY <1>3 DEF OpenChunk, course, run
<1>4. CASE CommitStatus
  BY <1>4 DEF CommitStatus, StatusEffect, BeginEffect, ReadyEffect, FailEffect,
              WriteStatus, Exists, run, read
<1>5. CASE CommitChunk
  <2>1. chunks' \in [Lessons -> Texts \cup {"none"}]
    BY <1>5 DEF CommitChunk
  <2>. QED
    BY <1>5, <2>1 DEF CommitChunk, course, run, read
<1>6. CASE Report
  <2>1. attempt' \in 1 .. MaxAttempts
    BY <1>6, AttemptsAssumption DEF Report
  <2>2. CASE ReportBegin
    BY <1>6, <2>1, <2>2 DEF Report, ReportBegin, course, read
  <2>3. CASE ReportChunk
    BY <1>6, <2>1, <2>3 DEF Report, ReportChunk, course, read
  <2>4. CASE ReportLast
    BY <1>6, <2>1, <2>4 DEF Report, ReportLast, course, read
  <2>. QED
    BY <1>6, <2>2, <2>3, <2>4 DEF Report
<1>7. CASE AttemptLost
  BY <1>7, AttemptsAssumption DEF AttemptLost, ChunkGivenUp, course, read
<1>8. CASE \E p \in Publishers : CheckPublish(p) \/ StartWorkflow(p)
  <2>. PICK p \in Publishers : CheckPublish(p) \/ StartWorkflow(p)
    BY <1>8
  <2>1. CASE CheckPublish(p)
    BY <2>1 DEF CheckPublish, course, run, read
  <2>2. CASE StartWorkflow(p)
    <3>1. request' \in [Publishers -> {"idle", "checked"}]
      BY <2>2 DEF StartWorkflow
    <3>2. CASE wf = "running"
      BY <2>2, <3>1, <3>2 DEF StartWorkflow, course, run, read
    <3>3. CASE wf # "running"
      <4>1. attempt' \in 1 .. MaxAttempts
        BY <2>2, <3>3, AttemptsAssumption DEF StartWorkflow
      <4>. QED
        BY <2>2, <3>1, <3>3, <4>1 DEF StartWorkflow, course, read
    <3>. QED
      BY <3>2, <3>3
  <2>. QED
    BY <2>1, <2>2
<1>9. CASE \E e \in Editors : CheckEdit(e) \/ CommitEdit(e) \/ DropEdit(e)
  <2>. PICK e \in Editors : CheckEdit(e) \/ CommitEdit(e) \/ DropEdit(e)
    BY <1>9
  <2>1. edit' \in [Editors -> Lessons \cup {"idle", "module"}]
    BY DEF CheckEdit, CommitEdit, DropEdit
  <2>2. CASE CommitEdit(e)
    <3>1. /\ content' \in [Lessons -> Texts \cup Absent]
          /\ chunks' \in [Lessons -> Texts \cup {"none"}]
          /\ touched' \in SUBSET Lessons
      BY <2>2 DEF CommitEdit, WriteLesson, RemoveLessons, Absent
    <3>. QED
      BY <2>1, <2>2, <3>1 DEF CommitEdit, course, run, read
  <2>3. CASE CheckEdit(e) \/ DropEdit(e)
    BY <2>1, <2>3 DEF CheckEdit, DropEdit, course, run, read
  <2>. QED
    BY <2>2, <2>3
<1>10. CASE DeleteCourse
  BY <1>10 DEF DeleteCourse, RemoveLessons, Present, Absent, run, read
<1>11. CASE UNCHANGED vars
  BY <1>11 DEF vars, course, run, read
<1>. QED
  BY <1>1, <1>2, <1>3, <1>4, <1>5, <1>6, <1>7, <1>8, <1>9, <1>10, <1>11
     DEF Next, Workflow

(* Every reachable state is well typed.                                    *)
THEOREM TypeCorrect == Spec => []TypeOK
  BY InitTypeOK, NextTypeOK, PTL DEF Spec

(***************************************************************************)
(* The status of the course                                                *)
(***************************************************************************)
(* NoStrandedPublish is not inductive: that a run ends with the status     *)
(* settled depends on what each of its activities found and left. The      *)
(* invariant says, for each place a run can be at, which statuses the      *)
(* course can have, and that the run is the only one to change them.       *)
StatusSteps == {"begin", "ready", "fail"}

SoleWriter ==
  wf = "running" /\ phase = "open" /\ step \in StatusSteps
    => status \in {seen, "gone"} /\ seen # "gone"

BeginLeaves ==
  wf = "running" /\ step = "begin" /\ phase = "done"
    => status \in {IF seen = "ready" THEN "ready" ELSE "publishing", "gone"}

ChunkingLeaves ==
  wf = "running" /\ step \in {"list", "chunk"}
    => status \in {IF isFirst THEN "publishing" ELSE "ready", "gone"}

ReadyLeaves ==
  wf = "running" /\ step = "ready"
    => /\ isFirst
       /\ status \in {"publishing", "ready", "gone"}
       /\ phase = "done" => status # "publishing"

FailLeaves ==
  wf = "running" /\ step = "fail"
    => /\ isFirst
       /\ status \in {"publishing", "failed", "gone"}
       /\ phase = "done" => status # "publishing"

StatusInv ==
  /\ TypeOK
  /\ SoleWriter /\ BeginLeaves /\ ChunkingLeaves /\ ReadyLeaves /\ FailLeaves
  /\ NoStrandedPublish
  /\ OutcomeAgrees
  /\ StampMatchesStatus

(* A draft that was never published has no run and no status to settle.    *)
LEMMA InitStatusInv == Init => StatusInv
<1> SUFFICES ASSUME Init PROVE StatusInv
  OBVIOUS
<1>. QED
  BY InitTypeOK DEF Init, StatusInv, SoleWriter, BeginLeaves, ChunkingLeaves,
     ReadyLeaves, FailLeaves, NoStrandedPublish, OutcomeAgrees,
     StampMatchesStatus, Exists

(* Only these actions move the run or the status; the others leave both.   *)
LEMMA NextStatusInv == StatusInv /\ [Next]_vars => StatusInv'
<1> SUFFICES ASSUME StatusInv, [Next]_vars PROVE StatusInv'
  OBVIOUS
<1>0. TypeOK /\ TypeOK'
  BY NextTypeOK DEF StatusInv
<1> USE DEF StatusInv, SoleWriter, BeginLeaves, ChunkingLeaves, ReadyLeaves,
            FailLeaves, NoStrandedPublish, OutcomeAgrees, StampMatchesStatus,
            StatusSteps
<1>1. CASE OpenStatus
  BY <1>0, <1>1 DEF OpenStatus, Exists, course, run
<1>2. CASE ListLessons
  <2>1. \/ wf' = wf /\ step' = "chunk"
        \/ wf' = wf /\ step' = "ready" /\ isFirst
        \/ wf' = "completed" /\ ~isFirst
    BY <1>2 DEF ListLessons
  <2>. QED
    BY <1>0, <1>2, <2>1 DEF ListLessons, Exists, course, read
<1>3. CASE OpenChunk
  BY <1>0, <1>3 DEF OpenChunk, Exists, course, run
<1>4. CASE CommitStatus
  <2>1. CASE step = "begin"
    BY <1>0, <1>4, <2>1 DEF CommitStatus, StatusEffect, BeginEffect, WriteStatus,
                            Exists, run, read
  <2>2. CASE step = "ready"
    BY <1>0, <1>4, <2>2 DEF CommitStatus, StatusEffect, ReadyEffect, WriteStatus,
                            Exists, run, read
  <2>3. CASE step = "fail"
    BY <1>0, <1>4, <2>3 DEF CommitStatus, StatusEffect, FailEffect, WriteStatus,
                            Exists, run, read
  <2>. QED
    BY <1>4, <2>1, <2>2, <2>3 DEF CommitStatus, StatusEffect
<1>5. CASE CommitChunk
  BY <1>0, <1>5 DEF CommitChunk, Exists, course, run, read
<1>6. CASE Report
  <2>1. CASE ReportBegin
    BY <1>0, <1>6, <2>1 DEF Report, ReportBegin, Exists, course, read, TypeOK
  <2>2. CASE ReportChunk
    BY <1>0, <1>6, <2>2 DEF Report, ReportChunk, Exists, course, read
  <2>3. CASE ReportLast
    BY <1>0, <1>6, <2>3 DEF Report, ReportLast, Exists, course, read
  <2>. QED
    BY <1>6, <2>1, <2>2, <2>3 DEF Report
<1>7. CASE AttemptLost
  BY <1>0, <1>7 DEF AttemptLost, ChunkGivenUp, Exists, course, read, TypeOK
<1>8. CASE \E p \in Publishers : CheckPublish(p) \/ StartWorkflow(p)
  BY <1>0, <1>8 DEF CheckPublish, StartWorkflow, Exists, course, run, read
<1>9. CASE \E e \in Editors : CheckEdit(e) \/ CommitEdit(e) \/ DropEdit(e)
  BY <1>0, <1>9 DEF CheckEdit, CommitEdit, DropEdit, Exists, course, run, read
<1>10. CASE DeleteCourse
  BY <1>0, <1>10 DEF DeleteCourse, Exists, run, read
<1>11. CASE UNCHANGED vars
  BY <1>0, <1>11 DEF vars, Exists, course, run, read
<1>. QED
  BY <1>1, <1>2, <1>3, <1>4, <1>5, <1>6, <1>7, <1>8, <1>9, <1>10, <1>11
     DEF Next, Workflow

(* The row and the run keep to StatusInv in every reachable state.         *)
LEMMA StatusInvariant == Spec => []StatusInv
  BY InitStatusInv, NextStatusInv, PTL DEF Spec

(* FR-13: whatever is retried, lost or deleted, a course on `publishing`   *)
(* has a run that is still going to settle it.                             *)
THEOREM NeverStranded == Spec => []NoStrandedPublish
<1>1. StatusInv => NoStrandedPublish
  BY DEF StatusInv
<1>. QED
  BY <1>1, StatusInvariant, PTL

(* What Temporal answers get_publish_status about the last publish and     *)
(* what the course's row says never contradict each other.                 *)
THEOREM OutcomesAgree == Spec => []OutcomeAgrees
<1>1. StatusInv => OutcomeAgrees
  BY DEF StatusInv
<1>. QED
  BY <1>1, StatusInvariant, PTL

(* A course has a published_at exactly when it is live, also after mark_ready *)
(* ran twice and after any number of republishes.                          *)
THEOREM StampMatches == Spec => []StampMatchesStatus
<1>1. StatusInv => StampMatchesStatus
  BY DEF StatusInv
<1>. QED
  BY <1>1, StatusInvariant, PTL

(***************************************************************************)
(* Publishing implements CourseLifecycle                                   *)
(***************************************************************************)
(* Two kinds of step write the course's row: the commit of an activity and *)
(* the deletion of the course.                                             *)
LEMMA OnlyTwoWriters ==
  [Next]_vars => CommitStatus \/ DeleteCourse \/ UNCHANGED course
  BY DEF Next, Workflow, vars, OpenStatus, ListLessons, OpenChunk, CommitChunk,
         Report, AttemptLost, CheckPublish, StartWorkflow, CheckEdit,
         CommitEdit, DropEdit

(* Each of them is a step of the life of a course: a retried begin_publish *)
(* or mark_failed and a restamping mark_ready change nothing it speaks of. *)
LEMMA LifecycleStep ==
  StatusInv /\ [Next]_vars => [Lifecycle!Next]_(Lifecycle!vars)
<1> SUFFICES ASSUME StatusInv, [Next]_vars
             PROVE  [Lifecycle!Next]_(Lifecycle!vars)
  OBVIOUS
<1> USE DEF Lifecycle!Next, Lifecycle!vars
<1>1. CASE CommitStatus
  <2> USE <1>1 DEF CommitStatus, StatusEffect, WriteStatus, Exists, StatusInv,
                   SoleWriter, StatusSteps, StampMatchesStatus
  <2>1. CASE step = "begin"
    BY <2>1 DEF BeginEffect, Lifecycle!Begin, TypeOK
  <2>2. CASE step = "ready"
    BY <2>2 DEF ReadyEffect, ReadyLeaves, Lifecycle!GoLive
  <2>3. CASE step = "fail"
    BY <2>3 DEF FailEffect, FailLeaves, Lifecycle!Fail
  <2>. QED
    BY <2>1, <2>2, <2>3
<1>2. CASE DeleteCourse
  BY <1>2 DEF DeleteCourse, Exists, Lifecycle!Delete
<1>3. CASE UNCHANGED course
  BY <1>3 DEF course
<1>. QED
  BY <1>1, <1>2, <1>3, OnlyTwoWriters

(* The two-store, retried and interleaved publishing keeps the promises of *)
(* the five-line life of a course.                                         *)
THEOREM ImplementsLifecycle == Spec => LifecycleSafety
<1>1. Init => Lifecycle!Init
  BY DEF Init, Lifecycle!Init
<1>. QED
  BY <1>1, LifecycleStep, StatusInvariant, PTL
     DEF Spec, LifecycleSafety, Lifecycle!Safety

(* A live course is never pulled from the catalogue by a publish.          *)
THEOREM NeverUnpublished == Spec => LiveStaysLive
<1>1. StatusInv /\ [Next]_vars
        => [status = "ready" => status' \in {"ready", "gone"}]_status
  <2>1. [Lifecycle!Next]_(Lifecycle!vars)
          => [status = "ready" => status' \in {"ready", "gone"}]_status
    BY DEF Lifecycle!Next, Lifecycle!vars, Lifecycle!Begin, Lifecycle!GoLive,
           Lifecycle!Fail, Lifecycle!Delete
  <2>. QED
    BY <2>1, LifecycleStep
<1>. QED
  BY <1>1, StatusInvariant, PTL DEF Spec, LiveStaysLive

(***************************************************************************)
(* The chunks of a published course                                        *)
(***************************************************************************)
(* What a run has chunked so far, where it is in the current lesson, and   *)
(* that nobody but an edit, which is in `touched`, comes in between.       *)
AllFreshBut(S) == \A l \in Lessons \ (touched \cup S) : Fresh(l)

OthersChunked == wf = "running" /\ step = "chunk" => AllFreshBut(todo)

CurrentRead ==
  wf = "running" /\ step = "chunk" /\ phase = "open" /\ cur \notin touched
    => seen = content[cur] /\ built = chunks[cur]

CurrentWritten ==
  wf = "running" /\ step = "chunk" /\ phase = "done" /\ cur \notin touched
    => Fresh(cur)

AllChunked ==
  (wf = "running" /\ step = "ready") \/ wf = "completed" => AllFreshBut({})

FreshInv ==
  TypeOK /\ OthersChunked /\ CurrentRead /\ CurrentWritten /\ AllChunked

(* Before the first run there is nothing a run could have claimed to have  *)
(* chunked.                                                                *)
LEMMA InitFreshInv == Init => FreshInv
  BY InitTypeOK DEF Init, FreshInv, OthersChunked, CurrentRead, CurrentWritten,
                    AllChunked

(* An edit takes what it writes out of the claim and leaves the rest.      *)
LEMMA EditsAreTouched ==
  ASSUME TypeOK,
         (\E l \in Lessons : WriteLesson(l))
           \/ (\E S \in SUBSET Lessons : RemoveLessons(S))
  PROVE  /\ touched \subseteq touched'
         /\ \A l \in Lessons \ touched' : /\ content'[l] = content[l]
                                         /\ chunks'[l] = chunks[l]
  BY DEF TypeOK, WriteLesson, RemoveLessons

(* Edits, single and cascading, keep the invariant: the claim is only about *)
(* lessons they leave alone.                                               *)
LEMMA EditPreservesFresh ==
  ASSUME FreshInv, TypeOK',
         (\E l \in Lessons : WriteLesson(l))
           \/ (\E S \in SUBSET Lessons : RemoveLessons(S)),
         UNCHANGED <<run, phase, read>>
  PROVE  FreshInv'
<1>1. /\ touched \subseteq touched'
      /\ \A l \in Lessons \ touched' : /\ content'[l] = content[l]
                                       /\ chunks'[l] = chunks[l]
  BY EditsAreTouched DEF FreshInv
<1>2. \A l \in Lessons \ touched' : Fresh(l) => Fresh(l)'
  BY <1>1 DEF Fresh, Present, Absent
<1>3. wf = "running" /\ step = "chunk" => cur \in Lessons
  BY DEF FreshInv, TypeOK
<1>. QED
  BY <1>1, <1>2, <1>3 DEF FreshInv, OthersChunked, CurrentRead, CurrentWritten,
                          AllChunked, AllFreshBut, run, read

(* Every step keeps it: what a run listed and is not waiting for has been  *)
(* chunked, whichever attempt of its activity did it.                      *)
LEMMA NextFreshInv == FreshInv /\ [Next]_vars => FreshInv'
<1> SUFFICES ASSUME FreshInv, [Next]_vars PROVE FreshInv'
  OBVIOUS
<1>0. TypeOK /\ TypeOK'
  BY NextTypeOK DEF FreshInv
<1> USE DEF FreshInv, OthersChunked, CurrentRead, CurrentWritten, AllChunked,
            AllFreshBut, Fresh, Present
<1>1. CASE OpenStatus
  BY <1>0, <1>1 DEF OpenStatus, course, run
<1>2. CASE ListLessons
  <2>1. wf' = "running" /\ step' = "chunk" => AllFreshBut(todo)'
    BY <1>2 DEF ListLessons
  <2>2. ~(wf' = "running" /\ step' = "chunk") => AllFreshBut({})'
    BY <1>2 DEF ListLessons
  <2>. QED
    BY <1>0, <1>2, <2>1, <2>2 DEF ListLessons, course, read
<1>3. CASE OpenChunk
  BY <1>0, <1>3 DEF OpenChunk, course, run
<1>4. CASE CommitStatus
  BY <1>0, <1>4 DEF CommitStatus, StatusEffect, run, read
<1>5. CASE CommitChunk
  <2>1. cur \in Lessons
    BY <1>5 DEF CommitChunk, TypeOK
  <2>2. cur \notin touched => Fresh(cur)'
    <3> SUFFICES ASSUME cur \notin touched PROVE Fresh(cur)'
      OBVIOUS
    <3>1. /\ seen = content[cur] /\ built = chunks[cur]
          /\ cur' = cur /\ content' = content
      BY <1>5 DEF CommitChunk, run
    <3>2. CASE seen \in Absent \cup {built}
      BY <1>5, <3>1, <3>2 DEF CommitChunk
    <3>3. CASE seen \notin Absent \cup {built}
      <4>1. chunks' = [chunks EXCEPT ![cur] = seen]
        BY <1>5, <3>3 DEF CommitChunk
      <4>. QED
        BY <1>0, <2>1, <3>1, <4>1 DEF TypeOK
    <3>. QED
      BY <3>2, <3>3
  <2>3. \A l \in Lessons \ {cur} : chunks'[l] = chunks[l]
    BY <1>0, <1>5 DEF CommitChunk, TypeOK
  <2>4. cur \in todo
    BY <1>5 DEF CommitChunk, TypeOK
  <2>. QED
    BY <1>0, <1>5, <2>2, <2>3, <2>4 DEF CommitChunk, course, run, read
<1>6. CASE Report
  <2>1. CASE ReportBegin
    BY <1>0, <1>6, <2>1 DEF Report, ReportBegin, course, read
  <2>2. CASE ReportChunk
    <3>1. AllFreshBut(todo \ {cur})
      BY <1>6, <2>2 DEF Report, ReportChunk
    <3>. QED
      BY <1>0, <1>6, <2>2, <3>1 DEF Report, ReportChunk, course, read
  <2>3. CASE ReportLast
    BY <1>0, <1>6, <2>3 DEF Report, ReportLast, course, read
  <2>. QED
    BY <1>6, <2>1, <2>2, <2>3 DEF Report
<1>7. CASE AttemptLost
  BY <1>0, <1>7 DEF AttemptLost, ChunkGivenUp, course, read
<1>8. CASE \E p \in Publishers : CheckPublish(p) \/ StartWorkflow(p)
  BY <1>0, <1>8 DEF CheckPublish, StartWorkflow, course, run, read
<1>9. CASE \E e \in Editors : CheckEdit(e) \/ DropEdit(e)
  BY <1>0, <1>9 DEF CheckEdit, DropEdit, course, run, read
<1>10. CASE \E e \in Editors : CommitEdit(e)
  BY <1>0, <1>10, EditPreservesFresh DEF CommitEdit
<1>11. CASE DeleteCourse
  BY <1>0, <1>11, EditPreservesFresh DEF DeleteCourse
<1>12. CASE UNCHANGED vars
  BY <1>0, <1>12 DEF vars, course, run, read
<1>. QED
  BY <1>1, <1>2, <1>3, <1>4, <1>5, <1>6, <1>7, <1>8, <1>9, <1>10, <1>11, <1>12
     DEF Next, Workflow

(* What a run has chunked stays chunked in every reachable state.          *)
LEMMA FreshInvariant == Spec => []FreshInv
  BY InitFreshInv, NextFreshInv, PTL DEF Spec

(* A publish that completed left every lesson nobody has edited since its  *)
(* listing with the chunks of its text, however often it was retried.      *)
THEOREM CompletedIsFresh == Spec => []CompletedMeansFresh
<1>1. FreshInv => CompletedMeansFresh
  BY DEF FreshInv, AllChunked, AllFreshBut, CompletedMeansFresh
<1>. QED
  BY <1>1, FreshInvariant, PTL

(* FR-12: a course goes live only once its lessons have been processed.    *)
THEOREM ReadyIsProcessed == Spec => ReadyMeansProcessed
<1>1. StatusInv /\ FreshInv /\ [Next]_vars
        => [status # "ready" /\ status' = "ready"
              => \A l \in Lessons \ touched : Fresh(l)]_status
  <2> SUFFICES ASSUME StatusInv, FreshInv, [Next]_vars,
                      status # "ready", status' = "ready"
               PROVE  AllFreshBut({})
    BY DEF AllFreshBut
  <2>1. CommitStatus
    BY OnlyTwoWriters DEF DeleteCourse, course
  <2>2. wf = "running" /\ step = "ready"
    BY <2>1 DEF CommitStatus, StatusEffect, BeginEffect, FailEffect, WriteStatus
  <2>. QED
    BY <2>2 DEF FreshInv, AllChunked
<1>. QED
  BY <1>1, StatusInvariant, FreshInvariant, PTL DEF Spec, ReadyMeansProcessed

(***************************************************************************)
(* Publishing with a status request                                        *)
(***************************************************************************)
(* A status request changes neither the course nor the run, so a behavior  *)
(* with one is a behavior of Publishing, and what is proved of it holds.   *)
LEMMA AskingChangesNothing == StatusSpec => Spec
<1>1. StatusInit => Init
  BY DEF StatusInit
<1>2. [StatusNext]_statusVars => [Next]_vars
  BY DEF StatusNext, statusVars, AssertPublishingAccess, Describe, Result,
         Return, Abandon
<1>. QED
  BY <1>1, <1>2, PTL DEF StatusSpec, Spec

(* get_publish_status, "on a running workflow this call blocks until it    *)
(* does": a request that waits has a run to wait for. It is never left     *)
(* behind by the run that closes, nor does it wait for one that has closed *)
(* between its two questions. While the course exists, a row that says     *)
(* `failed` is from before that run, or the run is about to close.         *)
RunToWaitFor ==
  ask = "waiting" =>
    /\ wf = "running"
    /\ Exists /\ status = "failed" => step \in {"begin", "fail"}

THEOREM WaitsForARun == StatusSpec => []RunToWaitFor
<1>1. StatusInit => (ask = "waiting" => wf = "running")
  BY DEF StatusInit
<1>2. (ask = "waiting" => wf = "running") /\ [StatusNext]_statusVars
        => (ask = "waiting" => wf = "running")'
  BY DEF StatusNext, statusVars, AssertPublishingAccess, Describe, Result,
         Return, Abandon, Closes, vars, run
<1>3. StatusInv /\ (ask = "waiting" => wf = "running") => RunToWaitFor
  BY DEF StatusInv, TypeOK, ChunkingLeaves, ReadyLeaves, RunToWaitFor
<1>. QED
  BY <1>1, <1>2, <1>3, AskingChangesNothing, StatusInvariant, PTL DEF StatusSpec

(***************************************************************************)
(* Publishing with attempts that outlive their timeout                     *)
(***************************************************************************)
(* With them NoStrandedPublish does not hold (publishing_late), nor need   *)
(* the chunks be those of the text (ReconcileLate). What follows says that *)
(* one activity alone strands a course, whatever the others come to write. *)

(* An attempt that lingers is a lost one to the workflow; what it commits  *)
(* is the status and its stamp, or chunks of its lesson, and nothing else. *)
LEMMA LateSteps ==
  ASSUME [LateNext]_lateVars
  PROVE  \/ [Next]_vars
         \/ \E z \in late : /\ z.activity # "chunk" /\ StatusEffect(z.activity, z.seen)
                             /\ UNCHANGED <<content, chunks, run, phase, read,
                                            request, edit, touched>>
         \/ \E z \in late : /\ chunks' \in LateChunks(z)
                             /\ UNCHANGED <<course, content, run, phase, read,
                                            request, edit, touched>>
<1>1. CASE TimeOut
  BY <1>1 DEF TimeOut, Next, Workflow
<1>2. CASE \E z \in late : CommitLate(z) \/ DropLate(z)
  BY <1>2 DEF CommitLate, DropLate
<1>3. CASE Next
  BY <1>3
<1>4. CASE UNCHANGED lateVars
  BY <1>4 DEF lateVars
<1>. QED
  BY <1>1, <1>2, <1>3, <1>4 DEF LateNext

(* No begin_publish lingers.                                               *)
NoLateBegin == \A z \in late : z.activity # "begin"

(* What keeps a course from being stranded when only the others do: they   *)
(* may overwrite what the run wrote, but not with `publishing`, so what    *)
(* the run takes for settled is.                                           *)
OtherWriters ==
  wf = "running" /\ phase = "open" /\ step \in StatusSteps
    => status \in {seen, "ready", "failed", "gone"} /\ seen # "gone"

SettledWhenLive ==
  /\ wf = "running" /\ step = "begin" /\ phase = "done" /\ seen = "ready"
       => status # "publishing"
  /\ wf = "running" /\ step \in {"list", "chunk"} /\ ~isFirst
       => status # "publishing"

SettledWhenDone ==
  wf = "running" /\ step \in {"ready", "fail"} /\ phase = "done"
    => status # "publishing"

LateInv ==
  TypeOK /\ OtherWriters /\ SettledWhenLive /\ SettledWhenDone /\ NoStrandedPublish

(* The steps of Publishing keep it, although the status is no longer only  *)
(* the run's to write.                                                     *)
LEMMA NextLateInv == LateInv /\ [Next]_vars => LateInv'
<1> SUFFICES ASSUME LateInv, [Next]_vars PROVE LateInv'
  OBVIOUS
<1>0. TypeOK /\ TypeOK'
  BY NextTypeOK DEF LateInv
<1> USE DEF LateInv, OtherWriters, SettledWhenLive, SettledWhenDone,
            NoStrandedPublish, StatusSteps
<1>1. CASE OpenStatus
  BY <1>0, <1>1 DEF OpenStatus, Exists, course, run
<1>2. CASE ListLessons
  <2>1. \/ wf' = wf /\ step' = "chunk"
        \/ wf' = wf /\ step' = "ready" /\ isFirst
        \/ wf' = "completed" /\ ~isFirst
    BY <1>2 DEF ListLessons
  <2>. QED
    BY <1>0, <1>2, <2>1 DEF ListLessons, course, read
<1>3. CASE OpenChunk
  BY <1>0, <1>3 DEF OpenChunk, course, run
<1>4. CASE CommitStatus
  <2>1. CASE step = "begin"
    BY <1>0, <1>4, <2>1 DEF CommitStatus, StatusEffect, BeginEffect, WriteStatus,
                            Exists, run, read
  <2>2. CASE step = "ready"
    BY <1>0, <1>4, <2>2 DEF CommitStatus, StatusEffect, ReadyEffect, WriteStatus,
                            Exists, run, read
  <2>3. CASE step = "fail"
    BY <1>0, <1>4, <2>3 DEF CommitStatus, StatusEffect, FailEffect, WriteStatus,
                            Exists, run, read
  <2>. QED
    BY <1>4, <2>1, <2>2, <2>3 DEF CommitStatus, StatusEffect
<1>5. CASE CommitChunk
  BY <1>0, <1>5 DEF CommitChunk, course, run, read
<1>6. CASE Report
  <2>1. CASE ReportBegin
    BY <1>0, <1>6, <2>1 DEF Report, ReportBegin, course, read, TypeOK
  <2>2. CASE ReportChunk
    BY <1>0, <1>6, <2>2 DEF Report, ReportChunk, course, read
  <2>3. CASE ReportLast
    BY <1>0, <1>6, <2>3 DEF Report, ReportLast, course, read
  <2>. QED
    BY <1>6, <2>1, <2>2, <2>3 DEF Report
<1>7. CASE AttemptLost
  BY <1>0, <1>7 DEF AttemptLost, ChunkGivenUp, course, read, TypeOK
<1>8. CASE \E p \in Publishers : CheckPublish(p) \/ StartWorkflow(p)
  BY <1>0, <1>8 DEF CheckPublish, StartWorkflow, course, run, read
<1>9. CASE \E e \in Editors : CheckEdit(e) \/ CommitEdit(e) \/ DropEdit(e)
  BY <1>0, <1>9 DEF CheckEdit, CommitEdit, DropEdit, course, run, read
<1>10. CASE DeleteCourse
  BY <1>0, <1>10 DEF DeleteCourse, Exists, run, read
<1>11. CASE UNCHANGED vars
  BY <1>0, <1>11 DEF vars, course, run, read
<1>. QED
  BY <1>1, <1>2, <1>3, <1>4, <1>5, <1>6, <1>7, <1>8, <1>9, <1>10, <1>11
     DEF Next, Workflow

(* A late mark_ready or mark_failed writes `ready`, `failed` or nothing,   *)
(* and a late chunk_one_lesson no status at all.                           *)
LEMMA LateInvStep == LateInv /\ NoLateBegin /\ [LateNext]_lateVars => LateInv'
<1> SUFFICES ASSUME LateInv, NoLateBegin, [LateNext]_lateVars PROVE LateInv'
  OBVIOUS
<1>1. CASE [Next]_vars
  BY <1>1, NextLateInv
<1>2. ASSUME NEW z \in late, StatusEffect(z.activity, z.seen),
             UNCHANGED <<content, chunks, run, phase, read, request, edit, touched>>
      PROVE  LateInv'
  <2>1. /\ status' \in {status, "ready", "failed"} /\ publishedAt' \in {publishedAt, "set"}
    BY <1>2 DEF NoLateBegin, StatusEffect, ReadyEffect, FailEffect, WriteStatus
  <2>2. TypeOK'
    BY <1>2, <2>1 DEF LateInv, TypeOK, run, read
  <2>. QED
    BY <1>2, <2>1, <2>2 DEF LateInv, OtherWriters, SettledWhenLive, SettledWhenDone,
                            NoStrandedPublish, run, read
<1>3. ASSUME NEW z \in late, chunks' \in LateChunks(z),
             UNCHANGED <<course, content, run, phase, read, request, edit, touched>>
      PROVE  LateInv'
  <2>1. chunks' \in [Lessons -> Texts \cup {"none"}]
    BY <1>3 DEF LateChunks, LateInv, TypeOK
  <2>2. TypeOK'
    BY <1>3, <2>1 DEF LateInv, TypeOK, course, run, read
  <2>. QED
    BY <1>3, <2>2 DEF LateInv, OtherWriters, SettledWhenLive, SettledWhenDone,
                      NoStrandedPublish, course, run, read
<1>. QED
  BY <1>1, <1>2, <1>3, LateSteps

(* FR-13, mark_failed, "never be left on `publishing` with nothing         *)
(* running": attempts of chunk_one_lesson, mark_ready and mark_failed may  *)
(* outlive their timeout, any number of times and as many at once as       *)
(* MaxLate says; it takes one of begin_publish to strand a course.         *)
THEOREM OnlyBeginStrands == LateSpec /\ []NoLateBegin => []NoStrandedPublish
<1>1. LateInit => LateInv
  BY InitTypeOK DEF LateInit, Init, LateInv, OtherWriters, SettledWhenLive,
                    SettledWhenDone, NoStrandedPublish
<1>2. LateInv => NoStrandedPublish
  BY DEF LateInv
<1>. QED
  BY <1>1, <1>2, LateInvStep, PTL DEF LateSpec
==============================================================================
