---------------------------- MODULE ReconcileLate ----------------------------
(***************************************************************************)
(* Reconcile where an attempt of chunk_one_lesson that Temporal has timed  *)
(* out is not dead: one lesson of a course that is published again and     *)
(* again, with the two SELECTs and the COMMIT of each attempt as steps of  *)
(* their own, and attempts of this run or an earlier one that commit late. *)
(* The lesson itself is not deleted; Publishing deletes lessons.           *)
(***************************************************************************)
EXTENDS Reconcile

CONSTANTS
  Attempts,      \* chunk_one_lesson transactions that may be open at once
  NoAttempt,     \* not one of them
  MaxAttempts    \* RetryPolicy(maximum_attempts=3)

ASSUME NoAttemptAssumption == NoAttempt \notin Attempts

VARIABLES
  run,      \* the last workflow run: "none", "running", "completed", "failed"
  tries,    \* attempts of chunk_one_lesson this run has started
  current,  \* the attempt Temporal waits for, or NoAttempt
  at,       \* per attempt: "idle", "started", "lesson", "chunks", "committed"
  text,     \* chunk_text of the content the attempt's first SELECT read
  found,    \* the rows its second SELECT read
  edited    \* history: the lesson was edited since the last list_lesson_ids

work == <<at, text, found>>
lateVars == <<vars, run, tries, current, work, edited>>

LateInit ==
  /\ Init
  /\ run = "none" /\ tries = 0 /\ current = NoAttempt
  /\ at = [a \in Attempts |-> "idle"]
  /\ text = [a \in Attempts |-> <<>>]
  /\ found = [a \in Attempts |-> {}]
  /\ edited = FALSE

Forget(a) ==
  /\ at' = [at EXCEPT ![a] = "idle"]
  /\ text' = [text EXCEPT ![a] = <<>>]
  /\ found' = [found EXCEPT ![a] = {}]

(***************************************************************************)
(* The workflow                                                            *)
(***************************************************************************)
(* A run begins, and list_lesson_ids reads that the lesson is there. The   *)
(* workflow id keeps a second run from starting beside it.                 *)
Publish ==
  /\ run # "running"
  /\ run' = "running" /\ tries' = 0 /\ edited' = FALSE
  /\ UNCHANGED <<vars, current, work>>

StartAttempt(a) ==
  /\ run = "running" /\ current = NoAttempt /\ at[a] = "idle"
  /\ tries < MaxAttempts
  /\ tries' = tries + 1
  /\ current' = a
  /\ at' = [at EXCEPT ![a] = "started"]
  /\ UNCHANGED <<vars, run, text, found, edited>>

(* Mutant: chunk_one_lesson returns without session.commit().              *)
ReportUncommitted ==
  /\ current # NoAttempt /\ at[current] \in {"chunks", "committed"}
  /\ Forget(current)
  /\ current' = NoAttempt
  /\ run' = "completed"
  /\ UNCHANGED <<vars, tries, edited>>

(* The count is recorded. The lesson is the last one of its course.        *)
Report ==
  /\ current # NoAttempt /\ at[current] = "committed"
  /\ Forget(current)
  /\ current' = NoAttempt
  /\ run' = "completed"
  /\ UNCHANGED <<vars, tries, edited>>

(* start_to_close_timeout, an exception or a lost worker: the attempt is   *)
(* no longer waited for. What it has open may still commit.                *)
TimeOut ==
  /\ current # NoAttempt
  /\ IF at[current] = "committed" THEN Forget(current) ELSE UNCHANGED work
  /\ current' = NoAttempt
  /\ UNCHANGED <<vars, run, tries, edited>>

(* This lesson or one before it has had its attempts: the run raises.      *)
GiveUp ==
  /\ run = "running" /\ current = NoAttempt
  /\ run' = "failed"
  /\ UNCHANGED <<vars, tries, current, work, edited>>

(***************************************************************************)
(* An attempt, waited for or not                                           *)
(***************************************************************************)
GetLesson(a) ==
  /\ at[a] = "started"
  /\ at' = [at EXCEPT ![a] = "lesson"]
  /\ text' = [text EXCEPT ![a] = pieces]
  /\ UNCHANGED <<vars, run, tries, current, found, edited>>

ExistingForLesson(a) ==
  /\ at[a] = "lesson"
  /\ at' = [at EXCEPT ![a] = "chunks"]
  /\ found' = [found EXCEPT ![a] = rows]
  /\ UNCHANGED <<vars, run, tries, current, text, edited>>

(* What the flush writes was decided on the rows that were found, and each *)
(* statement names a row by its id. A DELETE of a row that is gone deletes *)
(* nothing; an UPDATE of one writes nothing, or raises (the attempt then   *)
(* never commits). delete_for_lesson names the lesson: it deletes them all.*)
Deleted(a) == {r \in found[a] : r.hash \notin Range(text[a])}
Updated(a) == Moved(found[a], text[a]) \ found[a]
Ids(S) == {r.id : r \in S}

(* Mutant: the naive version of chunk_lesson's docstring, which deletes    *)
(* every chunk and inserts the new ones.                                   *)
FlushedNaively(a) ==
  {[id |-> nextId + i - 1, hash |-> text[a][i], position |-> i - 1] :
     i \in DOMAIN text[a]}

Flushed(a) ==
  IF text[a] = <<>>
  THEN {}
  ELSE {r \in rows : r.id \notin Ids(Deleted(a) \cup Updated(a))}
         \cup {r \in Updated(a) : r.id \in Ids(rows)}
         \cup Inserted(found[a], text[a], nextId)

Commit(a) ==
  LET inserted == Cardinality(Inserted(found[a], text[a], nextId))
  IN /\ at[a] = "chunks"
     /\ nextId + inserted <= MaxIds + 1
     /\ PositionsUnique(Flushed(a))
     /\ rows' = Flushed(a)
     /\ nextId' = nextId + inserted
     /\ done' = text[a]
     /\ IF a = current
        THEN /\ at' = [at EXCEPT ![a] = "committed"]
             /\ UNCHANGED <<text, found>>
        ELSE Forget(a)
     /\ UNCHANGED <<pieces, run, tries, current, edited>>

(* An attempt nobody waits for is lost after all, or was refused.          *)
Die(a) ==
  /\ a # current /\ at[a] # "idle"
  /\ Forget(a)
  /\ UNCHANGED <<vars, run, tries, current, edited>>

EditLesson ==
  /\ UpdateLesson
  /\ edited' = TRUE
  /\ UNCHANGED <<run, tries, current, work>>

(***************************************************************************)
(* All that can happen, and what happens when no attempt goes astray       *)
(***************************************************************************)
Elsewhere ==
  \/ Publish \/ Report \/ TimeOut \/ GiveUp \/ EditLesson
  \/ \E a \in Attempts :
       StartAttempt(a) \/ GetLesson(a) \/ ExistingForLesson(a) \/ Die(a)

LateNext == Elsewhere \/ \E a \in Attempts : Commit(a)
LateSpec == LateInit /\ [][LateNext]_lateVars

(* The last commit was of the same text, or there was none since the rows  *)
(* were read, and an attempt nobody waits for has the text of now. What    *)
(* goes astray otherwise is an attempt that lingers across an edit.        *)
InStep(a) ==
  \/ done = text[a]
  \/ rows = found[a] /\ (a = current \/ text[a] = pieces)

InStepNext == Elsewhere \/ \E a \in Attempts : InStep(a) /\ Commit(a)
InStepSpec == LateInit /\ [][InStepNext]_lateVars

(***************************************************************************)
(* Properties                                                              *)
(***************************************************************************)
LateTypeOK ==
  /\ TypeOK
  /\ run \in {"none", "running", "completed", "failed"}
  /\ tries \in Nat
  /\ current \in Attempts \cup {NoAttempt}
  /\ at \in [Attempts -> {"idle", "started", "lesson", "chunks", "committed"}]
  /\ \A a \in Attempts : /\ text[a] \in Pieces \cup {<<>>}
                         /\ \A r \in found[a] : r.id \in 1 .. nextId - 1
                         /\ at[a] = "committed" => a = current
  /\ current # NoAttempt => run = "running" /\ at[current] # "idle"
  /\ edited \in BOOLEAN

(* list_lesson_ids, "a publish processes the course as it was when it      *)
(* started": unless the lesson was edited since, a run that completed      *)
(* leaves the chunks of the text the lesson has, whatever attempts of it   *)
(* and of earlier runs overlapped and came late, as long as none went      *)
(* astray.                                                                 *)
ChunksAreCurrent ==
  run = "completed" /\ ~edited => done = pieces /\ RowsAreThePieces
==============================================================================
