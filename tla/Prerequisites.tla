---------------------------- MODULE Prerequisites ----------------------------
(***************************************************************************)
(* The prerequisite graph: PATCH /courses/{id} with prerequisite_ids, each *)
(* request one READ COMMITTED transaction that reads (the checks), deletes *)
(* the course's rows and inserts the wanted ones; and the deletion of      *)
(* courses.                                                                *)
(***************************************************************************)
EXTENDS Naturals, FiniteSets

CONSTANTS Courses, Requests

VARIABLES
  exists,    \* courses with a row
  requires,  \* course_prerequisites: <<course, its prerequisite>>
  req        \* each request: where it is, its course, the wanted set, the rows
             \* its DELETE statement saw, and, a history, whether no other has
             \* committed since its checks

vars == <<exists, requires, req>>

PrerequisiteIds(c) == {p \in Courses : <<c, p>> \in requires}
RequiredBy(c) == {d \in Courses : <<d, c>> \in requires}
Links(c, ids) == {c} \X ids

Idle == [pc |-> "idle", course |-> "none", wanted |-> {}, saw |-> {},
         alone |-> TRUE]
At(q, pc) == req[q].pc = pc

Init ==
  /\ exists = Courses
  /\ requires = {}
  /\ req = [q \in Requests |-> Idle]

(* Mutant: the table read from the wrong side.                             *)
ConflictsMirrored(c, ids) == ids \cap PrerequisiteIds(c)

(* One hop: those that already require c.                                  *)
Conflicts(c, ids) == ids \cap RequiredBy(c)

(* The three refusals of _set_prerequisites, all of them before any write. *)
(* Whose course it is and its status, checked before them, do not matter   *)
(* here: any course may be one that its instructor may edit.               *)
CheckPrerequisites(q, c, ids) ==
  /\ At(q, "idle")
  /\ c \in exists
  /\ c \notin ids
  /\ ids \subseteq exists
  /\ Conflicts(c, ids) = {}
  /\ req' = [req EXCEPT ![q] = [pc |-> "checked", course |-> c,
                                wanted |-> ids, saw |-> {}, alone |-> TRUE]]
  /\ UNCHANGED <<exists, requires>>

(* The DELETE sees the rows committed when it starts. If another request   *)
(* is deleting them it waits, and then finds them dead; rows that request  *)
(* has inserted are not in its snapshot.                                   *)
DeleteLinks(q) ==
  /\ At(q, "checked")
  /\ req' = [req EXCEPT ![q] =
                [@ EXCEPT !.pc = "deleted",
                          !.saw = Links(req[q].course,
                                        PrerequisiteIds(req[q].course))]]
  /\ UNCHANGED <<exists, requires>>

(* Flush and COMMIT: the primary key refuses a link that is there, the     *)
(* foreign keys one whose courses are not.                                 *)
InsertLinks(q) ==
  LET links == Links(req[q].course, req[q].wanted) IN
  /\ At(q, "deleted")
  /\ links \cap (requires \ req[q].saw) = {}
  /\ req[q].wanted \subseteq exists /\ (links # {} => req[q].course \in exists)
  /\ requires' = (requires \ req[q].saw) \cup links
  /\ req' = [r \in Requests |->
               IF r = q THEN Idle
               ELSE [req[r] EXCEPT !.saw = @ \ req[q].saw,
                                   !.alone = At(r, "idle")]]
  /\ UNCHANGED exists

(* Mutant: the session of a refused request is not reset.                  *)
RollbackStuck(q) ==
  /\ ~At(q, "idle")
  /\ req' = [req EXCEPT ![q].pc = "failed"]
  /\ UNCHANGED <<exists, requires>>

Rollback(q) ==
  /\ ~At(q, "idle")
  /\ req' = [req EXCEPT ![q] = Idle]
  /\ UNCHANGED <<exists, requires>>

(* Mutant: no ON DELETE RESTRICT on the required course.                   *)
DeleteRequired(c) ==
  /\ c \in exists
  /\ exists' = exists \ {c}
  /\ requires' = requires \ Links(c, Courses)
  /\ UNCHANGED req

(* RESTRICT for a course others require, CASCADE for its own requirements. *)
DeleteCourse(c) ==
  /\ c \in exists /\ RequiredBy(c) = {}
  /\ exists' = exists \ {c}
  /\ requires' = requires \ Links(c, Courses)
  /\ UNCHANGED req

Next ==
  \/ \E q \in Requests :
       \/ \E c \in Courses, ids \in SUBSET Courses : CheckPrerequisites(q, c, ids)
       \/ DeleteLinks(q) \/ InsertLinks(q) \/ Rollback(q)
  \/ \E c \in Courses : DeleteCourse(c)

Spec == Init /\ [][Next]_vars

(***************************************************************************)
(* Properties                                                              *)
(***************************************************************************)
TypeOK ==
  /\ exists \in SUBSET Courses
  /\ requires \in SUBSET (Courses \X Courses)
  /\ req \in [Requests -> [pc : {"idle", "checked", "deleted"},
                           course : Courses \cup {"none"},
                           wanted : SUBSET Courses,
                           saw : SUBSET (Courses \X Courses),
                           alone : BOOLEAN]]

(* The RESTRICT and CASCADE keys: no order of edits and deletions leaves a *)
(* requirement of, or on, a course that is gone.                           *)
NoDanglingLink == requires \subseteq exists \X exists

(* replace_prerequisites, _set_prerequisites: a request that no other      *)
(* overtook between its checks and its commit leaves the list it was sent, *)
(* and nobody on that list requires its course, whatever was deleted       *)
(* meanwhile.                                                              *)
RunsAsIfAlone ==
  [][\A q \in Requests, c \in Courses :
       /\ At(q, "deleted") /\ req[q].course = c /\ req[q].alone
       /\ requires' # requires /\ req'[q] = Idle
       => /\ PrerequisiteIds(c)' = req[q].wanted
          /\ req[q].wanted \cap RequiredBy(c)' = {}]_vars
==============================================================================
