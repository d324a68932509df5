---------------------------- MODULE PublishingLate ----------------------------
(***************************************************************************)
(* Publishing where an attempt that Temporal has timed out is not dead.    *)
(* start_to_close_timeout is kept by the Temporal server. A worker that is *)
(* paused or cut off inside an activity's transaction does not hear of it, *)
(* and when it goes on, that transaction may commit after the retry has.   *)
(* Every activity that writes may linger; list_lesson_ids only reads.      *)
(***************************************************************************)
EXTENDS Publishing, FiniteSets

CONSTANT MaxLate   \* bound: how many different attempts linger at once

VARIABLE late      \* timed-out attempts whose transaction is still open

lateVars == <<vars, late>>

LateInit == Init /\ late = {}

(* Temporal gives up waiting: the activity is tried again, or, of a lesson *)
(* that has had its attempts, given up.                                    *)
TimeOut ==
  /\ phase = "open" /\ step \in {"begin", "ready", "fail", "chunk"}
  /\ Cardinality(late) < MaxLate
  /\ late' = late \cup {[activity |-> step, seen |-> seen, lesson |-> cur]}
  /\ AttemptLost

(* What a late chunk_one_lesson leaves of the lesson's chunks depends on   *)
(* the rows it read and those it finds, which ReconcileLate follows. Here  *)
(* it may leave any text's. A lesson that is gone keeps none.              *)
LateChunks(z) ==
  IF z.seen \in Absent \/ ~Present(z.lesson)
  THEN {chunks}
  ELSE {[chunks EXCEPT ![z.lesson] = t] : t \in Texts \cup {"none"}}

(* The lingering transaction commits; its report is no longer wanted. The  *)
(* UPDATE of a status names the row's id and nothing else.                 *)
CommitLate(z) ==
  /\ \/ z.activity # "chunk" /\ StatusEffect(z.activity, z.seen) /\ UNCHANGED chunks
     \/ z.activity = "chunk" /\ chunks' \in LateChunks(z) /\ UNCHANGED course
  /\ late' = late \ {z}
  /\ UNCHANGED <<content, run, phase, read, request, edit, touched>>

(* Or it is lost after all.                                                *)
DropLate(z) == late' = late \ {z} /\ UNCHANGED vars

LateNext ==
  \/ Next /\ UNCHANGED late
  \/ TimeOut
  \/ \E z \in late : CommitLate(z) \/ DropLate(z)

LateSpec == LateInit /\ [][LateNext]_lateVars
==============================================================================
