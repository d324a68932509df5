--------------------------- MODULE CourseLifecycle ---------------------------
(***************************************************************************)
(* What the API promises about the life of one course, with no workflow,   *)
(* no retries and no transactions: a course is published at most from a    *)
(* closed state, a publish that starts ends, and a course that is live     *)
(* stays live until it is deleted.                                         *)
(***************************************************************************)
VARIABLES
  status,   \* courses.status, or "gone" once the row is deleted
  stamped   \* courses.published_at is not null

vars == <<status, stamped>>

Init == status = "draft" /\ stamped = FALSE

(* A first publish, or another try after a failed one, becomes visible.    *)
Begin ==
  /\ status \in {"draft", "failed"}
  /\ status' = "publishing"
  /\ UNCHANGED stamped

GoLive ==
  /\ status = "publishing"
  /\ status' = "ready"
  /\ stamped' = TRUE

Fail ==
  /\ status = "publishing"
  /\ status' = "failed"
  /\ UNCHANGED stamped

Delete ==
  /\ status # "gone"
  /\ status' = "gone"
  /\ UNCHANGED stamped

Next == Begin \/ GoLive \/ Fail \/ Delete

Safety == Init /\ [][Next]_vars

(* A publish in progress is not left in progress.                          *)
Spec == Safety /\ WF_vars(GoLive \/ Fail)
==============================================================================
