----------------------------- MODULE PublishStatus -----------------------------
(***************************************************************************)
(* Publishing together with a GET /courses/{id}/publish/status, which asks *)
(* the row first and Temporal afterwards, twice: for the last run, and, if *)
(* that has completed, for a result. The second question names no run, so  *)
(* Temporal answers it for the run that is the last by then, and when that *)
(* one is open the request waits for it.                                   *)
(***************************************************************************)
EXTENDS Publishing

VARIABLE ask  \* the request: "none", or what it does next

statusVars == <<vars, ask>>

StatusInit == Init /\ ask = "none"

(* assert_publishing_access: a course with a row, in whatever status.      *)
AssertPublishingAccess ==
  /\ ask = "none" /\ Exists
  /\ ask' = "describe"
  /\ UNCHANGED vars

(* NOT_FOUND is an answer: never published, or the history has aged out.   *)
Describe ==
  /\ ask = "describe"
  /\ ask' = IF wf = "completed" THEN "result" ELSE "none"
  /\ UNCHANGED vars

Result ==
  /\ ask = "result"
  /\ ask' = IF wf = "running" THEN "waiting" ELSE "none"
  /\ UNCHANGED vars

(* The run it waited for has closed, whichever way, and whatever has been  *)
(* started since.                                                          *)
Return == ask = "told" /\ ask' = "none" /\ UNCHANGED vars

(* Any error, a lost client or an aged history.                            *)
Abandon == ask # "none" /\ ask' = "none" /\ UNCHANGED vars

Closes == wf = "running" /\ wf' # "running"

StatusNext ==
  \/ Next /\ ask' = IF ask = "waiting" /\ Closes THEN "told" ELSE ask
  \/ AssertPublishingAccess \/ Describe \/ Result \/ Return \/ Abandon

(* The API goes on with a request as long as it has not to wait.           *)
StatusSpec ==
  /\ StatusInit /\ [][StatusNext]_statusVars
  /\ Fairness
  /\ WF_statusVars(Describe \/ Result \/ Return)

(***************************************************************************)
(* Property                                                                *)
(***************************************************************************)
(* get_publish_status, "on a running workflow this call blocks until it    *)
(* does": also when it has to wait for a publish that began after it asked, *)
(* a status request ends, by itself, unless the course is deleted under    *)
(* that publish.                                                           *)
StatusAnswered == (ask # "none") ~> (ask = "none" \/ ~Exists)
==============================================================================
