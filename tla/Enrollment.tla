------------------------------ MODULE Enrollment ------------------------------
(***************************************************************************)
(* Joining and leaving one course: the enrollment rows, the FOR UPDATE     *)
(* lock on the course's row, and requests that each run the statements of  *)
(* services/enrollment.py in one READ COMMITTED transaction, interleaved   *)
(* with each other and with the instructor who changes or deletes the      *)
(* course. A flush and the COMMIT after it are one step: the unique index  *)
(* and the foreign key make everybody else wait from one to the other.     *)
(***************************************************************************)
EXTENDS Naturals, Sequences, FiniteSets

CONSTANTS
  Students,
  Requests,     \* concurrent enroll and withdraw requests
  Capacities,   \* what a PATCH may set courses.capacity to
  NoLimit,      \* courses.capacity IS NULL
  Completers,   \* students with completed enrollments in all prerequisites
  MaxRows       \* bound: enrollments a run of the model may insert

ASSUME CapacityAssumption == Capacities \subseteq Nat \ {0} /\ NoLimit \notin Nat
ASSUME PeopleAssumption ==
  Completers \subseteq Students /\ IsFiniteSet(Students) /\ MaxRows \in Nat
ASSUME RequestsAssumption == "none" \notin Requests \cup Students

VARIABLES
  live,       \* the course: "draft" (not visible yet), "ready" or "gone"
  capacity,   \* courses.capacity
  gated,      \* course_prerequisites has rows for the course
  offered,    \* history: every value courses.capacity has had
  everOpen,   \* history: the course has been without prerequisites
  rows,       \* the enrollments, in order of insertion; a row's id is its index
  lock,       \* the request that holds the course's row FOR UPDATE, or "none"
  req         \* each request: where it is, for whom, and what it has read

courseVars == <<live, capacity, gated, offered, everOpen>>
vars == <<courseVars, rows, lock, req>>

Idle == [pc |-> "idle", student |-> "none", capacity |-> NoLimit, row |-> 0]

ActiveRows == {i \in DOMAIN rows : rows[i].status = "active"}
ActiveRowsOf(s) == {i \in ActiveRows : rows[i].student = s}
CountActive == Cardinality(ActiveRows)

Init ==
  /\ live = "draft"
  /\ capacity \in Capacities \cup {NoLimit}
  /\ gated \in BOOLEAN
  /\ offered = {capacity} /\ everOpen = ~gated
  /\ rows = <<>>
  /\ lock = "none"
  /\ req = [q \in Requests |-> Idle]

At(q, pc) == req[q].pc = pc
MoveTo(q, pc) == req' = [req EXCEPT ![q].pc = pc]
Finish(q) ==
  /\ req' = [req EXCEPT ![q] = Idle]
  /\ lock' = IF lock = q THEN "none" ELSE lock

(***************************************************************************)
(* enroll, statement by statement                                          *)
(***************************************************************************)
(* The session keeps this Course object, and with it this capacity.        *)
FindCourse(q, s) ==
  /\ At(q, "idle") /\ live = "ready"
  /\ req' = [req EXCEPT ![q] = [pc |-> "found", student |-> s,
                                capacity |-> capacity, row |-> 0]]
  /\ UNCHANGED <<courseVars, rows, lock>>

AssertNotEnrolled(q) ==
  /\ At(q, "found") /\ ActiveRowsOf(req[q].student) = {}
  /\ MoveTo(q, "new")
  /\ UNCHANGED <<courseVars, rows, lock>>

(* Mutant: completed_course_ids forgets whose enrollments it reads.        *)
PrerequisitesMetByAnyone(q) ==
  /\ At(q, "new") /\ (gated => Completers # {})
  /\ MoveTo(q, "qualified")
  /\ UNCHANGED <<courseVars, rows, lock>>

AssertPrerequisitesMet(q) ==
  /\ At(q, "new") /\ (gated => req[q].student \in Completers)
  /\ MoveTo(q, "qualified")
  /\ UNCHANGED <<courseVars, rows, lock>>

(* Mutant: session.get() answers from the identity map and takes no lock.  *)
LockNothing(q) ==
  /\ At(q, "qualified") /\ req[q].capacity # NoLimit
  /\ MoveTo(q, "locked")
  /\ UNCHANGED <<courseVars, rows, lock>>

(* No lock without a limit. The row it returns is the session's old object.*)
LockCourse(q) ==
  /\ At(q, "qualified") /\ req[q].capacity # NoLimit
  /\ lock = "none" /\ live # "gone"
  /\ lock' = q
  /\ MoveTo(q, "locked")
  /\ UNCHANGED <<courseVars, rows>>

(* Mutant: taken > capacity instead of >=.                                 *)
SeatAvailableOneMore(q) ==
  /\ At(q, "locked") /\ CountActive <= req[q].capacity
  /\ MoveTo(q, "seated")
  /\ UNCHANGED <<courseVars, rows, lock>>

AssertSeatAvailable(q) ==
  /\ At(q, "locked") /\ CountActive < req[q].capacity
  /\ MoveTo(q, "seated")
  /\ UNCHANGED <<courseVars, rows, lock>>

(* Mutant: no uq_enrollments_one_active.                                   *)
NoUniqueIndex(s) == TRUE

(* The partial unique index allows one active row.                         *)
UniqueActive(s) == ActiveRowsOf(s) = {}

(* Mutant: inserting does not lock the row it refers to.                   *)
ForeignKeyUnlocked(q) == live # "gone"

(* The foreign key takes FOR KEY SHARE on the course, which waits for a    *)
(* FOR UPDATE of another request.                                          *)
ForeignKey(q) == live # "gone" /\ lock \in {"none", q}

InsertEnrollment(q) ==
  /\ At(q, "seated") \/ (At(q, "qualified") /\ req[q].capacity = NoLimit)
  /\ ForeignKey(q) /\ UniqueActive(req[q].student)
  /\ Len(rows) < MaxRows
  /\ rows' = Append(rows, [student |-> req[q].student, status |-> "active"])
  /\ Finish(q)
  /\ UNCHANGED courseVars

(***************************************************************************)
(* withdraw: find the active row, then UPDATE it by its id                 *)
(***************************************************************************)
FindEnrollment(q, s) ==
  /\ At(q, "idle")
  /\ \E i \in ActiveRowsOf(s) :
       req' = [req EXCEPT ![q] = [pc |-> "leaving", student |-> s,
                                  capacity |-> NoLimit, row |-> i]]
  /\ UNCHANGED <<courseVars, rows, lock>>

(* Mutant: a status the column does not know.                              *)
WithdrawAsLeft(q) ==
  /\ At(q, "leaving")
  /\ rows' = [rows EXCEPT ![req[q].row].status = "left"]
  /\ Finish(q)
  /\ UNCHANGED courseVars

Withdraw(q) ==
  /\ At(q, "leaving")
  /\ rows' = [rows EXCEPT ![req[q].row].status = "withdrawn"]
  /\ Finish(q)
  /\ UNCHANGED courseVars

(* Any refusal, constraint violation or lost connection: a rollback.       *)
Rollback(q) ==
  /\ ~At(q, "idle")
  /\ Finish(q)
  /\ UNCHANGED <<courseVars, rows>>

Student(q) ==
  \/ \E s \in Students : FindCourse(q, s) \/ FindEnrollment(q, s)
  \/ AssertNotEnrolled(q) \/ AssertPrerequisitesMet(q)
  \/ LockCourse(q) \/ AssertSeatAvailable(q) \/ InsertEnrollment(q)
  \/ Withdraw(q) \/ Rollback(q)

(***************************************************************************)
(* The course: published (module Publishing), patched, deleted. An UPDATE  *)
(* or DELETE of its row waits for the lock; ON DELETE RESTRICT refuses to  *)
(* delete a course with enrollments of any status.                         *)
(***************************************************************************)
GoLive ==
  /\ live = "draft" /\ lock = "none"
  /\ live' = "ready"
  /\ UNCHANGED <<capacity, gated, offered, everOpen, rows, lock, req>>

(* A PATCH cannot send "no limit": null means the field was not mentioned.  *)
PatchCapacity ==
  /\ live # "gone" /\ lock = "none"
  /\ capacity' \in Capacities
  /\ offered' = offered \cup {capacity'}
  /\ UNCHANGED <<live, gated, everOpen, rows, lock, req>>

(* New prerequisite rows refer to the course's row; clearing them does not.*)
SetPrerequisites ==
  /\ live # "gone"
  /\ gated' \in BOOLEAN /\ (gated' => lock = "none")
  /\ everOpen' = (everOpen \/ ~gated')
  /\ UNCHANGED <<live, capacity, offered, rows, lock, req>>

(* Mutant: no ON DELETE RESTRICT.                                          *)
DeleteUnrestricted ==
  /\ live # "gone" /\ lock = "none"
  /\ live' = "gone"
  /\ UNCHANGED <<capacity, gated, offered, everOpen, rows, lock, req>>

DeleteCourse ==
  /\ live # "gone" /\ lock = "none" /\ rows = <<>>
  /\ live' = "gone"
  /\ UNCHANGED <<capacity, gated, offered, everOpen, rows, lock, req>>

Next ==
  \/ \E q \in Requests : Student(q)
  \/ GoLive \/ PatchCapacity \/ SetPrerequisites \/ DeleteCourse

Spec == Init /\ [][Next]_vars

(***************************************************************************)
(* Properties                                                              *)
(***************************************************************************)
Request ==
  [pc : {"idle", "found", "new", "qualified", "locked", "seated", "leaving"},
   student : Students \cup {"none"},
   capacity : Capacities \cup {NoLimit},
   row : 0 .. MaxRows]

TypeOK ==
  /\ live \in {"draft", "ready", "gone"}
  /\ capacity \in Capacities \cup {NoLimit}
  /\ gated \in BOOLEAN
  /\ offered \in SUBSET (Capacities \cup {NoLimit}) /\ capacity \in offered
  /\ everOpen \in BOOLEAN
  /\ rows \in Seq([student : Students, status : {"active", "withdrawn"}])
  /\ Len(rows) <= MaxRows
  /\ lock \in Requests \cup {"none"}
  /\ req \in [Requests -> Request]

(* FR-06, uq_enrollments_one_active: two requests of one student that both *)
(* pass get_active leave one active enrollment, also when the student left *)
(* and came back in between.                                               *)
OneActiveEach == \A s \in Students : Cardinality(ActiveRowsOf(s)) <= 1

(* ON DELETE RESTRICT and the foreign key: no order of an enrollment and   *)
(* the deletion of its course leaves an enrollment in no course.           *)
NoOrphanRows == live = "gone" => rows = <<>>

(* FR-07, lock_course: no order of joining, leaving and patching fills more *)
(* places than the course has offered at some time; as many as it has,     *)
(* then, while nobody changes the limit.                                   *)
SeatsRespected ==
  NoLimit \in offered \/ \E c \in offered : CountActive <= c

(* FR-08: nobody got into a course that always had prerequisites without   *)
(* having completed them, also if that took waiting for the lock.          *)
OnlyQualifiedJoined ==
  ~everOpen => \A i \in DOMAIN rows : rows[i].student \in Completers

(* lock_course, "made to read the truth": the count taken under the lock   *)
(* still bounds the active rows when its request inserts, also against     *)
(* requests that read no limit and therefore take no lock.                 *)
CountStaysTrue ==
  \A q \in Requests : At(q, "seated") => CountActive < req[q].capacity

(* FR-06, FR-07 and FR-10 as one atomic booking, implemented by all this,  *)
(* whatever its requests read how long ago.                                *)
Members == {s \in Students : ActiveRowsOf(s) # {}}
Booking == INSTANCE SeatBooking WITH members <- Members
ImplementsBooking == Booking!Spec

(* repositories/enrollment.py, lock_course, "made to read the truth": who  *)
(* joins under the lock stays within the limit the course has by then.     *)
LockedJoinsWithinCapacity ==
  [][\A q \in Requests :
       lock = q /\ Len(rows') > Len(rows) => CountActive < capacity]_rows
==============================================================================
