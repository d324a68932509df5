---------------------------- MODULE EnrollmentProofs ----------------------------
(***************************************************************************)
(* Enrollment, proved for any students, requests and capacities. MaxRows   *)
(* is any number: no bound on the rows is used but that there is one.      *)
(***************************************************************************)
EXTENDS Enrollment, FiniteSetTheorems, SequenceTheorems, TLAPS

EnrollmentRow == [student : Students, status : {"active", "withdrawn"}]

Joining == {"found", "new", "qualified", "locked", "seated"}
Holding == {"locked", "seated"}

(***************************************************************************)
(* Types                                                                   *)
(***************************************************************************)
(* What a request has read is there: a student and, on the way out, a row. *)
ReadInv == \A q \in Requests :
  /\ req[q].pc \in Joining => req[q].student \in Students
  /\ req[q].pc = "leaving" => req[q].row \in 1 .. Len(rows)

(* One request's record is replaced, and the lock is somebody's or free.   *)
LEMMA IdleIsARequest == Idle \in Request
  BY PeopleAssumption DEF Idle, Request

(* However a request ends, it is idle again and the lock is free or        *)
(* another's.                                                              *)
LEMMA FinishTyped ==
  ASSUME TypeOK, NEW q \in Requests, Finish(q)
  PROVE  req' \in [Requests -> Request] /\ lock' \in Requests \cup {"none"}
  BY IdleIsARequest DEF Finish, TypeOK

(* An insertion appends one active row, a withdrawal withdraws one row.    *)
LEMMA Inserts ==
  ASSUME TypeOK, ReadInv, NEW q \in Requests, InsertEnrollment(q)
  PROVE  /\ rows' \in Seq(EnrollmentRow) /\ Len(rows') = Len(rows) + 1
         /\ Len(rows') <= MaxRows /\ Len(rows) \in Nat
         /\ \A i \in 1 .. Len(rows) : rows'[i] = rows[i]
         /\ rows'[Len(rows) + 1] = [student |-> req[q].student, status |-> "active"]
<1>1. req[q].student \in Students
  BY DEF InsertEnrollment, At, ReadInv, Joining
<1>2. [student |-> req[q].student, status |-> "active"] \in EnrollmentRow
  BY <1>1 DEF EnrollmentRow
<1> QED BY <1>2, PeopleAssumption DEF TypeOK, InsertEnrollment, EnrollmentRow

(* A withdrawal writes the status of one row and nothing else.             *)
LEMMA Withdraws ==
  ASSUME TypeOK, ReadInv, NEW q \in Requests, Withdraw(q)
  PROVE  /\ rows' \in Seq(EnrollmentRow) /\ Len(rows') = Len(rows)
         /\ req[q].row \in 1 .. Len(rows)
         /\ \A i \in 1 .. Len(rows) \ {req[q].row} : rows'[i] = rows[i]
         /\ rows'[req[q].row] = [rows[req[q].row] EXCEPT !.status = "withdrawn"]
<1> DEFINE k == req[q].row
           row == [rows[k] EXCEPT !.status = "withdrawn"]
<1>1. k \in 1 .. Len(rows)
  BY DEF Withdraw, At, ReadInv
<1>2. rows \in Seq(EnrollmentRow)
  BY DEF TypeOK, EnrollmentRow
<1>3. rows[k] \in EnrollmentRow
  BY <1>1, <1>2, ElementOfSeq
<1>4. row \in EnrollmentRow
  BY <1>3 DEF EnrollmentRow
<1>5. rows' = [rows EXCEPT ![k] = row]
  BY DEF Withdraw
<1> HIDE DEF k, row
<1>6. /\ rows' \in Seq(EnrollmentRow) /\ Len(rows') = Len(rows)
      /\ \A i \in 1 .. Len(rows) : rows'[i] = IF i = k THEN row ELSE rows[i]
  BY <1>1, <1>2, <1>4, <1>5, ExceptSeq
<1> QED BY <1>1, <1>6 DEF k, row

(* Every statement of a request, and every change of the course, keeps the *)
(* types.                                                                  *)
LEMMA TypesHold ==
  ASSUME TypeOK, ReadInv, [Next]_vars
  PROVE  TypeOK'
<1> USE DEF TypeOK
<1>1. ASSUME NEW q \in Requests, NEW s \in Students, FindCourse(q, s) PROVE TypeOK'
  <2>1. [pc |-> "found", student |-> s, capacity |-> capacity, row |-> 0] \in Request
    BY PeopleAssumption DEF Request
  <2> QED BY <1>1, <2>1 DEF FindCourse, courseVars
<1>2. ASSUME NEW q \in Requests, NEW s \in Students, FindEnrollment(q, s) PROVE TypeOK'
  <2>1. PICK i \in ActiveRowsOf(s) :
          req' = [req EXCEPT ![q] = [pc |-> "leaving", student |-> s,
                                     capacity |-> NoLimit, row |-> i]]
    BY <1>2 DEF FindEnrollment
  <2>2. i \in 0 .. MaxRows
    BY <2>1, PeopleAssumption DEF ActiveRowsOf, ActiveRows
  <2>3. [pc |-> "leaving", student |-> s, capacity |-> NoLimit, row |-> i] \in Request
    BY <2>2 DEF Request
  <2> QED BY <1>2, <2>1, <2>3 DEF FindEnrollment, courseVars
<1>3. ASSUME NEW q \in Requests, NEW pc \in Joining, MoveTo(q, pc)
      PROVE req' \in [Requests -> Request]
  <2>1. /\ req \in [Requests -> Request]
        /\ req' = [req EXCEPT ![q] = [req[q] EXCEPT !.pc = pc]]
    BY <1>3 DEF MoveTo
  <2>2. [req[q] EXCEPT !.pc = pc] \in Request
    BY <1>3, <2>1 DEF Joining, Request
  <2> QED BY <2>1, <2>2
<1>4. ASSUME NEW q \in Requests,
             \/ AssertNotEnrolled(q) \/ AssertPrerequisitesMet(q)
             \/ LockCourse(q) \/ AssertSeatAvailable(q)
      PROVE TypeOK'
  BY <1>3, <1>4 DEF AssertNotEnrolled, AssertPrerequisitesMet, LockCourse,
                    AssertSeatAvailable, Joining, courseVars
<1>5. ASSUME NEW q \in Requests, InsertEnrollment(q) PROVE TypeOK'
  <2>1. rows' \in Seq(EnrollmentRow) /\ Len(rows') <= MaxRows
    BY <1>5, Inserts
  <2> QED BY <1>5, <2>1, FinishTyped DEF InsertEnrollment, EnrollmentRow, courseVars
<1>6. ASSUME NEW q \in Requests, Withdraw(q) PROVE TypeOK'
  <2>1. rows' \in Seq(EnrollmentRow) /\ Len(rows') = Len(rows)
    BY <1>6, Withdraws
  <2> QED BY <1>6, <2>1, FinishTyped DEF Withdraw, EnrollmentRow, courseVars
<1>7. ASSUME NEW q \in Requests, Rollback(q) PROVE TypeOK'
  BY <1>7, FinishTyped DEF Rollback, courseVars
<1>8. CASE GoLive \/ PatchCapacity \/ SetPrerequisites \/ DeleteCourse
  BY <1>8 DEF GoLive, PatchCapacity, SetPrerequisites, DeleteCourse
<1>9. CASE UNCHANGED vars
  BY <1>9 DEF vars, courseVars
<1> QED BY <1>1, <1>2, <1>4, <1>5, <1>6, <1>7, <1>8, <1>9 DEF Next, Student

(***************************************************************************)
(* How a step changes the requests: each of them ends, reads what it       *)
(* starts from, or moves on with what it has.                              *)
(***************************************************************************)
Same(q) == req'[q] = req[q]

StartsJoining(q) ==
  /\ req'[q].pc = "found" /\ req'[q].student \in Students
  /\ req'[q].capacity = capacity
  /\ UNCHANGED <<courseVars, rows, lock>>

StartsLeaving(q) ==
  /\ req'[q].pc = "leaving" /\ req'[q].row \in 1 .. Len(rows)
  /\ UNCHANGED <<courseVars, rows, lock>>

Moves(q) ==
  \/ AssertNotEnrolled(q) \/ AssertPrerequisitesMet(q)
  \/ LockCourse(q) \/ AssertSeatAvailable(q)

(* A step on the way in changes the request's place and nothing it read.   *)
LEMMA MovesKeep ==
  ASSUME TypeOK, NEW q \in Requests, Moves(q)
  PROVE  /\ req'[q].student = req[q].student /\ req'[q].capacity = req[q].capacity
         /\ <<req[q].pc, req'[q].pc>> \in
              {<<"found", "new">>, <<"new", "qualified">>,
               <<"qualified", "locked">>, <<"locked", "seated">>}
         /\ \A r \in Requests \ {q} : Same(r)
         /\ UNCHANGED <<courseVars, rows>>
<1>1. req[q] \in Request
  BY DEF TypeOK
<1>2. ASSUME NEW pc \in Joining, MoveTo(q, pc)
      PROVE  /\ req'[q].student = req[q].student /\ req'[q].capacity = req[q].capacity
             /\ req'[q].pc = pc /\ \A r \in Requests \ {q} : Same(r)
  BY <1>1, <1>2 DEF MoveTo, Request, TypeOK, Same
<1> QED BY <1>2 DEF Moves, AssertNotEnrolled, AssertPrerequisitesMet, LockCourse,
                    AssertSeatAvailable, Joining, At, courseVars

(* What any step does to one given request: nothing, an end, a start, or a *)
(* move along.                                                             *)
LEMMA RequestStep ==
  ASSUME TypeOK, [Next]_vars, NEW q \in Requests
  PROVE  \/ Same(q) \/ req'[q] = Idle
         \/ StartsJoining(q) \/ StartsLeaving(q) \/ Moves(q)
<1> USE DEF TypeOK
<1>1. ASSUME NEW r \in Requests, Finish(r) PROVE Same(q) \/ req'[q] = Idle
  BY <1>1 DEF Finish, Same
<1>2. ASSUME NEW r \in Requests, NEW s \in Students, FindCourse(r, s)
      PROVE Same(q) \/ StartsJoining(q)
  <2>1. CASE q = r
    <3>1. req'[q] = [pc |-> "found", student |-> s, capacity |-> capacity, row |-> 0]
      BY <1>2, <2>1 DEF FindCourse
    <3> QED BY <1>2, <3>1 DEF FindCourse, StartsJoining
  <2>2. CASE q # r BY <1>2, <2>2 DEF FindCourse, Same
  <2> QED BY <2>1, <2>2
<1>3. ASSUME NEW r \in Requests, NEW s \in Students, FindEnrollment(r, s)
      PROVE Same(q) \/ StartsLeaving(q)
  <2>1. PICK i \in ActiveRowsOf(s) :
          req' = [req EXCEPT ![r] = [pc |-> "leaving", student |-> s,
                                     capacity |-> NoLimit, row |-> i]]
    BY <1>3 DEF FindEnrollment
  <2>2. i \in 1 .. Len(rows)
    BY <2>1 DEF ActiveRowsOf, ActiveRows
  <2>3. CASE q = r
    <3>1. req'[q] = [pc |-> "leaving", student |-> s, capacity |-> NoLimit, row |-> i]
      BY <2>1, <2>3
    <3> QED BY <1>3, <2>2, <3>1 DEF FindEnrollment, StartsLeaving
  <2>4. CASE q # r BY <2>1, <2>4 DEF Same
  <2> QED BY <2>3, <2>4
<1>5. ASSUME NEW r \in Requests, Moves(r) PROVE Same(q) \/ Moves(q)
  BY <1>5, MovesKeep
<1>6. CASE UNCHANGED req BY <1>6 DEF Same
<1> QED BY <1>1, <1>2, <1>3, <1>5, <1>6
        DEF Next, Student, Moves, InsertEnrollment, Withdraw, Rollback,
            GoLive, PatchCapacity, SetPrerequisites, DeleteCourse, vars

(* What happens to the rows: one is appended, one withdrawn, or nothing.   *)
LEMMA RowsStep ==
  ASSUME TypeOK, ReadInv, [Next]_vars
  PROVE  \/ rows' = rows
         \/ \E q \in Requests : InsertEnrollment(q)
         \/ \E q \in Requests : Withdraw(q)
  BY DEF Next, Student, FindCourse, FindEnrollment, AssertNotEnrolled,
         AssertPrerequisitesMet, LockCourse, AssertSeatAvailable, Rollback,
         GoLive, PatchCapacity, SetPrerequisites, DeleteCourse, vars

(* No step takes away the student or the row a request is about.           *)
LEMMA ReadHolds ==
  ASSUME TypeOK, ReadInv, [Next]_vars
  PROVE  ReadInv'
<1> SUFFICES ASSUME NEW q \in Requests
             PROVE  /\ req'[q].pc \in Joining => req'[q].student \in Students
                    /\ req'[q].pc = "leaving" => req'[q].row \in 1 .. Len(rows')
  BY DEF ReadInv
<1>1. Len(rows) \in Nat /\ Len(rows') \in Nat /\ Len(rows') >= Len(rows)
  <2>1. Len(rows) \in Nat
    BY DEF TypeOK
  <2>2. ASSUME NEW r \in Requests, InsertEnrollment(r)
        PROVE  Len(rows') = Len(rows) + 1
    BY <2>2, Inserts
  <2>3. ASSUME NEW r \in Requests, Withdraw(r)
        PROVE  Len(rows') = Len(rows)
    BY <2>3, Withdraws
  <2> QED BY <2>1, <2>2, <2>3, RowsStep
<1>2. CASE Same(q)
  BY <1>1, <1>2 DEF Same, ReadInv
<1>3. CASE req'[q] = Idle
  BY <1>3 DEF Idle, Joining
<1>4. CASE StartsJoining(q) \/ StartsLeaving(q)
  BY <1>1, <1>4 DEF StartsJoining, StartsLeaving, Joining
<1>5. CASE Moves(q)
  BY <1>5, MovesKeep DEF ReadInv, Joining, courseVars
<1> QED BY <1>2, <1>3, <1>4, <1>5, RequestStep

(* Types survive every interleaving of requests, rollbacks and patches.    *)
LEMMA Typed == Spec => [](TypeOK /\ ReadInv)
<1>1. Init => TypeOK /\ ReadInv
  <2> SUFFICES ASSUME Init PROVE TypeOK /\ ReadInv
    OBVIOUS
  <2>1. rows \in Seq([student : Students, status : {"active", "withdrawn"}])
        /\ Len(rows) = 0
    BY EmptySeq DEF Init
  <2> QED BY <2>1, IdleIsARequest, PeopleAssumption
          DEF Init, TypeOK, ReadInv, Idle, Joining
<1>2. TypeOK /\ ReadInv /\ [Next]_vars => (TypeOK /\ ReadInv)'
  BY TypesHold, ReadHolds
<1> QED BY <1>1, <1>2, PTL DEF Spec

(* TypeOK: rows, requests, the lock and the limits keep their types,       *)
(* whatever meets.                                                         *)
THEOREM TypeCorrect == Spec => []TypeOK
  BY Typed, PTL

(***************************************************************************)
(* Deletion and prerequisites                                              *)
(***************************************************************************)
(* No order of an enrollment and the deletion of its course leaves an      *)
(* enrollment in no course.                                                *)
THEOREM NoOrphans == Spec => []NoOrphanRows
<1>1. Init => NoOrphanRows
  BY DEF Init, NoOrphanRows
<1>2. TypeOK /\ ReadInv /\ NoOrphanRows /\ [Next]_vars => NoOrphanRows'
  <2> SUFFICES ASSUME TypeOK, ReadInv, NoOrphanRows, [Next]_vars, live' = "gone"
               PROVE  rows' = <<>>
    BY DEF NoOrphanRows
  <2>1. ASSUME NEW q \in Requests, InsertEnrollment(q) PROVE FALSE
    BY <2>1 DEF InsertEnrollment, ForeignKey, courseVars
  <2>2. ASSUME NEW q \in Requests, Withdraw(q) PROVE rows' = <<>>
    <3>1. live = "gone"
      BY <2>2 DEF Withdraw, courseVars
    <3>2. rows = <<>> /\ req[q].row \in 1 .. Len(rows)
      BY <2>2, <3>1, Withdraws DEF NoOrphanRows
    <3> QED BY <3>2
  <2>3. ASSUME rows' = rows PROVE rows' = <<>>
    BY <2>3 DEF NoOrphanRows, Next, Student, FindCourse, FindEnrollment,
                AssertNotEnrolled, AssertPrerequisitesMet, LockCourse,
                AssertSeatAvailable, InsertEnrollment, Withdraw, Rollback, GoLive,
                PatchCapacity, SetPrerequisites, DeleteCourse, vars, courseVars
  <2> QED BY <2>1, <2>2, <2>3, RowsStep
<1> QED BY <1>1, <1>2, Typed, PTL DEF Spec

(* Behind the check of the prerequisites everybody has completed them,     *)
(* unless the course has been open since.                                  *)
QualifiedInv ==
  ~everOpen =>
    /\ gated
    /\ \A q \in Requests :
         req[q].pc \in {"qualified", "locked", "seated"} => req[q].student \in Completers
    /\ \A i \in 1 .. Len(rows) : rows[i].student \in Completers

(* Nobody got into a course that always had prerequisites without having   *)
(* completed them.                                                         *)
THEOREM OnlyTheQualified == Spec => []OnlyQualifiedJoined
<1>1. Init => QualifiedInv
  <2> SUFFICES ASSUME Init PROVE QualifiedInv
    OBVIOUS
  <2>1. Len(rows) = 0
    BY EmptySeq DEF Init
  <2>2. \A q \in Requests : req[q].pc = "idle"
    BY DEF Init, Idle
  <2>3. ~everOpen => gated
    BY DEF Init
  <2>4. 1 .. Len(rows) = {}
    BY <2>1
  <2> QED BY <2>2, <2>3, <2>4 DEF QualifiedInv
<1>2. TypeOK /\ ReadInv /\ QualifiedInv /\ [Next]_vars => QualifiedInv'
  <2> SUFFICES ASSUME TypeOK, ReadInv, QualifiedInv, [Next]_vars, ~everOpen'
               PROVE  /\ gated'
                      /\ \A q \in Requests :
                           req'[q].pc \in {"qualified", "locked", "seated"} =>
                             req'[q].student \in Completers
                      /\ \A i \in 1 .. Len(rows') : rows'[i].student \in Completers
    BY DEF QualifiedInv
  <2>1. ~everOpen /\ gated /\ gated'
    BY DEF QualifiedInv, Next, Student, FindCourse, FindEnrollment,
           AssertNotEnrolled, AssertPrerequisitesMet, LockCourse,
           AssertSeatAvailable, InsertEnrollment, Withdraw, Rollback, GoLive,
           PatchCapacity, SetPrerequisites, DeleteCourse, vars, courseVars, TypeOK
  <2>2. ASSUME NEW q \in Requests, req'[q].pc \in {"qualified", "locked", "seated"}
        PROVE req'[q].student \in Completers
    <3>1. CASE Same(q)
      BY <2>1, <2>2, <3>1 DEF Same, QualifiedInv
    <3>2. ASSUME StartsJoining(q) \/ StartsLeaving(q) PROVE FALSE
      BY <2>2, <3>2 DEF StartsJoining, StartsLeaving
    <3>4. ASSUME req'[q] = Idle PROVE FALSE
      BY <2>2, <3>4 DEF Idle
    <3>3. CASE Moves(q)
      <4>1. \/ req[q].pc \in {"qualified", "locked"}
            \/ req'[q].pc = "qualified" /\ AssertPrerequisitesMet(q)
        BY <2>2, <3>3, MovesKeep
           DEF Moves, AssertNotEnrolled, LockCourse, AssertSeatAvailable, At
      <4> QED BY <2>1, <3>3, <4>1, MovesKeep DEF QualifiedInv, AssertPrerequisitesMet
    <3> QED BY <3>1, <3>2, <3>3, <3>4, RequestStep
  <2>3. ASSUME NEW q \in Requests, InsertEnrollment(q), NEW i \in 1 .. Len(rows')
        PROVE rows'[i].student \in Completers
    <3>1. req[q].student \in Completers
      BY <2>1, <2>3 DEF InsertEnrollment, At, QualifiedInv
    <3>2. Len(rows) \in Nat /\ Len(rows') = Len(rows) + 1
      BY <2>3, Inserts
    <3>3. i \in 1 .. Len(rows) \/ i = Len(rows) + 1
      BY <3>2
    <3>4. CASE i \in 1 .. Len(rows)
      BY <2>1, <2>3, <3>4, Inserts DEF QualifiedInv
    <3>5. CASE i = Len(rows) + 1
      <4>1. rows'[i] = [student |-> req[q].student, status |-> "active"]
        BY <2>3, <3>5, Inserts
      <4> QED BY <3>1, <4>1
    <3> QED BY <3>3, <3>4, <3>5
  <2>4. ASSUME NEW q \in Requests, Withdraw(q), NEW i \in 1 .. Len(rows')
        PROVE rows'[i].student \in Completers
    <3>1. rows[req[q].row] \in EnrollmentRow
      BY <2>4, Withdraws, ElementOfSeq DEF TypeOK, EnrollmentRow
    <3>2. rows'[req[q].row].student = rows[req[q].row].student
      BY <2>4, <3>1, Withdraws DEF EnrollmentRow
    <3> QED BY <2>1, <2>4, <3>2, Withdraws DEF QualifiedInv
  <2>5. ASSUME rows' = rows, NEW i \in 1 .. Len(rows')
        PROVE rows'[i].student \in Completers
    BY <2>1, <2>5 DEF QualifiedInv
  <2> QED BY <2>1, <2>2, <2>3, <2>4, <2>5, RowsStep
<1>3. TypeOK /\ QualifiedInv => OnlyQualifiedJoined
  BY LenProperties DEF QualifiedInv, OnlyQualifiedJoined, TypeOK
<1> QED BY <1>1, <1>2, <1>3, Typed, PTL DEF Spec

(***************************************************************************)
(* The lock and the seats. Who has counted holds the lock until the end of *)
(* its transaction, so an inserter that does not hold it waits, and what   *)
(* was counted is true when its own row is inserted.                       *)
(***************************************************************************)
LockInv == \A q \in Requests : req[q].pc \in Holding <=> lock = q

(* The holder of the lock stays the one request past the SELECT FOR        *)
(* UPDATE, and lets go at its end.                                         *)
LEMMA LockHolds ==
  ASSUME TypeOK, ReadInv, LockInv, [Next]_vars
  PROVE  LockInv'
<1> SUFFICES ASSUME NEW q \in Requests
             PROVE  req'[q].pc \in Holding <=> lock' = q
  BY DEF LockInv
<1>0. q # "none" /\ (req[q].pc \in Holding <=> lock = q)
  BY RequestsAssumption DEF LockInv
<1>1. ASSUME NEW r \in Requests, Finish(r) PROVE req'[q].pc \in Holding <=> lock' = q
  <2>1. CASE q = r
    <3>1. req'[q].pc = "idle"
      BY <1>1, <2>1 DEF Finish, Idle, TypeOK
    <3>2. lock' # q
      BY <1>0, <1>1, <2>1 DEF Finish
    <3> QED BY <3>1, <3>2 DEF Holding
  <2>2. CASE q # r
    <3>1. req'[q] = req[q] /\ (lock' = q <=> lock = q)
      BY <1>0, <1>1, <2>2 DEF Finish, TypeOK
    <3> QED BY <1>0, <3>1
  <2> QED BY <2>1, <2>2
<1>2. ASSUME NEW r \in Requests, NEW s \in Students,
             FindCourse(r, s) \/ FindEnrollment(r, s)
      PROVE req'[q].pc \in Holding <=> lock' = q
  <2>1. lock' = lock /\ req[r].pc = "idle"
    BY <1>2 DEF FindCourse, FindEnrollment, At
  <2>2. q = r => req'[q].pc \in {"found", "leaving"}
    BY <1>2 DEF FindCourse, FindEnrollment, TypeOK
  <2>3. q # r => req'[q] = req[q]
    BY <1>2 DEF FindCourse, FindEnrollment, TypeOK
  <2> QED BY <1>0, <2>1, <2>2, <2>3 DEF Holding
<1>3. ASSUME NEW r \in Requests, Moves(r) PROVE req'[q].pc \in Holding <=> lock' = q
  <2>1. CASE q # r
    <3>1. lock' = lock \/ (lock = "none" /\ lock' = r)
      BY <1>3 DEF Moves, AssertNotEnrolled, AssertPrerequisitesMet, LockCourse,
                  AssertSeatAvailable
    <3> QED BY <1>0, <1>3, <2>1, <3>1, MovesKeep DEF Same
  <2>2. CASE q = r /\ LockCourse(q)
    BY <1>3, <2>2, MovesKeep DEF LockCourse, Holding, At
  <2>3. CASE q = r /\ ~LockCourse(q)
    <3>1. lock' = lock /\ req[q].pc # "qualified"
      BY <1>3, <2>3 DEF Moves, AssertNotEnrolled, AssertPrerequisitesMet,
                        AssertSeatAvailable, At
    <3> QED BY <1>0, <1>3, <2>3, <3>1, MovesKeep DEF Holding
  <2> QED BY <2>1, <2>2, <2>3
<1>4. CASE UNCHANGED <<req, lock>>
  BY <1>0, <1>4
<1> QED BY <1>1, <1>2, <1>3, <1>4
        DEF Next, Student, Moves, InsertEnrollment, Withdraw, Rollback,
            GoLive, PatchCapacity, SetPrerequisites, DeleteCourse, vars

(* The limit a request read is one the course has offered, and whoever     *)
(* locks has a limit.                                                      *)
LimitInv ==
  /\ capacity \in offered
  /\ \A q \in Requests :
       /\ req[q].pc \in Joining => req[q].capacity \in offered
       /\ req[q].pc \in Holding => req[q].capacity # NoLimit

(* A limit that has been offered stays so, and a request goes by one that  *)
(* was.                                                                    *)
LEMMA LimitHolds ==
  ASSUME TypeOK, ReadInv, LimitInv, [Next]_vars
  PROVE  LimitInv' /\ offered \subseteq offered'
<1>1. offered \subseteq offered' /\ capacity' \in offered'
  BY DEF LimitInv, Next, Student, FindCourse, FindEnrollment, AssertNotEnrolled,
         AssertPrerequisitesMet, LockCourse, AssertSeatAvailable,
         InsertEnrollment, Withdraw, Rollback, GoLive, PatchCapacity,
         SetPrerequisites, DeleteCourse, vars, courseVars
<1> SUFFICES ASSUME NEW q \in Requests
             PROVE  /\ req'[q].pc \in Joining => req'[q].capacity \in offered'
                    /\ req'[q].pc \in Holding => req'[q].capacity # NoLimit
  BY <1>1 DEF LimitInv
<1>2. CASE Same(q)
  BY <1>1, <1>2 DEF Same, LimitInv
<1>3. CASE req'[q] = Idle
  BY <1>3 DEF Idle, Joining, Holding
<1>4. CASE StartsJoining(q) \/ StartsLeaving(q)
  BY <1>1, <1>4 DEF StartsJoining, StartsLeaving, LimitInv, Joining, Holding
<1>5. CASE Moves(q)
  <2>1. req'[q].capacity = req[q].capacity /\ req[q].pc \in Joining
    BY <1>5, MovesKeep DEF Joining
  <2>2. req'[q].pc \in Holding => req[q].capacity # NoLimit
    BY <1>5, MovesKeep DEF Moves, AssertNotEnrolled, AssertPrerequisitesMet,
                           LockCourse, AssertSeatAvailable, At, Holding, LimitInv
  <2> QED BY <1>1, <2>1, <2>2 DEF LimitInv
<1> QED BY <1>2, <1>3, <1>4, <1>5, RequestStep

(* The active rows are finitely many, one more after an insertion.         *)
LEMMA ActiveIsFinite ==
  ASSUME TypeOK
  PROVE  IsFiniteSet(ActiveRows) /\ CountActive \in Nat
<1>1. DOMAIN rows = 1 .. Len(rows) /\ Len(rows) \in Nat
  BY LenProperties DEF TypeOK
<1>2. IsFiniteSet(1 .. Len(rows))
  BY <1>1, FS_Interval
<1>3. ActiveRows \subseteq 1 .. Len(rows)
  BY <1>1 DEF ActiveRows
<1> QED BY <1>2, <1>3, FS_Subset, FS_CardinalityType DEF CountActive

(* An insertion adds one to the active rows,                               *)
LEMMA InsertsActive ==
  ASSUME TypeOK, ReadInv, NEW q \in Requests, InsertEnrollment(q)
  PROVE  /\ ActiveRows' = ActiveRows \cup {Len(rows) + 1}
         /\ CountActive' = CountActive + 1
<1>1. /\ Len(rows) \in Nat /\ Len(rows') = Len(rows) + 1
      /\ DOMAIN rows = 1 .. Len(rows) /\ DOMAIN rows' = 1 .. Len(rows')
  BY Inserts, LenProperties DEF TypeOK
<1>2. rows'[Len(rows) + 1].status = "active"
  <2>1. rows'[Len(rows) + 1] = [student |-> req[q].student, status |-> "active"]
    BY Inserts
  <2> QED BY <2>1
<1>3. \A i \in 1 .. Len(rows) : rows'[i] = rows[i]
  BY Inserts
<1>4. ActiveRows' = ActiveRows \cup {Len(rows) + 1}
  BY <1>1, <1>2, <1>3 DEF ActiveRows
<1>5. Len(rows) + 1 \notin ActiveRows
  BY <1>1 DEF ActiveRows
<1> QED BY <1>4, <1>5, ActiveIsFinite, FS_AddElement DEF CountActive

(* and a withdrawal adds none.                                             *)
LEMMA WithdrawsActive ==
  ASSUME TypeOK, ReadInv, NEW q \in Requests, Withdraw(q)
  PROVE  /\ ActiveRows' = ActiveRows \ {req[q].row}
         /\ CountActive' \in Nat /\ CountActive' <= CountActive
<1>1. DOMAIN rows = 1 .. Len(rows) /\ DOMAIN rows' = 1 .. Len(rows)
  BY Withdraws, LenProperties DEF TypeOK
<1>2. rows[req[q].row] \in EnrollmentRow
  BY Withdraws, ElementOfSeq DEF TypeOK, EnrollmentRow
<1>3. rows'[req[q].row].status = "withdrawn"
  BY <1>2, Withdraws DEF EnrollmentRow
<1>4. ActiveRows' = ActiveRows \ {req[q].row}
  BY <1>1, <1>3, Withdraws DEF ActiveRows
<1>5. ActiveRows' \subseteq ActiveRows
  BY <1>4
<1>6. IsFiniteSet(ActiveRows') /\ Cardinality(ActiveRows') <= Cardinality(ActiveRows)
  BY <1>5, ActiveIsFinite, FS_Subset
<1> QED BY <1>4, <1>6, FS_CardinalityType DEF CountActive

SeatInv == LockInv /\ LimitInv /\ CountStaysTrue /\ SeatsRespected

(* Nobody takes a place between the count of a request that holds the lock *)
(* and its insertion.                                                      *)
LEMMA CountHolds ==
  ASSUME TypeOK, ReadInv, SeatInv, [Next]_vars
  PROVE  CountStaysTrue'
<1> SUFFICES ASSUME NEW q \in Requests, At(q, "seated")'
             PROVE  CountActive' < req'[q].capacity
  BY DEF CountStaysTrue
<1>0. CountActive \in Nat
  BY ActiveIsFinite
<1>1. CASE Same(q)
  <2>1. At(q, "seated") /\ req'[q].capacity = req[q].capacity /\ lock = q
    BY <1>1 DEF Same, At, SeatInv, LockInv, Holding
  <2>2. CountActive < req[q].capacity /\ req[q].capacity \in Nat
    BY <2>1, CapacityAssumption
       DEF SeatInv, CountStaysTrue, LimitInv, TypeOK, At, Holding, Joining
  <2>3. CASE rows' = rows
    BY <2>1, <2>2, <2>3 DEF CountActive, ActiveRows
  <2>4. ASSUME NEW r \in Requests, InsertEnrollment(r) PROVE FALSE
    <3>1. r = q
      BY <2>1, <2>4, RequestsAssumption DEF InsertEnrollment, ForeignKey
    <3>2. req'[q] = Idle
      BY <2>4, <3>1 DEF InsertEnrollment, Finish, TypeOK
    <3> QED BY <3>2 DEF At, Idle
  <2>5. ASSUME NEW r \in Requests, Withdraw(r)
        PROVE  CountActive' \in Nat /\ CountActive' <= CountActive
    BY <2>5, WithdrawsActive
  <2> QED BY <1>0, <2>1, <2>2, <2>3, <2>4, <2>5, RowsStep
<1>2. CASE req'[q] = Idle \/ StartsJoining(q) \/ StartsLeaving(q)
  BY <1>2 DEF Idle, At, StartsJoining, StartsLeaving
<1>3. CASE Moves(q)
  <2>1. AssertSeatAvailable(q)
    BY <1>3, MovesKeep DEF Moves, AssertNotEnrolled, AssertPrerequisitesMet,
                           LockCourse, At
  <2>2. rows' = rows /\ req'[q].capacity = req[q].capacity
    BY <1>3, MovesKeep
  <2> QED BY <2>1, <2>2 DEF AssertSeatAvailable, CountActive, ActiveRows
<1> QED BY <1>1, <1>2, <1>3, RequestStep

(* So an insertion within the limit it read leaves no more active rows     *)
(* than that limit.                                                        *)
LEMMA SeatsHold ==
  ASSUME TypeOK, ReadInv, SeatInv, [Next]_vars
  PROVE  SeatsRespected'
<1> SUFFICES ASSUME NoLimit \notin offered'
             PROVE  \E c \in offered' : CountActive' <= c
  BY DEF SeatsRespected
<1>1. offered \subseteq offered' /\ CountActive \in Nat
  BY LimitHolds, ActiveIsFinite DEF SeatInv
<1>2. PICK c \in offered : CountActive <= c
  BY <1>1 DEF SeatInv, SeatsRespected
<1>3. c \in Nat
  BY <1>1, <1>2, CapacityAssumption DEF TypeOK
<1>4. CASE rows' = rows
  BY <1>1, <1>2, <1>4 DEF CountActive, ActiveRows
<1>5. ASSUME NEW q \in Requests, InsertEnrollment(q)
      PROVE \E d \in offered' : CountActive' <= d
  <2>1. req[q].capacity \in offered /\ req[q].capacity \in Nat
    BY <1>1, <1>5, CapacityAssumption
       DEF InsertEnrollment, At, Joining, SeatInv, LimitInv, TypeOK
  <2>2. At(q, "seated")
    BY <1>1, <1>5, <2>1 DEF InsertEnrollment
  <2>3. CountActive < req[q].capacity
    BY <2>2 DEF SeatInv, CountStaysTrue
  <2>4. CountActive' = CountActive + 1
    BY <1>5, InsertsActive
  <2> QED BY <1>1, <2>1, <2>3, <2>4
<1>6. ASSUME NEW q \in Requests, Withdraw(q)
      PROVE \E d \in offered' : CountActive' <= d
  <2>1. CountActive' <= CountActive /\ CountActive' \in Nat
    BY <1>6, WithdrawsActive
  <2> QED BY <1>1, <1>2, <1>3, <2>1
<1> QED BY <1>4, <1>5, <1>6, RowsStep

(* The four parts of the invariant hold together.                          *)
LEMMA SeatsAlways == Spec => []SeatInv
<1>1. Init => SeatInv
  <2> SUFFICES ASSUME Init PROVE SeatInv
    OBVIOUS
  <2>1. \A q \in Requests : req[q].pc = "idle" /\ lock # q
    BY RequestsAssumption DEF Init, Idle
  <2>2. LockInv /\ LimitInv /\ CountStaysTrue
    BY <2>1 DEF Init, LockInv, LimitInv, CountStaysTrue, At, Holding, Joining
  <2>3. ActiveRows = {}
    BY EmptySeq DEF Init, ActiveRows
  <2>4. CountActive = 0
    BY <2>3, FS_EmptySet DEF CountActive
  <2>5. capacity \in offered /\ (capacity = NoLimit \/ 0 <= capacity)
    BY CapacityAssumption DEF Init
  <2> QED BY <2>2, <2>4, <2>5 DEF SeatInv, SeatsRespected
<1>2. TypeOK /\ ReadInv /\ SeatInv /\ [Next]_vars => SeatInv'
  <2> SUFFICES ASSUME TypeOK, ReadInv, SeatInv, [Next]_vars PROVE SeatInv'
    OBVIOUS
  <2>1. LockInv' BY LockHolds DEF SeatInv
  <2>2. LimitInv' BY LimitHolds DEF SeatInv
  <2>3. CountStaysTrue' BY CountHolds
  <2>4. SeatsRespected' BY SeatsHold
  <2> QED BY <2>1, <2>2, <2>3, <2>4 DEF SeatInv
<1> QED BY <1>1, <1>2, Typed, PTL DEF Spec

(* Who has counted under the lock counted for the moment it inserts, also  *)
(* against requests that take no lock.                                     *)
THEOREM TheCountIsTrue == Spec => []CountStaysTrue
<1>1. SeatInv => CountStaysTrue
  BY DEF SeatInv
<1> QED BY <1>1, SeatsAlways, PTL

(* No order of joining, leaving and patching fills more places than the    *)
(* course has offered.                                                     *)
THEOREM SeatsAreRespected == Spec => []SeatsRespected
<1>1. SeatInv => SeatsRespected
  BY DEF SeatInv
<1> QED BY <1>1, SeatsAlways, PTL

(***************************************************************************)
(* The limit of the moment                                                 *)
(***************************************************************************)
(* A request goes by the limit its session loaded first, so it may join    *)
(* above a limit that was lowered since (LockedJoinsWithinCapacity). What  *)
(* follows says that a lowered limit is all it takes, and what it takes:   *)
(* no limit at all is the highest there is.                                *)
NeverLowered ==
  [][capacity' # capacity => capacity # NoLimit /\ capacity' > capacity]_vars

ReadNoHigher == \A q \in Requests :
  req[q].pc \in Joining =>
    \/ capacity = NoLimit /\ req[q].capacity = NoLimit
    \/ /\ capacity # NoLimit /\ req[q].capacity # NoLimit
       /\ req[q].capacity <= capacity

WithinTheLimit == capacity # NoLimit => CountActive <= capacity

(* The limit stays or is raised.                                           *)
LEMMA RaisedOrSame ==
  ASSUME TypeOK, [Next]_vars,
         [capacity' # capacity => capacity # NoLimit /\ capacity' > capacity]_vars
  PROVE  \/ capacity' = capacity
         \/ /\ capacity # NoLimit /\ capacity' # NoLimit
            /\ capacity \in Nat /\ capacity' \in Nat /\ capacity < capacity'
<1>1. capacity' = capacity \/ capacity' \in Capacities
  BY DEF Next, Student, FindCourse, FindEnrollment, AssertNotEnrolled,
         AssertPrerequisitesMet, LockCourse, AssertSeatAvailable,
         InsertEnrollment, Withdraw, Rollback, GoLive, PatchCapacity,
         SetPrerequisites, DeleteCourse, vars, courseVars
<1>2. \/ capacity' = capacity
      \/ capacity # NoLimit /\ capacity' > capacity
  BY DEF vars, courseVars
<1>3. capacity # NoLimit => capacity \in Nat
  BY CapacityAssumption DEF TypeOK
<1>4. \A c \in Capacities : c \in Nat /\ c # NoLimit
  BY CapacityAssumption
<1> QED BY <1>1, <1>2, <1>3, <1>4

(* What a request has read is then never above the limit of the moment.    *)
LEMMA ReadsStayLow ==
  ASSUME TypeOK, ReadNoHigher, [Next]_vars,
         [capacity' # capacity => capacity # NoLimit /\ capacity' > capacity]_vars
  PROVE  ReadNoHigher'
<1> SUFFICES ASSUME NEW q \in Requests, req'[q].pc \in Joining
             PROVE  \/ capacity' = NoLimit /\ req'[q].capacity = NoLimit
                    \/ /\ capacity' # NoLimit /\ req'[q].capacity # NoLimit
                       /\ req'[q].capacity <= capacity'
  BY DEF ReadNoHigher
<1>1. ASSUME req[q].pc \in Joining, req'[q].capacity = req[q].capacity
      PROVE  \/ capacity' = NoLimit /\ req'[q].capacity = NoLimit
             \/ /\ capacity' # NoLimit /\ req'[q].capacity # NoLimit
                /\ req'[q].capacity <= capacity'
  <2>1. req[q].capacity # NoLimit => req[q].capacity \in Nat
    BY CapacityAssumption DEF TypeOK, Request
  <2> QED BY <1>1, <2>1, RaisedOrSame DEF ReadNoHigher
<1>2. CASE Same(q)
  BY <1>1, <1>2 DEF Same
<1>3. ASSUME req'[q] = Idle \/ StartsLeaving(q) PROVE FALSE
  BY <1>3 DEF Idle, StartsLeaving, Joining
<1>4. CASE StartsJoining(q)
  <2>1. req'[q].capacity = capacity /\ capacity' = capacity
    BY <1>4 DEF StartsJoining, courseVars
  <2>2. capacity # NoLimit => capacity <= capacity
    BY CapacityAssumption DEF TypeOK
  <2> QED BY <2>1, <2>2
<1>5. CASE Moves(q)
  BY <1>1, <1>5, MovesKeep DEF Joining
<1> QED BY <1>2, <1>3, <1>4, <1>5, RequestStep

(* Whoever inserts has then counted below the limit of the moment.         *)
LEMMA InsertsBelow ==
  ASSUME TypeOK, SeatInv, ReadNoHigher, NEW q \in Requests, InsertEnrollment(q),
         capacity # NoLimit
  PROVE  CountActive < capacity
<1>1. /\ req[q].capacity # NoLimit /\ req[q].capacity <= capacity
      /\ req[q].capacity \in Nat /\ capacity \in Nat
  BY CapacityAssumption
     DEF InsertEnrollment, At, Joining, ReadNoHigher, TypeOK, Request
<1>2. At(q, "seated")
  BY <1>1 DEF InsertEnrollment
<1>3. CountActive < req[q].capacity /\ CountActive \in Nat
  BY <1>2, ActiveIsFinite DEF SeatInv, CountStaysTrue
<1> QED BY <1>1, <1>3

(* FR-07 word for word: as long as nobody lowers the limit, no order of    *)
(* requests fills more places than the course offers now, and who joins    *)
(* under the lock stays within the limit of that moment.                   *)
THEOREM OnlyLoweringOverbooks ==
  Spec /\ NeverLowered => []WithinTheLimit /\ LockedJoinsWithinCapacity
<1>1. Init => ReadNoHigher /\ WithinTheLimit
  <2> SUFFICES ASSUME Init PROVE ReadNoHigher /\ WithinTheLimit
    OBVIOUS
  <2>1. \A q \in Requests : req[q].pc = "idle"
    BY DEF Init, Idle
  <2>2. ActiveRows = {}
    BY EmptySeq DEF Init, ActiveRows
  <2>3. CountActive = 0
    BY <2>2, FS_EmptySet DEF CountActive
  <2>4. capacity # NoLimit => 0 <= capacity
    BY CapacityAssumption DEF Init
  <2> QED BY <2>1, <2>3, <2>4 DEF ReadNoHigher, WithinTheLimit, Joining
<1>2. ASSUME TypeOK, ReadInv, SeatInv, ReadNoHigher, WithinTheLimit, [Next]_vars,
             [capacity' # capacity => capacity # NoLimit /\ capacity' > capacity]_vars
      PROVE  WithinTheLimit'
  <2> SUFFICES ASSUME capacity' # NoLimit PROVE CountActive' <= capacity'
    BY DEF WithinTheLimit
  <2>1. /\ capacity # NoLimit /\ capacity \in Nat /\ capacity' \in Nat
        /\ capacity <= capacity'
    BY <1>2, RaisedOrSame, CapacityAssumption DEF TypeOK
  <2>2. CountActive \in Nat /\ CountActive <= capacity
    BY <1>2, <2>1, ActiveIsFinite DEF WithinTheLimit
  <2>3. CASE rows' = rows
    BY <2>1, <2>2, <2>3 DEF CountActive, ActiveRows
  <2>4. ASSUME NEW q \in Requests, InsertEnrollment(q)
        PROVE  CountActive' = CountActive + 1 /\ CountActive < capacity
    BY <1>2, <2>1, <2>4, InsertsActive, InsertsBelow
  <2>5. ASSUME NEW q \in Requests, Withdraw(q)
        PROVE  CountActive' <= CountActive /\ CountActive' \in Nat
    BY <1>2, <2>5, WithdrawsActive
  <2> QED BY <1>2, <2>1, <2>2, <2>3, <2>4, <2>5, RowsStep
<1>3. ASSUME TypeOK, ReadInv, SeatInv, ReadNoHigher, [Next]_vars, rows' # rows,
             NEW q \in Requests, lock = q, Len(rows') > Len(rows)
      PROVE  CountActive < capacity
  <2>1. req[q].pc \in Holding
    BY <1>3 DEF SeatInv, LockInv
  <2>2. capacity # NoLimit
    BY <1>3, <2>1 DEF SeatInv, LimitInv, ReadNoHigher, Holding, Joining
  <2>3. ASSUME NEW r \in Requests, Withdraw(r) PROVE FALSE
    <3>1. Len(rows') = Len(rows) /\ Len(rows) \in Nat
      BY <1>3, <2>3, Withdraws, LenProperties DEF TypeOK
    <3> QED BY <1>3, <3>1
  <2>4. PICK r \in Requests : InsertEnrollment(r)
    BY <1>3, <2>3, RowsStep
  <2> QED BY <1>3, <2>2, <2>4, InsertsBelow
<1>4. TypeOK /\ ReadInv /\ SeatInv /\ ReadNoHigher /\ [Next]_vars
        => [\A q \in Requests :
              lock = q /\ Len(rows') > Len(rows) => CountActive < capacity]_rows
  BY <1>3
<1>5. TypeOK /\ ReadInv /\ SeatInv /\ ReadNoHigher /\ WithinTheLimit /\ [Next]_vars
        /\ [capacity' # capacity => capacity # NoLimit /\ capacity' > capacity]_vars
        => (ReadNoHigher /\ WithinTheLimit)'
  BY <1>2, ReadsStayLow
<1> QED BY <1>1, <1>4, <1>5, Typed, SeatsAlways, PTL
        DEF Spec, NeverLowered, LockedJoinsWithinCapacity

(***************************************************************************)
(* One active enrollment each                                              *)
(***************************************************************************)
UniqueRows ==
  \A i, j \in ActiveRows : rows[i].student = rows[j].student => i = j

(* A step leaves the student of every row there is.                        *)
LEMMA StudentsStay ==
  ASSUME TypeOK, ReadInv, [Next]_vars, NEW i \in ActiveRows
  PROVE  rows'[i].student = rows[i].student /\ rows[i].student \in Students
<1>1. i \in 1 .. Len(rows) /\ rows[i] \in EnrollmentRow
  BY LenProperties, ElementOfSeq DEF TypeOK, ActiveRows, EnrollmentRow
<1>2. ASSUME NEW q \in Requests, InsertEnrollment(q) PROVE rows'[i] = rows[i]
  BY <1>1, <1>2, Inserts
<1>3. ASSUME NEW q \in Requests, Withdraw(q)
      PROVE rows'[i] = rows[i] \/ rows'[i] = [rows[i] EXCEPT !.status = "withdrawn"]
  BY <1>1, <1>3, Withdraws
<1> QED BY <1>1, <1>2, <1>3, RowsStep DEF EnrollmentRow

(* The partial unique index admits no second active row of a student.      *)
LEMMA UniqueHolds ==
  ASSUME TypeOK, ReadInv, UniqueRows, [Next]_vars
  PROVE  UniqueRows'
<1>1. ASSUME ActiveRows' \subseteq ActiveRows PROVE UniqueRows'
  BY <1>1, StudentsStay DEF UniqueRows
<1>2. ASSUME NEW q \in Requests, InsertEnrollment(q) PROVE UniqueRows'
  <2> DEFINE s == req[q].student
             k == Len(rows) + 1
  <2>1. ActiveRows' = ActiveRows \cup {k}
    BY <1>2, InsertsActive
  <2>2. \A i \in ActiveRows : rows[i].student # s
    BY <1>2 DEF InsertEnrollment, UniqueActive, ActiveRowsOf
  <2>3. rows'[k] = [student |-> s, status |-> "active"]
    BY <1>2, Inserts
  <2>4. rows'[k].student = s
    BY <2>3
  <2>5. \A i \in ActiveRows : rows'[i].student = rows[i].student
    BY StudentsStay
  <2> HIDE DEF k, s
  <2> QED BY <2>1, <2>2, <2>4, <2>5 DEF UniqueRows
<1>3. ASSUME NEW q \in Requests, Withdraw(q) PROVE UniqueRows'
  BY <1>1, <1>3, WithdrawsActive
<1>4. CASE rows' = rows
  BY <1>4 DEF UniqueRows, ActiveRows
<1> QED BY <1>2, <1>3, <1>4, RowsStep

(* It does so in every state.                                              *)
LEMMA UniqueAlways == Spec => []UniqueRows
<1>1. Init => UniqueRows
  BY EmptySeq DEF Init, UniqueRows, ActiveRows
<1>2. TypeOK /\ ReadInv /\ UniqueRows /\ [Next]_vars => UniqueRows'
  BY UniqueHolds
<1> QED BY <1>1, <1>2, Typed, PTL DEF Spec

(* Requests of one student that all pass get_active leave one active       *)
(* enrollment, however often the student left and came back in between.    *)
THEOREM OneActive == Spec => []OneActiveEach
<1>1. UniqueRows => OneActiveEach
  <2> SUFFICES ASSUME UniqueRows, NEW s \in Students
               PROVE  Cardinality(ActiveRowsOf(s)) <= 1
    BY DEF OneActiveEach
  <2>1. \A i, j \in ActiveRowsOf(s) : i = j
    BY DEF UniqueRows, ActiveRowsOf
  <2>2. CASE ActiveRowsOf(s) = {}
    BY <2>2, FS_EmptySet
  <2>3. ASSUME NEW i \in ActiveRowsOf(s)
        PROVE Cardinality(ActiveRowsOf(s)) <= 1
    <3>1. ActiveRowsOf(s) = {i}
      BY <2>1, <2>3
    <3>2. Cardinality({i}) = 1
      BY FS_Singleton
    <3> QED BY <3>1, <3>2
  <2> QED BY <2>2, <2>3
<1> QED BY <1>1, UniqueAlways, PTL

(***************************************************************************)
(* The abstract booking                                                    *)
(***************************************************************************)
(* Cardinality is the same operator in both modules.                       *)
LEMMA SameCardinality == \A S : Booking!Cardinality(S) = Cardinality(S)
  BY DEF Booking!Cardinality, Cardinality

(* There are at most as many members as active rows.                       *)
LEMMA FewerMembers ==
  ASSUME TypeOK
  PROVE  Cardinality(Members) <= CountActive /\ Cardinality(Members) \in Nat
<1> DEFINE f == [i \in ActiveRows |-> rows[i].student]
<1>1. \A i \in ActiveRows : rows[i].student \in Students
  <2>1. \A i \in ActiveRows : rows[i] \in EnrollmentRow
    BY LenProperties, ElementOfSeq DEF TypeOK, ActiveRows, EnrollmentRow
  <2> QED BY <2>1 DEF EnrollmentRow
<1>2. \A i \in ActiveRows : rows[i].student \in Members
  BY <1>1 DEF Members, ActiveRowsOf
<1>3. \A s \in Members : \E i \in ActiveRows : rows[i].student = s
  BY DEF Members, ActiveRowsOf
<1>4. f \in Surjection(ActiveRows, Members)
  BY <1>2, <1>3 DEF Surjection
<1> QED BY <1>4, ActiveIsFinite, FS_Surjection, FS_CardinalityType DEF CountActive

(* Every step is a step of SeatBooking or changes nothing it sees.         *)
LEMMA StepImplements ==
  ASSUME TypeOK, TypeOK', ReadInv, SeatInv, UniqueRows, [Next]_vars
  PROVE  Booking!Next \/ UNCHANGED <<Members, offered>>
<1>1. ASSUME NEW q \in Requests, InsertEnrollment(q) PROVE Booking!Next
  <2> DEFINE s == req[q].student
             k == Len(rows) + 1
  <2>1. s \in Students /\ offered' = offered
    BY <1>1 DEF InsertEnrollment, At, ReadInv, Joining, courseVars
  <2>2. s \notin Members
    BY <1>1 DEF InsertEnrollment, UniqueActive, Members
  <2>3. ActiveRows' = ActiveRows \cup {k}
    BY <1>1, InsertsActive
  <2>4. rows'[k] = [student |-> s, status |-> "active"]
    BY <1>1, Inserts
  <2>5. rows'[k].student = s
    BY <2>4
  <2>6. \A i \in ActiveRows : rows'[i].student = rows[i].student
    BY StudentsStay
  <2>7. Members' = Members \cup {s}
    <3> HIDE DEF k, s
    <3>1. \A t \in Students : t \in Members <=> \E i \in ActiveRows : rows[i].student = t
      BY DEF Members, ActiveRowsOf
    <3>2. \A t \in Students :
            t \in Members' <=> \E i \in ActiveRows' : rows'[i].student = t
      BY DEF Members, ActiveRowsOf
    <3> QED BY <2>1, <2>3, <2>5, <2>6, <3>1, <3>2 DEF Members
  <2>8. \E c \in offered : c = NoLimit \/ Cardinality(Members) < c
    <3>1. req[q].capacity \in offered
      BY <1>1 DEF InsertEnrollment, At, Joining, SeatInv, LimitInv
    <3>2. CASE req[q].capacity = NoLimit
      BY <3>1, <3>2
    <3>3. CASE req[q].capacity # NoLimit
      <4>1. CountActive < req[q].capacity /\ req[q].capacity \in Nat
        BY <1>1, <3>1, <3>3, CapacityAssumption
           DEF InsertEnrollment, SeatInv, CountStaysTrue, TypeOK
      <4> QED BY <3>1, <4>1, FewerMembers, ActiveIsFinite
    <3> QED BY <3>2, <3>3
  <2>9. Booking!Join(s)
    BY <2>1, <2>2, <2>7, <2>8, SameCardinality DEF Booking!Join
  <2> QED BY <2>1, <2>9 DEF Booking!Next
<1>2. ASSUME NEW q \in Requests, Withdraw(q)
      PROVE Booking!Next \/ UNCHANGED <<Members, offered>>
  <2> DEFINE k == req[q].row
             s == rows[k].student
  <2>1. offered' = offered /\ ActiveRows' = ActiveRows \ {k}
    BY <1>2, WithdrawsActive DEF Withdraw, courseVars
  <2>2. \A i \in ActiveRows : rows'[i].student = rows[i].student
    BY StudentsStay
  <2>3. \A t \in Students : t \in Members <=> \E i \in ActiveRows : rows[i].student = t
    BY DEF Members, ActiveRowsOf
  <2>4. \A t \in Students :
          t \in Members' <=> \E i \in ActiveRows' : rows'[i].student = t
    BY DEF Members, ActiveRowsOf
  <2>5. CASE k \notin ActiveRows
    <3>1. Members' = Members
      BY <2>1, <2>2, <2>3, <2>4, <2>5 DEF Members
    <3> QED BY <2>1, <3>1
  <2>6. CASE k \in ActiveRows
    <3>1. s \in Students
      BY <2>6, StudentsStay
    <3>2. Members' = Members \ {s}
      BY <2>1, <2>2, <2>3, <2>4, <2>6, <3>1 DEF Members, UniqueRows
    <3>3. s \in Members
      BY <2>3, <2>6, <3>1
    <3>4. Booking!Leave(s)
      BY <2>1, <3>2, <3>3 DEF Booking!Leave
    <3> QED BY <3>1, <3>4 DEF Booking!Next
  <2> QED BY <2>5, <2>6
<1>3. CASE rows' = rows
  <2>1. Members' = Members
    BY <1>3 DEF Members, ActiveRowsOf, ActiveRows
  <2>2. offered \subseteq offered'
    BY LimitHolds DEF SeatInv
  <2>3. offered' \subseteq Booking!Limits
    BY CapacityAssumption DEF TypeOK, Booking!Limits
  <2> QED BY <2>1, <2>2, <2>3 DEF Booking!Next, Booking!Offer
<1> QED BY <1>1, <1>2, <1>3, RowsStep

(* All statements of all requests, whatever they read how long ago, are    *)
(* whole bookings, withdrawals and offers in some order.                   *)
THEOREM BooksAtomically == Spec => ImplementsBooking
<1>1. Init => Booking!Init
  <2> SUFFICES ASSUME Init PROVE Booking!Init
    OBVIOUS
  <2>1. Members = {}
    BY EmptySeq DEF Init, Members, ActiveRowsOf, ActiveRows
  <2>2. offered \subseteq Booking!Limits
    BY CapacityAssumption DEF Init, Booking!Limits
  <2>3. Cardinality(offered) = 1
    BY FS_Singleton DEF Init
  <2> QED BY <2>1, <2>2, <2>3, SameCardinality DEF Booking!Init
<1>2. /\ TypeOK /\ TypeOK' /\ ReadInv /\ SeatInv /\ UniqueRows /\ [Next]_vars
      => [Booking!Next]_(Booking!vars)
  BY StepImplements DEF Booking!vars
<1> QED BY <1>1, <1>2, Typed, SeatsAlways, UniqueAlways, PTL
        DEF Spec, ImplementsBooking, Booking!Spec
==============================================================================
