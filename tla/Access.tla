-------------------------------- MODULE Access --------------------------------
(***************************************************************************)
(* Who gets what from one course: the visibility rule, the content gate    *)
(* and the 404/403 ladders of the endpoints, as one request meets them. It *)
(* loads the caller, then the course, then perhaps the caller's            *)
(* enrollment, each in a statement of its own, while accounts, the course  *)
(* and its places change as Directory, CourseLifecycle and SeatBooking     *)
(* promise. A request of this module writes nothing, so one at a time is   *)
(* enough.                                                                 *)
(***************************************************************************)
CONSTANTS
  Emails, AdminEmail, Passwords, Nobody,   \* as in Directory
  Owner                                    \* who created the course

ASSUME EmailAssumption == {Owner, AdminEmail} \subseteq Emails

VARIABLES
  account,          \* as in Directory
  status, stamped,  \* as in CourseLifecycle
  members,          \* as in SeatBooking: who has an active enrollment
  roster,           \* who has an enrollment of any status; rows are kept
  visit             \* the request, or NoVisit

world == <<account, status, stamped, members, roster>>
vars == <<world, visit>>

Dir == INSTANCE Directory
Life == INSTANCE CourseLifecycle
Places == INSTANCE SeatBooking
            WITH Students <- Emails, NoLimit <- 0, offered <- {0}

ASSUME NobodyAssumption == Nobody \notin Dir!Account

NoVisit == [pc |-> "none"]

(* The course has been created; its owner may have changed roles since.    *)
Init ==
  /\ account \in [Emails -> Dir!Account \cup {Nobody}]
  /\ account[Owner] # Nobody
  /\ \A e \in Emails \ {AdminEmail} :
       account[e] # Nobody => account[e].roles # {"admin"}
  /\ Life!Init
  /\ members = {} /\ roster = {}
  /\ visit = NoVisit

(***************************************************************************)
(* The endpoints. Two routes share what is said of "publish": POST publish *)
(* and GET publish/status have the same ladder.                            *)
(***************************************************************************)
Reading == {"course", "module", "lesson", "lessons"}
Writing == {"edit", "publish"}
Doors == Reading \cup Writing \cup {"roster", "enroll", "list"}
Filters == {"any", "draft", "publishing", "ready", "failed"}

(* require_roles(instructor, admin)                                        *)
InstructorOnly(rs) == rs \cap {"instructor", "admin"} # {}

CanView(s, u, rs) ==
  s = "ready" \/ "admin" \in rs \/ (u = Owner /\ "instructor" \in rs)

(* may_read_content, as far as it needs no query.                          *)
MayReadUnenrolled(u, rs) == "admin" \in rs \/ u = Owner

(* list_courses: what the caller may ask for, then the WHERE of the query. *)
Filterable(rs) == IF InstructorOnly(rs) THEN Filters ELSE {"any", "ready"}
OnPage(f, s, u, rs) ==
  /\ s # "gone"
  /\ f \in {"any", s}
  /\ "admin" \in rs \/ s = "ready" \/ ("instructor" \in rs /\ u = Owner)

(* _assert_can_edit                                                        *)
CanEdit(s, u, rs) ==
  IF "admin" \in rs \/ u = Owner THEN "allowed"
  ELSE IF CanView(s, u, rs) THEN "forbidden" ELSE "missing"

(* Mutant: 404 for everyone who may not publish, as in the first version.  *)
PublishElseMissing(s, u, rs) ==
  IF "admin" \in rs \/ (u = Owner /\ "instructor" \in rs)
  THEN "allowed" ELSE "missing"

(* assert_publishing_access                                                *)
CanPublish(s, u, rs) ==
  IF ~CanView(s, u, rs) THEN "missing"
  ELSE IF "admin" \in rs \/ ("instructor" \in rs /\ u = Owner) THEN "allowed"
  ELSE "forbidden"

(* enroll, up to the role; the rest of it is module Enrollment.            *)
MayEnroll(s, rs) ==
  IF s # "ready" THEN "missing"
  ELSE IF "student" \in rs THEN "allowed" ELSE "forbidden"

(* The answer the course's row leads to; "ask" when the enrollment is next.*)
AfterCourse(d, f, s, u, rs) ==
  IF d = "list" THEN IF OnPage(f, s, u, rs) THEN "listed" ELSE "unlisted"
  ELSE IF s = "gone" THEN "missing"
  ELSE CASE d \in Reading ->
              IF ~CanView(s, u, rs) THEN "missing"
              ELSE IF MayReadUnenrolled(u, rs) THEN "content" ELSE "ask"
         [] d = "edit" -> CanEdit(s, u, rs)
         [] d = "publish" -> CanPublish(s, u, rs)
         [] d = "roster" -> IF MayReadUnenrolled(u, rs) THEN "allowed" ELSE "missing"
         [] d = "enroll" -> MayEnroll(s, rs)

(***************************************************************************)
(* What the rules say of a caller `c` (an account as it was when the       *)
(* request began) at one moment: README, "Who can see what".               *)
(***************************************************************************)
Admin(c) == "admin" \in c.roles
Teaches(u, c) == u = Owner /\ "instructor" \in c.roles
Sees(s, u, c) == s = "ready" \/ (s # "gone" /\ (Admin(c) \/ Teaches(u, c)))
Locked(d) == IF d = "lesson" THEN "forbidden" ELSE "syllabus"

Rule(u, c, d, f, s, m) ==
  IF ~c.active THEN "unauthenticated"
  ELSE CASE d \in Reading ->
              IF ~Sees(s, u, c) THEN "missing"
              ELSE IF Admin(c) \/ u \in m \cup {Owner} THEN "content" ELSE Locked(d)
         [] d \in Writing ->
              IF ~Admin(c) /\ "instructor" \notin c.roles THEN "forbidden"
              ELSE IF ~Sees(s, u, c) THEN "missing"
              ELSE IF Admin(c) \/ u = Owner THEN "allowed" ELSE "forbidden"
         [] d = "roster" ->
              IF s # "gone" /\ (Admin(c) \/ u = Owner) THEN "allowed" ELSE "missing"
         [] d = "enroll" ->
              IF s # "ready" THEN "missing"
              ELSE IF "student" \in c.roles THEN "allowed" ELSE "forbidden"
         [] d = "list" ->
              IF c.roles = {"student"} /\ f \notin {"any", "ready"} THEN "forbidden"
              ELSE IF Sees(s, u, c) /\ f \in {"any", s} THEN "listed" ELSE "unlisted"

(***************************************************************************)
(* One request. `roles` is the user object the code goes by; `caller` and  *)
(* `due` are history: the account at the start, and what the rules have    *)
(* said since.                                                             *)
(***************************************************************************)
Answer(a) == visit' = [visit EXCEPT !.pc = "answered", !.answer = a]

(* What is refused before the course is looked at.                         *)
Refusal(u, d, f, rs) ==
  IF ~account[u].active THEN "unauthenticated"
  ELSE IF \/ d \in Writing /\ ~InstructorOnly(rs)
          \/ d = "list" /\ f \notin Filterable(rs)
  THEN "forbidden" ELSE "none"

(* get_current_user, then the route's require_roles. A caller has a token, *)
(* so there has been an account; users are never deleted.                  *)
Ask(u, d, f) ==
  /\ visit = NoVisit /\ account[u] # Nobody
  /\ d # "list" => f = "any"
  /\ LET c == account[u]
         refusal == Refusal(u, d, f, c.roles)
     IN visit' = [pc |-> IF refusal = "none" THEN "asked" ELSE "answered",
                  who |-> u, door |-> d, filter |-> f, roles |-> c.roles,
                  answer |-> refusal,
                  caller |-> c, due |-> {Rule(u, c, d, f, status, members)}]
  /\ UNCHANGED world

(* A lesson and its module are looked up on the way to the course; they    *)
(* are gone when it is.                                                    *)
LoadCourse ==
  /\ visit.pc = "asked"
  /\ LET a == AfterCourse(visit.door, visit.filter, status, visit.who, visit.roles)
     IN IF a = "ask" THEN visit' = [visit EXCEPT !.pc = "viewed"] ELSE Answer(a)
  /\ UNCHANGED world

(* Mutant: one lesson is answered like a list of them.                     *)
SyllabusForAll(d) == "syllabus"

WithoutContent(d) == IF d = "lesson" THEN "forbidden" ELSE "syllabus"

GetActive ==
  /\ visit.pc = "viewed"
  /\ Answer(IF visit.who \in members THEN "content" ELSE WithoutContent(visit.door))
  /\ UNCHANGED world

Leave ==
  /\ visit.pc = "answered"
  /\ visit' = NoVisit
  /\ UNCHANGED world

(***************************************************************************)
(* Meanwhile                                                               *)
(***************************************************************************)
Watch ==
  visit' =
    IF visit.pc \in {"asked", "viewed"}
    THEN [visit EXCEPT !.due = @ \cup
            {Rule(visit.who, visit.caller, visit.door, visit.filter, status', members')}]
    ELSE visit

AccountsChange == Dir!Next /\ UNCHANGED <<status, stamped, members, roster>>

Publish ==
  /\ Life!Begin \/ Life!GoLive \/ Life!Fail
  /\ UNCHANGED <<account, members, roster>>

(* Mutant: deleting a course takes its enrollments with it.                *)
DeleteCascading ==
  /\ Life!Delete
  /\ members' = {} /\ roster' = {}
  /\ UNCHANGED account

(* ON DELETE RESTRICT: not while there is an enrollment of any status.     *)
Delete ==
  /\ Life!Delete /\ roster = {}
  /\ UNCHANGED <<account, members, roster>>

Join(u) ==
  /\ status = "ready" /\ account[u] # Nobody
  /\ Places!Join(u)
  /\ roster' = roster \cup {u}
  /\ UNCHANGED <<account, status, stamped>>

Withdraw(u) ==
  /\ Places!Leave(u)
  /\ UNCHANGED <<account, status, stamped, roster>>

WorldNext ==
  \/ AccountsChange \/ Publish \/ Delete
  \/ \E u \in Emails : Join(u) \/ Withdraw(u)

Next ==
  \/ \E u \in Emails, d \in Doors, f \in Filters : Ask(u, d, f)
  \/ LoadCourse \/ GetActive \/ Leave
  \/ WorldNext /\ Watch

Spec == Init /\ [][Next]_vars

(***************************************************************************)
(* Properties                                                              *)
(***************************************************************************)
Granted == {"content", "syllabus", "allowed", "listed"}

Answers(d) ==
  CASE d = "lesson" -> {"content", "missing", "forbidden"}
    [] d \in Reading \ {"lesson"} -> {"content", "syllabus", "missing"}
    [] d = "list" -> {"listed", "unlisted", "forbidden"}
    [] OTHER -> {"allowed", "missing", "forbidden"}

Visits ==
  {v \in [pc : {"asked", "viewed", "answered"}, who : Emails, door : Doors,
          filter : Filters, roles : SUBSET {"student", "instructor", "admin"},
          answer : Granted \cup {"none", "unlisted", "missing", "forbidden", "unauthenticated"},
          caller : Dir!Account, due : SUBSET (Granted \cup
            {"unlisted", "missing", "forbidden", "unauthenticated"})] :
     v.pc = "answered" => v.answer \in Answers(v.door) \cup {"unauthenticated"}}

TypeOK ==
  /\ account \in [Emails -> Dir!Account \cup {Nobody}]
  /\ account[Owner] # Nobody
  /\ status \in {"draft", "publishing", "ready", "failed", "gone"}
  /\ stamped \in BOOLEAN
  /\ members \subseteq roster /\ roster \subseteq Emails
  /\ visit = NoVisit \/ visit \in Visits

(* can_view, may_read_content and the ladders: whatever is shown, listed   *)
(* or allowed was due to the caller, as they were when they asked, for the *)
(* course and the enrollment at one moment of the request: not for a       *)
(* status read before a withdrawal and an enrollment read after it.        *)
GrantedWasDue ==
  visit.pc = "answered" /\ visit.answer \in Granted => visit.answer \in visit.due

(* "Cannot see it: 404. Can see it, may not act on it: 403": a refusal was *)
(* the right one at one moment of the request, also when the course is     *)
(* published or deleted, or the caller joins or leaves, in the middle.     *)
RefusalWasDue ==
  visit.pc = "answered" /\ visit.answer \notin Granted => visit.answer \in visit.due
==============================================================================
