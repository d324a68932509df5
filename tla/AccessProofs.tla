------------------------------ MODULE AccessProofs ------------------------------
(***************************************************************************)
(* Access, proved for any accounts: whatever a request is answered was due *)
(* at one moment of it.                                                    *)
(***************************************************************************)
EXTENDS Access, TLAPS

(***************************************************************************)
(* The code's decisions are the rules', step by step.                      *)
(***************************************************************************)
Statuses == {"draft", "publishing", "ready", "failed", "gone"}
RoleNames == {"student", "instructor", "admin"}

(* What get_current_user and require_roles refuse, the rules refuse.       *)
LEMMA RefusedByRule ==
  ASSUME NEW u \in Emails, NEW d \in Doors, NEW f \in Filters,
         NEW c \in Dir!Account, NEW s, NEW m,
         account[u] = c, Refusal(u, d, f, c.roles) # "none"
  PROVE  /\ Refusal(u, d, f, c.roles) = Rule(u, c, d, f, s, m)
         /\ Refusal(u, d, f, c.roles) \in Answers(d) \cup {"unauthenticated"}
<1>1. Refusal(u, d, f, c.roles) = Rule(u, c, d, f, s, m)
  BY DEF Refusal, Rule, Doors, Reading, Writing, Filters, Filterable, InstructorOnly,
         Admin, Teaches, Sees, Dir!Account, Dir!SelfChosen, Dir!SelfAssignable
<1>2. Refusal(u, d, f, c.roles) \in Answers(d) \cup {"unauthenticated"}
  BY DEF Refusal, Answers, Writing, Reading
<1> QED BY <1>1, <1>2

(* What has got past them.                                                 *)
LetIn(c, d, f) ==
  /\ c.active
  /\ d \in Writing => InstructorOnly(c.roles)
  /\ d = "list" => f \in Filterable(c.roles)

(* Who is not refused has been let in.                                     *)
LEMMA LetInIsNotRefused ==
  ASSUME NEW u, NEW d, NEW f, account[u].active \in BOOLEAN,
         Refusal(u, d, f, account[u].roles) = "none"
  PROVE  LetIn(account[u], d, f)
  BY DEF Refusal, LetIn

(* What the course's row decides, the rules decide with that row; and the  *)
(* enrollment is only asked for when the course is live.                   *)
LEMMA DecidedByRule ==
  ASSUME NEW u, NEW d \in Doors, NEW f \in Filters, NEW c \in Dir!Account,
         NEW s \in Statuses, NEW m, LetIn(c, d, f)
  PROVE  LET a == AfterCourse(d, f, s, u, c.roles)
         IN IF a = "ask"
            THEN d \in Reading /\ s = "ready" /\ ~MayReadUnenrolled(u, c.roles)
            ELSE a = Rule(u, c, d, f, s, m) /\ a \in Answers(d)
<1> USE DEF LetIn, AfterCourse, Rule, Answers, Sees, Admin, Teaches,
            CanView, MayReadUnenrolled, InstructorOnly
<1>1. CASE d \in Reading
  BY <1>1 DEF Reading, Writing
<1>2. CASE d = "edit"
  BY <1>2 DEF Reading, Writing, CanEdit
<1>3. CASE d = "publish"
  BY <1>3 DEF Reading, Writing, CanPublish
<1>4. CASE d = "roster"
  BY <1>4 DEF Reading, Writing
<1>5. CASE d = "enroll"
  BY <1>5 DEF Reading, Writing, MayEnroll
<1>6. CASE d = "list"
  BY <1>6 DEF Reading, Writing, OnPage, Filterable, Filters, Statuses
<1> QED BY <1>1, <1>2, <1>3, <1>4, <1>5, <1>6 DEF Doors, Writing

(* Behind the course, the rules ask for the enrollment alone.              *)
LEMMA GatedByRule ==
  ASSUME NEW u, NEW d \in Reading, NEW f, NEW c, NEW m,
         c.active, ~MayReadUnenrolled(u, c.roles)
  PROVE  Rule(u, c, d, f, "ready", m) = IF u \in m THEN "content" ELSE Locked(d)
  BY DEF Rule, Sees, Admin, MayReadUnenrolled, Reading, Writing

(***************************************************************************)
(* Type correctness                                                        *)
(***************************************************************************)
AnswerNames == Granted \cup {"unlisted", "missing", "forbidden", "unauthenticated"}

World ==
  /\ account \in [Emails -> Dir!Account \cup {Nobody}]
  /\ account[Owner] # Nobody
  /\ status \in Statuses
  /\ stamped \in BOOLEAN
  /\ members \subseteq roster /\ roster \subseteq Emails

(* Accounts stay accounts, and none is ever removed.                       *)
LEMMA AccountsStay ==
  ASSUME account \in [Emails -> Dir!Account \cup {Nobody}],
         account[Owner] # Nobody, Dir!Next
  PROVE  /\ account' \in [Emails -> Dir!Account \cup {Nobody}]
         /\ account'[Owner] # Nobody
<1> DEFINE Put(e, c) == account' = [account EXCEPT ![e] = c]
<1>1. \E e \in Emails, c \in Dir!Account : Put(e, c)
  <2>1. CASE Dir!SeedAdmin
    <3>1. PICK p \in Passwords :
            Put(AdminEmail, [password |-> p, roles |-> {"admin"}, active |-> TRUE])
      BY <2>1 DEF Dir!SeedAdmin
    <3>2. [password |-> p, roles |-> {"admin"}, active |-> TRUE] \in Dir!Account
      BY DEF Dir!Account
    <3> QED BY <3>1, <3>2, EmailAssumption
  <2>2. ASSUME NEW e \in Emails, Dir!SignUp(e)
        PROVE  \E c \in Dir!Account : Put(e, c)
    <3>1. PICK p \in Passwords, rs \in Dir!SelfChosen :
            Put(e, [password |-> p, roles |-> rs, active |-> TRUE])
      BY <2>2 DEF Dir!SignUp
    <3>2. [password |-> p, roles |-> rs, active |-> TRUE] \in Dir!Account
      BY DEF Dir!Account
    <3> QED BY <3>1, <3>2
  <2>3. ASSUME NEW e \in Emails, Dir!ChangeRoles(e)
        PROVE  \E c \in Dir!Account : Put(e, c)
    <3>1. PICK rs \in Dir!SelfChosen : account' = [account EXCEPT ![e].roles = rs]
      BY <2>3 DEF Dir!ChangeRoles
    <3>2. account[e] \in Dir!Account
      BY <2>3 DEF Dir!ChangeRoles
    <3>3. [account[e] EXCEPT !.roles = rs] \in Dir!Account
      BY <3>2 DEF Dir!Account
    <3>4. Put(e, [account[e] EXCEPT !.roles = rs])
      BY <3>1, Zenon
    <3> QED BY <3>3, <3>4
  <2>4. ASSUME NEW e \in Emails, Dir!Switch(e)
        PROVE  \E c \in Dir!Account : Put(e, c)
    <3>1. account' = [account EXCEPT ![e].active = ~account[e].active]
      BY <2>4 DEF Dir!Switch
    <3>2. account[e] \in Dir!Account
      BY <2>4 DEF Dir!Switch
    <3>3. [account[e] EXCEPT !.active = ~account[e].active] \in Dir!Account
      BY <3>2, Zenon DEF Dir!Account
    <3>4. Put(e, [account[e] EXCEPT !.active = ~account[e].active])
      BY <3>1, Zenon
    <3> QED BY <3>3, <3>4
  <2> QED BY <2>1, <2>2, <2>3, <2>4 DEF Dir!Next
<1>2. PICK e \in Emails, c \in Dir!Account : Put(e, c)
  BY <1>1
<1>3. c # Nobody
  BY NobodyAssumption
<1>4. Owner \in Emails
  BY EmailAssumption
<1> QED BY <1>2, <1>3, <1>4

(* The world keeps its shape whatever happens in it.                       *)
LEMMA WorldStays == World /\ WorldNext => World'
<1> SUFFICES ASSUME World, WorldNext PROVE World'
  OBVIOUS
<1>1. CASE AccountsChange
  BY <1>1, AccountsStay DEF AccountsChange, World
<1>2. CASE Publish
  BY <1>2 DEF Publish, World, Statuses, Life!Begin, Life!GoLive, Life!Fail
<1>3. CASE Delete
  BY <1>3 DEF Delete, World, Statuses, Life!Delete
<1>4. ASSUME NEW u \in Emails, Join(u) PROVE World'
  BY <1>4 DEF Join, Places!Join, World
<1>5. ASSUME NEW u \in Emails, Withdraw(u) PROVE World'
  BY <1>5 DEF Withdraw, Places!Leave, World
<1> QED BY <1>1, <1>2, <1>3, <1>4, <1>5 DEF WorldNext

(* The rules only ever say one of the answers.                             *)
LEMMA RuleIsAnAnswer ==
  ASSUME NEW u, NEW c, NEW d \in Doors, NEW f, NEW s, NEW m
  PROVE  Rule(u, c, d, f, s, m) \in AnswerNames
<1> USE DEF Rule, AnswerNames, Granted, Locked
<1>1. CASE d \in Reading
  BY <1>1 DEF Reading, Writing
<1>2. CASE d \in Writing
  BY <1>2 DEF Reading, Writing
<1>3. CASE d \in {"roster", "enroll", "list"}
  BY <1>3 DEF Reading, Writing
<1> QED BY <1>1, <1>2, <1>3 DEF Doors

(***************************************************************************)
(* What is true of a request under way. While the course is not decided,   *)
(* what the rules say now is among what was due; behind the course, it has *)
(* been live, and if it is gone since, nobody had a place any more.        *)
(***************************************************************************)
UnderWay == visit.pc \in {"asked", "viewed"}

FollowsRules ==
  UnderWay =>
    /\ visit.caller.active /\ visit.roles = visit.caller.roles
    /\ Rule(visit.who, visit.caller, visit.door, visit.filter, status, members)
         \in visit.due

PastTheDoor ==
  visit.pc = "asked" => LetIn(visit.caller, visit.door, visit.filter)

PastTheCourse ==
  visit.pc = "viewed" =>
    /\ visit.door \in Reading /\ ~MayReadUnenrolled(visit.who, visit.roles)
    /\ status \in {"ready", "gone"}
    /\ status = "gone" => Locked(visit.door) \in visit.due

AnsweredDue == visit.pc = "answered" => visit.answer \in visit.due

GoneIsEmpty == status = "gone" => roster = {}

VisitTyped == visit = NoVisit \/ visit \in Visits

VisitInv ==
  World /\ VisitTyped /\ GoneIsEmpty /\ FollowsRules /\ PastTheDoor /\ PastTheCourse
  /\ AnsweredDue

(* What a request holds, field by field.                                   *)
LEMMA Fields ==
  ASSUME VisitTyped, visit.pc # "none"
  PROVE  /\ visit \in Visits
         /\ visit.pc \in {"asked", "viewed", "answered"} /\ visit.who \in Emails
         /\ visit.door \in Doors /\ visit.filter \in Filters
         /\ visit.caller \in Dir!Account /\ visit.due \subseteq AnswerNames
<1>1. visit \in Visits
  BY DEF VisitTyped, NoVisit
<1> QED BY <1>1 DEF Visits, AnswerNames

(* It starts with nobody asking.                                           *)
LEMMA VisitInit == Init => VisitInv
<1> SUFFICES ASSUME Init PROVE VisitInv
  OBVIOUS
<1>1. visit.pc = "none" /\ VisitTyped
  BY DEF Init, NoVisit, VisitTyped
<1>2. World /\ GoneIsEmpty
  BY DEF Init, World, GoneIsEmpty, Statuses, Life!Init
<1> QED BY <1>1, <1>2 DEF VisitInv, FollowsRules, UnderWay, PastTheDoor, PastTheCourse,
                          AnsweredDue

(* What is said of the world, and of nothing else.                         *)
LEMMA SameWorld ==
  ASSUME World, GoneIsEmpty, UNCHANGED world
  PROVE  World' /\ GoneIsEmpty'
BY DEF World, GoneIsEmpty, world

(* Coming in: either the rules refuse too, or the caller is let in.        *)
LEMMA AskKeeps ==
  ASSUME VisitInv, NEW u \in Emails, NEW d \in Doors, NEW f \in Filters, Ask(u, d, f)
  PROVE  VisitInv'
<1> DEFINE c == account[u]
           r == Refusal(u, d, f, c.roles)
           said == Rule(u, c, d, f, status, members)
           pc == IF r = "none" THEN "asked" ELSE "answered"
<1>1. World' /\ GoneIsEmpty' /\ UNCHANGED <<status, members>>
  BY SameWorld DEF VisitInv, Ask, world
<1>2. c \in Dir!Account
  BY DEF Ask, VisitInv, World
<1>3. visit' = [pc |-> pc, who |-> u, door |-> d, filter |-> f, roles |-> c.roles,
                answer |-> r, caller |-> c, due |-> {said}]
  BY DEF Ask
<1>4. /\ visit'.pc = pc /\ visit'.who = u /\ visit'.door = d /\ visit'.filter = f
      /\ visit'.roles = c.roles /\ visit'.answer = r /\ visit'.caller = c
      /\ visit'.due = {said}
  BY <1>3
<1>5. said \in AnswerNames
  BY RuleIsAnAnswer
<1>6. r # "none" => r = said /\ r \in Answers(d) \cup {"unauthenticated"}
  BY <1>2, RefusedByRule
<1>7. r = "none" => LetIn(c, d, f)
  BY <1>2, LetInIsNotRefused DEF Dir!Account
<1>8. r \in {"none", "unauthenticated", "forbidden"}
  BY DEF Refusal
<1>9. c.roles \in SUBSET {"student", "instructor", "admin"}
  BY <1>2 DEF Dir!Account, Dir!SelfChosen, Dir!SelfAssignable
<1>10. visit' \in Visits
  <2>1. pc \in {"asked", "answered"} /\ (pc = "answered" => r # "none")
    OBVIOUS
  <2>2. {said} \subseteq AnswerNames
    BY <1>5
  <2> HIDE DEF c, r, said, pc
  <2> QED BY <2>1, <2>2, <1>2, <1>3, <1>6, <1>8, <1>9 DEF Visits, AnswerNames
<1>11. VisitTyped'
  BY <1>10 DEF VisitTyped
<1>12. FollowsRules' /\ PastTheDoor'
  BY <1>1, <1>4, <1>7 DEF FollowsRules, PastTheDoor, UnderWay, LetIn
<1>13. PastTheCourse' /\ AnsweredDue'
  BY <1>4, <1>6 DEF PastTheCourse, AnsweredDue
<1> QED BY <1>1, <1>11, <1>12, <1>13 DEF VisitInv

(* An answer that was due, and that the endpoint gives, is a fair end.     *)
LEMMA AnswerKeeps ==
  ASSUME VisitInv, UNCHANGED world, UnderWay, NEW a, Answer(a),
         a \in visit.due, a \in Answers(visit.door)
  PROVE  VisitInv'
<1>1. World' /\ GoneIsEmpty'
  BY SameWorld DEF VisitInv
<1>2. visit \in Visits /\ visit.due \subseteq AnswerNames
  BY Fields DEF VisitInv, UnderWay
<1>3. /\ visit'.pc = "answered" /\ visit'.answer = a /\ visit'.due = visit.due
      /\ visit'.door = visit.door
  BY <1>2 DEF Answer, Visits
<1>4. visit' \in Visits
  BY <1>2 DEF Answer, Visits, AnswerNames
<1> QED BY <1>1, <1>3, <1>4 DEF VisitInv, VisitTyped, FollowsRules, UnderWay, PastTheDoor,
                                PastTheCourse, AnsweredDue

(* The course's row: an answer the rules give too, or on to the enrollment.*)
LEMMA LoadKeeps ==
  ASSUME VisitInv, LoadCourse
  PROVE  VisitInv'
<1> DEFINE a == AfterCourse(visit.door, visit.filter, status, visit.who, visit.roles)
           said == Rule(visit.who, visit.caller, visit.door, visit.filter, status, members)
<1>1. visit.pc = "asked" /\ UNCHANGED world
  BY DEF LoadCourse
<1>2. /\ visit \in Visits /\ visit.door \in Doors /\ visit.filter \in Filters
      /\ visit.caller \in Dir!Account
  BY <1>1, Fields DEF VisitInv
<1>3. /\ visit.roles = visit.caller.roles /\ said \in visit.due
      /\ LetIn(visit.caller, visit.door, visit.filter)
  BY <1>1 DEF VisitInv, FollowsRules, UnderWay, PastTheDoor
<1>4. status \in Statuses
  BY DEF VisitInv, World
<1>5. IF a = "ask"
      THEN /\ visit.door \in Reading /\ status = "ready"
           /\ ~MayReadUnenrolled(visit.who, visit.roles)
      ELSE a = said /\ a \in Answers(visit.door)
  BY <1>2, <1>3, <1>4, DecidedByRule
<1>6. CASE a # "ask"
  <2>1. Answer(a)
    BY <1>6 DEF LoadCourse
  <2>2. a \in visit.due /\ a \in Answers(visit.door)
    BY <1>3, <1>5, <1>6
  <2> HIDE DEF a
  <2> QED BY <1>1, <2>1, <2>2, AnswerKeeps DEF UnderWay
<1>7. CASE a = "ask"
  <2>1. visit' = [visit EXCEPT !.pc = "viewed"]
    BY <1>7 DEF LoadCourse
  <2>2. /\ visit'.pc = "viewed" /\ visit'.who = visit.who /\ visit'.door = visit.door
        /\ visit'.filter = visit.filter /\ visit'.roles = visit.roles
        /\ visit'.caller = visit.caller /\ visit'.due = visit.due
    BY <1>2, <2>1 DEF Visits
  <2>3. visit' \in Visits
    BY <1>2, <2>1 DEF Visits
  <2>4. World' /\ GoneIsEmpty' /\ UNCHANGED <<status, members>>
    BY <1>1, SameWorld DEF VisitInv, world
  <2>5. FollowsRules' /\ PastTheDoor' /\ AnsweredDue'
    BY <1>1, <2>2, <2>4 DEF VisitInv, FollowsRules, UnderWay, PastTheDoor, AnsweredDue
  <2>6. PastTheCourse'
    BY <1>5, <1>7, <2>2, <2>4 DEF PastTheCourse
  <2> QED BY <2>3, <2>4, <2>5, <2>6 DEF VisitInv, VisitTyped
<1> QED BY <1>6, <1>7

(* The enrollment: with the course still live the rules say the same, and  *)
(* with the course gone nobody is enrolled, which was due when it was live.*)
LEMMA GetActiveKeeps ==
  ASSUME VisitInv, GetActive
  PROVE  VisitInv'
<1> DEFINE a == IF visit.who \in members THEN "content" ELSE WithoutContent(visit.door)
<1>1. visit.pc = "viewed" /\ UNCHANGED world /\ Answer(a)
  BY DEF GetActive
<1>2. /\ visit.door \in Reading /\ ~MayReadUnenrolled(visit.who, visit.roles)
      /\ status \in {"ready", "gone"}
      /\ status = "gone" => Locked(visit.door) \in visit.due
      /\ visit.caller.active /\ visit.roles = visit.caller.roles
      /\ Rule(visit.who, visit.caller, visit.door, visit.filter, status, members)
           \in visit.due
  BY <1>1 DEF VisitInv, PastTheCourse, FollowsRules, UnderWay
<1>3. a \in Answers(visit.door)
  BY <1>2 DEF Answers, WithoutContent, Reading
<1>4. a \in visit.due
  <2>1. CASE status = "ready"
    BY <1>2, <2>1, GatedByRule DEF WithoutContent, Locked
  <2>2. CASE status = "gone"
    BY <1>2, <2>2 DEF VisitInv, GoneIsEmpty, World, WithoutContent, Locked
  <2> QED BY <1>2, <2>1, <2>2
<1> HIDE DEF a
<1> QED BY <1>1, <1>3, <1>4, AnswerKeeps DEF UnderWay

(* A course that is live goes nowhere but away, and not while anybody has  *)
(* a row on its roster.                                                    *)
LEMMA LiveStaysLive ==
  ASSUME World, GoneIsEmpty, WorldNext
  PROVE  /\ GoneIsEmpty'
         /\ status = "ready" => \/ status' = "ready"
                                \/ status' = "gone" /\ members = {}
         /\ status = "gone" => status' = "gone"
<1>1. CASE AccountsChange
  BY <1>1 DEF AccountsChange, GoneIsEmpty
<1>2. CASE Publish
  BY <1>2 DEF Publish, GoneIsEmpty, Life!Begin, Life!GoLive, Life!Fail
<1>3. CASE Delete
  BY <1>3 DEF Delete, GoneIsEmpty, Life!Delete, World
<1>4. ASSUME NEW u \in Emails, Join(u) PROVE UNCHANGED status /\ GoneIsEmpty'
  BY <1>4 DEF Join, GoneIsEmpty
<1>5. ASSUME NEW u \in Emails, Withdraw(u) PROVE UNCHANGED status /\ GoneIsEmpty'
  BY <1>5 DEF Withdraw, GoneIsEmpty
<1> QED BY <1>1, <1>2, <1>3, <1>4, <1>5 DEF WorldNext

(* The world moves on under a request: what the rules say now is added to  *)
(* what was due, and nothing that was due is forgotten.                    *)
LEMMA WorldKeeps ==
  ASSUME VisitInv, WorldNext, Watch
  PROVE  VisitInv'
<1> DEFINE said == Rule(visit.who, visit.caller, visit.door, visit.filter, status', members')
<1>1. World' /\ GoneIsEmpty'
  BY WorldStays, LiveStaysLive DEF VisitInv
<1>2. CASE ~UnderWay
  <2>1. visit' = visit
    BY <1>2 DEF Watch, UnderWay
  <2> QED BY <1>1, <1>2, <2>1 DEF VisitInv, VisitTyped, FollowsRules, UnderWay,
                                  PastTheDoor, PastTheCourse, AnsweredDue
<1>3. CASE UnderWay
  <2>1. visit \in Visits /\ visit.due \subseteq AnswerNames /\ visit.door \in Doors
    BY <1>3, Fields DEF VisitInv, UnderWay
  <2>2. visit' = [visit EXCEPT !.due = @ \cup {said}]
    BY <1>3 DEF Watch, UnderWay
  <2>3. said \in AnswerNames
    BY <2>1, RuleIsAnAnswer
  <2> HIDE DEF said
  <2>4. /\ visit'.pc = visit.pc /\ visit'.who = visit.who /\ visit'.door = visit.door
        /\ visit'.filter = visit.filter /\ visit'.roles = visit.roles
        /\ visit'.caller = visit.caller /\ visit'.answer = visit.answer
        /\ visit'.due = visit.due \cup {said}
    BY <2>1, <2>2 DEF Visits
  <2>5. visit' \in Visits
    BY <2>1, <2>2, <2>3 DEF Visits, AnswerNames
  <2>6. FollowsRules'
    <3>1. said \in visit'.due /\ visit'.roles = visit'.caller.roles /\ visit'.caller.active
      BY <1>3, <2>4 DEF VisitInv, FollowsRules, UnderWay
    <3>2. said = Rule(visit.who, visit.caller, visit.door, visit.filter, status', members')
      BY DEF said
    <3> QED BY <2>4, <3>1, <3>2 DEF FollowsRules
  <2>7. PastTheDoor' /\ AnsweredDue'
    BY <2>4 DEF VisitInv, PastTheDoor, AnsweredDue
  <2>8. PastTheCourse'
    <3> SUFFICES ASSUME visit.pc = "viewed" PROVE PastTheCourse'
      BY <2>4 DEF PastTheCourse
    <3>1. /\ visit.door \in Reading /\ ~MayReadUnenrolled(visit.who, visit.roles)
          /\ status \in {"ready", "gone"}
          /\ status = "gone" => Locked(visit.door) \in visit.due
          /\ visit.caller.active /\ visit.roles = visit.caller.roles
      BY <1>3 DEF VisitInv, PastTheCourse, FollowsRules
    <3>2. /\ status = "ready" => \/ status' = "ready"
                                 \/ status' = "gone" /\ members = {}
          /\ status = "gone" => status' = "gone"
      BY LiveStaysLive DEF VisitInv
    <3>3. status = "ready" /\ members = {} => Locked(visit.door) \in visit.due
      <4> SUFFICES ASSUME status = "ready", members = {}
                   PROVE  Locked(visit.door) \in visit.due
        OBVIOUS
      <4>1. Rule(visit.who, visit.caller, visit.door, visit.filter, "ready", members)
              \in visit.due
        BY <1>3 DEF VisitInv, FollowsRules
      <4> QED BY <3>1, <4>1, GatedByRule
    <3> QED BY <2>4, <3>1, <3>2, <3>3 DEF PastTheCourse
  <2> QED BY <1>1, <2>5, <2>6, <2>7, <2>8 DEF VisitInv, VisitTyped
<1> QED BY <1>2, <1>3

(* Every step.                                                             *)
LEMMA VisitStep == VisitInv /\ [Next]_vars => VisitInv'
<1> SUFFICES ASSUME VisitInv, [Next]_vars PROVE VisitInv'
  OBVIOUS
<1>1. ASSUME NEW u \in Emails, NEW d \in Doors, NEW f \in Filters, Ask(u, d, f)
      PROVE  VisitInv'
  BY <1>1, AskKeeps
<1>2. CASE LoadCourse
  BY <1>2, LoadKeeps
<1>3. CASE GetActive
  BY <1>3, GetActiveKeeps
<1>4. CASE Leave
  <2>1. World' /\ GoneIsEmpty'
    BY <1>4, SameWorld DEF VisitInv, Leave
  <2>2. visit' = NoVisit /\ visit'.pc = "none"
    BY <1>4 DEF Leave, NoVisit
  <2> QED BY <2>1, <2>2 DEF VisitInv, VisitTyped, FollowsRules, UnderWay, PastTheDoor,
                            PastTheCourse, AnsweredDue, NoVisit
<1>5. CASE WorldNext /\ Watch
  BY <1>5, WorldKeeps
<1>6. CASE UNCHANGED vars
  BY <1>6 DEF vars, world, VisitInv, World, GoneIsEmpty, VisitTyped, FollowsRules, UnderWay,
              PastTheDoor, PastTheCourse, AnsweredDue, NoVisit, Visits
<1> QED BY <1>1, <1>2, <1>3, <1>4, <1>5, <1>6 DEF Next

(* So the invariant holds throughout.                                      *)
LEMMA VisitHolds == Spec => []VisitInv
BY VisitInit, VisitStep, PTL DEF Spec

(***************************************************************************)
(* The results                                                             *)
(***************************************************************************)

(* TypeOK: accounts, the course's row, the places and the request keep     *)
(* their shape, and each endpoint answers only what it can answer.         *)
THEOREM TypeCorrect == Spec => []TypeOK
<1>1. VisitInv => TypeOK
  BY DEF VisitInv, TypeOK, World, VisitTyped, Statuses
<1> QED BY <1>1, VisitHolds, PTL

(* GrantedWasDue: can_view, may_read_content and the ladders never show,   *)
(* list or allow what the rules did not give the caller at some moment of  *)
(* the request, whatever is published, deleted, joined or left meanwhile.  *)
THEOREM GrantedDue == Spec => []GrantedWasDue
<1>1. VisitInv => GrantedWasDue
  BY DEF VisitInv, AnsweredDue, GrantedWasDue
<1> QED BY <1>1, VisitHolds, PTL

(* RefusalWasDue: nor does an endpoint say 404, 403 or 401 where the rules *)
(* said otherwise at every moment of the request.                          *)
THEOREM RefusalDue == Spec => []RefusalWasDue
<1>1. VisitInv => RefusalWasDue
  BY DEF VisitInv, AnsweredDue, RefusalWasDue
<1> QED BY <1>1, VisitHolds, PTL
==============================================================================
