-------------------------- MODULE PrerequisitesProofs --------------------------
(***************************************************************************)
(* The prerequisite graph, proved for any courses and any requests.        *)
(***************************************************************************)
EXTENDS Prerequisites, TLAPS

Request ==
  [pc : {"idle", "checked", "deleted"}, course : Courses \cup {"none"},
   wanted : SUBSET Courses, saw : SUBSET (Courses \X Courses), alone : BOOLEAN]

(* Types survive every statement, rollback and deletion.                   *)
THEOREM TypeCorrect == Spec => []TypeOK
<1>1. Init => TypeOK
  BY DEF Init, TypeOK, Idle
<1>2. TypeOK /\ [Next]_vars => TypeOK'
  <2> SUFFICES ASSUME TypeOK, [Next]_vars PROVE TypeOK'
    OBVIOUS
  <2> USE DEF TypeOK
  <2>1. ASSUME NEW q \in Requests, NEW c \in Courses, NEW ids \in SUBSET Courses,
               CheckPrerequisites(q, c, ids)
        PROVE TypeOK'
    BY <2>1 DEF CheckPrerequisites
  <2>2. ASSUME NEW q \in Requests, DeleteLinks(q) PROVE TypeOK'
    <3> DEFINE row == Links(req[q].course, PrerequisiteIds(req[q].course))
    <3>1. row \in SUBSET (Courses \X Courses)
      BY DEF Links, PrerequisiteIds
    <3>2. req' = [req EXCEPT ![q] = [req[q] EXCEPT !.pc = "deleted", !.saw = row]]
      BY <2>2 DEF DeleteLinks
    <3>4. [req[q] EXCEPT !.pc = "deleted", !.saw = row] \in Request
      BY <3>1 DEF Request
    <3>3. req' \in [Requests -> Request]
      BY <3>2, <3>4 DEF Request
    <3> QED BY <2>2, <3>3 DEF DeleteLinks, Request
  <2>3. ASSUME NEW q \in Requests, InsertLinks(q) PROVE TypeOK'
    <3> DEFINE links == Links(req[q].course, req[q].wanted)
               other(r) == [req[r] EXCEPT !.saw = @ \ req[q].saw,
                                          !.alone = At(r, "idle")]
    <3>1. requires' = (requires \ req[q].saw) \cup links /\ exists' = exists
      BY <2>3 DEF InsertLinks
    <3>2. links \in SUBSET (Courses \X Courses)
      <4>1. CASE req[q].course \in Courses BY <4>1 DEF Links
      <4>2. CASE req[q].course \notin Courses
        <5>1. links = {}
          BY <2>3, <4>2 DEF InsertLinks
        <5> QED BY <5>1
      <4> QED BY <4>1, <4>2
    <3>3. \A r \in Requests : other(r) \in Request
      BY DEF Request, At
    <3>4. req' = [r \in Requests |-> IF r = q THEN Idle ELSE other(r)]
      BY <2>3 DEF InsertLinks
    <3>5. Idle \in Request
      BY DEF Idle, Request
    <3>6. req' \in [Requests -> Request]
      BY <3>3, <3>4, <3>5
    <3> QED BY <3>1, <3>2, <3>6 DEF Request
  <2>4. ASSUME NEW q \in Requests, Rollback(q) PROVE TypeOK'
    BY <2>4 DEF Rollback, Idle
  <2>5. ASSUME NEW c \in Courses, DeleteCourse(c) PROVE TypeOK'
    BY <2>5 DEF DeleteCourse
  <2>6. CASE UNCHANGED vars
    BY <2>6 DEF vars
  <2> QED BY <2>1, <2>2, <2>3, <2>4, <2>5, <2>6 DEF Next
<1> QED BY <1>1, <1>2, PTL DEF Spec

(***************************************************************************)
(* The keys.                                                               *)
(***************************************************************************)
LEMMA KeysHold ==
  ASSUME TypeOK, NoDanglingLink, [Next]_vars
  PROVE  NoDanglingLink'
<1> USE DEF NoDanglingLink
<1>1. ASSUME NEW q \in Requests, NEW c \in Courses, NEW ids \in SUBSET Courses,
             CheckPrerequisites(q, c, ids)
      PROVE NoDanglingLink'
  BY <1>1 DEF CheckPrerequisites
<1>2. ASSUME NEW q \in Requests, DeleteLinks(q) \/ Rollback(q)
      PROVE NoDanglingLink'
  BY <1>2 DEF DeleteLinks, Rollback
<1>3. ASSUME NEW q \in Requests, InsertLinks(q) PROVE NoDanglingLink'
  <2>1. Links(req[q].course, req[q].wanted) \subseteq exists \X exists
    BY <1>3 DEF InsertLinks, Links
  <2> QED BY <1>3, <2>1 DEF InsertLinks
(* The deleted course required nobody any more, and nobody requires it.    *)
<1>4. ASSUME NEW c \in Courses, DeleteCourse(c) PROVE NoDanglingLink'
  <2> SUFFICES ASSUME NEW link \in requires' PROVE link \in exists' \X exists'
    OBVIOUS
  <2>1. link \in requires /\ link \notin Links(c, Courses)
    BY <1>4 DEF DeleteCourse
  <2>2. PICK a \in Courses, b \in Courses : link = <<a, b>>
    BY <2>1 DEF TypeOK
  <2>3. a \in exists /\ b \in exists
    BY <2>1, <2>2
  <2>4. a # c
    BY <2>1, <2>2 DEF Links
  <2>5. b # c
    BY <1>4, <2>1, <2>2 DEF DeleteCourse, RequiredBy
  <2> QED BY <1>4, <2>2, <2>3, <2>4, <2>5 DEF DeleteCourse
<1>5. CASE UNCHANGED vars
  BY <1>5 DEF vars
<1> QED BY <1>1, <1>2, <1>3, <1>4, <1>5 DEF Next

(* No order of edits and deletions leaves a requirement of, or on, a       *)
(* course that is gone.                                                    *)
THEOREM NothingDangles == Spec => []NoDanglingLink
<1>1. Init => NoDanglingLink
  BY DEF Init, NoDanglingLink
<1>2. TypeOK /\ NoDanglingLink /\ [Next]_vars => NoDanglingLink'
  BY KeysHold
<1> QED BY <1>1, <1>2, TypeCorrect, PTL DEF Spec

(***************************************************************************)
(* A request that nobody overtook. What its checks found still holds when  *)
(* it commits, and its DELETE saw every row there is: others only delete.  *)
(***************************************************************************)
Checked(q) == req[q].pc \in {"checked", "deleted"}

NotItself == \A q \in Requests :
  Checked(q) => req[q].course \in Courses /\ req[q].course \notin req[q].wanted

StillUnrequired == \A q \in Requests :
  Checked(q) /\ req[q].alone => req[q].wanted \cap RequiredBy(req[q].course) = {}

SawAll == \A q \in Requests :
  req[q].pc = "deleted" /\ req[q].alone
    => Links(req[q].course, PrerequisiteIds(req[q].course)) \subseteq req[q].saw

AloneInv == NotItself /\ StillUnrequired /\ SawAll

(* Whoever commits first makes every other open request overtaken, and     *)
(* breaks no claim of its own.                                             *)
LEMMA AloneHolds ==
  ASSUME TypeOK, AloneInv, [Next]_vars
  PROVE  AloneInv'
<1> USE DEF Checked
<1>1. ASSUME NEW q \in Requests, NEW c \in Courses, NEW ids \in SUBSET Courses,
             CheckPrerequisites(q, c, ids)
      PROVE AloneInv'
  <2>1. req'[q].pc = "checked" /\ req'[q].course = c /\ req'[q].wanted = ids
    BY <1>1 DEF CheckPrerequisites, TypeOK
  <2>2. \A r \in Requests \ {q} : req'[r] = req[r]
    BY <1>1 DEF CheckPrerequisites, TypeOK
  <2>3. c \notin ids /\ ids \cap RequiredBy(c) = {} /\ requires' = requires
    BY <1>1 DEF CheckPrerequisites, Conflicts
  <2>4. NotItself'
    BY <2>1, <2>2, <2>3 DEF AloneInv, NotItself
  <2>5. StillUnrequired'
    BY <2>1, <2>2, <2>3 DEF AloneInv, StillUnrequired, RequiredBy
  <2>6. SawAll'
    BY <2>1, <2>2, <2>3 DEF AloneInv, SawAll, Links, PrerequisiteIds
  <2> QED BY <2>4, <2>5, <2>6 DEF AloneInv
<1>2. ASSUME NEW q \in Requests, DeleteLinks(q) PROVE AloneInv'
  <2> DEFINE mine == Links(req[q].course, PrerequisiteIds(req[q].course))
  <2>1. /\ req[q].pc = "checked" /\ requires' = requires
        /\ req'[q].course = req[q].course /\ req'[q].wanted = req[q].wanted
        /\ req'[q].alone = req[q].alone /\ req'[q].saw = mine
    BY <1>2 DEF DeleteLinks, TypeOK, At
  <2>2. \A r \in Requests \ {q} : req'[r] = req[r]
    BY <1>2 DEF DeleteLinks, TypeOK
  <2>3. NotItself'
    BY <2>1, <2>2 DEF AloneInv, NotItself
  <2>4. StillUnrequired'
    BY <2>1, <2>2 DEF AloneInv, StillUnrequired, RequiredBy
  <2>5. SawAll'
    BY <2>1, <2>2 DEF AloneInv, SawAll, Links, PrerequisiteIds
  <2> QED BY <2>3, <2>4, <2>5 DEF AloneInv
(* Whoever is under way is not alone any more.                             *)
<1>3. ASSUME NEW q \in Requests, InsertLinks(q) PROVE AloneInv'
  <2>1. req'[q].pc = "idle"
    BY <1>3 DEF InsertLinks, Idle
  <2>2. ASSUME NEW r \in Requests, r # q
        PROVE /\ req'[r].pc = req[r].pc /\ req'[r].course = req[r].course
              /\ req'[r].wanted = req[r].wanted
              /\ req[r].pc # "idle" => req'[r].alone = FALSE
    <3> DEFINE after(b) == [req[r] EXCEPT !.saw = @ \ req[q].saw, !.alone = b]
    <3>1. req'[r] = after(At(r, "idle"))
      BY <1>3, <2>2 DEF InsertLinks
    <3>2. \A b : /\ after(b).pc = req[r].pc /\ after(b).course = req[r].course
                 /\ after(b).wanted = req[r].wanted /\ after(b).alone = b
      BY DEF TypeOK
    <3>3. req[r].pc # "idle" => At(r, "idle") = FALSE
      BY DEF At
    <3> HIDE DEF after
    <3> QED BY <3>1, <3>2, <3>3
  <2>3. NotItself'
    BY <2>1, <2>2 DEF AloneInv, NotItself
  <2>4. StillUnrequired' /\ SawAll'
    BY <2>1, <2>2 DEF StillUnrequired, SawAll
  <2> QED BY <2>3, <2>4 DEF AloneInv
<1>4. ASSUME NEW q \in Requests, Rollback(q) PROVE AloneInv'
  <2>1. req'[q].pc = "idle" /\ requires' = requires
    BY <1>4 DEF Rollback, Idle, TypeOK
  <2>2. \A r \in Requests \ {q} : req'[r] = req[r]
    BY <1>4 DEF Rollback, TypeOK
  <2>3. NotItself'
    BY <2>1, <2>2 DEF AloneInv, NotItself
  <2>4. StillUnrequired'
    BY <2>1, <2>2 DEF AloneInv, StillUnrequired, RequiredBy
  <2>5. SawAll'
    BY <2>1, <2>2 DEF AloneInv, SawAll, Links, PrerequisiteIds
  <2> QED BY <2>3, <2>4, <2>5 DEF AloneInv
<1>5. ASSUME NEW c \in Courses, DeleteCourse(c) PROVE AloneInv'
  <2>1. requires' \subseteq requires /\ req' = req
    BY <1>5 DEF DeleteCourse
  <2>2. NotItself'
    BY <2>1 DEF AloneInv, NotItself
  <2>3. StillUnrequired'
    BY <2>1 DEF AloneInv, StillUnrequired, RequiredBy
  <2>4. SawAll'
    BY <2>1 DEF AloneInv, SawAll, Links, PrerequisiteIds
  <2> QED BY <2>2, <2>3, <2>4 DEF AloneInv
<1>6. CASE UNCHANGED vars
  BY <1>6 DEF vars, AloneInv, NotItself, StillUnrequired, SawAll, RequiredBy,
              PrerequisiteIds
<1> QED BY <1>1, <1>2, <1>3, <1>4, <1>5, <1>6 DEF Next

(* So the claims hold throughout.                                          *)
LEMMA AloneAlways == Spec => []AloneInv
<1>1. Init => AloneInv
  BY DEF Init, AloneInv, NotItself, StillUnrequired, SawAll, Checked, Idle
<1>2. TypeOK /\ AloneInv /\ [Next]_vars => AloneInv'
  BY AloneHolds
<1> QED BY <1>1, <1>2, TypeCorrect, PTL DEF Spec

(* A request no other overtook between its checks and its commit leaves    *)
(* the list it was sent, and nobody on that list requires its course.      *)
THEOREM RunsAlone == Spec => RunsAsIfAlone
<1> DEFINE Step(q, c) ==
      /\ At(q, "deleted") /\ req[q].course = c /\ req[q].alone
      /\ requires' # requires /\ req'[q] = Idle
<1>1. ASSUME TypeOK, AloneInv, [Next]_vars, NEW q \in Requests,
             NEW c \in Courses, Step(q, c)
      PROVE  /\ PrerequisiteIds(c)' = req[q].wanted
             /\ req[q].wanted \cap RequiredBy(c)' = {}
  <2>1. InsertLinks(q)
    <3>1. ASSUME NEW r \in Requests, InsertLinks(r) PROVE r = q
      <4> SUFFICES ASSUME r # q PROVE FALSE
        OBVIOUS
      <4> DEFINE after(b) == [req[q] EXCEPT !.saw = @ \ req[r].saw, !.alone = b]
      <4>1. req'[q] = after(At(q, "idle"))
        BY <3>1 DEF InsertLinks
      <4>2. \A b : after(b).pc = req[q].pc
        BY DEF TypeOK
      <4> HIDE DEF after
      <4>3. req'[q].pc = "deleted"
        BY <1>1, <4>1, <4>2 DEF At
      <4> QED BY <1>1, <4>3 DEF Idle
    <3>2. ASSUME NEW r \in Courses, DeleteCourse(r) PROVE FALSE
      <4>1. req'[q].pc = "deleted"
        BY <1>1, <3>2 DEF DeleteCourse, At
      <4> QED BY <1>1, <4>1 DEF Idle
    <3>3. ASSUME UNCHANGED requires PROVE FALSE
      BY <1>1, <3>3
    <3> QED BY <1>1, <3>1, <3>2, <3>3
            DEF Next, CheckPrerequisites, DeleteLinks, Rollback, vars
  <2> DEFINE ids == req[q].wanted
  <2>2. requires' = (requires \ req[q].saw) \cup Links(c, ids)
    BY <1>1, <2>1 DEF InsertLinks
  <2>3. Links(c, PrerequisiteIds(c)) \subseteq req[q].saw
    BY <1>1 DEF AloneInv, SawAll, At
  <2>4. c \notin ids /\ ids \cap RequiredBy(c) = {} /\ ids \subseteq Courses
    BY <1>1 DEF AloneInv, NotItself, StillUnrequired, Checked, At, TypeOK
  <2>5. PrerequisiteIds(c)' = ids
    <3>1. ASSUME NEW p \in Courses PROVE <<c, p>> \in requires' <=> p \in ids
      BY <2>2, <2>3, <2>4 DEF Links, PrerequisiteIds
    <3> QED BY <2>4, <3>1 DEF PrerequisiteIds
  <2>6. ids \cap RequiredBy(c)' = {}
    <3>1. ASSUME NEW d \in ids, <<d, c>> \in requires' PROVE FALSE
      <4>1. <<d, c>> \notin requires
        BY <2>4 DEF RequiredBy
      <4>2. <<d, c>> \in Links(c, ids)
        BY <2>2, <3>1, <4>1
      <4> QED BY <2>4, <4>2 DEF Links
    <3> QED BY <3>1 DEF RequiredBy
  <2> QED BY <2>5, <2>6
<1>2. TypeOK /\ AloneInv /\ [Next]_vars
        => [\A q \in Requests, c \in Courses :
              Step(q, c) => /\ PrerequisiteIds(c)' = req[q].wanted
                            /\ req[q].wanted \cap RequiredBy(c)' = {}]_vars
  BY <1>1
<1> QED BY <1>2, TypeCorrect, AloneAlways, PTL DEF Spec, RunsAsIfAlone

(***************************************************************************)
(* The shape of the graph. It is not kept by the check alone: two requests *)
(* that meet may make two courses require each other.                      *)
(***************************************************************************)
NobodyOvertaken == [][\A q \in Requests : InsertLinks(q) => req[q].alone]_vars
NoMutual == \A c, d \in Courses : <<c, d>> \in requires => <<d, c>> \notin requires

(* _set_prerequisites refuses a course as its own prerequisite and one that *)
(* already requires it: as long as no commit is overtaken, no course ever  *)
(* requires itself and no two require each other, after any number of      *)
(* edits and deletions.                                                    *)
THEOREM MutualOnlyWhenOvertaken == Spec /\ NobodyOvertaken => []NoMutual
<1>1. Init => NoMutual
  BY DEF Init, NoMutual
<1>2. ASSUME TypeOK, AloneInv, NoMutual, NEW q \in Requests, InsertLinks(q), req[q].alone
      PROVE  NoMutual'
  <2> DEFINE a == req[q].course
             ids == req[q].wanted
  <2>1. requires' = (requires \ req[q].saw) \cup Links(a, ids)
    BY <1>2 DEF InsertLinks
  <2>2. a \notin ids /\ ids \cap RequiredBy(a) = {}
    BY <1>2 DEF AloneInv, NotItself, StillUnrequired, Checked, InsertLinks, At
  <2> HIDE DEF a, ids
  <2> SUFFICES ASSUME NEW c \in Courses, NEW d \in Courses,
                      <<c, d>> \in requires', <<d, c>> \in requires'
               PROVE  FALSE
    BY DEF NoMutual
  <2>3. CASE <<c, d>> \in requires /\ <<d, c>> \in requires
    BY <1>2, <2>3 DEF NoMutual
  <2>4. ASSUME <<c, d>> \in Links(a, ids) PROVE FALSE
    <3>1. c = a /\ d \in ids
      BY <2>4 DEF Links
    <3>2. <<d, a>> \notin requires
      BY <2>2, <3>1 DEF RequiredBy
    <3>3. <<d, a>> \in Links(a, ids)
      BY <2>1, <3>1, <3>2
    <3> QED BY <2>2, <3>1, <3>3 DEF Links
  <2>5. ASSUME <<d, c>> \in Links(a, ids) PROVE FALSE
    <3>1. d = a /\ c \in ids
      BY <2>5 DEF Links
    <3>2. <<c, a>> \notin requires
      BY <2>2, <3>1 DEF RequiredBy
    <3>3. <<c, a>> \in Links(a, ids)
      BY <2>1, <3>1, <3>2
    <3> QED BY <2>2, <3>1, <3>3 DEF Links
  <2> QED BY <2>1, <2>3, <2>4, <2>5
<1>3. TypeOK /\ AloneInv /\ NoMutual /\ [Next]_vars
        /\ [\A q \in Requests : InsertLinks(q) => req[q].alone]_vars
        => NoMutual'
  <2> SUFFICES ASSUME TypeOK, AloneInv, NoMutual, [Next]_vars,
                      [\A q \in Requests : InsertLinks(q) => req[q].alone]_vars
               PROVE  NoMutual'
    OBVIOUS
  <2>1. CASE UNCHANGED vars
    BY <2>1 DEF vars, NoMutual
  <2>2. CASE ~UNCHANGED vars
    <3>1. ASSUME NEW q \in Requests, InsertLinks(q) PROVE NoMutual'
      BY <1>2, <2>2, <3>1
    <3>2. ASSUME requires' \subseteq requires PROVE NoMutual'
      BY <3>2 DEF NoMutual
    <3> QED BY <2>2, <3>1, <3>2
            DEF Next, CheckPrerequisites, DeleteLinks, Rollback, DeleteCourse
  <2> QED BY <2>1, <2>2
<1> QED BY <1>1, <1>3, TypeCorrect, AloneAlways, PTL DEF Spec, NobodyOvertaken
==============================================================================
