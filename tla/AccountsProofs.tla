---------------------------- MODULE AccountsProofs ----------------------------
(***************************************************************************)
(* Accounts, proved for any emails, passwords, ids and requests.           *)
(***************************************************************************)
EXTENDS Accounts, TLAPS

(* The four shapes of a request.                                           *)
Creating == [pc : {"free", "inserted", "created"},
             email : Emails, password : Passwords, roles : RoleSets]
Verifying == [pc : {"verified"}, password : Passwords, id : Ids]
Updating == [pc : {"known", "updated"}, id : Ids, roles : SelfChosen,
             loaded : RoleSets, alone : BOOLEAN]

(* The place a request has reached says which fields it carries.           *)
LEMMA Shapes ==
  ASSUME TypeOK, NEW q \in Requests
  PROVE  /\ req[q].pc = "idle" => req[q] = Idle
         /\ req[q].pc \in {"free", "inserted", "created"} => req[q] \in Creating
         /\ req[q].pc = "verified" => req[q] \in Verifying
         /\ req[q].pc \in {"known", "updated"} => req[q] \in Updating
<1>1. req[q] \in {Idle} \cup Creating \cup Verifying \cup Updating
  BY DEF TypeOK, RequestStates, Creating, Verifying, Updating
<1>2. Idle.pc = "idle"
  BY DEF Idle
<1>3. \A r \in Creating : r.pc \in {"free", "inserted", "created"}
  BY DEF Creating
<1>4. \A r \in Verifying : r.pc = "verified"
  BY DEF Verifying
<1>5. \A r \in Updating : r.pc \in {"known", "updated"}
  BY DEF Updating
<1> QED BY <1>1, <1>2, <1>3, <1>4, <1>5

(* The states of a request are its four shapes.                            *)
LEMMA States == RequestStates = {Idle} \cup Creating \cup Verifying \cup Updating
  BY DEF RequestStates, Creating, Verifying, Updating

(***************************************************************************)
(* What a step does to the table. A login and an update find their row     *)
(* there (KnowsRow), so a row keeps its email and its password for ever.   *)
(***************************************************************************)
KnowsRow == \A q \in Requests :
  /\ req[q].pc \in {"verified", "known", "updated"} => req[q].id \in Taken
  /\ req[q].pc = "verified" => users[req[q].id].password = req[q].password

AddsRow(i, row) ==
  users[i] = Nobody /\ users' = [users EXCEPT ![i] = row]
ChangesRow(i, row) ==
  /\ users[i] # Nobody /\ row.email = users[i].email
  /\ row.password = users[i].password
  /\ users' = [users EXCEPT ![i] = row]

(* An account row is never taken for a missing one.                        *)
LEMMA RowIsNotNobody == Nobody \notin Row
  BY NobodyAssumption DEF Row, RoleSets, SelfChosen, SelfAssignable, Roles

(* A step of any request adds one row, or rewrites one without its email   *)
(* or password, or leaves the table alone.                                 *)
LEMMA UsersStep ==
  ASSUME TypeOK, KnowsRow, [Next]_vars
  PROVE  \/ users' = users
         \/ \E i \in Ids, row \in Row : AddsRow(i, row) \/ ChangesRow(i, row)
<1>1. ASSUME NEW q \in Requests, NEW i \in Ids, CommitNew(q, i)
      PROVE \E row \in Row : AddsRow(i, row)
  <2> DEFINE row == [email |-> req[q].email, password |-> req[q].password,
                     roles |-> req[q].roles, active |-> TRUE]
  <2>1. row \in Row
    BY <1>1, Shapes DEF CommitNew, At, Creating, Row
  <2> QED BY <1>1, <2>1 DEF CommitNew, AddsRow
<1>2. ASSUME NEW q \in Requests, Login(q)
      PROVE users' = users \/ \E i \in Ids, row \in Row : ChangesRow(i, row)
  <2> DEFINE i == req[q].id
             row == [users[i] EXCEPT !.password = req[q].password]
  <2>1. i \in Ids /\ users[i] \in Row /\ req[q].password \in Passwords
    BY <1>2, Shapes DEF Login, At, Verifying, KnowsRow, Taken, TypeOK
  <2>2. users[i].password = req[q].password
    BY <1>2 DEF Login, At, KnowsRow
  <2>3. row \in Row /\ row.email = users[i].email /\ row.password = users[i].password
    BY <2>1, <2>2 DEF Row
  <2>4. users' = users \/ users' = [users EXCEPT ![i] = row]
    BY <1>2 DEF Login
  <2> QED BY <2>1, <2>3, <2>4, RowIsNotNobody DEF ChangesRow
<1>3. ASSUME NEW q \in Requests, UpdateProfile(q)
      PROVE users' = users \/ \E i \in Ids, row \in Row : ChangesRow(i, row)
  <2> DEFINE i == req[q].id
             row == [users[i] EXCEPT !.roles = req[q].roles]
  <2>1. i \in Ids /\ users[i] \in Row /\ req[q].roles \in RoleSets
    BY <1>3, Shapes DEF UpdateProfile, At, Updating, KnowsRow, Taken, TypeOK, RoleSets
  <2>2. row \in Row /\ row.email = users[i].email /\ row.password = users[i].password
    BY <2>1 DEF Row
  <2>3. users' = users \/ users' = [users EXCEPT ![i] = row]
    BY <1>3 DEF UpdateProfile, RolesWritten
  <2> QED BY <2>1, <2>2, <2>3, RowIsNotNobody DEF ChangesRow
<1>4. ASSUME NEW i \in Ids, Switch(i) PROVE \E row \in Row : ChangesRow(i, row)
  <2> DEFINE row == [users[i] EXCEPT !.active = ~users[i].active]
  <2>1. users[i] \in Row
    BY <1>4 DEF Switch, Taken, TypeOK
  <2>2. row \in Row /\ row.email = users[i].email /\ row.password = users[i].password
    BY <2>1 DEF Row
  <2>3. users' = [users EXCEPT ![i] = row]
    BY <1>4 DEF Switch
  <2> QED BY <2>1, <2>2, <2>3, RowIsNotNobody DEF ChangesRow
<1> QED BY <1>1, <1>2, <1>3, <1>4
        DEF Next, Request, Register, Seed, FoundFree, Insert, AnswerNew, Verify,
            CurrentUser, AnswerUpdate, Rollback, vars

(* No request, lost answer or switch removes a row or gives it another     *)
(* email or password.                                                      *)
LEMMA RowsStay ==
  ASSUME TypeOK, KnowsRow, [Next]_vars, NEW i \in Taken
  PROVE  /\ i \in Taken'
         /\ users'[i].email = users[i].email
         /\ users'[i].password = users[i].password
<1>1. CASE users' = users
  BY <1>1 DEF Taken
<1>2. ASSUME NEW j \in Ids, NEW row \in Row, AddsRow(j, row) \/ ChangesRow(j, row)
      PROVE  /\ i \in Taken'
             /\ users'[i].email = users[i].email
             /\ users'[i].password = users[i].password
  BY <1>2, RowIsNotNobody DEF AddsRow, ChangesRow, Taken, TypeOK
<1> QED BY <1>1, <1>2, UsersStep

(***************************************************************************)
(* Types                                                                   *)
(***************************************************************************)
(* A request that becomes one of its shapes, and nothing else in `req`.    *)
LEMMA BecomesTyped ==
  ASSUME TypeOK, NEW q \in Requests, NEW r \in RequestStates, Become(q, r)
  PROVE  req' \in [Requests -> RequestStates]
  BY DEF TypeOK, Become

(* Every action leaves every request in one of its shapes.                 *)
LEMMA RequestsTyped ==
  ASSUME TypeOK, [Next]_vars
  PROVE  req' \in [Requests -> RequestStates]
<1>0. Idle \in RequestStates
  BY States
<1>1. ASSUME NEW q \in Requests, NEW e \in Emails, NEW p \in Passwords,
             NEW rs \in RoleSets, FoundFree(q, e, p, rs)
      PROVE req' \in [Requests -> RequestStates]
  <2>1. [pc |-> "free", email |-> e, password |-> p, roles |-> rs] \in RequestStates
    BY States DEF Creating
  <2> QED BY <1>1, <2>1, BecomesTyped DEF FoundFree
<1>2. ASSUME NEW q \in Requests, NEW e \in Emails, NEW p \in Passwords,
             NEW rs \in SUBSET Roles, Register(q, e, p, rs)
      PROVE req' \in [Requests -> RequestStates]
  BY <1>1, <1>2 DEF Register, AssertSelfAssignable, RoleSets, SelfChosen
<1>3. ASSUME NEW q \in Requests, NEW p \in Passwords, Seed(q, p)
      PROVE req' \in [Requests -> RequestStates]
  BY <1>1, <1>3, EmailAssumption DEF Seed, RoleSets
<1>4. ASSUME NEW q \in Requests, Insert(q) PROVE req' \in [Requests -> RequestStates]
  <2>1. [req[q] EXCEPT !.pc = "inserted"] \in RequestStates
    BY <1>4, Shapes, States DEF Insert, At, Creating
  <2> QED BY <1>4, <2>1, BecomesTyped DEF Insert, MoveTo
<1>5. ASSUME NEW q \in Requests, NEW i \in Ids, CommitNew(q, i)
      PROVE req' \in [Requests -> RequestStates]
  <2>1. [req[q] EXCEPT !.pc = "created"] \in RequestStates
    BY <1>5, Shapes, States DEF CommitNew, At, Creating
  <2> QED BY <1>5, <2>1, BecomesTyped DEF CommitNew, MoveTo
<1>6. ASSUME NEW q \in Requests, NEW p \in Passwords, NEW i \in Ids,
             Verify(q, p, i)
      PROVE req' \in [Requests -> RequestStates]
  <2>1. [pc |-> "verified", password |-> p, id |-> i] \in RequestStates
    BY States DEF Verifying
  <2> QED BY <1>6, <2>1, BecomesTyped DEF Verify
<1>7. ASSUME NEW q \in Requests, NEW i \in Ids, NEW rs \in SUBSET Roles,
             CurrentUser(q, i, rs)
      PROVE req' \in [Requests -> RequestStates]
  <2>1. users[i] \in Row
    BY <1>7 DEF CurrentUser, Taken, TypeOK
  <2>2. [pc |-> "known", id |-> i, roles |-> rs, loaded |-> users[i].roles,
         alone |-> TRUE] \in RequestStates
    BY <1>7, <2>1, States
       DEF CurrentUser, AssertSelfAssignable, Updating, Row, SelfChosen
  <2> QED BY <1>7, <2>2, BecomesTyped DEF CurrentUser
<1>8. ASSUME NEW q \in Requests, UpdateProfile(q)
      PROVE req' \in [Requests -> RequestStates]
  <2>1. [req[q] EXCEPT !.pc = "updated"] \in RequestStates
    BY <1>8, Shapes, States DEF UpdateProfile, At, Updating
  <2>2. ASSUME NEW r \in Requests, SameRow(r, req[q].id)
        PROVE [req[r] EXCEPT !.alone = FALSE] \in RequestStates
    BY <2>2, Shapes, States DEF SameRow, Updating
  <2> QED BY <1>8, <2>1, <2>2 DEF UpdateProfile, TypeOK
<1>9. ASSUME NEW q \in Requests, Become(q, Idle)
      PROVE req' \in [Requests -> RequestStates]
  BY <1>0, <1>9, BecomesTyped
<1>10. CASE UNCHANGED req
  BY <1>10 DEF TypeOK
<1> QED BY <1>2, <1>3, <1>4, <1>5, <1>6, <1>7, <1>8, <1>9, <1>10
        DEF Next, Request, AnswerNew, Login, AnswerUpdate, Rollback, Switch, vars

(* Types survive a step of any request.                                    *)
LEMMA TypesHold ==
  ASSUME TypeOK, KnowsRow, [Next]_vars
  PROVE  TypeOK'
<1>1. users' \in [Ids -> Row \cup {Nobody}]
  BY UsersStep DEF AddsRow, ChangesRow, TypeOK
<1>2. welcomed' \subseteq [email : Emails, password : Passwords]
  <2>1. ASSUME NEW q \in Requests, AnswerNew(q)
        PROVE welcomed' \subseteq [email : Emails, password : Passwords]
    <3>1. req[q] \in Creating
      BY <2>1, Shapes DEF AnswerNew, At
    <3> QED BY <2>1, <3>1 DEF AnswerNew, TypeOK, Creating
  <2> QED BY <2>1
          DEF Next, Request, Register, Seed, FoundFree, Insert, CommitNew, Verify,
              Login, CurrentUser, UpdateProfile, AnswerUpdate, Rollback, Switch,
              vars, TypeOK
<1> QED BY <1>1, <1>2, RequestsTyped DEF TypeOK

(* Only a request that reads a row learns its id, and rows stay.           *)
LEMMA KnowsRowHolds ==
  ASSUME TypeOK, KnowsRow, [Next]_vars
  PROVE  KnowsRow'
<1> DEFINE Knows(q) ==
      /\ req[q].pc \in {"verified", "known", "updated"} => req[q].id \in Taken
      /\ req[q].pc = "verified" => users[req[q].id].password = req[q].password
<1> SUFFICES ASSUME NEW q \in Requests PROVE Knows(q)'
  BY DEF KnowsRow
<1>1. CASE req'[q] = req[q]
  BY <1>1, RowsStay DEF KnowsRow
<1>2. CASE req'[q].pc \notin {"verified", "known", "updated"}
  BY <1>2
<1>3. ASSUME NEW p \in Passwords, NEW i \in Ids, Verify(q, p, i) PROVE Knows(q)'
  <2>1. req'[q] = [pc |-> "verified", password |-> p, id |-> i]
    BY <1>3 DEF Verify, Become, TypeOK
  <2>2. i \in Taken' /\ users'[i].password = p
    BY <1>3 DEF Verify, Verified, Taken
  <2> QED BY <2>1, <2>2
<1>4. ASSUME NEW i \in Ids, NEW rs \in SUBSET Roles, CurrentUser(q, i, rs)
      PROVE Knows(q)'
  <2>1. req'[q] = [pc |-> "known", id |-> i, roles |-> rs,
                   loaded |-> users[i].roles, alone |-> TRUE]
    BY <1>4 DEF CurrentUser, Become, TypeOK
  <2>2. i \in Taken'
    BY <1>4 DEF CurrentUser, Taken
  <2> QED BY <2>1, <2>2
<1>5. ASSUME NEW r \in Requests, UpdateProfile(r) PROVE Knows(q)'
  <2>1. CASE q = r
    <3>1. req[q] \in Updating
      BY <1>5, <2>1, Shapes DEF UpdateProfile, At
    <3>2. req'[q] = [req[q] EXCEPT !.pc = "updated"]
      BY <1>5, <2>1 DEF UpdateProfile
    <3>3. req'[q].pc = "updated" /\ req'[q].id = req[q].id
      BY <3>1, <3>2 DEF Updating
    <3>4. req[q].id \in Taken
      BY <1>5, <2>1 DEF UpdateProfile, At, KnowsRow
    <3> QED BY <3>3, <3>4, RowsStay
  <2>2. CASE q # r /\ SameRow(q, req[r].id) /\ req'[q] = [req[q] EXCEPT !.alone = FALSE]
    <3>1. req[q] \in Updating
      BY <2>2, Shapes DEF SameRow
    <3>2. req'[q].pc = req[q].pc /\ req'[q].id = req[q].id
      BY <2>2, <3>1 DEF Updating
    <3>3. req[q].id \in Taken /\ req[q].pc # "verified"
      BY <2>2 DEF SameRow, KnowsRow
    <3> QED BY <3>2, <3>3, RowsStay
  <2>3. CASE req'[q] = req[q]
    BY <1>1, <2>3
  <2> QED BY <1>5, <2>1, <2>2, <2>3 DEF UpdateProfile
<1>6. ASSUME NEW r \in Requests, NEW s, Become(r, s),
             s.pc \notin {"verified", "known", "updated"}
      PROVE Knows(q)'
  <2>1. req'[q] = IF q = r THEN s ELSE req[q]
    BY <1>6 DEF Become, TypeOK
  <2> QED BY <1>1, <1>2, <1>6, <2>1
<1>7. ASSUME NEW r \in Requests, q # r, NEW s, Become(r, s) PROVE Knows(q)'
  BY <1>1, <1>7 DEF Become, TypeOK
<1>8. ASSUME NEW r \in Requests, NEW pc, pc \in {"inserted", "created"},
             At(r, "free") \/ At(r, "inserted"), MoveTo(r, pc)
      PROVE Knows(q)'
  <2>1. req[r] \in Creating
    BY <1>8, Shapes DEF At
  <2>2. [req[r] EXCEPT !.pc = pc].pc = pc
    BY <2>1 DEF Creating
  <2> QED BY <1>6, <1>8, <2>2 DEF MoveTo
<1>9. ASSUME NEW r \in Requests, NEW e, NEW p, NEW rs, FoundFree(r, e, p, rs)
      PROVE Knows(q)'
  BY <1>6, <1>9 DEF FoundFree
<1>10. ASSUME NEW r \in Requests, Become(r, Idle) PROVE Knows(q)'
  BY <1>6, <1>10 DEF Idle
<1>11. CASE UNCHANGED req
  BY <1>1, <1>11
<1>12. ASSUME NEW r \in Requests, Request(r) PROVE Knows(q)'
  <2>1. ASSUME NEW p \in Passwords, NEW i \in Ids, Verify(r, p, i) PROVE Knows(q)'
    BY <1>3, <1>7, <2>1 DEF Verify
  <2>2. ASSUME NEW i \in Ids, NEW rs \in SUBSET Roles, CurrentUser(r, i, rs)
        PROVE Knows(q)'
    BY <1>4, <1>7, <2>2 DEF CurrentUser
  <2>3. ASSUME Insert(r) \/ \E i \in Ids : CommitNew(r, i) PROVE Knows(q)'
    BY <1>8, <2>3 DEF Insert, CommitNew
  <2> QED BY <1>5, <1>9, <1>10, <1>12, <2>1, <2>2, <2>3
          DEF Request, Seed, Register, AnswerNew, Login, AnswerUpdate, Rollback
<1> QED BY <1>11, <1>12 DEF Next, Switch, vars

(* Types survive every interleaving of the requests, because no request    *)
(* holds the id of a row that is not there.                                *)
LEMMA Typed == Spec => [](TypeOK /\ KnowsRow)
<1>1. Init => TypeOK /\ KnowsRow
  BY DEF Init, TypeOK, KnowsRow, RequestStates, Idle
<1>2. TypeOK /\ KnowsRow /\ [Next]_vars => (TypeOK /\ KnowsRow)'
  BY TypesHold, KnowsRowHolds
<1> QED BY <1>1, <1>2, PTL DEF Spec

(* TypeOK: rows, requests and history keep their types.                     *)
THEOREM TypeCorrect == Spec => []TypeOK
  BY Typed, PTL

(***************************************************************************)
(* One account per email. The index makes an inserted row the only claim   *)
(* on its email (Pending), until its COMMIT makes it a row.                *)
(***************************************************************************)
Pending == \A q \in Requests : At(q, "inserted") =>
  /\ RowsOf(req[q].email) = {}
  /\ \A r \in Requests :
       At(r, "inserted") /\ req[r].email = req[q].email => r = q

(* Only a COMMIT adds a row; nothing else changes which rows an email has. *)
LEMMA SameRows ==
  ASSUME TypeOK, KnowsRow, [Next]_vars,
         \A q \in Requests, i \in Ids : ~CommitNew(q, i)
  PROVE  Taken' = Taken /\ \A e : RowsOf(e)' = RowsOf(e)
<1>1. ASSUME NEW i \in Ids, NEW row \in Row, AddsRow(i, row) PROVE FALSE
  <2>1. users[i] = Nobody /\ users'[i] # Nobody
    BY <1>1, RowIsNotNobody DEF AddsRow, TypeOK
  <2>2. \A q \in Requests : users' # RolesWritten(q) \/ ~At(q, "known")
    BY <2>1, Shapes DEF RolesWritten, KnowsRow, At, Taken, TypeOK, Updating
  <2>3. \A q \in Requests : ~Login(q)
    BY <2>1, Shapes DEF Login, KnowsRow, At, Taken, TypeOK, Verifying
  <2>4. \A j \in Ids : ~Switch(j)
    BY <2>1 DEF Switch, Taken, TypeOK
  <2> QED BY <2>1, <2>2, <2>3, <2>4
          DEF Next, Request, Register, Seed, FoundFree, Insert, AnswerNew, Verify,
              CurrentUser, UpdateProfile, AnswerUpdate, Rollback, vars
<1>2. ASSUME NEW i \in Ids, NEW row \in Row, ChangesRow(i, row)
      PROVE Taken' = Taken /\ \A e : RowsOf(e)' = RowsOf(e)
  BY <1>2, RowIsNotNobody DEF ChangesRow, Taken, RowsOf, TypeOK
<1>3. CASE users' = users
  BY <1>3 DEF Taken, RowsOf
<1> QED BY <1>1, <1>2, <1>3, UsersStep

(* A request becomes inserted by its INSERT and created by its COMMIT.     *)
LEMMA BecomesNew ==
  ASSUME TypeOK, [Next]_vars, NEW q \in Requests,
         req'[q].pc \in {"inserted", "created"}
  PROVE  \/ req'[q] = req[q]
         \/ Insert(q) /\ req'[q] = [req[q] EXCEPT !.pc = "inserted"]
         \/ \E i \in Ids : CommitNew(q, i) /\ req'[q] = [req[q] EXCEPT !.pc = "created"]
<1> DEFINE New == {"inserted", "created"}
<1>1. ASSUME NEW r \in Requests, NEW s, Become(r, s)
      PROVE req'[q] = IF q = r THEN s ELSE req[q]
  BY <1>1 DEF Become, TypeOK
<1>2. ASSUME NEW r \in Requests, Become(r, Idle) PROVE req'[q] = req[q]
  BY <1>1, <1>2 DEF Idle
<1>3. ASSUME NEW r \in Requests, NEW e, NEW p, NEW rs, FoundFree(r, e, p, rs)
      PROVE req'[q] = req[q]
  BY <1>1, <1>3 DEF FoundFree
<1>4. ASSUME NEW r \in Requests, NEW p, NEW i, Verify(r, p, i)
      PROVE req'[q] = req[q]
  BY <1>1, <1>4 DEF Verify
<1>5. ASSUME NEW r \in Requests, NEW i, NEW rs, CurrentUser(r, i, rs)
      PROVE req'[q] = req[q]
  BY <1>1, <1>5 DEF CurrentUser
<1>6. ASSUME NEW r \in Requests, UpdateProfile(r) PROVE req'[q] = req[q]
  <2>1. CASE q = r
    <3>1. req[q] \in Updating
      BY <1>6, <2>1, Shapes DEF UpdateProfile, At
    <3>2. [req[q] EXCEPT !.pc = "updated"].pc = "updated"
      BY <3>1 DEF Updating
    <3> QED BY <1>6, <2>1, <3>2 DEF UpdateProfile
  <2>2. CASE q # r /\ SameRow(q, req[r].id) /\ req'[q] = [req[q] EXCEPT !.alone = FALSE]
    <3>1. req[q] \in Updating
      BY <2>2, Shapes DEF SameRow
    <3>2. req'[q].pc \in {"known", "updated"}
      BY <2>2, <3>1 DEF Updating
    <3> QED BY <3>2
  <2> QED BY <1>6, <2>1, <2>2 DEF UpdateProfile
<1>7. ASSUME NEW r \in Requests, Insert(r)
      PROVE \/ req'[q] = req[q]
            \/ Insert(q) /\ req'[q] = [req[q] EXCEPT !.pc = "inserted"]
  BY <1>1, <1>7 DEF Insert, MoveTo
<1>8. ASSUME NEW r \in Requests, NEW i \in Ids, CommitNew(r, i)
      PROVE \/ req'[q] = req[q]
            \/ CommitNew(q, i) /\ req'[q] = [req[q] EXCEPT !.pc = "created"]
  BY <1>1, <1>8 DEF CommitNew, MoveTo
<1> QED BY <1>2, <1>3, <1>4, <1>5, <1>6, <1>7, <1>8
        DEF Next, Request, Register, Seed, AnswerNew, Login, AnswerUpdate,
            Rollback, Switch, vars

UniqueInv == Pending /\ OneAccountPerEmail

(* The INSERT and the COMMIT of any request keep one row per email.        *)
LEMMA UniqueHolds ==
  ASSUME TypeOK, KnowsRow, UniqueInv, [Next]_vars
  PROVE  UniqueInv'
<1>1. ASSUME NEW q \in Requests, NEW i \in Ids, CommitNew(q, i) PROVE UniqueInv'
  <2> DEFINE e == req[q].email
  <2>1. req[q] \in Creating
    BY <1>1, Shapes DEF CommitNew, At
  <2>2. /\ users'[i].email = e /\ users'[i] # Nobody /\ users[i] = Nobody
        /\ \A j \in Ids \ {i} : users'[j] = users[j]
    <3>1. [email |-> e, password |-> req[q].password, roles |-> req[q].roles,
           active |-> TRUE] \in Row
      BY <2>1 DEF Creating, Row
    <3> QED BY <1>1, <3>1, RowIsNotNobody DEF CommitNew, TypeOK
  <2>3. RowsOf(e) = {} /\ RowsOf(e)' = {i}
    <3>1. RowsOf(e) = {}
      BY <1>1 DEF CommitNew, UniqueInv, Pending
    <3>2. \A f : f = e => RowsOf(f)' = {i}
      BY <2>2, <3>1 DEF RowsOf, Taken
    <3>3. RowsOf(e)' = {j \in Taken' : users'[j].email = req'[q].email}
      BY DEF RowsOf
    <3>4. req'[q].email = e
      BY <1>1, <2>1 DEF CommitNew, MoveTo, Become, Creating, TypeOK
    <3> QED BY <3>1, <3>2, <3>3, <3>4 DEF RowsOf
  <2>4. \A f : f # e => {j \in Taken' : users'[j].email = f} = RowsOf(f)
    BY <2>2 DEF RowsOf, Taken
  <2>5. {j \in Taken' : users'[j].email = e} = {i}
    BY <2>2, <2>3 DEF RowsOf, Taken
  <2>6. OneAccountPerEmail'
    BY <2>4, <2>5 DEF UniqueInv, OneAccountPerEmail, RowsOf
  <2>7. \A r \in Requests : At(r, "inserted")' => r # q /\ req'[r] = req[r]
    BY <1>1, <2>1 DEF CommitNew, MoveTo, Become, Creating, TypeOK, At
  <2>8. \A r \in Requests : At(r, "inserted")' => req[r].email # e /\ At(r, "inserted")
    BY <1>1, <2>7 DEF CommitNew, UniqueInv, Pending, At
  <2>9. Pending'
    BY <2>4, <2>7, <2>8 DEF UniqueInv, Pending, RowsOf, At
  <2> QED BY <2>6, <2>9 DEF UniqueInv
<1>2. CASE \A q \in Requests, i \in Ids : ~CommitNew(q, i)
  <2>1. Taken' = Taken /\ \A e : RowsOf(e)' = RowsOf(e)
    BY <1>2, SameRows
  <2>2. OneAccountPerEmail'
    BY <2>1 DEF UniqueInv, OneAccountPerEmail
  <2>3. \A q \in Requests : At(q, "inserted")' =>
          \/ req'[q] = req[q]
          \/ Insert(q) /\ req'[q] = [req[q] EXCEPT !.pc = "inserted"]
    BY <1>2, BecomesNew DEF At
  <2>4. \A q \in Requests : Insert(q) =>
          /\ \A r \in Requests \ {q} : req'[r] = req[r]
          /\ req[q] \in Creating /\ UniqueEmail(req[q].email)
    BY Shapes DEF Insert, MoveTo, Become, At, TypeOK
  <2>5. \A q \in Requests : At(q, "inserted")' =>
          /\ req'[q].email = req[q].email
          /\ At(q, "inserted") \/ Insert(q)
    BY <2>3, <2>4 DEF Creating, At
  <2>6. Pending'
    BY <2>1, <2>4, <2>5 DEF UniqueInv, Pending, UniqueEmail, At, RowsOf
  <2> QED BY <2>2, <2>6 DEF UniqueInv
<1> QED BY <1>1, <1>2

(* The unique index leaves one row per email whatever raced.               *)
LEMMA UniqueAlways == Spec => []UniqueInv
<1>1. Init => UniqueInv
  BY DEF Init, UniqueInv, Pending, OneAccountPerEmail, At, Idle, RowsOf, Taken
<1>2. TypeOK /\ KnowsRow /\ UniqueInv /\ [Next]_vars => UniqueInv'
  BY UniqueHolds
<1> QED BY <1>1, <1>2, Typed, PTL DEF Spec

(* However many registrations and seed commands found an email free, it    *)
(* has at most one account.                                                *)
THEOREM OneAccount == Spec => []OneAccountPerEmail
<1>1. UniqueInv => OneAccountPerEmail
  BY DEF UniqueInv
<1> QED BY <1>1, UniqueAlways, PTL

(***************************************************************************)
(* What was answered is what is stored                                     *)
(***************************************************************************)
HasAccount(e, p) == \E i \in RowsOf(e) : users[i].password = p

Created == \A q \in Requests :
  At(q, "created") => HasAccount(req[q].email, req[q].password)

Welcomed == \A w \in welcomed : HasAccount(w.email, w.password)

(* An account and its password outlive every later request.                *)
LEMMA AccountsStay ==
  ASSUME TypeOK, KnowsRow, [Next]_vars, NEW e, NEW p, HasAccount(e, p)
  PROVE  \E i \in Ids : /\ i \in Taken' /\ users'[i].email = e
                        /\ users'[i].password = p
<1>1. PICK i \in Ids : i \in Taken /\ users[i].email = e /\ users[i].password = p
  BY DEF HasAccount, RowsOf, Taken
<1> QED BY <1>1, RowsStay

(* Between its COMMIT and its answer a registration has its account.       *)
LEMMA CreatedHolds ==
  ASSUME TypeOK, KnowsRow, Created, [Next]_vars
  PROVE  Created'
<1> SUFFICES ASSUME NEW q \in Requests, At(q, "created")'
             PROVE  \E i \in Ids : /\ i \in Taken' /\ users'[i].email = req'[q].email
                                   /\ users'[i].password = req'[q].password
  BY DEF Created, HasAccount, RowsOf, Taken
<1>1. CASE req'[q] = req[q]
  BY <1>1, AccountsStay DEF Created, At
<1>2. ASSUME Insert(q), req'[q] = [req[q] EXCEPT !.pc = "inserted"]
      PROVE FALSE
  BY <1>2, Shapes DEF Insert, At, Creating
<1>3. ASSUME NEW i \in Ids, CommitNew(q, i), req'[q] = [req[q] EXCEPT !.pc = "created"]
      PROVE  /\ i \in Taken' /\ users'[i].email = req'[q].email
             /\ users'[i].password = req'[q].password
  <2> DEFINE row == [email |-> req[q].email, password |-> req[q].password,
                     roles |-> req[q].roles, active |-> TRUE]
  <2>1. req[q] \in Creating
    BY <1>3, Shapes DEF CommitNew, At
  <2>2. row \in Row
    BY <2>1 DEF Creating, Row
  <2>3. users'[i] = row
    BY <1>3 DEF CommitNew, TypeOK
  <2>4. req'[q].email = req[q].email /\ req'[q].password = req[q].password
    BY <1>3, <2>1 DEF Creating
  <2>5. row # Nobody
    BY <2>2, RowIsNotNobody
  <2> QED BY <2>3, <2>4, <2>5 DEF Taken
<1> QED BY <1>1, <1>2, <1>3, BecomesNew DEF At

(* Every "created" that was ever sent still has its account.               *)
LEMMA WelcomedHolds ==
  ASSUME TypeOK, KnowsRow, Created, Welcomed, [Next]_vars
  PROVE  Welcomed'
<1> SUFFICES ASSUME NEW w \in welcomed' PROVE HasAccount(w.email, w.password)
  <2>1. \A w \in welcomed' : HasAccount(w.email, w.password) =>
          \E i \in Ids : /\ i \in Taken' /\ users'[i].email = w.email
                         /\ users'[i].password = w.password
    BY AccountsStay
  <2> QED BY <2>1 DEF Welcomed, HasAccount, RowsOf, Taken
<1>1. CASE w \in welcomed
  BY <1>1 DEF Welcomed
<1>2. ASSUME NEW q \in Requests, AnswerNew(q), w \notin welcomed
      PROVE HasAccount(w.email, w.password)
  BY <1>2 DEF AnswerNew, Created
<1> QED BY <1>1, <1>2
        DEF Next, Request, Register, Seed, FoundFree, Insert, CommitNew, Verify,
            Login, CurrentUser, UpdateProfile, AnswerUpdate, Rollback, Switch, vars

(* A request nobody interfered with knows the roles of its row.            *)
KnowsRoles == \A q \in Requests :
  /\ At(q, "known") /\ req[q].alone => users[req[q].id].roles = req[q].loaded
  /\ At(q, "updated") /\ req[q].alone => users[req[q].id].roles = req[q].roles

(* Only PATCH /users/me writes the roles of an existing row.               *)
LEMMA RolesStay ==
  ASSUME TypeOK, KnowsRow, [Next]_vars, NEW i \in Taken,
         \A q \in Requests : ~UpdateProfile(q)
  PROVE  users'[i].roles = users[i].roles
<1>1. users[i] \in Row /\ i \in Ids
  BY DEF Taken, TypeOK
<1>2. ASSUME NEW q \in Requests, NEW j \in Ids, CommitNew(q, j)
      PROVE users'[i].roles = users[i].roles
  BY <1>2 DEF CommitNew, Taken, TypeOK
<1>3. ASSUME NEW q \in Requests, Login(q) PROVE users'[i].roles = users[i].roles
  <2>1. users' = users \/ users'[i] = users[i]
                       \/ users'[i] = [users[i] EXCEPT !.password = req[q].password]
    BY <1>3 DEF Login, TypeOK
  <2> QED BY <1>1, <2>1 DEF Row
<1>4. ASSUME NEW j \in Ids, Switch(j) PROVE users'[i].roles = users[i].roles
  <2>1. users'[i] = users[i] \/ users'[i] = [users[i] EXCEPT !.active = ~users[j].active]
    BY <1>4 DEF Switch, TypeOK
  <2> QED BY <1>1, <2>1 DEF Row
<1> QED BY <1>2, <1>3, <1>4
        DEF Next, Request, Register, Seed, FoundFree, Insert, AnswerNew, Verify,
            CurrentUser, AnswerUpdate, Rollback, vars

(* How a request comes to be known or updated.                             *)
LEMMA BecomesUpdating ==
  ASSUME TypeOK, [Next]_vars, NEW q \in Requests,
         req'[q].pc \in {"known", "updated"},
         \A r \in Requests : ~UpdateProfile(r)
  PROVE  \/ req'[q] = req[q]
         \/ \E i \in Ids, rs \in SUBSET Roles :
              /\ CurrentUser(q, i, rs)
              /\ req'[q] = [pc |-> "known", id |-> i, roles |-> rs,
                            loaded |-> users[i].roles, alone |-> TRUE]
<1>1. ASSUME NEW r \in Requests, NEW s, Become(r, s)
      PROVE req'[q] = IF q = r THEN s ELSE req[q]
  BY <1>1 DEF Become, TypeOK
<1>2. ASSUME NEW r \in Requests, Become(r, Idle) PROVE req'[q] = req[q]
  BY <1>1, <1>2 DEF Idle
<1>3. ASSUME NEW r \in Requests, NEW e, NEW p, NEW rs, FoundFree(r, e, p, rs)
      PROVE req'[q] = req[q]
  BY <1>1, <1>3 DEF FoundFree
<1>4. ASSUME NEW r \in Requests, NEW p, NEW i, Verify(r, p, i)
      PROVE req'[q] = req[q]
  BY <1>1, <1>4 DEF Verify
<1>5. ASSUME NEW r \in Requests, NEW pc, pc \in {"inserted", "created"},
             At(r, "free") \/ At(r, "inserted"), MoveTo(r, pc)
      PROVE req'[q] = req[q]
  <2>1. [req[r] EXCEPT !.pc = pc].pc = pc
    BY <1>5, Shapes DEF At, Creating
  <2> QED BY <1>1, <1>5, <2>1 DEF MoveTo
<1>6. ASSUME NEW r \in Requests, Insert(r) \/ \E i \in Ids : CommitNew(r, i)
      PROVE req'[q] = req[q]
  BY <1>5, <1>6 DEF Insert, CommitNew
<1>7. ASSUME NEW r \in Requests, NEW i \in Ids, NEW rs \in SUBSET Roles,
             CurrentUser(r, i, rs)
      PROVE \/ req'[q] = req[q]
            \/ /\ CurrentUser(q, i, rs)
               /\ req'[q] = [pc |-> "known", id |-> i, roles |-> rs,
                             loaded |-> users[i].roles, alone |-> TRUE]
  BY <1>1, <1>7 DEF CurrentUser
<1> QED BY <1>2, <1>3, <1>4, <1>6, <1>7
        DEF Next, Request, Register, Seed, AnswerNew, Login, AnswerUpdate,
            Rollback, Switch, vars

(* A request nobody overtook answers the roles the row holds.              *)
LEMMA KnowsRolesHolds ==
  ASSUME TypeOK, KnowsRow, KnowsRoles, [Next]_vars
  PROVE  KnowsRoles'
<1> DEFINE Agrees(q) ==
      /\ At(q, "known") /\ req[q].alone => users[req[q].id].roles = req[q].loaded
      /\ At(q, "updated") /\ req[q].alone => users[req[q].id].roles = req[q].roles
<1> SUFFICES ASSUME NEW q \in Requests PROVE Agrees(q)'
  BY DEF KnowsRoles
<1>1. ASSUME NEW r \in Requests, UpdateProfile(r) PROVE Agrees(q)'
  <2>1. req[r] \in Updating /\ users[req[r].id] \in Row /\ req[r].id \in Ids
    BY <1>1, Shapes DEF UpdateProfile, At, KnowsRow, Taken, TypeOK, Updating
  <2>2. CASE q = r
    <3>1. req'[q] = [req[q] EXCEPT !.pc = "updated"]
      BY <1>1, <2>2 DEF UpdateProfile
    <3>2. /\ req'[q].pc = "updated" /\ req'[q].id = req[q].id
          /\ req'[q].roles = req[q].roles /\ req'[q].alone = req[q].alone
      BY <2>1, <2>2, <3>1 DEF Updating
    <3>3. CASE req[q].roles # req[q].loaded
      <4>1. users' = [users EXCEPT ![req[q].id] =
                        [users[req[q].id] EXCEPT !.roles = req[q].roles]]
        BY <1>1, <2>2, <3>3 DEF UpdateProfile, RolesWritten
      <4>2. users'[req[q].id] = [users[req[q].id] EXCEPT !.roles = req[q].roles]
        BY <2>1, <2>2, <4>1 DEF TypeOK
      <4>3. users'[req[q].id].roles = req[q].roles
        BY <2>1, <2>2, <4>2 DEF Row
      <4> QED BY <3>2, <4>3 DEF At
    <3>4. CASE req[q].roles = req[q].loaded
      <4>1. users' = users
        BY <1>1, <2>2, <3>4 DEF UpdateProfile, RolesWritten
      <4>2. req[q].alone => users[req[q].id].roles = req[q].roles
        BY <1>1, <2>2, <3>4 DEF UpdateProfile, KnowsRoles
      <4> QED BY <3>2, <4>1, <4>2 DEF At
    <3> QED BY <3>3, <3>4
  <2>3. CASE q # r /\ users' # users /\ SameRow(q, req[r].id)
    <3>1. req[q] \in Updating
      BY <2>3, Shapes DEF SameRow
    <3>2. req'[q] = [req[q] EXCEPT !.alone = FALSE]
      BY <1>1, <2>3 DEF UpdateProfile
    <3>3. req'[q].alone = FALSE
      BY <3>1, <3>2 DEF Updating
    <3> QED BY <3>3
  <2>4. CASE q # r /\ ~(users' # users /\ SameRow(q, req[r].id))
    <3>1. req'[q] = req[q]
      BY <1>1, <2>4 DEF UpdateProfile
    <3>2. SameRow(q, req[q].id) => users'[req[q].id] = users[req[q].id]
      <4>1. CASE users' = users
        BY <4>1
      <4>2. ASSUME SameRow(q, req[q].id), req[q].id # req[r].id
            PROVE users'[req[q].id] = users[req[q].id]
        <5>1. req[q].id \in Ids
          BY <4>2, Shapes DEF SameRow, Updating
        <5> QED BY <1>1, <4>2, <5>1 DEF UpdateProfile, RolesWritten, TypeOK
      <4> QED BY <2>4, <4>1, <4>2 DEF SameRow
    <3> QED BY <3>1, <3>2 DEF KnowsRoles, At, SameRow
  <2> QED BY <2>2, <2>3, <2>4
<1>2. ASSUME \A r \in Requests : ~UpdateProfile(r) PROVE Agrees(q)'
  <2>1. CASE req'[q] = req[q]
    BY <1>2, <2>1, RolesStay DEF KnowsRoles, KnowsRow, At
  <2>2. ASSUME NEW i \in Ids, NEW rs \in SUBSET Roles, CurrentUser(q, i, rs),
               req'[q] = [pc |-> "known", id |-> i, roles |-> rs,
                          loaded |-> users[i].roles, alone |-> TRUE]
        PROVE Agrees(q)'
    BY <2>2 DEF CurrentUser, At
  <2>3. CASE req'[q].pc \notin {"known", "updated"}
    BY <2>3 DEF At
  <2> QED BY <1>2, <2>1, <2>2, <2>3, BecomesUpdating
<1> QED BY <1>1, <1>2

StoredInv == Created /\ Welcomed /\ KnowsRoles

(* Whoever was told "created" has the account with that password, and a    *)
(* roles answer nobody overtook is the row's, for any number of requests.  *)
THEOREM AnswersStored == Spec => []AnswersAreStored
<1>1. Init => StoredInv
  BY DEF Init, StoredInv, Created, Welcomed, KnowsRoles, At, Idle
<1>2. TypeOK /\ KnowsRow /\ StoredInv /\ [Next]_vars => StoredInv'
  BY CreatedHolds, WelcomedHolds, KnowsRolesHolds DEF StoredInv
<1>3. StoredInv => AnswersAreStored
  BY DEF StoredInv, Welcomed, HasAccount, KnowsRoles, AnswersAreStored
<1> QED BY <1>1, <1>2, <1>3, Typed, PTL DEF Spec

(***************************************************************************)
(* The abstract accounts. A step writes at most one row, and a row is the  *)
(* whole account of its email.                                             *)
(***************************************************************************)
AccountOf(row) ==
  [password |-> row.password, roles |-> row.roles, active |-> row.active]

(* The abstract account of an email is what its one row says.              *)
LEMMA AccountIsItsRow ==
  ASSUME OneAccountPerEmail, NEW e \in Emails, NEW i \in RowsOf(e)
  PROVE  account[e] = AccountOf(users[i])
<1>1. (CHOOSE j \in RowsOf(e) : TRUE) \in RowsOf(e)
  OBVIOUS
<1>2. (CHOOSE j \in RowsOf(e) : TRUE) = i
  BY <1>1 DEF OneAccountPerEmail
<1>3. RowsOf(e) # {}
  OBVIOUS
<1>4. account[e] = LET row == users[CHOOSE j \in RowsOf(e) : TRUE]
                   IN [password |-> row.password, roles |-> row.roles,
                       active |-> row.active]
  BY <1>3 DEF account
<1> QED BY <1>2, <1>4 DEF AccountOf

(* An email has no abstract account exactly when it has no row.            *)
LEMMA NobodyIsNoRow ==
  ASSUME TypeOK, OneAccountPerEmail, NEW e \in Emails
  PROVE  account[e] = Nobody <=> RowsOf(e) = {}
<1>1. ASSUME RowsOf(e) = {} PROVE account[e] = Nobody
  BY <1>1 DEF account
<1>2. ASSUME NEW i \in RowsOf(e) PROVE account[e] # Nobody
  <2>1. users[i] \in Row
    BY DEF RowsOf, Taken, TypeOK
  <2>2. AccountOf(users[i]) \in
          [password : Passwords, roles : SUBSET Roles, active : BOOLEAN]
    BY <2>1 DEF AccountOf, Row, RoleSets, SelfChosen, SelfAssignable, Roles
  <2>3. account[e] = AccountOf(users[i])
    BY AccountIsItsRow
  <2> QED BY <2>2, <2>3, NobodyAssumption
<1> QED BY <1>1, <1>2

(* Storing a row stores its account, and no other.                         *)
LEMMA RowStored ==
  ASSUME TypeOK, OneAccountPerEmail, OneAccountPerEmail',
         NEW i \in Ids, NEW row \in Row, users' = [users EXCEPT ![i] = row],
         \/ users[i] = Nobody /\ RowsOf(row.email) = {}
         \/ users[i] # Nobody /\ users[i].email = row.email
  PROVE  account' = [account EXCEPT ![row.email] = AccountOf(row)]
<1> DEFINE e == row.email
<1>1. /\ e \in Emails /\ users'[i] = row /\ row # Nobody
      /\ \A j \in Ids \ {i} : users'[j] = users[j]
  BY RowIsNotNobody DEF Row, TypeOK
<1>2. i \in RowsOf(e)'
  <2>1. i \in Taken' /\ users'[i].email = e
    BY <1>1 DEF Taken
  <2> QED BY <2>1 DEF RowsOf
<1>3. account'[e] = AccountOf(row)
  <2>1. ASSUME NEW f \in Emails, i \in RowsOf(f)'
        PROVE account'[f] = AccountOf(users[i])'
    <3>1. (CHOOSE j \in RowsOf(f)' : TRUE) \in RowsOf(f)'
      BY <2>1
    <3>2. (CHOOSE j \in RowsOf(f)' : TRUE) = i
      BY <2>1, <3>1 DEF OneAccountPerEmail
    <3>3. account'[f] = LET r == users'[CHOOSE j \in RowsOf(f)' : TRUE]
                        IN [password |-> r.password, roles |-> r.roles,
                            active |-> r.active]
      BY <2>1 DEF account
    <3> QED BY <3>2, <3>3 DEF AccountOf
  <2> QED BY <1>1, <1>2, <2>1 DEF AccountOf
<1>4. ASSUME NEW f \in Emails, f # e PROVE account'[f] = account[f]
  <2>1. RowsOf(f)' = RowsOf(f) /\ i \notin RowsOf(f)
    BY <1>1, <1>4 DEF RowsOf, Taken
  <2>2. CASE RowsOf(f) = {}
    BY <2>1, <2>2 DEF account
  <2>3. CASE RowsOf(f) # {}
    <3>1. (CHOOSE j \in RowsOf(f) : TRUE) \in RowsOf(f)
      BY <2>3
    <3>2. users'[CHOOSE j \in RowsOf(f) : TRUE] = users[CHOOSE j \in RowsOf(f) : TRUE]
      BY <1>1, <2>1, <3>1 DEF RowsOf, Taken
    <3> QED BY <2>1, <2>3, <3>2 DEF account
  <2> QED BY <2>2, <2>3
<1>5. account = [f \in Emails |-> account[f]]
  BY DEF account
<1>6. account' = [f \in Emails |-> account'[f]]
  BY DEF account
<1> QED BY <1>1, <1>3, <1>4, <1>5, <1>6

(* The role admin waits only in a request for the seed's email.            *)
SeedOnly == \A q \in Requests :
  req[q].pc \in {"free", "inserted"} =>
    req[q].roles \in SelfChosen \/ req[q].email = AdminEmail

(* No request but the seed command carries the role admin.                 *)
LEMMA SeedOnlyHolds ==
  ASSUME TypeOK, SeedOnly, [Next]_vars
  PROVE  SeedOnly'
<1> SUFFICES ASSUME NEW q \in Requests, req'[q].pc \in {"free", "inserted"}
             PROVE  req'[q].roles \in SelfChosen \/ req'[q].email = AdminEmail
  BY DEF SeedOnly
<1>1. CASE req'[q] = req[q]
  BY <1>1 DEF SeedOnly
<1>2. CASE Insert(q) /\ req'[q] = [req[q] EXCEPT !.pc = "inserted"]
  <2>1. req[q] \in Creating
    BY <1>2, Shapes DEF Insert, At
  <2>2. req'[q].roles = req[q].roles /\ req'[q].email = req[q].email
    BY <1>2, <2>1 DEF Creating
  <2> QED BY <1>2, <2>2 DEF SeedOnly, Insert, At
<1>3. ASSUME NEW i \in Ids, req'[q] = [req[q] EXCEPT !.pc = "created"], CommitNew(q, i)
      PROVE FALSE
  BY <1>3, Shapes DEF CommitNew, At, Creating
<1>4. CASE req'[q].pc = "inserted"
  BY <1>1, <1>2, <1>3, <1>4, BecomesNew
<1>5. ASSUME NEW r \in Requests, NEW s, Become(r, s)
      PROVE req'[q] = IF q = r THEN s ELSE req[q]
  BY <1>5 DEF Become, TypeOK
<1>6. ASSUME NEW r \in Requests, NEW e, NEW p, NEW rs, FoundFree(r, e, p, rs),
             rs \in SelfChosen \/ e = AdminEmail
      PROVE req'[q].roles \in SelfChosen \/ req'[q].email = AdminEmail
  BY <1>1, <1>5, <1>6 DEF FoundFree
<1>7. ASSUME NEW r \in Requests, NEW p \in Passwords,
             \/ Seed(r, p)
             \/ \E e \in Emails, rs \in SUBSET Roles : Register(r, e, p, rs)
      PROVE req'[q].roles \in SelfChosen \/ req'[q].email = AdminEmail
  BY <1>6, <1>7 DEF Seed, Register, AssertSelfAssignable, SelfChosen
<1>8. ASSUME NEW r \in Requests, NEW s, Become(r, s), s.pc # "free",
             req'[q].pc = "free"
      PROVE req'[q] = req[q]
  BY <1>5, <1>8
<1>9. ASSUME NEW r \in Requests, UpdateProfile(r), req'[q].pc = "free"
      PROVE req'[q] = req[q]
  <2>1. ASSUME q = r \/ SameRow(q, req[r].id)
        PROVE req[q] \in Updating
    BY <1>9, <2>1, Shapes DEF UpdateProfile, At, SameRow
  <2> QED BY <1>9, <2>1 DEF UpdateProfile, Updating
<1>10. ASSUME NEW r \in Requests, req'[q].pc = "free",
              \/ AnswerNew(r) \/ Login(r) \/ AnswerUpdate(r) \/ Rollback(r)
              \/ \E p, i : Verify(r, p, i)
              \/ \E i, rs : CurrentUser(r, i, rs)
      PROVE req'[q] = req[q]
  BY <1>8, <1>10 DEF AnswerNew, Login, AnswerUpdate, Rollback, Verify, CurrentUser, Idle
<1>11. ASSUME NEW r \in Requests, req'[q].pc = "free",
              Insert(r) \/ \E i \in Ids : CommitNew(r, i)
      PROVE req'[q] = req[q]
  <2>1. req[r] \in Creating
    BY <1>11, Shapes DEF Insert, CommitNew, At
  <2>2. \A pc \in {"inserted", "created"} : [req[r] EXCEPT !.pc = pc].pc # "free"
    BY <2>1 DEF Creating
  <2> QED BY <1>8, <1>11, <2>2 DEF Insert, CommitNew, MoveTo
<1>12. CASE req'[q].pc = "free"
  BY <1>1, <1>7, <1>9, <1>10, <1>11, <1>12 DEF Next, Request, Switch, vars
<1> QED BY <1>4, <1>12

(* A step of any request is one abstract step, or changes no account.      *)
LEMMA StepImplements ==
  ASSUME TypeOK, KnowsRow, UniqueInv, OneAccountPerEmail', SeedOnly, [Next]_vars
  PROVE  Promised!Next \/ account' = account
<1>1. ASSUME NEW q \in Requests, NEW i \in Ids, CommitNew(q, i)
      PROVE Promised!Next
  <2> DEFINE e == req[q].email
             row == [email |-> e, password |-> req[q].password,
                     roles |-> req[q].roles, active |-> TRUE]
  <2>1. req[q] \in Creating /\ RowsOf(e) = {} /\ OneAccountPerEmail
    BY <1>1, Shapes DEF CommitNew, At, UniqueInv, Pending
  <2>2. row \in Row
    BY <2>1 DEF Creating, Row
  <2>3. account' = [account EXCEPT ![e] =
          [password |-> req[q].password, roles |-> req[q].roles, active |-> TRUE]]
    BY <1>1, <2>1, <2>2, RowStored DEF CommitNew, AccountOf
  <2>4. account[e] = Nobody
    BY <2>1, NobodyIsNoRow DEF Creating
  <2>5. CASE req[q].roles \in SelfChosen
    BY <2>1, <2>3, <2>4, <2>5
       DEF Creating, Promised!Next, Promised!SignUp, Promised!SelfChosen,
           Promised!SelfAssignable, SelfChosen, SelfAssignable
  <2>6. CASE req[q].roles = {"admin"} /\ e = AdminEmail
    BY <2>1, <2>3, <2>4, <2>6 DEF Creating, Promised!Next, Promised!SeedAdmin
  <2>7. req[q].roles \in SelfChosen \/ e = AdminEmail
    BY <1>1 DEF SeedOnly, CommitNew, At
  <2> QED BY <2>1, <2>5, <2>6, <2>7 DEF Creating, RoleSets
<1>2. ASSUME NEW q \in Requests, Login(q) PROVE account' = account
  <2> DEFINE i == req[q].id
  <2>1. i \in Ids /\ users[i] \in Row /\ users[i].password = req[q].password
    BY <1>2, Shapes DEF Login, At, Verifying, KnowsRow, Taken, TypeOK
  <2>2. [users[i] EXCEPT !.password = req[q].password] = users[i]
    BY <2>1 DEF Row
  <2>3. users' = users
    BY <1>2, <2>1, <2>2 DEF Login, TypeOK
  <2> QED BY <2>3 DEF account, RowsOf, Taken
<1>3. ASSUME NEW q \in Requests, UpdateProfile(q)
      PROVE Promised!Next \/ account' = account
  <2> DEFINE i == req[q].id
             row == [users[i] EXCEPT !.roles = req[q].roles]
             e == users[i].email
  <2>1. /\ i \in Ids /\ i \in Taken /\ users[i] \in Row
        /\ req[q].roles \in SelfChosen /\ req[q].roles \in RoleSets
    BY <1>3, Shapes DEF UpdateProfile, At, Updating, KnowsRow, Taken, TypeOK, RoleSets
  <2>2. /\ row \in Row /\ row.email = e /\ row.password = users[i].password
        /\ row.roles = req[q].roles /\ row.active = users[i].active
    BY <2>1 DEF Row
  <2>3. CASE users' = users
    BY <2>3 DEF account, RowsOf, Taken
  <2>4. CASE users' = [users EXCEPT ![i] = row]
    <3>1. account' = [account EXCEPT ![e] = AccountOf(row)]
      BY <2>1, <2>2, <2>4, RowStored DEF UniqueInv, Taken
    <3>2. e \in Emails /\ i \in RowsOf(e)
      BY <2>1 DEF RowsOf, Row
    <3>3. account[e] = AccountOf(users[i])
      BY <3>2, AccountIsItsRow DEF UniqueInv
    <3>4. AccountOf(row) = [account[e] EXCEPT !.roles = req[q].roles]
      BY <2>2, <3>3 DEF AccountOf
    <3>5. account[e] # Nobody
      BY <3>2, NobodyIsNoRow DEF UniqueInv
    <3>6. Promised!ChangeRoles(e)
      BY <2>1, <3>1, <3>4, <3>5
         DEF Promised!ChangeRoles, Promised!SelfChosen, Promised!SelfAssignable,
             SelfChosen, SelfAssignable
    <3> QED BY <3>2, <3>6 DEF Promised!Next
  <2> QED BY <1>3, <2>3, <2>4 DEF UpdateProfile, RolesWritten
<1>4. ASSUME NEW i \in Ids, Switch(i) PROVE Promised!Next
  <2> DEFINE row == [users[i] EXCEPT !.active = ~users[i].active]
             e == users[i].email
  <2>1. i \in Taken /\ users[i] \in Row
    BY <1>4 DEF Switch, Taken, TypeOK
  <2>2. /\ row \in Row /\ row.email = e /\ row.password = users[i].password
        /\ row.roles = users[i].roles /\ row.active = ~users[i].active
    BY <2>1 DEF Row
  <2>3. users' = [users EXCEPT ![i] = row]
    BY <1>4 DEF Switch
  <2>4. account' = [account EXCEPT ![e] = AccountOf(row)]
    BY <2>1, <2>2, <2>3, RowStored DEF UniqueInv, Taken
  <2>5. e \in Emails /\ i \in RowsOf(e)
    BY <2>1 DEF RowsOf, Row
  <2>6. account[e] = AccountOf(users[i])
    BY <2>5, AccountIsItsRow DEF UniqueInv
  <2>7. AccountOf(row) = [account[e] EXCEPT !.active = ~account[e].active]
    BY <2>2, <2>6 DEF AccountOf
  <2>8. account[e] # Nobody
    BY <2>5, NobodyIsNoRow DEF UniqueInv
  <2>9. Promised!Switch(e)
    BY <2>4, <2>7, <2>8 DEF Promised!Switch
  <2> QED BY <2>5, <2>9 DEF Promised!Next
<1>5. CASE users' = users
  BY <1>5 DEF account, RowsOf, Taken
<1> QED BY <1>1, <1>2, <1>3, <1>4, <1>5
        DEF Next, Request, Register, Seed, FoundFree, Insert, AnswerNew, Verify,
            CurrentUser, AnswerUpdate, Rollback, vars

(* Every interleaving of requests, lost connections and seed commands is a *)
(* sequence of whole sign-ups, seedings, role changes and switches.        *)
THEOREM ImplementsTheDirectory == Spec => ImplementsDirectory
<1>1. Init => Promised!Init /\ SeedOnly
  BY DEF Init, Promised!Init, account, RowsOf, Taken, SeedOnly, Idle
<1>2. TypeOK /\ SeedOnly /\ [Next]_vars => SeedOnly'
  BY SeedOnlyHolds
<1>3. UniqueInv => OneAccountPerEmail
  BY DEF UniqueInv
<1>4. /\ TypeOK /\ KnowsRow /\ UniqueInv /\ UniqueInv' /\ SeedOnly /\ [Next]_vars
      => [Promised!Next]_account
  BY StepImplements DEF UniqueInv
<1> QED BY <1>1, <1>2, <1>4, Typed, UniqueAlways, PTL
        DEF Spec, ImplementsDirectory, Promised!Spec

(***************************************************************************)
(* Who may be admin. The code refuses the role at registration and in      *)
(* PATCH /users/me (assert_self_assignable); the rest is that no order of  *)
(* requests carries it to another row.                                     *)
(***************************************************************************)
(* auth.py, seed.py: only the seed command makes an admin. Whatever was    *)
(* registered, updated, switched or raced, an account that has the role is *)
(* the one with the email the command was given.                           *)
AdminIsSeeded ==
  \A i \in Taken : "admin" \in users[i].roles => users[i].email = AdminEmail

(* The COMMIT of a new row is the only step that can add the role, an      *)
(* update writes roles that the user may choose.                           *)
LEMMA AdminStaysSeeded ==
  ASSUME TypeOK, KnowsRow, SeedOnly, AdminIsSeeded, [Next]_vars
  PROVE  AdminIsSeeded'
<1>0. \A rs \in SelfChosen : "admin" \notin rs
  BY DEF SelfChosen, SelfAssignable
<1>1. ASSUME NEW q \in Requests, NEW i \in Ids, CommitNew(q, i)
      PROVE AdminIsSeeded'
  <2> DEFINE row == [email |-> req[q].email, password |-> req[q].password,
                     roles |-> req[q].roles, active |-> TRUE]
  <2>1. users' = [users EXCEPT ![i] = row]
    BY <1>1 DEF CommitNew
  <2>2. "admin" \in row.roles => row.email = AdminEmail
    BY <1>0, <1>1 DEF SeedOnly, CommitNew, At
  <2> HIDE DEF row
  <2> QED BY <2>1, <2>2 DEF AdminIsSeeded, Taken, TypeOK
<1>2. ASSUME NEW i \in Ids, NEW row, users[i] # Nobody,
             users' = [users EXCEPT ![i] = row], row.email = users[i].email,
             "admin" \in row.roles => "admin" \in users[i].roles
      PROVE AdminIsSeeded'
  BY <1>2 DEF AdminIsSeeded, Taken, TypeOK
<1>3. ASSUME NEW q \in Requests, Login(q) PROVE AdminIsSeeded'
  <2> DEFINE i == req[q].id
             row == [users[i] EXCEPT !.password = req[q].password]
  <2>1. i \in Ids /\ users[i] \in Row /\ users[i] # Nobody
    BY <1>3, Shapes DEF Login, At, Verifying, KnowsRow, Taken, TypeOK
  <2>2. row.email = users[i].email /\ row.roles = users[i].roles
    BY <2>1 DEF Row
  <2>3. users' = users \/ users' = [users EXCEPT ![i] = row]
    BY <1>3 DEF Login
  <2> HIDE DEF row
  <2>4. CASE users' = users
    BY <2>4 DEF AdminIsSeeded, Taken
  <2> QED BY <1>2, <2>1, <2>2, <2>3, <2>4
<1>4. ASSUME NEW q \in Requests, UpdateProfile(q) PROVE AdminIsSeeded'
  <2> DEFINE i == req[q].id
             row == [users[i] EXCEPT !.roles = req[q].roles]
  <2>1. /\ i \in Ids /\ users[i] \in Row /\ users[i] # Nobody
        /\ req[q].roles \in SelfChosen
    BY <1>4, Shapes DEF UpdateProfile, At, Updating, KnowsRow, Taken, TypeOK
  <2>2. row.email = users[i].email /\ row.roles = req[q].roles
    BY <2>1 DEF Row
  <2>3. users' = users \/ users' = [users EXCEPT ![i] = row]
    BY <1>4 DEF UpdateProfile, RolesWritten
  <2> HIDE DEF row
  <2>4. CASE users' = users
    BY <2>4 DEF AdminIsSeeded, Taken
  <2> QED BY <1>0, <1>2, <2>1, <2>2, <2>3, <2>4
<1>5. ASSUME NEW i \in Ids, Switch(i) PROVE AdminIsSeeded'
  <2> DEFINE row == [users[i] EXCEPT !.active = ~users[i].active]
  <2>1. users[i] \in Row /\ users[i] # Nobody
    BY <1>5 DEF Switch, Taken, TypeOK
  <2>2. row.email = users[i].email /\ row.roles = users[i].roles
    BY <2>1 DEF Row
  <2>3. users' = [users EXCEPT ![i] = row]
    BY <1>5 DEF Switch
  <2> HIDE DEF row
  <2> QED BY <1>2, <2>1, <2>2, <2>3
<1>6. CASE users' = users
  BY <1>6 DEF AdminIsSeeded, Taken
<1> QED BY <1>1, <1>3, <1>4, <1>5, <1>6
        DEF Next, Request, Register, Seed, FoundFree, Insert, AnswerNew, Verify,
            CurrentUser, AnswerUpdate, Rollback, vars

(* So no interleaving lends admin to an account the command did not make.  *)
THEOREM OnlyTheSeedIsAdmin == Spec => []AdminIsSeeded
<1>1. Init => SeedOnly /\ AdminIsSeeded
  BY DEF Init, SeedOnly, AdminIsSeeded, Taken, Idle
<1>2. TypeOK /\ SeedOnly /\ [Next]_vars => SeedOnly'
  BY SeedOnlyHolds
<1>3. TypeOK /\ KnowsRow /\ SeedOnly /\ AdminIsSeeded /\ [Next]_vars
      => AdminIsSeeded'
  BY AdminStaysSeeded
<1> QED BY <1>1, <1>2, <1>3, Typed, PTL DEF Spec
==============================================================================
