------------------------------- MODULE Accounts -------------------------------
(***************************************************************************)
(* The users table and the requests that write it: registration, the seed  *)
(* command, the rehash of a login and PATCH /users/me, each one READ       *)
(* COMMITTED transaction that reads, decides, and writes later, and whose  *)
(* answer leaves after its COMMIT. A caller with an account may hold a     *)
(* token for it; the token is an id and nothing else.                      *)
(***************************************************************************)
CONSTANTS
  Emails, AdminEmail, Passwords, Nobody,   \* as in Directory
  Ids,        \* users.id
  Requests    \* concurrent requests, runs of the seed command included

Roles == {"student", "instructor", "admin"}
SelfAssignable == {"student", "instructor"}

ASSUME EmailAssumption == AdminEmail \in Emails
ASSUME NobodyAssumption ==
  /\ Nobody \notin [email : Emails, password : Passwords,
                   roles : SUBSET Roles, active : BOOLEAN]
  /\ Nobody \notin [password : Passwords, roles : SUBSET Roles, active : BOOLEAN]

VARIABLES
  users,      \* the committed row of each id, or Nobody
  req,        \* each request: where it is, what it was sent, what it read
  welcomed    \* history: email and password of every "created" that was sent

vars == <<users, req, welcomed>>

Taken == {i \in Ids : users[i] # Nobody}
RowsOf(e) == {i \in Taken : users[i].email = e}

At(q, pc) == req[q].pc = pc
Become(q, r) == req' = [req EXCEPT ![q] = r]
MoveTo(q, pc) == Become(q, [req[q] EXCEPT !.pc = pc])

Idle == [pc |-> "idle"]

Init ==
  /\ users = [i \in Ids |-> Nobody]
  /\ req = [q \in Requests |-> Idle]
  /\ welcomed = {}

(* Mutant: an update may ask for any role.                                 *)
SomeRole(rs) == rs # {}

AssertSelfAssignable(rs) == rs # {} /\ rs \subseteq SelfAssignable

(***************************************************************************)
(* Creating an account: get_by_email, then the hash, then the INSERT that  *)
(* the flush sends, then the COMMIT.                                       *)
(***************************************************************************)
FoundFree(q, e, p, rs) ==
  /\ At(q, "idle") /\ RowsOf(e) = {}
  /\ Become(q, [pc |-> "free", email |-> e, password |-> p, roles |-> rs])
  /\ UNCHANGED <<users, welcomed>>

Register(q, e, p, rs) == AssertSelfAssignable(rs) /\ FoundFree(q, e, p, rs)

Seed(q, p) == FoundFree(q, AdminEmail, p, {"admin"})

(* Mutant: no unique index, so the check is all there is.                  *)
NotUnique(e) == TRUE

(* ix_users_email refuses a committed row, and waits for the transaction   *)
(* of one that is inserted and not committed.                              *)
UniqueEmail(e) ==
  RowsOf(e) = {} /\ \A q \in Requests : At(q, "inserted") => req[q].email # e

Insert(q) ==
  /\ At(q, "free") /\ UniqueEmail(req[q].email)
  /\ MoveTo(q, "inserted")
  /\ UNCHANGED <<users, welcomed>>

CommitNew(q, i) ==
  /\ At(q, "inserted") /\ users[i] = Nobody
  /\ users' = [users EXCEPT ![i] =
                 [email |-> req[q].email, password |-> req[q].password,
                  roles |-> req[q].roles, active |-> TRUE]]
  /\ MoveTo(q, "created")
  /\ UNCHANGED welcomed

(* Mutant: without scope="function" the answer precedes the COMMIT.        *)
AnswerBeforeCommit(q) ==
  /\ At(q, "inserted")
  /\ welcomed' = welcomed \cup
       {[email |-> req[q].email, password |-> req[q].password]}
  /\ Become(q, Idle)
  /\ UNCHANGED users

AnswerNew(q) ==
  /\ At(q, "created")
  /\ welcomed' = welcomed \cup
       {[email |-> req[q].email, password |-> req[q].password]}
  /\ Become(q, Idle)
  /\ UNCHANGED users

(***************************************************************************)
(* login: the row as it was read decides; a rehash is written at COMMIT.   *)
(***************************************************************************)
(* Mutant: the result of verify_password is not looked at.                 *)
VerifyNothing(p, i) == users[i].active

Verified(p, i) == users[i].password = p /\ users[i].active

Verify(q, p, i) ==
  /\ At(q, "idle") /\ i \in Taken /\ Verified(p, i)
  /\ Become(q, [pc |-> "verified", password |-> p, id |-> i])
  /\ UNCHANGED <<users, welcomed>>

(* Whether the hash is too weak depends on when it was made.               *)
Login(q) ==
  /\ At(q, "verified")
  /\ \E needsRehash \in BOOLEAN :
       users' = IF needsRehash
                THEN [users EXCEPT ![req[q].id].password = req[q].password]
                ELSE users
  /\ Become(q, Idle)
  /\ UNCHANGED welcomed

(***************************************************************************)
(* PATCH /users/me: get_current_user loads the row of the token's id, and  *)
(* SQLAlchemy sends an UPDATE only for a value that differs from what was  *)
(* loaded. `alone`: nobody else has changed the row's roles since.         *)
(***************************************************************************)
CurrentUser(q, i, rs) ==
  /\ At(q, "idle") /\ i \in Taken /\ users[i].active
  /\ AssertSelfAssignable(rs)
  /\ Become(q, [pc |-> "known", id |-> i, roles |-> rs,
                loaded |-> users[i].roles, alone |-> TRUE])
  /\ UNCHANGED <<users, welcomed>>

RolesWritten(q) ==
  IF req[q].roles # req[q].loaded
  THEN [users EXCEPT ![req[q].id].roles = req[q].roles]
  ELSE users

SameRow(q, i) == req[q].pc \in {"known", "updated"} /\ req[q].id = i

UpdateProfile(q) ==
  /\ At(q, "known")
  /\ users' = RolesWritten(q)
  /\ req' = [r \in Requests |->
       IF r = q THEN [req[q] EXCEPT !.pc = "updated"]
       ELSE IF users' # users /\ SameRow(r, req[q].id)
       THEN [req[r] EXCEPT !.alone = FALSE]
       ELSE req[r]]
  /\ UNCHANGED welcomed

AnswerUpdate(q) ==
  /\ At(q, "updated")
  /\ Become(q, Idle)
  /\ UNCHANGED <<users, welcomed>>

(* Any refusal, a lost connection or a lost answer. A transaction that has *)
(* not committed is rolled back, and leaves nothing to undo here.          *)
Rollback(q) ==
  /\ ~At(q, "idle")
  /\ Become(q, Idle)
  /\ UNCHANGED <<users, welcomed>>

(* An operator switches an account off or on in the database.              *)
Switch(i) ==
  /\ i \in Taken
  /\ users' = [users EXCEPT ![i].active = ~users[i].active]
  /\ UNCHANGED <<req, welcomed>>

Request(q) ==
  \/ \E p \in Passwords :
       \/ Seed(q, p)
       \/ \E e \in Emails, rs \in SUBSET Roles : Register(q, e, p, rs)
       \/ \E i \in Ids : Verify(q, p, i)
  \/ \E i \in Ids : CommitNew(q, i) \/ \E rs \in SUBSET Roles : CurrentUser(q, i, rs)
  \/ Insert(q) \/ AnswerNew(q) \/ Login(q)
  \/ UpdateProfile(q) \/ AnswerUpdate(q) \/ Rollback(q)

Next == (\E q \in Requests : Request(q)) \/ \E i \in Ids : Switch(i)

Spec == Init /\ [][Next]_vars

(***************************************************************************)
(* Properties                                                              *)
(***************************************************************************)
SelfChosen == (SUBSET SelfAssignable) \ {{}}
RoleSets == SelfChosen \cup {{"admin"}}

Row == [email : Emails, password : Passwords, roles : RoleSets, active : BOOLEAN]

RequestStates ==
  {Idle}
  \cup [pc : {"free", "inserted", "created"},
        email : Emails, password : Passwords, roles : RoleSets]
  \cup [pc : {"verified"}, password : Passwords, id : Ids]
  \cup [pc : {"known", "updated"}, id : Ids, roles : SelfChosen,
        loaded : RoleSets, alone : BOOLEAN]

TypeOK ==
  /\ users \in [Ids -> Row \cup {Nobody}]
  /\ req \in [Requests -> RequestStates]
  /\ welcomed \subseteq [email : Emails, password : Passwords]

(* ix_users_email: two registrations, or a registration and the seed       *)
(* command, that both found the email free leave one account.              *)
OneAccountPerEmail == \A e \in Emails : \A i, j \in RowsOf(e) : i = j

(* deps.py, SessionDep: what was answered is what is stored. Whoever was   *)
(* told "created" has the account, with the password they chose, whatever  *)
(* raced, logged in or was lost since; and roles that are answered are the *)
(* roles of the row, unless another request of the same account changed    *)
(* them meanwhile.                                                         *)
AnswersAreStored ==
  /\ \A w \in welcomed :
       \E i \in RowsOf(w.email) : users[i].password = w.password
  /\ \A q \in Requests :
       At(q, "updated") /\ req[q].alone => users[req[q].id].roles = req[q].roles

(* All of it is one-step account keeping: no order of these requests lends *)
(* admin to anyone, replaces a password or an account, or frees an email.  *)
account ==
  [e \in Emails |->
     IF RowsOf(e) = {} THEN Nobody
     ELSE LET row == users[CHOOSE i \in RowsOf(e) : TRUE]
          IN [password |-> row.password, roles |-> row.roles, active |-> row.active]]
Promised == INSTANCE Directory
ImplementsDirectory == Promised!Spec
==============================================================================
