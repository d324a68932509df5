------------------------------- MODULE Directory -------------------------------
(***************************************************************************)
(* What the API promises of its accounts, as if every request were a single *)
(* step: an email belongs to one account for good, its password is the one *)
(* it was created with, its owner chooses among the roles one may give     *)
(* oneself, and admin comes from the seed command alone.                   *)
(***************************************************************************)
CONSTANTS
  Emails,      \* normalised: register_user and login strip and lower them
  AdminEmail,  \* ADMIN_EMAIL
  Passwords,
  Nobody       \* no account

VARIABLE account  \* the account of each email, or Nobody

SelfAssignable == {"student", "instructor"}
SelfChosen == (SUBSET SelfAssignable) \ {{}}

Account ==
  [password : Passwords, roles : SelfChosen \cup {{"admin"}}, active : BOOLEAN]

Init == account = [e \in Emails |-> Nobody]

SignUp(e) ==
  /\ account[e] = Nobody
  /\ \E p \in Passwords, rs \in SelfChosen :
       account' = [account EXCEPT ![e] =
                     [password |-> p, roles |-> rs, active |-> TRUE]]

SeedAdmin ==
  /\ account[AdminEmail] = Nobody
  /\ \E p \in Passwords :
       account' = [account EXCEPT ![AdminEmail] =
                     [password |-> p, roles |-> {"admin"}, active |-> TRUE]]

ChangeRoles(e) ==
  /\ account[e] # Nobody
  /\ \E rs \in SelfChosen : account' = [account EXCEPT ![e].roles = rs]

(* Deactivated or reactivated by hand: no endpoint does it.                *)
Switch(e) ==
  /\ account[e] # Nobody
  /\ account' = [account EXCEPT ![e].active = ~account[e].active]

Next == SeedAdmin \/ \E e \in Emails : SignUp(e) \/ ChangeRoles(e) \/ Switch(e)

Spec == Init /\ [][Next]_account
==============================================================================
