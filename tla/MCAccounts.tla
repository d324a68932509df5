------------------------------ MODULE MCAccounts ------------------------------
(* Accounts on small sets, for TLC. The two emails differ: one is the seed's. *)
EXTENDS Accounts, TLC

Symmetry ==
  Permutations(Requests) \cup Permutations(Ids) \cup Permutations(Passwords)
==============================================================================
