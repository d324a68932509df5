---------------------------- MODULE MCPrerequisites ----------------------------
(* Prerequisites on small sets, for TLC.                                   *)
EXTENDS Prerequisites, TLC

Symmetry == Permutations(Courses) \cup Permutations(Requests)
==============================================================================
