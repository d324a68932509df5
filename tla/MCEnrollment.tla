----------------------------- MODULE MCEnrollment -----------------------------
(* Enrollment on small sets, for TLC.                                      *)
EXTENDS Enrollment, TLC

Symmetry == Permutations(Requests) \cup Permutations(Students \ Completers)
==============================================================================
