----------------------------- MODULE MCPublishing -----------------------------
(* Publishing on small sets, for TLC.                                      *)
EXTENDS Publishing, TLC

Symmetry == Permutations(Lessons) \cup Permutations(Texts)
              \cup Permutations(Publishers) \cup Permutations(Editors)
==============================================================================
