---------------------------- MODULE MCContentOrder ----------------------------
(* ContentOrder on small sets, for TLC.                                    *)
EXTENDS ContentOrder, TLC

Symmetry == Permutations(Existing) \cup Permutations(Items \ Existing)
              \cup Permutations(Requests)
==============================================================================
