--------------------------- MODULE MCReconcileLate ---------------------------
(* ReconcileLate for a few texts: one emptied, two that differ in order,    *)
(* and one with a piece put between them.                                   *)
EXTENDS ReconcileLate, TLC

CONSTANTS A, B, C

FewTexts == {<<>>, <<A, B>>, <<B, A>>, <<B, C, A>>}
Symmetry == Permutations(Attempts)
==============================================================================
