----------------------------- MODULE MCReconcile -----------------------------
(* Reconcile for texts of at most three pieces, repeated or not.           *)
EXTENDS Reconcile, SequencesExt

CONSTANT Hashes

AnyPieces == BoundedSeq(Hashes, 3)
==============================================================================
