---------------------------- MODULE MCReconcile ----------------------------
(* Reconcile for TLC: indexes, ids and workers are interchangeable. *)
EXTENDS Reconcile, TLC

Symmetry == Permutations(Indexes) \cup Permutations(Docs) \cup Permutations(Workers)
=============================================================================
