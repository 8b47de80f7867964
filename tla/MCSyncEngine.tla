---------------------------- MODULE MCSyncEngine ----------------------------
(* SyncEngine for TLC: callers and rows are interchangeable. *)
EXTENDS SyncEngineInv, TLC

Symmetry == Permutations(Callers) \cup Permutations(Docs)

FineTicks   == {1}
CoarseTicks == {0, 1}

AllKinds == Kinds
(* The rows of a by_ids run are any the source has, those an incremental   *)
(* run would read among them.                                              *)
Direct   == {"full", "by_ids"}
Periodic == {"full", "incremental"}
Rebuilds == {"full"}
=============================================================================
