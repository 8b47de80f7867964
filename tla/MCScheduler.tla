---------------------------- MODULE MCScheduler ----------------------------
(* Scheduler for TLC: the handlers are alike. *)
EXTENDS Scheduler, TLC

Symmetry == Permutations(Handlers)
=============================================================================
