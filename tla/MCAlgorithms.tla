---------------------------- MODULE MCAlgorithms ----------------------------
(* Algorithms for TLC: the characters that are tried, and one that is not. *)
EXTENDS Algorithms

Plain   == {"1", "a"}
Special == "_"
Capital == {"A"}
=============================================================================
