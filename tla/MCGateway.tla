----------------------------- MODULE MCGateway -----------------------------
(* Gateway for TLC: the goroutines of requests are interchangeable. *)
EXTENDS Gateway, TLC

Histogram == <<0, 1>>
Symmetry == Permutations(Handlers)
=============================================================================
