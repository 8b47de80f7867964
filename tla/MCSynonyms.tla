---------------------------- MODULE MCSynonyms -----------------------------
(* Synonyms for TLC: words, lists and goroutines are interchangeable. *)
EXTENDS Synonyms, TLC

Symmetry == Permutations(Words) \cup Permutations(Handlers)
=============================================================================
