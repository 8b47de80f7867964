--------------------------- MODULE MCConfigStore ---------------------------
(* ConfigStore for TLC: names and handlers are interchangeable. *)
EXTENDS ConfigStore, TLC

Symmetry == Permutations(Handlers) \cup Permutations(Names)

Valid(v) == [query |-> TRUE, named |-> TRUE, version |-> v]
Nameless == [query |-> TRUE, named |-> FALSE, version |-> 1]
NoQuery  == [query |-> FALSE, named |-> TRUE, version |-> 1]

AllContents   == {Valid(1), NoQuery}
TwoContents   == {Valid(1), Nameless}
=============================================================================
