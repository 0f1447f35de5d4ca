--------------------------- MODULE MCMemoryStorage ---------------------------
(* Instances of MemoryStorage: a quad in the default graph, one or two in a *)
(* named graph, and the mappings of one prefix.                             *)
EXTENDS MemoryStorage, TLC

CONSTANTS q0, q1, g1, a, b, p

MCGraphName == [q \in Quads |-> IF q = q0 THEN DefaultGraph ELSE g1]

MCPrefix == [m \in Mappings |-> p]

(* The two mappings of the prefix are interchangeable.                      *)
Symmetry == Permutations(Mappings)
=============================================================================
