---------------------------- MODULE MCKeyedStore -----------------------------
(* Instances of KeyedStore with interchangeable keys.                       *)
EXTENDS KeyedStore, TLC

Symmetry == Permutations(Keys)
=============================================================================
