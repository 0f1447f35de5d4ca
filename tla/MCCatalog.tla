------------------------------ MODULE MCCatalog ------------------------------
(* A bounded instance of Catalog.  Repository ids are interchangeable.     *)
EXTENDS Catalog, TLC

\* A process exit at any step, one offline damage and two logical times.
Exits == [exits |-> 1, losses |-> 0, damages |-> 1, time |-> 1]

\* Two power losses at any step.
Losses == [exits |-> 0, losses |-> 2, damages |-> 0, time |-> 0]

\* An exit, and a power loss after the catalog was opened again.
Both == [exits |-> 1, losses |-> 1, damages |-> 0, time |-> 0]

OneKind == {Exits, Losses}
BothKinds == {Both}

IdSymmetry == Permutations(Ids)
=============================================================================
