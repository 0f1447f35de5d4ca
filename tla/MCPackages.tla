----------------------------- MODULE MCPackages -----------------------------
(* One quad, and one of three uses: derived indexes of two snapshots with  *)
(* two faults; an index, a package of it and its restoration with two      *)
(* faults; or all of these over two writes and snapshots without faults.   *)
EXTENDS Packages

Indexes == [writes |-> 2, snapshots |-> 2, packages |-> 0, faults |-> 2]
Sealed == [writes |-> 1, snapshots |-> 1, packages |-> 1, faults |-> 2]
Served == [writes |-> 2, snapshots |-> 2, packages |-> 1, faults |-> 0]

AnyBudget == {Indexes, Sealed, Served}

=============================================================================
