----------------------------- MODULE MCRegistry -----------------------------
(* Small instances of the registry. *)
EXTENDS Registry, TLC

\* One lease with every call at every time and an outcome lookup.
OneLease ==
    [repositories |-> {CHOOSE r \in Repositories : TRUE},
     calls |-> {"status", "renew", "request_cancel", "response_lost", "rollback", "drop_lease"},
     times |-> 0..MaxTime, max_id |-> 2, max_operations_per_lease |-> 2, resolves |-> 1]

\* Two leases on one or two stores.
TwoLeases ==
    [repositories |-> Repositories, calls |-> {"request_cancel"}, times |-> {0, 1, MaxTime},
     max_id |-> 3, max_operations_per_lease |-> 1, resolves |-> 0]

\* Two leases that nobody touches but maintenance.
Maintained == [TwoLeases EXCEPT !.calls = {}, !.times = {0, MaxTime}]

AnyUse == {OneLease, TwoLeases}
MaintainedUse == {Maintained}

Symmetry == Permutations(Repositories)
=============================================================================
