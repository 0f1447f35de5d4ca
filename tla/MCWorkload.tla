----------------------------- MODULE MCWorkload -----------------------------
(* A small instance of the admission controller: policies with priorities   *)
(* and one bypass, a reload that takes a lease, the scheduling and the fast *)
(* class away, and one that does not fit in the connections.                *)
EXTENDS Workload, TLC

Lim(a, q) == [max_active |-> a, max_queued |-> q]

\* Two leases of two principals, of which one may be fast.
Wide ==
    [policy_id |-> "p", version |-> 1, max_active |-> 2, max_queued |-> 2,
     operator_max_active |-> 1, operator_max_queued |-> 1,
     classes |-> [c \in {"default", "fast"} |-> IF c = "fast" THEN Lim(1, 2) ELSE Lim(2, 1)],
     principal |-> <<Lim(1, 1)>>,
     priority_scheduling |->
        <<[max_bypass |-> 1,
           class_priorities |-> [c \in {"default", "fast"} |-> IF c = "fast" THEN 3 ELSE 0]]>>]

\* One lease and a longer queue, of which a principal gets two places.
Narrow ==
    [Wide EXCEPT !.max_active = 1, !.max_queued = 3,
        !.classes = [c \in {"default", "fast"} |-> Lim(1, 3)],
        !.principal = <<Lim(1, 2)>>]

MCStartups == {Wide, Narrow}

\* Fewer leases, no fast class and no shares; more than the connections allow.
Lower ==
    [Narrow EXCEPT !.version = 2, !.classes = [c \in {"default"} |-> Lim(1, 3)],
        !.principal = <<>>, !.priority_scheduling = <<>>]
Larger == [Wide EXCEPT !.version = 3, !.max_queued = 3]

MCCandidates == {Lower, Larger}

Symmetry == Permutations(Principals)
=============================================================================
