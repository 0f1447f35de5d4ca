------------------------------ MODULE Workload ------------------------------
(* The admission controller of the server (cli/src/workload.rs): active     *)
(* leases and a bounded queue of waiters, split into a data pool (global,   *)
(* class and principal limits, priorities with bounded bypassing) and an    *)
(* operator pool (first in, first out), and a policy that can be reloaded.  *)
(*                                                                          *)
(* Every action is one critical section of the mutex over State.  A waiter  *)
(* is a thread that polls: it locks, decides and waits at most              *)
(* CANCELLATION_POLL, so a lost notification costs a delay and not          *)
(* progress, and the condition variable itself is left out.  Deadlines and  *)
(* cancellations are flags that the environment raises at any moment,       *)
(* between two critical sections or inside one.                             *)
(*                                                                          *)
(* An id is allocated and its entry pushed in one critical section, and     *)
(* entries are only ever removed: the queue is ordered by id, and is the    *)
(* set of the ids in it.                                                    *)
EXTENDS Integers, FiniteSets, FiniteSetsExt

CONSTANTS
    Classes,        \* names of workload classes
    OperatorClasses,\* classes that operator requests come with
    Principals,     \* scheduling identities of data requests
    NoPrincipal,    \* Option::None of an operator entry
    Startups,       \* policies the process may start with
    Candidates,     \* policies the configured file holds at a reload
    Declared,       \* classes that the access policy declares
    MaxId           \* bound: admission attempts

VARIABLES
    startup,            \* Inner::policy, the policy the process started with
    policy,             \* State::policy
    active,             \* State::active
    operator_active,    \* State::operator_active
    classes,            \* State::classes: class -> active leases
    principals,         \* State::principals: key -> PrincipalOccupancy
    queue,              \* State::queue
    next_id,            \* State::next_id
    phase,              \* attempt -> where its thread is
    entry,              \* attempt -> the immutable part of its Entry
    bypasses,           \* attempt -> Entry::bypasses
    fired,              \* attempts cancelled, or past their deadline
    ahead,              \* history: the leases an admission found
    overtaken           \* history: newer admissions past an eligible waiter

attempts == <<phase, entry, bypasses, ahead, overtaken>>
vars == <<startup, policy, active, operator_active, classes, principals, queue, next_id,
          fired, attempts>>

Limits == [max_active : Nat, max_queued : Nat]

\* WorkloadPolicy: an Option is a sequence of at most one element.
IsPolicy(p) ==
    /\ p.version \in Nat /\ p.max_active \in Nat /\ p.max_queued \in Nat
    /\ p.operator_max_active \in Nat /\ p.operator_max_queued \in Nat
    /\ DOMAIN p.classes \subseteq Classes
    /\ \A c \in DOMAIN p.classes : p.classes[c] \in Limits
    /\ p.principal # <<>> => p.principal[1] \in Limits
    /\ p.priority_scheduling # <<>> =>
        /\ p.priority_scheduling[1].max_bypass \in Nat
        /\ \A c \in DOMAIN p.priority_scheduling[1].class_priorities :
                p.priority_scheduling[1].class_priorities[c] \in 0..3

\* WorkloadPolicy::validate, but for the names, times and integer widths.
Validate(p) ==
    /\ p.version # 0
    /\ p.max_active # 0
    /\ p.operator_max_active # 0
    /\ p.principal # <<>> =>
        /\ p.principal[1].max_active \in 1..p.max_active
        /\ p.principal[1].max_queued <= p.max_queued
    /\ "default" \in DOMAIN p.classes
    /\ \A c \in DOMAIN p.classes :
        /\ p.classes[c].max_active \in 1..p.max_active
        /\ p.classes[c].max_queued <= p.max_queued
    /\ p.priority_scheduling # <<>> =>
        DOMAIN p.priority_scheduling[1].class_priorities = DOMAIN p.classes

ASSUME PolicyAssumption == \A p \in Startups \cup Candidates : IsPolicy(p)

ASSUME StartupsAreValid ==
    \A p \in Startups : Validate(p) /\ Declared \subseteq DOMAIN p.classes

\* connection_limit: fixed at startup, one connection more than the policy
\* can admit or queue.
connection_limit(operator) ==
    IF operator
    THEN startup.operator_max_active + startup.operator_max_queued + 1
    ELSE startup.max_active + startup.max_queued + 1

\* Where the thread of an attempt is: waiting in the queue; leaving with an
\* error, its QueueTicket still to drop; admitted with its ticket still to
\* drop; running with its lease.  An attempt that is over is in no function.
Phases == {"waiting", "leaving", "admitted", "running"}
Attempts == DOMAIN phase
Holders == {i \in Attempts : phase[i] \in {"admitted", "running"}}
Waiting == {i \in Attempts : phase[i] = "waiting"}
IsData(i) == ~entry[i].operator

Init ==
    /\ startup \in Startups
    /\ policy = startup
    /\ active = 0
    /\ operator_active = 0
    /\ classes = <<>>
    /\ principals = <<>>
    /\ queue = {}
    /\ next_id = 0
    /\ phase = <<>>
    /\ entry = <<>>
    /\ bypasses = <<>>
    /\ fired = {}
    /\ ahead = <<>>
    /\ overtaken = <<>>

-----------------------------------------------------------------------------
(* Counts *)

Extend(f, x, v) == [y \in DOMAIN f \cup {x} |-> IF y = x THEN v ELSE f[y]]
Without(f, x) == [y \in DOMAIN f \ {x} |-> f[y]]
CountOf(f, x, none) == IF x \in DOMAIN f THEN f[x] ELSE none
Idle == [active |-> 0, queued |-> 0]
Occupancy(p) == CountOf(principals, p, Idle)
ClassCount(c) == CountOf(classes, c, 0)

\* release_queued for every entry of S; a principal left with nothing goes.
release_queued(S) ==
    LET Of(p) == {i \in S : IsData(i) /\ entry[i].principal = p}
        Left(p) == [principals[p] EXCEPT !.queued = @ - Cardinality(Of(p))]
    IN [p \in {q \in DOMAIN principals : Of(q) = {} \/ Left(q) # Idle} |-> Left(p)]

\* release_active: the expect of the code is the application to p.
release_active(p) ==
    LET left == [principals[p] EXCEPT !.active = @ - 1]
    IN  IF left = Idle THEN Without(principals, p) ELSE [principals EXCEPT ![p] = left]

(* Mutant: one lease more than the principal's limit. *)
availableOneMore(e) ==
    IF e.operator
    THEN operator_active < e.policy.operator_max_active
    ELSE /\ active < e.policy.max_active
         /\ ClassCount(e.class) < e.policy.classes[e.class].max_active
         /\ e.policy.principal # <<>> =>
                Occupancy(e.principal).active <= e.policy.principal[1].max_active

\* available: against the limits of the entry's own policy.
available(e) ==
    IF e.operator
    THEN operator_active < e.policy.operator_max_active
    ELSE /\ active < e.policy.max_active
         /\ ClassCount(e.class) < e.policy.classes[e.class].max_active
         /\ e.policy.principal # <<>> =>
                Occupancy(e.principal).active < e.policy.principal[1].max_active

Eligible(q, operator) == {i \in q : entry[i].operator = operator /\ available(entry[i])}
Protected(i) == bypasses[i] >= entry[i].bypass_limit
AtLevel(S, level) == {i \in S : entry[i].priority = level}

(* Mutant: a protected level is served by its own priority only. *)
first_eligible_by_priority(q, operator) ==
    LET E == Eligible(q, operator)
        levels == {entry[i].priority : i \in E}
    IN  IF E = {} THEN {}
        ELSE IF operator THEN {Min(E)}
        ELSE {Min(AtLevel(E, Max(levels)))}

\* first_eligible over the queue q: no id, or one.
first_eligible(q, operator) ==
    LET E == Eligible(q, operator)
        levels == {entry[i].priority : i \in E}
        protected == {entry[i].priority : i \in {j \in E : Protected(j)}}
        head(level) == Min(AtLevel(E, level))
    IN  IF E = {} THEN {}
        ELSE IF operator \/ Protected(Min(E)) THEN {Min(E)}
        ELSE IF protected # {} THEN {Min({head(level) : level \in protected})}
        ELSE {head(Max(levels))}

\* Entries that purge removes from the queue at this moment.
Purged == queue \cap fired

(* Mutant: the principal's queue limit is forgotten. *)
QueueFullForAll(q, e) ==
    LET Queued(P(_)) == Cardinality({i \in q : P(i)})
    IN  IF e.operator
        THEN Queued(LAMBDA i : entry[i].operator) >= e.policy.operator_max_queued
        ELSE \/ Queued(IsData) >= e.policy.max_queued
             \/ Queued(LAMBDA i : IsData(i) /\ entry[i].class = e.class)
                    >= e.policy.classes[e.class].max_queued

\* check_queue_capacity over the queue q and the principals ps.
QueueFull(q, e) ==
    LET Queued(P(_)) == Cardinality({i \in q : P(i)})
    IN  IF e.operator
        THEN Queued(LAMBDA i : entry[i].operator) >= e.policy.operator_max_queued
        ELSE \/ Queued(IsData) >= e.policy.max_queued
             \/ Queued(LAMBDA i : IsData(i) /\ entry[i].class = e.class)
                    >= e.policy.classes[e.class].max_queued
             \/ /\ e.policy.principal # <<>>
                /\ CountOf(release_queued(Purged), e.principal, Idle).queued
                        >= e.policy.principal[1].max_queued

\* The older eligible entries of its pool that an admission passes.
Passed(q, id, operator) == {i \in Eligible(q, operator) : i < id}

\* activate past its cancellation check, for the attempt id with entry e:
\* older eligible entries of q age, and the counts go up from ps.
activate(id, e, q, ps) ==
    /\ bypasses' =
        [i \in Attempts \cup {id} |->
            IF i \notin Attempts THEN 0
            ELSE IF ~e.operator /\ i \in Passed(q, id, FALSE) /\ ~Protected(i)
                 THEN bypasses[i] + 1 ELSE bypasses[i]]
    /\ overtaken' =
        [i \in Attempts \cup {id} |->
            IF i \notin Attempts THEN 0
            ELSE IF i \in Passed(q, id, e.operator) THEN overtaken[i] + 1 ELSE overtaken[i]]
    /\ ahead' = Extend(ahead, id, Holders)
    /\ IF e.operator
       THEN /\ operator_active' = operator_active + 1
            /\ principals' = ps
            /\ UNCHANGED <<active, classes>>
       ELSE /\ active' = active + 1
            /\ classes' = Extend(classes, e.class, ClassCount(e.class) + 1)
            /\ principals' =
                    LET o == CountOf(ps, e.principal, Idle)
                    IN Extend(ps, e.principal, [o EXCEPT !.active = @ + 1])
            /\ UNCHANGED operator_active

-----------------------------------------------------------------------------
(* try_acquire *)

\* entry: the attempt's snapshot of the policy.
Entry(class, operator, principal) ==
    LET s == policy.priority_scheduling
        scheduled == ~operator /\ s # <<>>
    IN [class |-> class, operator |-> operator,
        principal |-> IF operator THEN NoPrincipal ELSE principal,
        policy |-> policy,
        priority |-> IF scheduled THEN s[1].class_priorities[class] ELSE 0,
        bypass_limit |-> IF scheduled THEN s[1].max_bypass ELSE 0]

\* Admitted at once: there is room, and nobody eligible waits.
ArriveAdmitted(e, q, ps) ==
    /\ available(e)
    /\ first_eligible(q, e.operator) = {}
    /\ activate(next_id, e, q, ps)
    /\ queue' = q
    /\ entry' = Extend(entry, next_id, e)
    /\ phase' = Extend(phase, next_id, "running")

\* Cancelled before activate, or refused with Overloaded.
ArriveRefused(e, q, ps) ==
    /\ (available(e) /\ first_eligible(q, e.operator) = {}) \/ QueueFull(q, e)
    /\ queue' = q
    /\ principals' = ps
    /\ UNCHANGED <<active, operator_active, classes, attempts>>

\* enqueue, with a ticket that removes the entry again.
ArriveQueued(e, q, ps) ==
    /\ ~(available(e) /\ first_eligible(q, e.operator) = {})
    /\ ~QueueFull(q, e)
    /\ queue' = q \cup {next_id}
    /\ principals' =
            IF e.operator THEN ps
            ELSE LET o == CountOf(ps, e.principal, Idle)
                 IN Extend(ps, e.principal, [o EXCEPT !.queued = @ + 1])
    /\ phase' = Extend(phase, next_id, "waiting")
    /\ entry' = Extend(entry, next_id, e)
    /\ bypasses' = Extend(bypasses, next_id, 0)
    /\ overtaken' = Extend(overtaken, next_id, 0)
    /\ ahead' = Extend(ahead, next_id, {})
    /\ UNCHANGED <<active, operator_active, classes>>

\* The locked part of try_acquire before its loop.  An unconfigured class and
\* a request that is already cancelled are refused before an id is taken.
Arrive(class, operator, principal) ==
    LET e == Entry(class, operator, principal)
        q == queue \ Purged
        ps == release_queued(Purged)
    IN  /\ next_id < MaxId
        /\ class \in DOMAIN policy.classes
        /\ next_id' = next_id + 1
        /\ ArriveAdmitted(e, q, ps) \/ ArriveRefused(e, q, ps) \/ ArriveQueued(e, q, ps)
        /\ UNCHANGED <<startup, policy, fired>>

\* A poll that sees its own cancellation or deadline: purge, unlock, leave.
PollFails(i) ==
    /\ i \in Waiting \cap fired
    /\ queue' = queue \ Purged
    /\ principals' = release_queued(Purged)
    /\ phase' = [phase EXCEPT ![i] = "leaving"]
    /\ UNCHANGED <<startup, policy, active, operator_active, classes, next_id, fired,
                   entry, bypasses, ahead, overtaken>>

\* The token fires after the poll looked at it and before purge does: the
\* entry goes, and the thread learns of it at its next poll.
PollPurgedLate(i) ==
    LET gone == queue \cap (fired \cup {i})
    IN  /\ i \in Waiting \ fired
        /\ fired' = fired \cup {i}
        /\ queue' = queue \ gone
        /\ principals' = release_queued(gone)
        /\ UNCHANGED <<startup, policy, active, operator_active, classes, next_id, attempts>>

\* A poll that finds itself first: it leaves the queue and is activated, or
\* is cancelled in between and leaves with an error.
PollFirst(i) ==
    LET gone == Purged \cup {i}
    IN  /\ i \in Waiting \ fired
        /\ i \in first_eligible(queue \ Purged, entry[i].operator)
        /\ queue' = queue \ gone
        /\ \/ /\ activate(i, entry[i], queue \ gone, release_queued(gone))
              /\ phase' = [phase EXCEPT ![i] = "admitted"]
              /\ UNCHANGED fired
           \/ /\ fired' = fired \cup {i}
              /\ principals' = release_queued(gone)
              /\ phase' = [phase EXCEPT ![i] = "leaving"]
              /\ UNCHANGED <<active, operator_active, classes, bypasses, ahead, overtaken>>
        /\ UNCHANGED <<startup, policy, next_id, entry>>

\* A poll that is not first: it purges the others and waits.
PollWaits(i) ==
    /\ i \in Waiting \ fired
    /\ i \notin first_eligible(queue \ Purged, entry[i].operator)
    /\ queue' = queue \ Purged
    /\ principals' = release_queued(Purged)
    /\ UNCHANGED <<startup, policy, active, operator_active, classes, next_id, fired, attempts>>

Poll(i) == PollFails(i) \/ PollPurgedLate(i) \/ PollFirst(i) \/ PollWaits(i)

\* What is left of the attempts when i is over.
Over(i) ==
    /\ phase' = Without(phase, i)
    /\ entry' = Without(entry, i)
    /\ bypasses' = Without(bypasses, i)
    /\ overtaken' = Without(overtaken, i)
    /\ ahead' = [j \in Attempts \ {i} |-> ahead[j] \ {i}]
    /\ fired' = fired \ {i}

(* Mutant: a ticket releases its place without looking for its entry. *)
DropTicketTwice(i) ==
    /\ i \in Attempts
    /\ phase[i] \in {"leaving", "admitted"}
    /\ queue' = queue \ {i}
    /\ principals' = release_queued({i})
    /\ IF phase[i] = "leaving" THEN Over(i)
       ELSE /\ phase' = [phase EXCEPT ![i] = "running"]
            /\ UNCHANGED <<entry, bypasses, overtaken, ahead, fired>>
    /\ UNCHANGED <<startup, policy, active, operator_active, classes, next_id>>

\* QueueTicket::drop removes the entry if it is still queued.
DropTicket(i) ==
    /\ i \in Attempts
    /\ phase[i] \in {"leaving", "admitted"}
    /\ queue' = queue \ {i}
    /\ principals' = IF i \in queue THEN release_queued({i}) ELSE principals
    /\ IF phase[i] = "leaving" THEN Over(i)
       ELSE /\ phase' = [phase EXCEPT ![i] = "running"]
            /\ UNCHANGED <<entry, bypasses, overtaken, ahead, fired>>
    /\ UNCHANGED <<startup, policy, active, operator_active, classes, next_id>>

(* Mutant: the place of the principal is not given back. *)
DropLeaseKeepsPrincipal(i) ==
    LET e == entry[i]
    IN  /\ i \in Attempts
        /\ phase[i] = "running"
        /\ IF e.operator
           THEN /\ operator_active' = operator_active - 1
                /\ UNCHANGED <<active, classes>>
           ELSE /\ active' = active - 1
                /\ classes' = IF classes[e.class] = 1 THEN Without(classes, e.class)
                              ELSE [classes EXCEPT ![e.class] = @ - 1]
                /\ UNCHANGED operator_active
        /\ Over(i)
        /\ UNCHANGED <<startup, policy, queue, next_id, principals>>

\* LeaseInner::drop, when the last clone of the lease goes.
DropLease(i) ==
    LET e == entry[i]
    IN  /\ i \in Attempts
        /\ phase[i] = "running"
        /\ IF e.operator
           THEN /\ operator_active' = operator_active - 1
                /\ UNCHANGED <<active, classes, principals>>
           ELSE /\ active' = active - 1
                /\ classes' = IF classes[e.class] = 1 THEN Without(classes, e.class)
                              ELSE [classes EXCEPT ![e.class] = @ - 1]
                /\ principals' = release_active(e.principal)
                /\ UNCHANGED operator_active
        /\ Over(i)
        /\ UNCHANGED <<startup, policy, queue, next_id>>

-----------------------------------------------------------------------------

\* apply_candidate: the version grows, the declared classes stay, and the
\* limits fit in the connections of the startup policy.
Reload(candidate) ==
    /\ Validate(candidate)
    /\ candidate.max_active + candidate.max_queued + 1 <= connection_limit(FALSE)
    /\ candidate.operator_max_active + candidate.operator_max_queued + 1
            <= connection_limit(TRUE)
    /\ candidate.policy_id = policy.policy_id
    /\ candidate.version > policy.version
    /\ Declared \subseteq DOMAIN candidate.classes
    /\ policy' = candidate
    /\ classes' = [c \in {d \in DOMAIN classes : classes[d] # 0} |-> classes[c]]
    /\ UNCHANGED <<startup, active, operator_active, principals, queue, next_id, fired,
                   attempts>>

\* A deadline passes, or the request is cancelled, while the thread waits.
Fire(i) ==
    /\ i \in Waiting \ fired
    /\ fired' = fired \cup {i}
    /\ UNCHANGED <<startup, policy, active, operator_active, classes, principals, queue, next_id,
                   attempts>>

Next ==
    \/ \E c \in Classes, p \in Principals : Arrive(c, FALSE, p)
    \/ \E c \in OperatorClasses : Arrive(c, TRUE, NoPrincipal)
    \/ \E i \in Attempts : Poll(i) \/ DropTicket(i) \/ DropLease(i) \/ Fire(i)
    \/ \E candidate \in Candidates : Reload(candidate)

Spec == Init /\ [][Next]_vars

-----------------------------------------------------------------------------

EntryType ==
    [class : Classes, operator : BOOLEAN, principal : Principals \cup {NoPrincipal},
     policy : Candidates \cup Startups, priority : 0..3, bypass_limit : Nat]

TypeOK ==
    /\ startup \in Startups
    /\ policy \in Candidates \cup Startups
    /\ active \in Nat
    /\ operator_active \in Nat
    /\ classes \in [DOMAIN classes -> Nat]
    /\ DOMAIN classes \subseteq Classes
    /\ principals \in [DOMAIN principals -> [active : Nat, queued : Nat]]
    /\ DOMAIN principals \subseteq Principals
    /\ next_id \in Nat
    /\ Attempts \subseteq 0 .. next_id - 1
    /\ queue \subseteq Attempts
    /\ fired \subseteq Attempts
    /\ phase \in [Attempts -> Phases]
    /\ entry \in [Attempts -> EntryType]
    /\ bypasses \in [Attempts -> Nat]
    /\ overtaken \in [Attempts -> Nat]
    /\ ahead \in [Attempts -> SUBSET Attempts]

(* The counters of State are the work there is: active leases per pool,     *)
(* class and principal, queued entries per principal; no counter is kept    *)
(* for a class or principal without work.  So no release finds a counter    *)
(* missing or at zero, however an entry left the queue.                     *)
CountsExact ==
    LET OfClass(c) == {i \in Holders : IsData(i) /\ entry[i].class = c}
        Of(S, p) == {i \in S : IsData(i) /\ entry[i].principal = p}
        Work(p) == [active |-> Cardinality(Of(Holders, p)), queued |-> Cardinality(Of(queue, p))]
    IN  /\ active = Cardinality({i \in Holders : IsData(i)})
        /\ operator_active = Cardinality({i \in Holders : ~IsData(i)})
        /\ classes = [c \in {entry[i].class : i \in {j \in Holders : IsData(j)}} |->
                        Cardinality(OfClass(c))]
        /\ principals = [p \in {entry[i].principal : i \in {j \in Holders \cup queue : IsData(j)}}
                            |-> Work(p)]

(* The leases that an attempt found when it was admitted, and that are      *)
(* still held, leave it room under every limit of the policy it was         *)
(* admitted under, whatever was reloaded since; the entries queued before   *)
(* an entry leave it room under every queue limit.                          *)
CapacityHeld ==
    LET Fits(i, S, operator, all, class, principal) ==
            LET Count(P(_)) == Cardinality({j \in S : P(j)})
                e == entry[i]
            IN  IF e.operator THEN Count(LAMBDA j : ~IsData(j)) < operator
                ELSE /\ Count(IsData) < all
                     /\ Count(LAMBDA j : IsData(j) /\ entry[j].class = e.class) < class
                     /\ principal # <<>> =>
                            Count(LAMBDA j : IsData(j) /\ entry[j].principal = e.principal)
                                < principal[1]
        Limit(p, field) == IF p.principal = <<>> THEN <<>> ELSE <<p.principal[1][field]>>
    IN  /\ \A i \in Holders :
             LET p == entry[i].policy
             IN  Fits(i, ahead[i], p.operator_max_active, p.max_active,
                      p.classes[entry[i].class].max_active, Limit(p, "max_active"))
        /\ \A i \in queue :
             LET p == entry[i].policy
             IN  Fits(i, {j \in queue : j < i}, p.operator_max_queued, p.max_queued,
                      p.classes[entry[i].class].max_queued, Limit(p, "max_queued"))

(* An eligible waiter is passed by at most as many newer admissions as the  *)
(* max_bypass of its own policy allows, and an operator by none, however    *)
(* levels, classes and principals block and unblock meanwhile.              *)
BypassBounded == \A i \in queue : overtaken[i] <= entry[i].bypass_limit

(* A pool with waiters stands still only while leases of that pool are      *)
(* held: a thread that waits outside the queue has been cancelled or is     *)
(* past its deadline, so that its next poll answers it, and once the leases *)
(* are back one of the threads in the queue is first.  The waits are timed, *)
(* so that this thread does poll.                                           *)
PoolMoves ==
    /\ Waiting \ queue \subseteq fired
    /\ \A operator \in BOOLEAN :
        LET Pool(S) == {i \in S : entry[i].operator = operator}
        IN Pool(queue \ fired) # {} =>
            Pool(Holders) # {} \/ first_eligible(queue \ fired, operator) \cap Waiting # {}
=============================================================================
