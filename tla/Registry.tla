------------------------------ MODULE Registry ------------------------------
(***************************************************************************)
(* The registry of leased native transactions, cli/src/lease/registry.rs.  *)
(* A step is one section under the registry lock or one native call made   *)
(* without it, so everything that runs concurrently interleaves here: the  *)
(* begin that waits for a writer, the guards of running operations and     *)
(* commits, handles being released, outcome lookups and maintenance.  The  *)
(* leases are the ones of LeaseModel.  Every repository has its own store. *)
(* Of a store the registry sees one writer at a time and the outcome that  *)
(* is recorded for each transaction key; KeyedStore.tla models how.        *)
(* A call with a foreign binding answers Unknown and changes nothing.      *)
(***************************************************************************)
EXTENDS LeaseModel, FiniteSetsExt

CONSTANTS
    Repositories, Principals, Keys,
    max_entries, max_global, max_per_repository, max_per_principal,
    max_maintenance_work,
    StoreFails,     \* whether writes of the store may fail
    Extensions,     \* the extensions a caller may request
    MaxId,          \* the largest lease id of all
    Uses            \* bounds, one of which a behaviour has: see `use`

ASSUME RegistryLimitsAssumption ==
    /\ {max_entries, max_global, max_per_repository, max_per_principal,
        max_maintenance_work} \subseteq Nat \ {0}
    /\ StoreFails \in BOOLEAN
    /\ Extensions \subseteq Nat \ {0}
    /\ MaxId \in Nat
    /\ \A u \in Uses :
         /\ u.repositories \subseteq Repositories
         /\ u.calls \subseteq {"status", "renew", "request_cancel", "response_lost",
                             "rollback", "drop_lease"}
         /\ u.times \subseteq 0..MaxTime
         /\ u.max_id \in 1..MaxId
         /\ u.max_operations_per_lease \in Nat \ {0}
         /\ u.resolves \in Nat

VARIABLES
    entries,    \* lease id -> entry
    counts,     \* Counts
    next_id, cursor,
    begins,     \* begin calls between their two locked sections
    ops,        \* live ActiveOperation guards
    commits,    \* live PendingCommit guards
    releases,   \* handles on their way out: native release, then uncharge
    resolves,   \* resolve calls in flight
    writer,     \* store -> id of the native transaction it has open, 0: none
    ledger,     \* store -> key -> recorded outcome
    records,    \* restart records of a registry that was shut down
    use         \* what callers do in this behaviour: the repositories, calls and
                \* times they use, the ids and operations there are, and the
                \* outcome lookups in flight at once

registryVars == <<entries, counts, next_id, cursor>>
callVars == <<begins, ops, commits, releases, resolves>>
storeVars == <<writer, ledger>>
vars == <<entries, counts, next_id, cursor, begins, ops, commits, releases,
          resolves, writer, ledger, records, use>>

Ids == 1..MaxId

(* next_id stays within Ids, so the last of them is never given out.       *)
LeaseIds == 1..(MaxId - 1)

Running == records = {}

Slots == {"Held", "Away", "Empty"}

Entries ==
    [lease : Leases, key : Keys, slot : Slots, charged : BOOLEAN,
     repository : Repositories, principal : Principals]

(* Staging also stands for a commit that was attempted and not decided:    *)
(* both look up as indeterminate.                                          *)
LedgerStates == {"Absent", "Staging", "Committed", "RolledBack"}

Init ==
    /\ entries = [id \in {} |-> {}]
    /\ counts = [global |-> 0, pending |-> 0,
                 repositories |-> [r \in Repositories |-> 0],
                 principals |-> [p \in Principals |-> 0]]
    /\ next_id = 1 /\ cursor = 0
    /\ begins = {} /\ ops = {} /\ commits = {} /\ releases = {} /\ resolves = {}
    /\ writer = [r \in Repositories |-> 0]
    /\ ledger = [r \in Repositories |-> [k \in Keys |-> "Absent"]]
    /\ records = {}
    /\ use \in Uses

-----------------------------------------------------------------------------
(* Counts::release, with its saturating subtractions.                      *)
CountsRelease(c, repository, principal) ==
    [c EXCEPT !.global = IF @ = 0 THEN 0 ELSE @ - 1,
              !.repositories[repository] = IF @ = 0 THEN 0 ELSE @ - 1,
              !.principals[principal] = IF @ = 0 THEN 0 ELSE @ - 1]

(* Mutant: the slot is emptied, the charge is not given back. *)
UnchargeKeepsCharge(id) ==
    /\ entries' = IF id \in DOMAIN entries
                  THEN [entries EXCEPT ![id].slot = "Empty"] ELSE entries
    /\ UNCHANGED counts

(* Inner::uncharge.                                                        *)
uncharge(id) ==
    IF id \in DOMAIN entries
    THEN /\ entries' = [entries EXCEPT ![id].slot = "Empty",
                                       ![id].charged = FALSE]
         /\ counts' = IF entries[id].charged
                      THEN CountsRelease(counts, entries[id].repository,
                                         entries[id].principal)
                      ELSE counts
    ELSE UNCHANGED <<entries, counts>>

(* The phases whose held handle take_reap takes out of the entry.          *)
Reaps(phase) == phase.tag \in {"Terminal", "Expired"}

(* Whether the handle is rolled back rather than dropped.                  *)
ReapRollsBack(phase) ==
    \/ IsRolledBack(phase) /\ phase.outcome.reason # "Dropped"
    \/ phase.tag = "Expired" /\ ~phase.attempted

Release(id, back) == [id |-> id, rollback |-> back, native |-> TRUE]

(* Mutant: the handle is copied out of the entry, the slot keeps it. *)
TakeReapKeepsSlot(id, e) ==
    IF e.slot = "Held" /\ Reaps(e.lease.phase)
    THEN [entry |-> e, reaped |-> {Release(id, ReapRollsBack(e.lease.phase))}]
    ELSE [entry |-> e, reaped |-> {}]

(* take_reap on an entry: the entry without its handle, the handle as a    *)
(* release to be carried out.                                              *)
take_reap(id, e) ==
    IF e.slot = "Held" /\ Reaps(e.lease.phase)
    THEN [entry |-> [e EXCEPT !.slot = "Away"],
          reaped |-> {Release(id, ReapRollsBack(e.lease.phase))}]
    ELSE [entry |-> e, reaped |-> {}]

(* The native handle is dropped or rolled back: the store writes the       *)
(* rolled-back marker, which may fail, and admits its next writer.         *)
NativeRelease(id, repository, key) ==
    /\ \E marker \in {"RolledBack"} \cup (IF StoreFails THEN {"Staging"} ELSE {}) :
         ledger' = [ledger EXCEPT ![repository][key] = marker]
    /\ writer' = [writer EXCEPT ![repository] = 0]

-----------------------------------------------------------------------------
(* The capacity checks of begin.                                           *)
HasCapacity(repository, principal) ==
    /\ Cardinality(DOMAIN entries) + counts.pending < max_entries
    /\ counts.global < max_global
    /\ counts.repositories[repository] < max_per_repository
    /\ counts.principals[principal] < max_per_principal

(* begin, first locked section: capacity and an id are taken.              *)
BeginReserve(repository, principal, key) ==
    /\ Running
    /\ HasCapacity(repository, principal)
    /\ next_id < use.max_id
    /\ next_id' = next_id + 1
    /\ counts' = [counts EXCEPT !.global = @ + 1, !.pending = @ + 1,
                                !.repositories[repository] = @ + 1,
                                !.principals[principal] = @ + 1]
    /\ begins' = begins \cup {[id |-> next_id, repository |-> repository,
                               principal |-> principal, key |-> key,
                               native |-> FALSE]}
    /\ UNCHANGED <<entries, cursor, ops, commits, releases, resolves>>
    /\ UNCHANGED storeVars /\ UNCHANGED <<records, use>>

(* The store admits the writer and reserves its key.                       *)
CanReserve(b) ==
    /\ writer[b.repository] = 0
    /\ ledger[b.repository][b.key] = "Absent"

(* begin without the lock: the store starts the native transaction.        *)
BeginStart(b) ==
    /\ b \in begins /\ ~b.native
    /\ CanReserve(b)
    /\ writer' = [writer EXCEPT ![b.repository] = b.id]
    /\ ledger' = [ledger EXCEPT ![b.repository][b.key] = "Staging"]
    /\ begins' = (begins \ {b}) \cup {[b EXCEPT !.native = TRUE]}
    /\ UNCHANGED <<ops, commits, releases, resolves>>
    /\ UNCHANGED registryVars /\ UNCHANGED <<records, use>>

(* begin fails: the lease would overflow the clock, the wait for the writer*)
(* timed out, the key is taken or the store failed, perhaps after it wrote *)
(* the staging marker.  Dropping the reservation returns the capacity.     *)
BeginFail(b) ==
    /\ b \in begins /\ ~b.native
    /\ begins' = begins \ {b}
    /\ counts' = CountsRelease([counts EXCEPT !.pending = IF @ = 0 THEN 0 ELSE @ - 1],
                               b.repository, b.principal)
    /\ \/ UNCHANGED ledger
       \/ /\ StoreFails /\ CanReserve(b)
          /\ ledger' = [ledger EXCEPT ![b.repository][b.key] = "Staging"]
    /\ UNCHANGED <<entries, next_id, cursor, ops, commits, releases, resolves,
                   writer, records, use>>

(* begin, second locked section.  `at` is the time the call carried.       *)
BeginInsert(b, at) ==
    /\ b \in begins /\ b.native
    /\ BeginFits(at)
    /\ begins' = begins \ {b}
    /\ counts' = [counts EXCEPT !.pending = IF @ = 0 THEN 0 ELSE @ - 1]
    /\ entries' = [id \in DOMAIN entries \cup {b.id} |->
                     IF id = b.id
                     THEN [lease |-> BeginLease(at), key |-> b.key,
                           slot |-> "Held", charged |-> TRUE,
                           repository |-> b.repository,
                           principal |-> b.principal]
                     ELSE entries[id]]
    /\ UNCHANGED <<next_id, cursor, ops, commits, releases, resolves, records, use>>
    /\ UNCHANGED storeVars

-----------------------------------------------------------------------------
(* with_lease: the lease becomes l, a handle it no longer needs is reaped. *)
WithLease(id, l) ==
    LET t == take_reap(id, [entries[id] EXCEPT !.lease = l]) IN
    /\ entries' = [entries EXCEPT ![id] = t.entry]
    /\ releases' = releases \cup t.reaped

(* The calls that only concern the lease.  status stands for outcome too.  *)
LeaseCalls ==
    {"status", "renew", "request_cancel", "response_lost", "rollback", "drop_lease"}

(* The leases such a call may leave behind.                                *)
CallResults(call, l, at) ==
    CASE call = "status" -> {observe(l, at).l}
      [] call = "renew" ->
           {renew(l, at, expected, requested).l :
              expected \in {l.generation - 1, l.generation}, requested \in Extensions}
      [] call = "request_cancel" -> {request_cancel(l, at).l}
      [] call = "response_lost" -> {response_lost(l, at).l}
      [] call = "rollback" -> {rollback(l, at).l}
      [] call = "drop_lease" -> {dropped(l, at).l}

LeaseCall(id, at) ==
    /\ Running
    /\ \E call \in use.calls : \E l \in CallResults(call, entries[id].lease, at) :
         WithLease(id, l)
    /\ UNCHANGED <<counts, next_id, cursor, begins, ops, commits, resolves, records, use>>
    /\ UNCHANGED storeVars

(* The native half of `release`.                                           *)
ReleaseNative(r) ==
    /\ r \in releases /\ r.native
    /\ NativeRelease(r.id, entries[r.id].repository, entries[r.id].key)
    /\ releases' = (releases \ {r}) \cup {[r EXCEPT !.native = FALSE]}
    /\ UNCHANGED registryVars
    /\ UNCHANGED <<begins, ops, commits, resolves, records, use>>

(* Only then the charge is returned.                                       *)
ReleaseUncharge(r) ==
    /\ r \in releases /\ ~r.native
    /\ releases' = releases \ {r}
    /\ uncharge(r.id)
    /\ UNCHANGED <<next_id, cursor, begins, ops, commits, resolves, records, use>>
    /\ UNCHANGED storeVars

-----------------------------------------------------------------------------
(* start_operation on an entry: [entry, guard], guard {} on an error.      *)
start_operation(id, e, at) ==
    LET seen == observe(e.lease, at)
        begun == begin_operation(seen.l, at)
        Became(l) == [e EXCEPT !.lease = l]
    IN CASE \/ seen.r # "Ok"
            \/ seen.l.phase = Idle /\ seen.l.op_seq >= use.max_operations_per_lease ->
              [entry |-> Became(seen.l), guard |-> {}]
         [] OTHER ->
              IF begun.r # "Ok" THEN [entry |-> Became(begun.l), guard |-> {}]
              ELSE IF e.slot = "Held"
              THEN [entry |-> [Became(begun.l) EXCEPT !.slot = "Away"],
                    guard |-> {[id |-> id, generation |-> begun.l.generation,
                                seq |-> begun.l.op_seq, tx |-> TRUE]}]
              ELSE [entry |-> Became(finish_operation(begun.l, at, TRUE,
                                                      begun.l.op_seq).l),
                    guard |-> {}]

BeginOperation(id, at) ==
    LET started == start_operation(id, entries[id], at)
        t == take_reap(id, started.entry)
    IN /\ Running
       /\ entries' = [entries EXCEPT ![id] = t.entry]
       /\ releases' = releases \cup t.reaped
       /\ ops' = ops \cup started.guard
       /\ UNCHANGED <<counts, next_id, cursor, begins, commits, resolves, records, use>>
       /\ UNCHANGED storeVars

(* ActiveOperation::finish.  A rejection that changes nothing leaves the   *)
(* guard usable; a completed operation puts its handle back; otherwise the *)
(* handle is retired, with a typed rollback when cancellation was          *)
(* acknowledged.                                                           *)
OperationFinish(o, at) ==
    LET e == entries[o.id]
        done == finish_operation(e.lease, at, o.generation = e.lease.generation, o.seq)
    IN /\ o \in ops /\ o.tx
       /\ entries' = [entries EXCEPT ![o.id].lease = done.l,
                                     ![o.id].slot = IF done.r = "Completed"
                                                    THEN "Held" ELSE @]
       /\ \/ /\ done.r = "Completed"
             /\ ops' = ops \ {o} /\ UNCHANGED releases
          \/ /\ done.r \in {"CancelledAcknowledged", "AlreadyTerminal", "Expired"}
             /\ ops' = ops \ {o}
             /\ releases' = releases \cup
                  {Release(o.id, done.r = "CancelledAcknowledged")}
          \/ /\ done.r \in {"TimeRegression", "TimeOverflow", "StaleHandle"}
             /\ UNCHANGED <<ops, releases>>
       /\ UNCHANGED <<counts, next_id, cursor, begins, commits, resolves, records, use>>
       /\ UNCHANGED storeVars

(* Drop for ActiveOperation: first the native handle goes.                 *)
OperationDrop(o) ==
    /\ o \in ops /\ o.tx
    /\ NativeRelease(o.id, entries[o.id].repository, entries[o.id].key)
    /\ ops' = (ops \ {o}) \cup {[o EXCEPT !.tx = FALSE]}
    /\ UNCHANGED registryVars
    /\ UNCHANGED <<begins, commits, releases, resolves, records, use>>

(* What the drop makes of the lease, at the last time it has seen: an      *)
(* operation still running ends as a dropped rollback, one that is being   *)
(* cancelled is left to become overdue.                                    *)
DroppedOperation(o, l) ==
    LET now == l.last_seen
        seen == observe(l, now).l
    IN IF seen.phase = Operating
       THEN dropped(finish_operation(seen, now, o.generation = seen.generation,
                                     o.seq).l, now).l
       ELSE seen

(* ... then, under the lock, the lease is told and the charge returned.    *)
OperationDropSettle(o) ==
    LET e == entries[o.id] IN
    /\ o \in ops /\ ~o.tx
    /\ ops' = ops \ {o}
    /\ entries' = [entries EXCEPT ![o.id].lease = DroppedOperation(o, e.lease),
                                  ![o.id].slot = "Empty",
                                  ![o.id].charged = FALSE]
    /\ counts' = IF e.charged THEN CountsRelease(counts, e.repository, e.principal)
                 ELSE counts
    /\ UNCHANGED <<next_id, cursor, begins, commits, releases, resolves, records, use>>
    /\ UNCHANGED storeVars

-----------------------------------------------------------------------------
(* prepare_commit: the single attempt is recorded, the handle moves into   *)
(* the guard.                                                              *)
PrepareCommit(id, at) ==
    LET e == entries[id]
        begun == begin_commit(e.lease, at)
        taken == begun.r = "Ok" /\ e.slot = "Held"
        t == take_reap(id, [e EXCEPT !.lease = begun.l,
                                     !.slot = IF taken THEN "Away" ELSE @])
    IN /\ Running
       /\ entries' = [entries EXCEPT ![id] = t.entry]
       /\ releases' = releases \cup t.reaped
       /\ commits' = IF taken
                     THEN commits \cup {[id |-> id, generation |-> begun.l.generation,
                                         native |-> "None"]}
                     ELSE commits
       /\ UNCHANGED <<counts, next_id, cursor, begins, ops, resolves, records, use>>
       /\ UNCHANGED storeVars

(* execute without the lock: the native commit, once.  Every error of the  *)
(* store is reported as indeterminate, whether or not it took effect.      *)
CommitNative(c) ==
    LET e == entries[c.id] IN
    /\ c \in commits /\ c.native = "None"
    /\ \E result \in {"Committed"} \cup (IF StoreFails THEN {"Indeterminate"} ELSE {}) :
         /\ commits' = (commits \ {c}) \cup {[c EXCEPT !.native = result]}
         /\ \/ ledger' = [ledger EXCEPT ![e.repository][e.key] = "Committed"]
            \/ result = "Indeterminate" /\ UNCHANGED ledger
    /\ writer' = [writer EXCEPT ![e.repository] = 0]
    /\ UNCHANGED registryVars
    /\ UNCHANGED <<begins, ops, releases, resolves, records, use>>

(* execute, locked: the result is reported to the lease at a time that is  *)
(* never before what it has seen, and the charge is returned.              *)
CommitFinish(c, at) ==
    LET e == entries[c.id]
        reply == finish_commit(e.lease, Greatest(at, e.lease.last_seen),
                               c.generation = e.lease.generation, c.native)
    IN /\ c \in commits /\ c.native # "None"
       /\ commits' = commits \ {c}
       /\ entries' = [entries EXCEPT ![c.id].lease = reply.l,
                                     ![c.id].slot = "Empty",
                                     ![c.id].charged = FALSE]
       /\ counts' = IF e.charged
                    THEN CountsRelease(counts, e.repository, e.principal)
                    ELSE counts
       /\ UNCHANGED <<next_id, cursor, begins, ops, releases, resolves, records, use>>
       /\ UNCHANGED storeVars

(* Drop for PendingCommit: nothing is committed, the handle is dropped and *)
(* the charge returned.  The lease is not told.                            *)
CommitDrop(c) ==
    /\ c \in commits /\ c.native = "None"
    /\ commits' = commits \ {c}
    /\ releases' = releases \cup {Release(c.id, FALSE)}
    /\ UNCHANGED registryVars /\ UNCHANGED storeVars
    /\ UNCHANGED <<begins, ops, resolves, records, use>>

-----------------------------------------------------------------------------
(* resolve, first locked section: status, which must show a commit key.    *)
ResolveStart(id, at) ==
    LET seen == observe(entries[id].lease, at) IN
    /\ Running
    /\ Cardinality(resolves) < use.resolves
    /\ WithLease(id, seen.l)
    /\ resolves' = IF seen.r = "Ok" /\ seen.l.commit_attempted
                   THEN resolves \cup {[id |-> id, at |-> at, found |-> "None"]}
                   ELSE resolves
    /\ UNCHANGED <<counts, next_id, cursor, begins, ops, commits, records, use>>
    /\ UNCHANGED storeVars

(* Mutant: a transaction the store is still staging counts as absent. *)
LookupStagingAsAbsent(repository, key) ==
    CASE ledger[repository][key] = "Committed" -> "Committed"
      [] OTHER -> "ProvenAbsent"

(* lookup_transaction_outcome as an ExternalOutcome.                       *)
lookup_transaction_outcome(repository, key) ==
    CASE ledger[repository][key] = "Committed" -> "Committed"
      [] ledger[repository][key] = "RolledBack" -> "ProvenAbsent"
      [] OTHER -> "Indeterminate"

(* The store is asked without the lock; an entry that is gone by then or a *)
(* failing lookup ends the call.                                           *)
ResolveLookup(s) ==
    /\ s \in resolves /\ s.found = "None"
    /\ \/ resolves' = resolves \ {s}
       \/ /\ s.id \in DOMAIN entries
          /\ resolves' = (resolves \ {s}) \cup
               {[s EXCEPT !.found = lookup_transaction_outcome(
                              entries[s.id].repository, entries[s.id].key)]}
    /\ UNCHANGED registryVars /\ UNCHANGED storeVars
    /\ UNCHANGED <<begins, ops, commits, releases, records, use>>

(* The answer, perhaps old by now, is applied at the time of the call.     *)
ResolveApply(s) ==
    /\ s \in resolves /\ s.found # "None"
    /\ resolves' = resolves \ {s}
    /\ IF s.id \in DOMAIN entries
       THEN WithLease(s.id, resolve_indeterminate(entries[s.id].lease, s.at, s.found).l)
       ELSE UNCHANGED <<entries, releases>>
    /\ UNCHANGED <<counts, next_id, cursor, begins, ops, commits, records, use>>
    /\ UNCHANGED storeVars

-----------------------------------------------------------------------------
(* Mutant: every pass starts at the first entry. *)
ScanFromStart(limit) ==
    {id \in DOMAIN entries :
       Cardinality({other \in DOMAIN entries : other < id}) < limit}

(* The entries one maintenance pass examines: the first `limit` after the  *)
(* cursor, in id order and wrapping around.                                *)
Scanned(limit) ==
    LET Before(a, b) == IF (a > cursor) = (b > cursor) THEN a < b ELSE a > cursor
    IN {id \in DOMAIN entries :
          Cardinality({other \in DOMAIN entries : Before(other, id)}) < limit}

(* The last entry of the pass, where the next one resumes.                 *)
LastScanned(ids) ==
    LET wrapped == {id \in ids : id <= cursor}
    IN Max(IF wrapped # {} THEN wrapped ELSE ids)

(* Mutant: a tombstone goes although its handle is still being released. *)
RemovableAway(e) == e.lease.phase.tag = "Expired"

(* Only an expired tombstone without a handle is removed.                  *)
Removable(e) == e.lease.phase.tag = "Expired" /\ e.slot = "Empty"

(* maintain: observe, reap or remove each scanned entry.  An entry that    *)
(* has seen a later time is skipped.                                       *)
Maintain(at, budget) ==
    LET ids == Scanned(Least(budget, max_maintenance_work)) IN
    \E seen \in {[id \in ids |-> observe(entries[id].lease, at)]} :
    \E after \in {[id \in ids |-> take_reap(id, [entries[id] EXCEPT !.lease = seen[id].l])]} :
      LET scanned == {id \in ids : seen[id].r = "Ok"}
          removed == {id \in scanned : after[id].reaped = {} /\ Removable(after[id].entry)}
      IN /\ Running
         /\ entries' = [id \in DOMAIN entries \ removed |->
                          IF id \in scanned THEN after[id].entry ELSE entries[id]]
         /\ releases' = releases \cup UNION {after[id].reaped : id \in scanned}
         /\ cursor' = IF ids = {} THEN cursor ELSE LastScanned(ids)
         /\ UNCHANGED <<counts, next_id, begins, ops, commits, resolves, records, use>>
         /\ UNCHANGED storeVars

(* shutdown consumes the registry, so no guard or call is left: held       *)
(* handles are dropped and only restart records remain.                    *)
Shutdown ==
    /\ Running
    /\ DOMAIN entries # {}
    /\ begins = {} /\ ops = {} /\ commits = {} /\ releases = {} /\ resolves = {}
    /\ records' = {[repository |-> entries[id].repository, key |-> entries[id].key,
                    attempted |-> restart(entries[id].lease)] : id \in DOMAIN entries}
    /\ writer' = [r \in Repositories |-> 0]
    /\ \E marked \in SUBSET {id \in DOMAIN entries : entries[id].slot = "Held"} :
         ledger' = [r \in Repositories |-> [k \in Keys |->
                      IF \E id \in marked : entries[id].repository = r
                                            /\ entries[id].key = k
                      THEN "RolledBack" ELSE ledger[r][k]]]
    /\ entries' = [id \in {} |-> {}]
    /\ UNCHANGED <<counts, next_id, cursor, use>>
    /\ UNCHANGED callVars

Next ==
    \/ \E r \in use.repositories, p \in Principals, k \in Keys : BeginReserve(r, p, k)
    \/ \E b \in begins : BeginStart(b) \/ BeginFail(b)
    \/ \E b \in begins, at \in use.times : BeginInsert(b, at)
    \/ \E id \in DOMAIN entries, at \in use.times :
         \/ LeaseCall(id, at) \/ BeginOperation(id, at)
         \/ PrepareCommit(id, at) \/ ResolveStart(id, at)
    \/ \E r \in releases : ReleaseNative(r) \/ ReleaseUncharge(r)
    \/ \E o \in ops : OperationDrop(o) \/ OperationDropSettle(o)
    \/ \E o \in ops, at \in use.times : OperationFinish(o, at)
    \/ \E c \in commits : CommitNative(c) \/ CommitDrop(c)
    \/ \E c \in commits, at \in use.times : CommitFinish(c, at)
    \/ \E s \in resolves : ResolveLookup(s) \/ ResolveApply(s)
    \/ \E at \in use.times, budget \in 1..max_maintenance_work : Maintain(at, budget)
    \/ Shutdown

Spec == Init /\ [][Next]_vars

(* A release that has begun goes on.                                       *)
Releasing == \E r \in releases : ReleaseNative(r) \/ ReleaseUncharge(r)

(* Maintenance keeps being called, if only for one entry at a time, with a *)
(* clock that passes every deadline: an entry whose turn comes again and   *)
(* again is some time observed that late.  Releases that have begun are    *)
(* carried out.  Guards may be leaked: nothing is assumed of them.         *)
MaintainedSpec ==
    /\ Spec
    /\ WF_vars(Releasing)
    /\ \A id \in LeaseIds : SF_vars(id \in Scanned(1) /\ Maintain(MaxTime, 1))

-----------------------------------------------------------------------------
TypeOK ==
    /\ DOMAIN entries \subseteq Ids
    /\ \A id \in DOMAIN entries : entries[id] \in Entries
    /\ counts \in [global : Nat, pending : Nat,
                   repositories : [Repositories -> Nat],
                   principals : [Principals -> Nat]]
    /\ next_id \in Ids /\ cursor \in Nat
    /\ begins \subseteq [id : Ids, repository : Repositories, principal : Principals,
                         key : Keys, native : BOOLEAN]
    /\ ops \subseteq [id : Ids, generation : Nat, seq : Nat, tx : BOOLEAN]
    /\ commits \subseteq [id : Ids, generation : Nat, native : CommitResults \cup {"None"}]
    /\ releases \subseteq [id : Ids, rollback : BOOLEAN, native : BOOLEAN]
    /\ resolves \subseteq [id : Ids, at : Time, found : ExternalOutcomes \cup {"None"}]
    /\ writer \in [Repositories -> {0} \cup Ids]
    /\ ledger \in [Repositories -> [Keys -> LedgerStates]]
    /\ records \subseteq [repository : Repositories, key : Keys,
                          attempted : RestartRecords]

(* Where the native handle of a lease is.                                  *)
Places(id) ==
    {<<"begin", b>> : b \in {b \in begins : b.id = id /\ b.native}}
      \cup {<<"operation", o>> : o \in {o \in ops : o.id = id /\ o.tx}}
      \cup {<<"commit", c>> : c \in {c \in commits : c.id = id /\ c.native = "None"}}
      \cup {<<"release", r>> : r \in {r \in releases : r.id = id /\ r.native}}
      \cup {<<"slot", e>> : e \in {e \in {id} \cap DOMAIN entries : entries[e].slot = "Held"}}

(* A native handle is never copied or lost: a store has a transaction of   *)
(* this lease open exactly while one slot, guard or call holds its handle, *)
(* however begins, operations, commits, releases and drops interleave.  An *)
(* idle lease has it at hand and no other lease keeps one in its slot, so  *)
(* the "registry invariant violated" branches of start_operation and       *)
(* start_commit are never taken; and maintenance removes no entry that a   *)
(* guard or a release still needs.                                         *)
HandleInOnePlace ==
    /\ TypeOK
    /\ \A g \in ops \cup commits \cup releases : g.id \in DOMAIN entries
    /\ \A id \in Ids :
         Cardinality(Places(id)) = Cardinality({r \in Repositories : writer[r] = id})
    /\ \A id \in DOMAIN entries :
         entries[id].slot = "Held" <=> entries[id].lease.phase = Idle

(* The entries charged against a limit.                                    *)
Charged(S) == Cardinality({id \in S : entries[id].charged})

(* Capacity neither leaks nor is given back early: the counters are the    *)
(* begins in flight plus the charged entries, in total, per repository and *)
(* per principal, they respect the limits, and every open native           *)
(* transaction is paid for until the store has released it.                *)
CapacityIsExact ==
    Running =>
      /\ counts.pending = Cardinality(begins)
      /\ counts.global = Cardinality(begins) + Charged(DOMAIN entries)
      /\ counts.global <= max_global
      /\ Cardinality(DOMAIN entries) + counts.pending <= max_entries
      /\ \A r \in Repositories :
           /\ counts.repositories[r] <= max_per_repository
           /\ counts.repositories[r] =
                Cardinality({b \in begins : b.repository = r})
                  + Charged({id \in DOMAIN entries : entries[id].repository = r})
      /\ \A p \in Principals :
           /\ counts.principals[p] <= max_per_principal
           /\ counts.principals[p] =
                Cardinality({b \in begins : b.principal = p})
                  + Charged({id \in DOMAIN entries : entries[id].principal = p})
      /\ \A id \in DOMAIN entries :
           (\E r \in Repositories : writer[r] = id) => entries[id].charged

(* The recorded outcome of the lease's own transaction.                    *)
Recorded(id) == ledger[entries[id].repository][entries[id].key]

(* What a lease says of its transaction is what its store has recorded,    *)
(* also when the answer of a lookup is applied after a native commit went  *)
(* on, when a commit is reported late, or when its guard was dropped: a    *)
(* committed lease is committed, and one that is absent, rolled back or    *)
(* overdue never commits.  Nor does a restart record, which shutdown       *)
(* leaves, ever contradict the store.                                      *)
OutcomesAgreeWithStore ==
    /\ \A id \in DOMAIN entries :
         LET p == entries[id].lease.phase IN
         p.tag = "Terminal" =>
           /\ p.outcome = Committed => Recorded(id) = "Committed"
           /\ p.outcome = CommitProvenAbsent => Recorded(id) = "RolledBack"
           /\ ~is_commit_attempt(p.outcome) => Recorded(id) # "Committed"
    /\ \A r \in records :
         LET recorded == ledger[r.repository][r.key] IN
         /\ r.attempted = "Committed" => recorded = "Committed"
         /\ r.attempted \in {"None", "ProvenAbsent"} => recorded # "Committed"

(* A guard that is not gone yet.                                           *)
Guarded(id) == \E g \in ops \cup commits : g.id = id

(* Maintenance with a budget of one entry gets to every entry, although    *)
(* others are kept for ever by leaked guards: whatever its client does or  *)
(* omits, every lease ends and its entry is removed, unless a guard of its *)
(* own is never dropped.                                                   *)
EntriesGo ==
    <>[](\A id \in DOMAIN entries :
            entries[id].lease.phase.tag = "Expired" /\ Guarded(id))
=============================================================================
