---------------------------- MODULE MemoryStorage ----------------------------
(***************************************************************************)
(* The in-memory storage, lib/oxigraph/src/storage/memory.rs: one writer   *)
(* at a time stages its changes in place, in the version range of every    *)
(* quad, named graph and namespace mapping, under a transaction id larger  *)
(* than any version.  A commit rewrites these ranges one by one to the     *)
(* next version and only then moves the version counter; a rollback undoes *)
(* them one by one.  Readers take no lock: a reader is a snapshot id, and  *)
(* what it sees of an item is whether the range contains it, at any time.  *)
(***************************************************************************)
EXTENDS Naturals, Sequences, FiniteSets

CONSTANTS
    Quads, Graphs, Mappings,
    DefaultGraph,
    graph_name,         \* the graph of a quad
    prefix,             \* the prefix of a namespace mapping
    Keys, NoKey,
    TransactionBase,    \* usize::MAX >> 1, the first transaction id
    MaxVersion,         \* bound: versions published
    MaxTransactions,    \* bound: transactions started
    MaxLog              \* bound: items one transaction touches

Items == Quads \cup Graphs \cup Mappings

ASSUME MemoryAssumption ==
    /\ MaxVersion \in Nat /\ MaxTransactions \in Nat /\ MaxLog \in Nat
    /\ TransactionBase \in Nat /\ TransactionBase > MaxVersion
    /\ Quads \cap Graphs = {} /\ Quads \cap Mappings = {} /\ Graphs \cap Mappings = {}
    /\ DefaultGraph \notin Graphs
    /\ graph_name \in [Quads -> Graphs \cup {DefaultGraph}]
    /\ DOMAIN prefix = Mappings
    /\ NoKey \notin Keys

VARIABLES
    range,                  \* item -> its VersionRange, <<>> also for an unknown item
    version_counter, transaction_counter,
    transaction_outcomes,   \* key -> MemoryTransactionOutcomeState, "Absent": no entry
    tx,                     \* the transaction that owns the lock, or its end
    log,                    \* the items its log names
    author                  \* history: version -> the key that published it

vars == <<range, version_counter, transaction_counter, transaction_outcomes, tx, log, author>>

-----------------------------------------------------------------------------
(* VersionRange: Empty, Start, StartEnd and Bigger are the sequences of    *)
(* their bounds, alternately a start and an end.                           *)
contains(r, version) ==
    \E i \in 1..Len(r) :
        /\ i % 2 = 1
        /\ r[i] <= version
        /\ i = Len(r) \/ version < r[i + 1]

EndsWith(r, id) == r # <<>> /\ r[Len(r)] = id

Front(r) == SubSeq(r, 1, Len(r) - 1)

add(r, id) ==
    IF Len(r) % 2 = 1 THEN r
    ELSE IF EndsWith(r, id) THEN Front(r) ELSE Append(r, id)

remove(r, id) ==
    IF Len(r) % 2 = 0 THEN r
    ELSE IF EndsWith(r, id) THEN Front(r) ELSE Append(r, id)

upgrade_transaction(r, id, version) ==
    IF EndsWith(r, id) THEN Append(Front(r), version) ELSE r

(* Mutant: only additions are rolled back. *)
RollbackKeepsEnds(r, id) ==
    IF EndsWith(r, id) /\ Len(r) % 2 = 1 THEN Front(r) ELSE r

rollback_transaction(r, id) == IF EndsWith(r, id) THEN Front(r) ELSE r

(* What a reader with this snapshot id sees.                               *)
View(id) == {i \in Items : contains(range[i], id)}

-----------------------------------------------------------------------------
OutcomeStates == {"Absent", "Staging", "CommitAttempted", "Committed", "RolledBack"}

NoTransaction == [phase |-> "None", id |-> 0, snapshot_id |-> 0, key |-> NoKey]

Init ==
    /\ range = [i \in Items |-> <<>>]
    /\ version_counter = 0
    /\ transaction_counter = TransactionBase
    /\ transaction_outcomes = [k \in Keys |-> "Absent"]
    /\ tx = NoTransaction
    /\ log = {}
    /\ author = <<>>

(* The lock is free, and a key is reserved only under it.                  *)
Start(key) ==
    /\ tx.phase = "None"
    /\ transaction_counter < TransactionBase + MaxTransactions
    /\ key \in Keys => transaction_outcomes[key] = "Absent"
    /\ transaction_outcomes' =
         [k \in Keys |-> IF k = key THEN "Staging" ELSE transaction_outcomes[k]]
    /\ tx' = [phase |-> "Open", id |-> transaction_counter,
              snapshot_id |-> version_counter, key |-> key]
    /\ transaction_counter' = transaction_counter + 1
    /\ log' = {}
    /\ UNCHANGED <<range, version_counter, author>>

(* An operation changes the ranges of these items; those that changed are  *)
(* logged.  No reader outside the transaction can tell the order.          *)
Stage(new) ==
    /\ tx.phase = "Open"
    /\ range' = new
    /\ log' = log \cup {i \in Items : new[i] # range[i]}
    /\ Cardinality(log') <= MaxLog
    /\ UNCHANGED <<version_counter, transaction_counter, transaction_outcomes, tx, author>>

(* The ranges with some items added to, or removed from, the writer's view.*)
Adding(S) == [i \in Items |-> IF i \in S THEN add(range[i], tx.id) ELSE range[i]]

Removing(S) == [i \in Items |-> IF i \in S THEN remove(range[i], tx.id) ELSE range[i]]

QuadsIn(g) == {q \in Quads : graph_name[q] = g}

(* A quad that is new to the view brings its named graph.                  *)
Insert(q) ==
    LET added == Len(range[q]) % 2 = 0
    IN Stage(Adding({q} \cup (IF added THEN {graph_name[q]} \cap Graphs ELSE {})))

Remove(q) == Stage(Removing({q}))

InsertNamedGraph(g) == Stage(Adding({g}))

ClearGraph(g) == Stage(Removing(QuadsIn(g)))

(* The named graphs are those the transaction sees.                        *)
ClearAllNamedGraphs ==
    Stage(Removing(UNION {QuadsIn(g) : g \in Graphs \cap View(tx.id)}))

ClearAllGraphs == Stage(Removing(Quads))

RemoveNamedGraph(g) == Stage(Removing(QuadsIn(g) \cup {g}))

RemoveAllNamedGraphs ==
    Stage(Removing(Graphs \cup UNION {QuadsIn(g) : g \in Graphs \cap View(tx.id)}))

Clear == Stage(Removing(Quads \cup Graphs))

(* The mapping the transaction sees for this prefix, as a set.             *)
Mapped(p) == {m \in Mappings \cap View(tx.id) : prefix[m] = p}

(* set_namespace replaces the mapping of the prefix unless it is the same. *)
SetNamespace(m) ==
    LET other == Mapped(prefix[m]) \ {m}
    IN Stage([i \in Items |-> IF i = m THEN add(range[i], tx.id)
                              ELSE IF i \in other THEN remove(range[i], tx.id)
                              ELSE range[i]])

RemoveNamespace(p) == Stage(Removing(Mapped(p)))

ClearNamespaces == Stage(Removing(Mappings \cap View(tx.id)))

Operation ==
    \/ \E q \in Quads : Insert(q) \/ Remove(q)
    \/ \E g \in Graphs : InsertNamedGraph(g) \/ RemoveNamedGraph(g)
    \/ \E g \in {graph_name[q] : q \in Quads} : ClearGraph(g)
    \/ ClearAllNamedGraphs \/ ClearAllGraphs \/ RemoveAllNamedGraphs \/ Clear
    \/ \E m \in Mappings : SetNamespace(m)
    \/ \E p \in {prefix[m] : m \in Mappings} : RemoveNamespace(p)
    \/ ClearNamespaces

-----------------------------------------------------------------------------
(* transition_outcome: nothing without a key, otherwise only from the      *)
(* expected state.                                                         *)
Transition(expected, next) ==
    IF tx.key = NoKey THEN UNCHANGED transaction_outcomes
    ELSE /\ transaction_outcomes[tx.key] = expected
         /\ transaction_outcomes' = [transaction_outcomes EXCEPT ![tx.key] = next]

(* commit or commit_with_outcome begins.                                   *)
CommitAttempt ==
    /\ tx.phase = "Open"
    /\ version_counter < MaxVersion
    /\ Transition("Staging", "CommitAttempted")
    /\ tx' = [tx EXCEPT !.phase = "Publishing"]
    /\ UNCHANGED <<range, version_counter, transaction_counter, log, author>>

(* publish: one log entry ...                                              *)
PublishEntry(i) ==
    /\ tx.phase = "Publishing"
    /\ i \in log
    /\ range' = [range EXCEPT ![i] =
                   upgrade_transaction(@, tx.id, tx.snapshot_id + 1)]
    /\ log' = log \ {i}
    /\ UNCHANGED <<version_counter, transaction_counter, transaction_outcomes, tx, author>>

(* Mutant: the version is announced before its entries are rewritten. *)
PublishVersionEarly ==
    /\ tx.phase = "Publishing"
    /\ version_counter = tx.snapshot_id
    /\ version_counter' = tx.snapshot_id + 1
    /\ author' = Append(author, tx.key)
    /\ tx' = [tx EXCEPT !.phase = IF log = {} THEN "Published" ELSE @]
    /\ UNCHANGED <<range, transaction_counter, transaction_outcomes, log>>

(* ... after the other, and then the version.                              *)
PublishVersion ==
    /\ tx.phase = "Publishing"
    /\ log = {}
    /\ version_counter' = tx.snapshot_id + 1
    /\ author' = Append(author, tx.key)
    /\ tx' = [tx EXCEPT !.phase = "Published"]
    /\ UNCHANGED <<range, transaction_counter, transaction_outcomes, log>>

(* The outcome becomes definite, the transaction ends and its lock is free.*)
CommitDone ==
    /\ tx.phase = "Published"
    /\ Transition("CommitAttempted", "Committed")
    /\ tx' = NoTransaction
    /\ UNCHANGED <<range, version_counter, transaction_counter, log, author>>

(* rollback_with_outcome, or the transaction is dropped.                   *)
RollbackStart ==
    /\ tx.phase = "Open"
    /\ tx' = [tx EXCEPT !.phase = "RollingBack"]
    /\ UNCHANGED <<range, version_counter, transaction_counter,
                   transaction_outcomes, log, author>>

RollbackEntry(i) ==
    /\ tx.phase = "RollingBack"
    /\ i \in log
    /\ range' = [range EXCEPT ![i] = rollback_transaction(@, tx.id)]
    /\ log' = log \ {i}
    /\ UNCHANGED <<version_counter, transaction_counter, transaction_outcomes, tx, author>>

(* Mutant: a rollback may also follow an attempted commit. *)
RollbackDoneUnchecked ==
    /\ tx.phase \in {"RollingBack", "Published"}
    /\ log = {}
    /\ transaction_outcomes' =
         [k \in Keys |-> IF k = tx.key THEN "RolledBack" ELSE transaction_outcomes[k]]
    /\ tx' = NoTransaction
    /\ UNCHANGED <<range, version_counter, transaction_counter, log, author>>

RollbackDone ==
    /\ tx.phase = "RollingBack"
    /\ log = {}
    /\ Transition("Staging", "RolledBack")
    /\ tx' = NoTransaction
    /\ UNCHANGED <<range, version_counter, transaction_counter, log, author>>

Next ==
    \/ \E key \in Keys \cup {NoKey} : Start(key)
    \/ Operation
    \/ CommitAttempt \/ PublishVersion \/ CommitDone
    \/ RollbackStart \/ RollbackDone
    \/ \E i \in log : PublishEntry(i) \/ RollbackEntry(i)

Spec == Init /\ [][Next]_vars

-----------------------------------------------------------------------------
Phases == {"None", "Open", "Publishing", "Published", "RollingBack"}

(* The bounds a range may hold: published versions, the one being          *)
(* published, and transaction ids.                                         *)
Bounds == 1..MaxVersion \cup TransactionBase..(TransactionBase + MaxTransactions)

TypeOK ==
    /\ range \in [Items -> Seq(Bounds)]
    /\ version_counter \in 0..MaxVersion
    /\ transaction_counter \in TransactionBase..(TransactionBase + MaxTransactions)
    /\ transaction_outcomes \in [Keys -> OutcomeStates]
    /\ tx \in [phase : Phases, id : Nat, snapshot_id : Nat, key : Keys \cup {NoKey}]
    /\ log \subseteq Items
    /\ author \in Seq(Keys \cup {NoKey})

(* Every range is ascending, holds the id of no other transaction than the *)
(* one at work, at its end, and only for items its log still names: after  *)
(* a commit or a rollback, by a drop too, nothing of a transaction is left.*)
NoTransactionLeftBehind ==
    TypeOK /\ \A i \in Items :
        LET r == range[i]
            last == IF i \in log THEN {tx.id} ELSE {}
            next == IF tx.phase = "Publishing" THEN version_counter + 1 ELSE version_counter
        IN /\ \A n, m \in 1..Len(r) : n < m => r[n] < r[m]
           /\ \A n \in 1..Len(r) : r[n] \in 1..next \/ (n = Len(r) /\ r[n] \in last)

(* The versions that a transaction of this key published.                  *)
Published(k) == {v \in 1..version_counter : author[v] = k}

(* lookup_transaction_outcome never lies: a key that looks up as committed *)
(* has its version visible to every later reader, and a key that is still  *)
(* staging, or is rolled back, has published none.                         *)
OutcomeMeansVisible ==
    \A k \in Keys :
        CASE transaction_outcomes[k] = "Committed" -> Published(k) # {}
          [] transaction_outcomes[k] = "CommitAttempted" -> tx.key = k
          [] OTHER -> Published(k) = {}

(* The ranges implement whole versions: each snapshot of a published       *)
(* version stays as it is while a writer stages, publishes entry by entry  *)
(* or rolls back, the writer reads its own writes, and a commit publishes  *)
(* the view it had as a whole.                                             *)
Snapshots == INSTANCE SnapshotStore WITH
    versions <- [n \in 1..(version_counter + 1) |-> View(n - 1)],
    active <- tx.phase \in {"Open", "Publishing"},
    view <- IF tx.phase \in {"Open", "Publishing"} THEN View(tx.id) ELSE {}

SnapshotsHold == Snapshots!Spec
=============================================================================
