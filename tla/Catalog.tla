------------------------------- MODULE Catalog -------------------------------
(***************************************************************************)
(* The repository catalog of cli/src/catalog.rs with its tombstone and     *)
(* restore lifecycles, over process exits, power losses and offline damage.*)
(***************************************************************************)
EXTENDS CatalogRestore

(* `open` of an empty root has written generation 1.                       *)
Init ==
    /\ catalog = [generation |-> 1, entries |-> [id \in Ids |-> NoEntry]]
    /\ durable = {catalog}
    /\ place = [id \in Ids |-> "None"]
    /\ lasting = [id \in Ids |-> {"None"}]
    /\ content = [id \in Ids |-> 0]
    /\ package = [id \in Ids |-> NoPackage]
    /\ root = [id \in Ids |-> NoRoot]
    /\ damaged = {}
    /\ active = [id \in Ids |-> "None"]
    /\ receipts = {}
    /\ mode = "Down" /\ job = NoJob /\ todo = {}
    /\ budget \in Budgets

Times == 0..budget.time

Lifecycle ==
    \/ \E id \in Ids :
         \/ Create(id) \/ OpenRepository(id) \/ Insert(id) \/ DropHandle(id)
         \/ BeginQuiesce(id) \/ RepeatQuiesce(id) \/ CompleteQuiesce(id)
         \/ \E now \in Times : tombstone(id, now) \/ retry_tombstone(id, now)
         \/ \E now \in Times : retry_restore(id, now)
         \/ \E source \in Ids, now \in Times : restore_tombstoned(source, id, now)
    \/ Stage \/ Validate \/ CreateFails \/ Publish \/ SyncPublished \/ Close
    \/ Backup \/ RecordBackup \/ MoveSource \/ SyncMove \/ Seal
    \/ RunRestore \/ Advance \/ MoveStore \/ SyncStore \/ Prove \/ Reject
    \/ PersistDone \/ PersistFails

Recovery ==
    \/ Open \/ Opened \/ Reconcile \/ ReconcileFails
    \/ Settle \/ SettleRename \/ SettleSync \/ SettleClose
    \/ \E id \in Ids :
         \/ VisitSettled(id) \/ VisitQuiescing(id) \/ VisitCreated(id)
         \/ VisitBackedUp(id) \/ VisitRestoring(id) \/ VisitRestored(id)

Faults == Exit \/ PowerLoss \/ \E id \in Ids, what \in {"Store", "Package"} : Damage(id, what)

Next == Lifecycle \/ Recovery \/ Faults

Spec == Init /\ [][Next]_vars

-----------------------------------------------------------------------------
Tombstones == [attempt : Nat, intent_time : Nat, deadline : Nat, backup : SUBSET Nat]

Restores == [source : Ids, source_generation : Nat, source_attempt : Nat,
             attempt : Nat, intent_time : Nat, backup : SUBSET Nat]

IsEntry(e) ==
    /\ DOMAIN e = {"phase", "changed_at", "tombstone", "restore"}
    /\ e.phase \in Phases /\ e.changed_at \in Nat
    /\ Cardinality(e.tombstone) <= 1 /\ e.tombstone \subseteq Tombstones
    /\ Cardinality(e.restore) <= 1 /\ e.restore \subseteq Restores

TypeOK ==
    /\ catalog \in durable
    /\ \A c \in durable : c.generation \in Nat /\ \A id \in Ids : IsEntry(c.entries[id])
    /\ place \in [Ids -> Places]
    /\ \A id \in Ids : place[id] \in lasting[id]
    /\ content \in [Ids -> Nat]
    /\ package \in [Ids -> [attempt : Nat, state : {"None", "Partial", "Complete"},
                            content : Nat]]
    /\ root \in [Ids -> [attempt : Nat, state : {"None", "Partial", "Complete"}]]
    /\ damaged \subseteq Ids \X {"Store", "Package"}
    /\ active \in [Ids -> {"None", "Open", "Fenced"}]
    /\ \A r \in receipts : r.id \in Ids /\ r.phase \in Phases /\ r.generation \in Nat
    /\ mode \in {"Down", "Opening", "Up", "Poisoned"}
    /\ todo \subseteq Ids

(* Catalog::validate, which `encode` applies to every catalog before it is *)
(* written and `decode` to the one that `open` reads.                      *)
TombstoneValid(e) ==
    IF e.phase \in {"TombstoneIntent", "TombstoneBackedUp", "Tombstoned"}
    THEN \E t \in e.tombstone :
           /\ t.attempt \in 1..e.changed_at
           /\ e.phase = "TombstoneIntent" <=> e.changed_at = t.attempt
           /\ e.phase = "TombstoneIntent" <=> t.backup = {}
           /\ t.intent_time < t.deadline
    ELSE e.tombstone = NoTombstone

RestoreValid(id, e) ==
    \A r \in e.restore :
        /\ r.source # id
        /\ r.source_generation \in 1..(e.changed_at - 1)
        /\ r.source_attempt \in 1..(r.source_generation - 1)
        /\ r.attempt \in (r.source_generation + 1)..e.changed_at
        /\ e.phase = "Reserved" <=> e.changed_at = r.attempt

Valid(c) ==
    LET known == {id \in Ids : c.entries[id].phase # "None"}
    IN /\ Cardinality(known) <= Repositories
       /\ \A id \in known :
            LET e == c.entries[id]
            IN /\ e.changed_at \in 1..c.generation
               /\ TombstoneValid(e) /\ RestoreValid(id, e)


Undamaged(id) == <<id, "Store">> \notin damaged /\ <<id, "Package">> \notin damaged

(* A repository leaves `repos` only with a complete package of exactly its *)
(* content, bound by the catalog: nothing is written to it after its       *)
(* backup, by any handle or in any later process.                          *)
TombstoneIsRecoverable ==
    \A id \in Ids :
        Undamaged(id) /\ Phase(id) \in {"TombstoneBackedUp", "Tombstoned"}
        => BackupVerifies(id) /\ ContentMatches(id)

(* A handle that still admits access belongs to a repository that is       *)
(* closed in the catalog, also when the write of its quiesce failed and    *)
(* the manager is poisoned.                                                *)
OnlyClosedIsServed == \A id \in Ids : Admits(id) => Phase(id) = "Closed"

(* "No crash point yields `Failed`" (advance_restore): a restored entry    *)
(* fails only on evidence against its own store or its source's package.   *)
NoCrashFails ==
    \A id \in Ids :
        Restored(id) /\ Phase(id) = "Failed"
        => <<id, "Store">> \in damaged \/ <<Record(id).source, "Package">> \in damaged

(* Once durable, a tombstone and a failure are final: no operation, retry, *)
(* restart or crash changes the entry again.                               *)
SettledIsFinal ==
    [][\A id \in Ids :
         (\A c \in durable : c.entries[id].phase \in {"Tombstoned", "Failed"})
         => catalog'.entries[id] = catalog.entries[id]]_vars
=============================================================================
