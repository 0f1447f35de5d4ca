---------------------------- MODULE CatalogState ----------------------------
(***************************************************************************)
(* State of one repository catalog root (cli/src/catalog.rs) and the steps *)
(* every lifecycle operation is made of: the atomic catalog write          *)
(* (RepositoryManager::persist over Root::write_catalog), directory moves  *)
(* and their syncs, the end of an operation, and crashes.                  *)
(*                                                                         *)
(* A rename is atomic and visible at once, but survives a power loss only  *)
(* once the directories it touched are synced.  `durable` and `lasting`    *)
(* hold what a power loss at this moment may leave: one catalog, and one   *)
(* place for every store directory.                                        *)
(*                                                                         *)
(* The manager is single-threaded, so operations do not interleave with    *)
(* each other, only with crashes.  Its in-memory catalog is replaced only  *)
(* after a successful write and a failed one makes it unusable, so it is   *)
(* the file's content whenever it may be read: `catalog` stands for both.  *)
(* An entry's external id stands for its internal UUID too.                *)
(***************************************************************************)
EXTENDS Naturals, FiniteSets

CONSTANTS
    Ids,             \* external repository ids
    Repositories,    \* ManagerLimits.repositories
    OpenHandles,     \* ManagerLimits.open_handles
    Retention,       \* ManagerLimits.model_retention
    MaxGeneration,   \* bound: largest catalog generation (u64::MAX in the code)
    MaxContent,      \* bound: inserts into one store
    Budgets          \* bounds, one of which a behaviour has: process exits,
                     \* power losses, offline damages, largest logical time

VARIABLES
    catalog,    \* the catalog file: generation and entries
    durable,    \* the catalogs one of which a power loss leaves
    place,      \* where the store directory of an entry is
    lasting,    \* the places one of which a power loss leaves it in
    content,    \* the quads of that store, as the number of inserts
    package,    \* backups/<uuid>-<attempt>: the latest recovery package
    root,       \* staging/<uuid>.restore-<attempt>: the latest attempt root
    damaged,    \* stores and packages changed behind the manager's back
    active,     \* counted handle slots and their quiesce fence
    receipts,   \* quiesce receipts held by callers in this process
    mode,       \* no manager, one in `open`, a usable one, a poisoned one
    job,        \* the operation in progress and its next step
    todo,       \* entries `reconcile` has still to visit
    budget      \* the crashes left, and the other bounds of this behaviour

disk == <<place, lasting, content, package, root, damaged>>
runtime == <<active, receipts>>
control == <<mode, job, todo>>
vars == <<catalog, durable, disk, runtime, control, budget>>

ASSUME CatalogAssumption ==
    /\ Repositories \in Nat \ {0} /\ OpenHandles \in Nat \ {0}
    /\ Retention \in Nat \ {0}
    /\ {MaxGeneration, MaxContent} \subseteq Nat
    /\ \A b \in Budgets : {b.exits, b.losses, b.damages, b.time} \subseteq Nat

Phases == {"None", "Reserved", "Validated", "Closed", "Quiescing",
           "TombstoneIntent", "TombstoneBackedUp", "Tombstoned", "Failed"}

Places == {"None", "Root", "Staging", "Repos", "Trash"}

(* Optional values are sets of at most one element.  A package is known by *)
(* what its fingerprint binds: the content of its store.                   *)
NoTombstone == {}
NoRestore == {}
NoEntry == [phase |-> "None", changed_at |-> 0,
            tombstone |-> NoTombstone, restore |-> NoRestore]
NoPackage == [attempt |-> 0, state |-> "None", content |-> 0]
NoRoot == [attempt |-> 0, state |-> "None"]
NoJob == [op |-> "Idle", id |-> "None", step |-> "None", writing |-> FALSE]

The(option) == CHOOSE x \in option : TRUE

Entry(id) == catalog.entries[id]
Phase(id) == Entry(id).phase
Known == {id \in Ids : Phase(id) # "None"}
Restored(id) == Entry(id).restore # NoRestore

Usable == mode = "Up" /\ job = NoJob /\ todo = {}

At(op, step) == job.op = op /\ job.step = step /\ ~job.writing

-----------------------------------------------------------------------------
(* How an operation goes on or ends.                                       *)
Goto(step) ==
    /\ job' = [job EXCEPT !.step = step]
    /\ UNCHANGED <<mode, todo>>

Return == job' = NoJob /\ UNCHANGED <<mode, todo>>

(* An error out of `reconcile`, and with it out of `open`.                 *)
Abort ==
    /\ job' = NoJob /\ todo' = {}
    /\ mode' = IF mode = "Opening" THEN "Down" ELSE mode

(* The outcome is uncertain: only a reopen may tell.  That of `open`       *)
(* itself leaves no manager, but the same need to reopen.                  *)
Poison == job' = NoJob /\ todo' = {} /\ mode' = "Poisoned"

(* A new value of an entry, stamped with the generation that writes it.    *)
With(id, entry) ==
    [generation |-> catalog.generation + 1,
     entries |-> [catalog.entries EXCEPT
                    ![id] = [entry EXCEPT !.changed_at = catalog.generation + 1]]]

Moved(id, phase) == With(id, [Entry(id) EXCEPT !.phase = phase])

(* The generations that the writes of an operation take are there.         *)
Room(writes) == catalog.generation + writes <= MaxGeneration

(* persist up to and including the rename of the new catalog: refused      *)
(* before it starts (scan capacity, generation exhausted), failed before   *)
(* the rename, or renamed and still to be synced.  `refused` is what the   *)
(* caller does about a refusal.                                            *)
Persist(next, started, refused) ==
    \/ refused /\ UNCHANGED <<catalog, durable>>
    \/ Poison /\ UNCHANGED <<catalog, durable>>
    \/ /\ Room(1)
       /\ catalog' = next
       /\ durable' = durable \cup {next}
       /\ job' = [started EXCEPT !.writing = TRUE]
       /\ UNCHANGED <<mode, todo>>

(* ... and its end: the root directory is synced and the operation goes on,*)
(* or the sync fails and nobody knows which catalog is durable.            *)
PersistDone ==
    /\ job.writing
    /\ durable' = {catalog}
    /\ job' = IF job.step = "Done" THEN NoJob ELSE [job EXCEPT !.writing = FALSE]
    /\ receipts' = IF job.op \in {"Quiesce", "Complete"} /\ Phase(job.id) # "Failed"
                   THEN receipts \cup {[id |-> job.id, phase |-> Phase(job.id),
                                        generation |-> Entry(job.id).changed_at]}
                   ELSE receipts
    /\ UNCHANGED <<catalog, disk, active, mode, todo, budget>>

Fence(id, from, to) ==
    active' = IF active[id] = from THEN [active EXCEPT ![id] = to] ELSE active

(* Mutant: a failed write takes the fence away like a refused one. *)
PersistFailsUnfenced ==
    /\ job.writing
    /\ Poison
    /\ IF job.op = "Quiesce" THEN Fence(job.id, "Fenced", "Open") ELSE UNCHANGED active
    /\ UNCHANGED <<catalog, durable, disk, receipts, budget>>

PersistFails ==
    /\ job.writing
    /\ Poison
    /\ UNCHANGED <<catalog, durable, disk, runtime, budget>>

(* A same-device rename of the store directory, not yet synced.            *)
Rename(id, to) ==
    /\ place' = [place EXCEPT ![id] = to]
    /\ lasting' = [lasting EXCEPT ![id] = @ \cup {to}]
    /\ UNCHANGED <<content, package, root, damaged>>

Sync(id) ==
    /\ lasting' = [lasting EXCEPT ![id] = {place[id]}]
    /\ UNCHANGED <<place, content, package, root, damaged>>

(* verified: a store that opens, validates and has the expected format.    *)
Verified(id) == <<id, "Store">> \notin damaged

(* matches_evidence: the directory is the recorded one and verifies.  The  *)
(* check may also be refused for a transient reason.                       *)
Matches(id, at) == place[id] = at /\ Verified(id)

-----------------------------------------------------------------------------
(* The process exits, or the owner drops the manager as a poisoned one     *)
(* demands: what was renamed stays visible, synced or not.                 *)
Exit ==
    /\ mode # "Down" /\ budget.exits > 0
    /\ mode' = "Down" /\ job' = NoJob /\ todo' = {}
    /\ active' = [id \in Ids |-> "None"] /\ receipts' = {}
    /\ budget' = [budget EXCEPT !.exits = @ - 1]
    /\ UNCHANGED <<catalog, durable, disk>>

(* Power is lost: of every rename not yet synced either side may remain.   *)
PowerLoss ==
    /\ budget.losses > 0
    /\ \E c \in durable : catalog' = c /\ durable' = {c}
    /\ \E where \in [Ids -> Places] :
         /\ \A id \in Ids : where[id] \in lasting[id]
         /\ place' = where
         /\ lasting' = [id \in Ids |-> {where[id]}]
    /\ mode' = "Down" /\ job' = NoJob /\ todo' = {}
    /\ active' = [id \in Ids |-> "None"] /\ receipts' = {}
    /\ budget' = [budget EXCEPT !.losses = @ - 1]
    /\ UNCHANGED <<content, package, root, damaged>>

(* Someone changes a store or package while no manager holds the root.     *)
Damage(id, what) ==
    /\ mode = "Down"
    /\ Cardinality(damaged) < budget.damages
    /\ what = "Store" => place[id] # "None"
    /\ what = "Package" => package[id].state = "Complete"
    /\ damaged' = damaged \cup {<<id, what>>}
    /\ UNCHANGED <<catalog, durable, place, lasting, content, package, root,
                   runtime, control, budget>>

(* RepositoryManager::open: takes the root lock, reads the catalog and     *)
(* reconciles every entry of it.                                           *)
Open ==
    /\ mode = "Down"
    /\ mode' = "Opening" /\ todo' = Known
    /\ UNCHANGED <<catalog, durable, disk, runtime, job, budget>>

Opened ==
    /\ mode = "Opening" /\ todo = {} /\ job = NoJob
    /\ mode' = "Up"
    /\ UNCHANGED <<catalog, durable, disk, runtime, job, todo, budget>>
=============================================================================
