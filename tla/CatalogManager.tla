--------------------------- MODULE CatalogManager ---------------------------
(***************************************************************************)
(* RepositoryManager of cli/src/catalog.rs: creation, handles, quiesce,    *)
(* and the part of `reconcile` for entries that are neither restored nor   *)
(* tombstoned.  A call refused before it changes anything is a stuttering  *)
(* step and left out; compare-and-swap on generations is such a refusal.   *)
(***************************************************************************)
EXTENDS CatalogState

-----------------------------------------------------------------------------
(* create and restore borrow the manager exclusively: no handle exists.    *)
Exclusive == Usable /\ \A id \in Ids : active[id] = "None"

(* Mutant: the id of a failed entry is given out again. *)
CreateAgain(id) ==
    /\ Exclusive
    /\ Phase(id) \in {"None", "Failed"} /\ Cardinality(Known) < Repositories
    /\ Persist(With(id, [NoEntry EXCEPT !.phase = "Reserved"]),
               [NoJob EXCEPT !.op = "Create", !.id = id, !.step = "Stage"], Return)
    /\ UNCHANGED <<disk, runtime, budget>>

(* create: the reservation, then `materialize` step by step.               *)
Create(id) ==
    /\ Exclusive
    /\ id \notin Known /\ Cardinality(Known) < Repositories
    /\ Persist(With(id, [NoEntry EXCEPT !.phase = "Reserved"]),
               [NoJob EXCEPT !.op = "Create", !.id = id, !.step = "Stage"], Return)
    /\ UNCHANGED <<disk, runtime, budget>>

(* create_staging makes the directory and syncs its parent.                *)
Stage ==
    /\ At("Create", "Stage")
    /\ \/ /\ place' = [place EXCEPT ![job.id] = "Staging"]
          /\ lasting' = [lasting EXCEPT ![job.id] = {"Staging"}]
          /\ UNCHANGED <<content, package, root, damaged>>
          /\ Goto("Validate")
       \/ Goto("Fail") /\ (UNCHANGED disk \/ Rename(job.id, "Staging"))
    /\ UNCHANGED <<catalog, durable, runtime, budget>>

(* The empty store is written, flushed and verified.                       *)
Validate ==
    /\ At("Create", "Validate")
    /\ \/ Persist(Moved(job.id, "Validated"), [job EXCEPT !.step = "Publish"], Goto("Fail"))
       \/ Goto("Fail") /\ UNCHANGED <<catalog, durable>>
    /\ UNCHANGED <<disk, runtime, budget>>

(* An error while the entry is reserved: it has failed.                    *)
CreateFails ==
    /\ At("Create", "Fail")
    /\ Persist(Moved(job.id, "Failed"), [job EXCEPT !.step = "Done"], Return)
    /\ UNCHANGED <<disk, runtime, budget>>

(* Root::publish, for creation, restore and reconciliation of either: the  *)
(* rename ...                                                              *)
Publish ==
    /\ \/ At("Create", "Publish") \/ At("Restore", "Publish")
       \/ At("Reconcile", "Publish")
    /\ \/ Rename(job.id, "Repos") /\ Goto("SyncPublished")
       \/ Poison /\ UNCHANGED disk
    /\ UNCHANGED <<catalog, durable, runtime, budget>>


(* ... and the syncs of both parents.  When they fail the outcome is       *)
(* uncertain, unless nothing was renamed just now.                         *)
SyncPublished ==
    /\ \/ At("Create", "SyncPublished") \/ At("Restore", "SyncPublished")
       \/ At("Reconcile", "SyncPublished") \/ At("Reconcile", "Resync")
    /\ \/ Sync(job.id) /\ Goto("Close")
       \/ (IF job.step = "Resync" THEN Abort ELSE Poison) /\ UNCHANGED disk
    /\ UNCHANGED <<catalog, durable, runtime, budget>>

(* The published store is closed.  Only `create` is poisoned by a refusal. *)
Close ==
    /\ \/ At("Create", "Close") \/ At("Restore", "Close") \/ At("Reconcile", "Close")
    /\ Persist(Moved(job.id, "Closed"), [job EXCEPT !.step = "Done"],
               CASE job.op = "Create" -> Poison
                 [] job.op = "Restore" -> Return
                 [] job.op = "Reconcile" -> Abort)
    /\ UNCHANGED <<disk, runtime, budget>>

-----------------------------------------------------------------------------
(* Mutant: only failed and unpublished entries are refused. *)
OpenUnlessFailed(id) ==
    /\ Usable
    /\ Phase(id) \notin {"None", "Reserved", "Validated", "Failed"}
    /\ active[id] = "None" /\ Matches(id, "Repos")
    /\ active' = [active EXCEPT ![id] = "Open"]
    /\ UNCHANGED <<catalog, durable, control, disk, receipts, budget>>

(* open_repository: the store is verified before it is opened, and a       *)
(* definite mismatch fails the entry.                                      *)
OpenRepository(id) ==
    /\ Usable
    /\ Phase(id) = "Closed" /\ active[id] = "None"
    /\ Cardinality({i \in Ids : active[i] # "None"}) < OpenHandles
    /\ \/ /\ Matches(id, "Repos")
          /\ active' = [active EXCEPT ![id] = "Open"]
          /\ UNCHANGED <<catalog, durable, control>>
       \/ /\ ~Matches(id, "Repos")
          /\ Persist(Moved(id, "Failed"),
                     [NoJob EXCEPT !.op = "Open", !.id = id, !.step = "Done"], Return)
          /\ UNCHANGED active
    /\ UNCHANGED <<disk, receipts, budget>>

(* A poisoned manager still serves the handles it gave out.                *)
Serving == mode \in {"Up", "Poisoned"} /\ job = NoJob /\ todo = {}

Admits(id) == active[id] = "Open"

Insert(id) ==
    /\ Serving /\ Admits(id)
    /\ content[id] < MaxContent
    /\ content' = [content EXCEPT ![id] = @ + 1]
    /\ UNCHANGED <<catalog, durable, place, lasting, package, root, damaged,
                   runtime, control, budget>>

DropHandle(id) ==
    /\ Serving /\ active[id] # "None"
    /\ active' = [active EXCEPT ![id] = "None"]
    /\ UNCHANGED <<catalog, durable, disk, receipts, control, budget>>

(* begin_quiesce: handles are fenced before the write.  A refused write    *)
(* takes the fence away again, a failed one keeps it.                      *)
BeginQuiesce(id) ==
    /\ Usable /\ Phase(id) = "Closed"
    /\ Persist(Moved(id, "Quiescing"),
               [NoJob EXCEPT !.op = "Quiesce", !.id = id, !.step = "Done"], Return)
    /\ IF catalog' = catalog /\ mode' = "Up" THEN UNCHANGED active
       ELSE Fence(id, "Open", "Fenced")
    /\ UNCHANGED <<disk, receipts, budget>>

ReceiptOf(id) ==
    [id |-> id, phase |-> Phase(id), generation |-> Entry(id).changed_at]

(* ... and repeated: the fence and the receipt again, without a write.     *)
RepeatQuiesce(id) ==
    /\ Usable /\ Phase(id) = "Quiescing"
    /\ Fence(id, "Open", "Fenced")
    /\ receipts' = receipts \cup {ReceiptOf(id)}
    /\ UNCHANGED <<catalog, durable, disk, control, budget>>

(* The receipt of the entry's current quiesce, and of no other.            *)
Presents(id) == Phase(id) = "Quiescing" /\ ReceiptOf(id) \in receipts

(* complete_quiesce: no handle is left and the store is verified again.    *)
CompleteQuiesce(id) ==
    /\ Usable /\ Presents(id) /\ active[id] = "None"
    /\ Persist(Moved(id, IF Matches(id, "Repos") THEN "Closed" ELSE "Failed"),
               [NoJob EXCEPT !.op = "Complete", !.id = id, !.step = "Done"], Return)
    /\ UNCHANGED <<disk, runtime, budget>>

-----------------------------------------------------------------------------
(* reconcile, called again by the owner of the manager.                    *)
Reconcile ==
    /\ Exclusive
    /\ todo' = Known
    /\ UNCHANGED <<catalog, durable, disk, runtime, mode, job, budget>>

(* The next entry, and what the visit begins with.                         *)
Visiting(id) ==
    /\ job = NoJob /\ id \in todo
    /\ UNCHANGED <<runtime, budget>>

Started(id, step) == [NoJob EXCEPT !.op = "Reconcile", !.id = id, !.step = step]

GotoIn(id, step) ==
    /\ job' = Started(id, step) /\ todo' = todo \ {id}
    /\ UNCHANGED mode

Skip(id) == todo' = todo \ {id} /\ UNCHANGED <<mode, job>>

(* Entries that a restart leaves as they are.                              *)
VisitSettled(id) ==
    /\ Visiting(id)
    /\ Phase(id) \in {"Failed", "Closed", "TombstoneIntent", "Tombstoned"}
    /\ Skip(id)
    /\ UNCHANGED <<catalog, durable, disk>>

(* Only definite evidence fails a quiescing entry; it never closes one.    *)
VisitQuiescing(id) ==
    /\ Visiting(id) /\ Phase(id) = "Quiescing"
    /\ IF Matches(id, "Repos") THEN Skip(id) ELSE Skip(id) \/ GotoIn(id, "Fail")
    /\ UNCHANGED <<catalog, durable, disk>>

(* A reserved entry has failed.  A validated one is published, or only     *)
(* synced again, if what is there is what was recorded; a transient error  *)
(* ends the reconciliation.                                                *)
VisitCreated(id) ==
    /\ Visiting(id) /\ Phase(id) \in {"Reserved", "Validated"} /\ ~Restored(id)
    /\ CASE Phase(id) = "Reserved" -> GotoIn(id, "Fail")
         [] Matches(id, "Staging") -> GotoIn(id, "Publish") \/ Abort
         [] Matches(id, "Repos") -> GotoIn(id, "Resync") \/ Abort
         [] OTHER -> GotoIn(id, "Fail") \/ Abort
    /\ UNCHANGED <<catalog, durable, disk>>

ReconcileFails ==
    /\ At("Reconcile", "Fail")
    /\ Persist(Moved(job.id, "Failed"), [job EXCEPT !.step = "Done"], Abort)
    /\ UNCHANGED <<disk, runtime, budget>>
=============================================================================
