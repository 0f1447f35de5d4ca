--------------------------- MODULE CatalogRestore ---------------------------
(***************************************************************************)
(* Restore of a tombstoned repository from its own recovery package under  *)
(* a fresh id, cli/src/catalog/restore.rs: intent, restore into an attempt *)
(* root, move to staging, proof, publication; its retry, and its           *)
(* completion by a restart.                                                *)
(***************************************************************************)
EXTENDS CatalogTombstone

Record(id) == The(Entry(id).restore)

(* verify_package: the package of a tombstoned source, within its bounds,  *)
(* with the recorded binding.                                              *)
PackageVerifies(source) == BackupVerifies(source)

(* content_matches: the restored store equals the package store.           *)
RestoredMatches(id) == content[id] = package[Record(id).source].content

(* bound_source: the source is still the tombstone the record was made of. *)
SourceBound(record) ==
    LET source == Entry(record.source)
    IN /\ source.phase = "Tombstoned"
       /\ source.changed_at = record.source_generation
       /\ source.tombstone # NoTombstone
       /\ The(source.tombstone).attempt = record.source_attempt
       /\ The(source.tombstone).backup = record.backup

(* check_source: inside the retention window, with a package that verifies.*)
InRetention(source, now) ==
    now >= Tombstone(source).intent_time /\ now < Tombstone(source).deadline

-----------------------------------------------------------------------------
(* restore_tombstoned, up to its durable intent.                           *)
restore_tombstoned(source, id, now) ==
    /\ Exclusive /\ Room(3)
    /\ id \notin Known /\ Cardinality(Known) < Repositories
    /\ Phase(source) = "Tombstoned"
    /\ InRetention(source, now) /\ PackageVerifies(source)
    /\ Persist(With(id, [NoEntry EXCEPT
                           !.phase = "Reserved",
                           !.restore = {[source |-> source,
                                         source_generation |-> Entry(source).changed_at,
                                         source_attempt |-> Tombstone(source).attempt,
                                         attempt |-> catalog.generation + 1,
                                         intent_time |-> now,
                                         backup |-> Tombstone(source).backup]}]),
               [NoJob EXCEPT !.op = "Restore", !.id = id, !.step = "Advance"], Return)
    /\ UNCHANGED <<disk, runtime, budget>>

(* The current attempt root, and whether it has its completion receipt.    *)
RootState(id) ==
    IF root[id].attempt = Record(id).attempt THEN root[id].state ELSE "None"

RestoreFailing(id) == [NoJob EXCEPT !.op = "Restore", !.id = id, !.step = "Fail"]

(* Mutant: a retry is written under the attempt it replaces. *)
RetrySameAttempt(id, now) ==
    /\ Exclusive /\ Phase(id) = "Reserved" /\ Restored(id) /\ Room(3)
    /\ InRetention(Record(id).source, now)
    /\ Persist(With(id, Entry(id)),
               [NoJob EXCEPT !.op = "Restore", !.id = id, !.step = "Advance"], Return)
    /\ UNCHANGED <<disk, runtime, budget>>

(* retry_restore: definite evidence against source or package fails the    *)
(* entry.  What the current attempt left is resumed; otherwise there is a  *)
(* new attempt with a root of its own.                                     *)
retry_restore(id, now) ==
    LET record == Record(id)
        started == [NoJob EXCEPT !.op = "Restore", !.id = id, !.step = "Advance"]
    IN /\ Exclusive /\ Phase(id) = "Reserved" /\ Restored(id)
       /\ now >= record.intent_time
       /\ IF \/ ~SourceBound(record)
             \/ InRetention(record.source, now) /\ ~PackageVerifies(record.source)
          THEN job' = RestoreFailing(id) /\ UNCHANGED <<catalog, durable, mode, todo>>
          ELSE /\ InRetention(record.source, now) /\ Room(3)
               /\ IF place[id] \in {"Staging", "Repos"} \/ RootState(id) = "Complete"
                  THEN job' = started /\ UNCHANGED <<catalog, durable, mode, todo>>
                  ELSE Persist(With(id, [Entry(id) EXCEPT
                                 !.restore = {[record EXCEPT
                                                 !.attempt = catalog.generation + 1]}]),
                               started, Return)
       /\ UNCHANGED <<disk, runtime, budget>>

WithRoot(id, state) ==
    /\ root' = [root EXCEPT ![id] = [attempt |-> Record(id).attempt, state |-> state]]
    /\ IF state = "Complete"
       THEN /\ place' = [place EXCEPT ![id] = "Root"]
            /\ lasting' = [lasting EXCEPT ![id] = {"Root"}]
            /\ content' = [content EXCEPT ![id] = package[Record(id).source].content]
       ELSE UNCHANGED <<place, lasting, content>>
    /\ UNCHANGED <<package, damaged>>

(* run_restore: the one call of restore_backup of this attempt.  A package *)
(* that does not match is definite, an uncertain completion poisons, and   *)
(* any other error keeps the entry reserved.                               *)
RunRestore ==
    /\ At("Restore", "Run")
    /\ \/ /\ PackageVerifies(Record(job.id).source)
          /\ \/ WithRoot(job.id, "Complete") /\ Goto("MoveStore")
             \/ \E state \in {"Partial", "Complete"} : WithRoot(job.id, state) /\ Poison
       \/ /\ ~PackageVerifies(Record(job.id).source)
          /\ \E state \in {"None", "Partial"} : WithRoot(job.id, state)
          /\ Goto("Fail")
       \/ \E state \in {"None", "Partial"} : WithRoot(job.id, state) /\ Return
    /\ UNCHANGED <<catalog, durable, runtime, budget>>

(* advance_restore: where to go on, from what is on disk.                  *)
NextStep(id, live) ==
    CASE ~SourceBound(Record(id)) \/ place[id] = "Repos" -> "Fail"
      [] RootState(id) = "Complete" /\ place[id] = "Root" -> "MoveStore"
      [] RootState(id) = "Complete" /\ place[id] = "Staging" -> "SyncStore"
      [] RootState(id) = "None" /\ place[id] = "None" -> IF live THEN "Run" ELSE "Stay"
      [] RootState(id) = "Partial" /\ place[id] = "None" -> "Stay"
      [] OTHER -> "Fail"

Advance ==
    /\ At("Restore", "Advance")
    /\ LET step == NextStep(job.id, TRUE)
       IN Return \/ (step # "Stay" /\ Goto(step))
    /\ UNCHANGED <<catalog, durable, disk, runtime, budget>>

(* reconcile_restoring: the same, but no restore is started.               *)
VisitRestoring(id) ==
    /\ Visiting(id) /\ Phase(id) = "Reserved" /\ Restored(id)
    /\ LET step == NextStep(id, FALSE)
       IN Skip(id) \/ (step # "Stay" /\ GotoIn(id, IF step = "Fail" THEN "Reject" ELSE step))
    /\ UNCHANGED <<catalog, durable, disk>>

(* The store is moved out of the attempt root ...                          *)
MoveStore ==
    /\ At("Restore", "MoveStore") \/ At("Reconcile", "MoveStore")
    /\ \/ Rename(job.id, "Staging") /\ Goto("SyncStore")
       \/ Return /\ UNCHANGED disk
    /\ UNCHANGED <<catalog, durable, runtime, budget>>

(* ... and staging, the attempt root and the manager root are synced.      *)
SyncStore ==
    /\ At("Restore", "SyncStore") \/ At("Reconcile", "SyncStore")
    /\ \/ Sync(job.id) /\ durable' = {catalog} /\ Goto("Prove")
       \/ Return /\ UNCHANGED <<disk, durable>>
    /\ UNCHANGED <<catalog, runtime, budget>>

(* prove_candidate: the store is intact, the attempt completed, and the    *)
(* package verifies and has the same content.                              *)
Proved(id) ==
    /\ Verified(id) /\ RootState(id) = "Complete"
    /\ PackageVerifies(Record(id).source)
    /\ RestoredMatches(id)

(* Live, the proved store is published; a restart settles it first.        *)
Prove ==
    LET live == job.op = "Restore" IN
    /\ At("Restore", "Prove") \/ At("Reconcile", "Prove")
    /\ \/ /\ Proved(job.id)
          /\ Persist(Moved(job.id, "Validated"),
                     [job EXCEPT !.step = IF live THEN "Publish" ELSE "Settle"], Return)
       \/ /\ ~Proved(job.id) /\ Goto(IF live THEN "Fail" ELSE "Reject")
          /\ UNCHANGED <<catalog, durable>>
       \/ Return /\ UNCHANGED <<catalog, durable>>
    /\ UNCHANGED <<disk, runtime, budget>>

(* definite: the entry has failed.  Everything stays where it is.          *)
Reject ==
    /\ At("Restore", "Fail") \/ At("Reconcile", "Reject")
    /\ Persist(Moved(job.id, "Failed"), [job EXCEPT !.step = "Done"], Return)
    /\ UNCHANGED <<disk, runtime, budget>>

-----------------------------------------------------------------------------
(* Mutant: a restart expects a validated store in staging only. *)
SettleStaged(id) ==
    IF SourceBound(Record(id)) /\ place[id] = "Staging" /\ Proved(id)
    THEN "SettleRename" ELSE "Reject"

(* settle_restore of a validated entry, staged or published: it is proved  *)
(* again, renamed if need be, and both parents are synced.                 *)
SettleStep(id) ==
    IF SourceBound(Record(id)) /\ place[id] \in {"Staging", "Repos"} /\ Proved(id)
    THEN (IF place[id] = "Staging" THEN "SettleRename" ELSE "SettleSync")
    ELSE "Reject"

VisitRestored(id) ==
    /\ Visiting(id) /\ Phase(id) = "Validated" /\ Restored(id)
    /\ Skip(id) \/ GotoIn(id, SettleStep(id))
    /\ UNCHANGED <<catalog, durable, disk>>

Settle ==
    /\ At("Reconcile", "Settle")
    /\ Return \/ Goto(SettleStep(job.id))
    /\ UNCHANGED <<catalog, durable, disk, runtime, budget>>

SettleRename ==
    /\ At("Reconcile", "SettleRename")
    /\ \/ Rename(job.id, "Repos") /\ Goto("SettleSync")
       \/ Return /\ UNCHANGED disk
    /\ UNCHANGED <<catalog, durable, runtime, budget>>

SettleSync ==
    /\ At("Reconcile", "SettleSync")
    /\ \/ Sync(job.id) /\ Goto("SettleClose")
       \/ Return /\ UNCHANGED disk
    /\ UNCHANGED <<catalog, durable, runtime, budget>>

SettleClose ==
    /\ At("Reconcile", "SettleClose")
    /\ Persist(Moved(job.id, "Closed"), [job EXCEPT !.step = "Done"], Return)
    /\ UNCHANGED <<disk, runtime, budget>>
=============================================================================
