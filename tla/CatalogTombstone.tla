-------------------------- MODULE CatalogTombstone --------------------------
(***************************************************************************)
(* Recovery-backed tombstone of cli/src/catalog/tombstone.rs: intent,      *)
(* backup, recorded backup, move into trash, seal; its retry, and its      *)
(* completion by a restart.                                                *)
(***************************************************************************)
EXTENDS CatalogManager

Tombstone(id) == The(Entry(id).tombstone)

(* linked_matches: the same, with the extra hard links that the packages   *)
(* of this repository explain.                                             *)
LinkedMatches(id, at) == place[id] = at /\ Verified(id)

(* content_matches: package and store are equal record by record.          *)
ContentMatches(id) == package[id].content = content[id]

(* The recovery package that the entry's record names, complete and as it  *)
(* was written; and with the content that the record binds.                *)
HasPackage(id, attempt) ==
    /\ package[id].attempt = attempt /\ package[id].state = "Complete"
    /\ <<id, "Package">> \notin damaged

BackupVerifies(id) ==
    /\ HasPackage(id, Tombstone(id).attempt)
    /\ Tombstone(id).backup = {package[id].content}

-----------------------------------------------------------------------------
(* start_intent: a fresh attempt with its own deadline, after a preflight  *)
(* that changes nothing.                                                   *)
StartIntent(id, now) ==
    /\ active[id] = "None" /\ Room(3)
    /\ LinkedMatches(id, "Repos")
    /\ Persist(With(id, [Entry(id) EXCEPT
                           !.phase = "TombstoneIntent",
                           !.tombstone = {[attempt |-> catalog.generation + 1,
                                           intent_time |-> now,
                                           deadline |-> now + Retention,
                                           backup |-> {}]}]),
               [NoJob EXCEPT !.op = "Tombstone", !.id = id, !.step = "Backup"], Return)
    /\ UNCHANGED <<disk, runtime, budget>>

tombstone(id, now) == Usable /\ Presents(id) /\ StartIntent(id, now)

(* retry_tombstone: the deadline must not shrink.                          *)
retry_tombstone(id, now) ==
    /\ Usable /\ Phase(id) = "TombstoneIntent"
    /\ now >= Tombstone(id).intent_time
    /\ StartIntent(id, now)

WithPackage(id, state) ==
    /\ package' = [package EXCEPT
                     ![id] = [attempt |-> Tombstone(id).attempt, state |-> state,
                              content |-> content[id]]]
    /\ damaged' = damaged \ {<<id, "Package">>}
    /\ UNCHANGED <<place, lasting, content, root>>

(* continue_tombstone, up to the end of backup_with_receipt.  A definite   *)
(* refusal leaves the intent and what there is of the package; any other   *)
(* error poisons.                                                          *)
Backup ==
    /\ At("Tombstone", "Backup")
    /\ \/ LinkedMatches(job.id, "Repos") /\ WithPackage(job.id, "Complete") /\ Goto("Record")
       \/ \E state \in {"Partial", "Complete"} : WithPackage(job.id, state) /\ Poison
       \/ WithPackage(job.id, "Partial") /\ Return
       \/ UNCHANGED disk /\ Return
    /\ UNCHANGED <<catalog, durable, runtime, budget>>

(* The package is verified against the source and its fingerprint recorded.*)
RecordBackup ==
    /\ At("Tombstone", "Record")
    /\ \/ /\ HasPackage(job.id, Tombstone(job.id).attempt)
          /\ ContentMatches(job.id)
          /\ Persist(With(job.id,
                       [Entry(job.id) EXCEPT
                          !.phase = "TombstoneBackedUp",
                          !.tombstone = {[Tombstone(job.id) EXCEPT
                                            !.backup = {package[job.id].content}]}]),
                     [job EXCEPT !.step = "Move"], Return)
       \/ Return /\ UNCHANGED <<catalog, durable>>
    /\ UNCHANGED <<disk, runtime, budget>>

(* try_move: the rename into trash ...                                     *)
MoveSource ==
    /\ At("Tombstone", "Move") \/ At("Reconcile", "Move")
    /\ \/ place[job.id] = "Repos" /\ Rename(job.id, "Trash") /\ Goto("SyncMove")
       \/ (IF job.op = "Tombstone" THEN Poison ELSE Return) /\ UNCHANGED disk
    /\ UNCHANGED <<catalog, durable, runtime, budget>>

(* ... and sync_move, which syncs the root, and so the catalog, as well.   *)
SyncMove ==
    /\ At("Tombstone", "SyncMove") \/ At("Reconcile", "SyncMove")
    /\ \/ Sync(job.id) /\ durable' = {catalog} /\ Goto("Seal")
       \/ /\ IF job.op = "Tombstone" THEN Poison ELSE Return
          /\ UNCHANGED <<disk, durable>>
    /\ UNCHANGED <<catalog, runtime, budget>>

(* seal, and its counterpart in reconcile_backed_up: what is in trash must *)
(* be the recorded source.                                                 *)
Seal ==
    /\ At("Tombstone", "Seal") \/ At("Reconcile", "Seal")
    /\ \/ /\ LinkedMatches(job.id, "Trash")
          /\ Persist(Moved(job.id, "Tombstoned"), [job EXCEPT !.step = "Done"], Return)
       \/ /\ IF job.op = "Tombstone" THEN Poison ELSE Return
          /\ UNCHANGED <<catalog, durable>>
    /\ UNCHANGED <<disk, runtime, budget>>

(* reconcile_backed_up: the package, the directory and their contents are  *)
(* verified; whatever is refused leaves the entry as it is.                *)
VisitBackedUp(id) ==
    /\ Visiting(id) /\ Phase(id) = "TombstoneBackedUp"
    /\ CASE ~BackupVerifies(id) \/ ~ContentMatches(id) -> Skip(id)
         [] LinkedMatches(id, "Repos") -> GotoIn(id, "Move") \/ Skip(id)
         [] LinkedMatches(id, "Trash") -> GotoIn(id, "SyncMove") \/ Skip(id)
         [] OTHER -> Skip(id)
    /\ UNCHANGED <<catalog, durable, disk>>
=============================================================================
