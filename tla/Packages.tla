------------------------------ MODULE Packages ------------------------------
(***************************************************************************)
(* Backup packages and their restore (backup.rs, restore.rs, ADR-0022),    *)
(* over the same primary database and with a generation of the derived     *)
(* index as a contribution.  Both write into a fresh directory and publish *)
(* it with a completion record that is renamed last.  The restored         *)
(* database may take the place of the primary, beside an index root that   *)
(* has seen its future.                                                    *)
(***************************************************************************)
EXTENDS DerivedIndex

VARIABLES
    package,  \* the backup package, or None
    target    \* the directory that it is restored into, or None

packageVars == <<package, target>>
vars == <<primaryVars, derivedVars, packageVars>>

(* What a package directory holds: the checkpoint of the database and the  *)
(* generation that came with it, the observations of the sequence before   *)
(* and after, and how far it is published.                                 *)
Databases == [sequence : Nat, quads : SUBSET Quads, commits : Seq(Commits), floor : Nat]
Checkpoints == [sequence : Nat, receipt : Nat, retained_after : Nat]
Contributions == [payload : SUBSET Quads, source : Checkpoints, input : SUBSET Quads]
PackageRecords ==
    [store : Databases \union {None}, contribution : Contributions \union {None},
     mark : Cells(Marks), whole : Cells(BOOLEAN), done : BOOLEAN,
     start : Nat, end : Nat \union {None}]

ASSUME PackagesAssumption == None \notin PackageRecords

Init ==
    /\ PrimaryInit
    /\ DerivedInit
    /\ package = None
    /\ target = None

(* The mark of a fresh directory: its manifest or completion record.  Of a *)
(* directory `whole' says that all its files are there, and `done' that a  *)
(* receipt was returned.                                                   *)
Fresh == Change(Sure("Absent"), "Empty")

GoTo(step) == work' = [at |-> step]

-----------------------------------------------------------------------------
(* Store::backup_with_receipt. *)

Contribution(g) == [payload |-> g.payload, source |-> g.source, input |-> g.input]

(* BackupReceipt::verify. *)
Verifies == package # None /\ package.mark.now = "Complete" /\ package.whole.now

BackupStart ==
    /\ work = NoWork /\ package = None
    /\ Spend("packages")
    /\ \E c \in {None} \union {Contribution(g) : g \in {h \in Range(gens) : Opens(h)}} :
          package' = [store |-> None, contribution |-> c, mark |-> Fresh,
                      whole |-> Sure(FALSE), done |-> FALSE,
                      start |-> primary.now.sequence, end |-> None]
    /\ GoTo("BackupCheckpoint")

(* RocksDB's checkpoint is atomic.  A contribution that was not made from  *)
(* exactly the contents it has is refused.                                 *)
BackupCheckpoint ==
    /\ work.at = "BackupCheckpoint"
    /\ IF package.contribution = None
          \/ check_snapshot(package.contribution, [checkpoint |-> Checkpoint(primary.now),
                                                   quads |-> primary.now.quads])
       THEN package' = [package EXCEPT !.store = primary.now] /\ GoTo("BackupCopy")
       ELSE UNCHANGED package /\ work' = NoWork

(* The artifacts are copied and every file is synced, but no directory.    *)
BackupCopy ==
    /\ work.at = "BackupCopy"
    /\ package' = [package EXCEPT !.whole = Change(@, TRUE), !.end = primary.now.sequence]
    /\ GoTo("BackupPending")

(* Mutant: the package's directories are not synced before it is published. *)
BackupPendingUnsynced ==
    /\ work.at = "BackupPending"
    /\ package' = [package EXCEPT !.mark = Change(@, "Pending")]
    /\ GoTo("BackupRename")

BackupPending ==
    /\ work.at = "BackupPending"
    /\ package' = [package EXCEPT !.mark = Sure("Pending"), !.whole = Sync(@)]
    /\ GoTo("BackupRename")

BackupRename ==
    /\ work.at = "BackupRename"
    /\ package' = [package EXCEPT !.mark = Change(@, "Complete")]
    /\ GoTo("BackupFinish")

(* Without this sync the completion is indeterminate. *)
BackupFinish ==
    /\ work.at = "BackupFinish"
    /\ package' = [package EXCEPT !.mark = Sync(@), !.done = TRUE]
    /\ work' = NoWork

(* A call that fails leaves the directory; what an incomplete one holds is *)
(* never read again.                                                       *)
BackupFail ==
    /\ work.at \in {"BackupCheckpoint", "BackupCopy", "BackupPending", "BackupRename",
                    "BackupFinish"}
    /\ Fault
    /\ work' = NoWork
    /\ UNCHANGED package

BackupStep ==
    \/ BackupCheckpoint \/ BackupCopy \/ BackupPending
    \/ BackupRename \/ BackupFinish

Backup == BackupStart \/ BackupFail \/ (BackupStep /\ UNCHANGED budget)

-----------------------------------------------------------------------------
(* Store::restore_backup. *)

(* RestoreReceipt::read. *)
Restored == target # None /\ target.mark.now = "Complete"

RestoreStart ==
    /\ work = NoWork /\ Verifies /\ target = None
    /\ target' = [store |-> package.store, contribution |-> package.contribution,
                  mark |-> Fresh, whole |-> Sure(FALSE), done |-> FALSE, used |-> FALSE]
    /\ GoTo("RestoreCopy")

(* The files are copied and synced, the manifest is written, and the copy  *)
(* is verified and reconciled, the contribution by its provider.           *)
RestoreCopy ==
    /\ work.at = "RestoreCopy"
    /\ target.contribution # None => target.contribution.payload = target.store.quads
    /\ target' = [target EXCEPT !.whole = Change(@, TRUE), !.mark = Change(@, "Manifest")]
    /\ GoTo("RestoreSource")

(* Mutant: only the root is synced when the manifest has been renamed. *)
RestoreSourceShallow ==
    /\ work.at = "RestoreSource"
    /\ target' = [target EXCEPT !.mark = Sure("Source")]
    /\ GoTo("RestorePending")

RestoreSource ==
    /\ work.at = "RestoreSource"
    /\ target' = [target EXCEPT !.mark = Sure("Source"), !.whole = Sync(@)]
    /\ GoTo("RestorePending")

RestorePending ==
    /\ work.at = "RestorePending"
    /\ target' = [target EXCEPT !.mark = Sure("Pending")]
    /\ GoTo("RestoreRename")

RestoreRename ==
    /\ work.at = "RestoreRename"
    /\ target' = [target EXCEPT !.mark = Change(@, "Complete")]
    /\ GoTo("RestoreFinish")

RestoreFinish ==
    /\ work.at = "RestoreFinish"
    /\ target' = [target EXCEPT !.mark = Sync(@), !.done = TRUE]
    /\ work' = NoWork

RestoreFail ==
    /\ work.at \in {"RestoreCopy", "RestoreSource", "RestorePending", "RestoreRename",
                    "RestoreFinish"}
    /\ Fault
    /\ work' = NoWork
    /\ UNCHANGED target

RestoreStep ==
    \/ RestoreStart \/ RestoreCopy \/ RestoreSource \/ RestorePending
    \/ RestoreRename \/ RestoreFinish

Restore == RestoreFail \/ (RestoreStep /\ UNCHANGED budget)

(* Store::open of the restored database, beside the index root it had. *)
UseRestored ==
    /\ work = NoWork /\ Restored /\ ~target.used
    /\ primary' = Sure(target.store)
    /\ target' = [target EXCEPT !.used = TRUE]
    /\ snap' = None

(* DerivedIndex::import_restored. *)
ImportRestored ==
    /\ Ready
    /\ target # None /\ target.contribution # None /\ target.whole.now
    /\ check_snapshot(target.contribution, snap)
    /\ BuildStart(target.contribution.payload)
    /\ UNCHANGED <<root, handle, promised, adopted, budget>>

-----------------------------------------------------------------------------
(* The process ends, or the power fails. *)

Exit ==
    /\ Fault
    /\ PrimaryExit /\ DerivedExit
    /\ UNCHANGED <<primary, root, gens, package, target>>

LostPackage(p) == IF p = None THEN {None} ELSE Lost(p)

PowerLoss ==
    /\ Fault
    /\ PrimaryExit /\ DerivedExit
    /\ primary' \in Survivors(primary)
    /\ DerivedLoss
    /\ package' \in LostPackage(package)
    /\ target' \in LostPackage(target)

Next ==
    \/ PrimaryNext /\ UNCHANGED <<derivedVars, packageVars>>
    \/ (DerivedNext \/ ImportRestored) /\ UNCHANGED <<primary, snap, packageVars>>
    \/ Backup /\ UNCHANGED <<primary, snap, derivedVars, target>>
    \/ Restore /\ UNCHANGED <<primary, snap, derivedVars, package>>
    \/ UseRestored /\ UNCHANGED <<work, derivedVars, package, budget>>
    \/ Exit
    \/ PowerLoss

Spec == Init /\ [][Next]_vars

-----------------------------------------------------------------------------
(* backup_with_receipt and BackupReceipt::verify: a package that shows, or *)
(* after a power loss may show, its manifest has all its files for good;   *)
(* its database and its contribution hold the same quads, of one moment    *)
(* between the two observations; and a receipt is never taken back.        *)
(* restore_backup and RestoreReceipt::read: so does a target that reads as *)
(* restored have all the files of the package, which read does not look at *)
(* again.                                                                  *)
PackagesAreWhole ==
    /\ package # None =>
         /\ "Complete" \in package.mark.may =>
               /\ IsSure(package.whole, TRUE)
               /\ package.contribution # None =>
                     package.contribution.payload = package.store.quads
               /\ package.start <= package.store.sequence
               /\ package.store.sequence <= package.end
         /\ package.done => IsSure(package.mark, "Complete")
    /\ target # None =>
         /\ "Complete" \in target.mark.may =>
               IsSure(target.whole, TRUE) /\ target.store = package.store
         /\ target.done => IsSure(target.mark, "Complete")

=============================================================================
