--------------------------- MODULE UpgradeReceipt ---------------------------
(***************************************************************************)
(* The outer workspace of a legacy upgrade (upgrade_receipt.rs): it binds  *)
(* a recovery to the build that runs it with a progress chain INITIAL,     *)
(* RUNNING, COMPLETED, and seals it with a receipt that is renamed last.   *)
(* inspect_upgrade (upgrade_inspection.rs) reports where it is.            *)
(***************************************************************************)
EXTENDS UpgradeRecovery

VARIABLES
    outer,      \* the outer directory: Absent, Empty, or Planned with its preflight
    progress,   \* the progress chain
    receipt     \* the receipt: Absent, Pending or Complete

receiptVars == <<outer, progress, receipt>>

upgradeVars == <<activationVars, recoveryVars, receiptVars>>

ReceiptInit ==
    /\ outer = Sure("Absent")
    /\ progress = Sure(NoFile)
    /\ receipt = Sure("Absent")

(* A progress record binds the recovery journal as it then is. *)
Progress(kind) == [kind |-> kind, journal |-> journal.now.records]

Kinds == <<"Initial", "Running", "Completed">>

(* scan_outer, decode_progress and validate_progress. *)
ProgressValid ==
    /\ outer.now = "Planned" /\ room.now /\ Decodes(progress.now)
    /\ LET records == progress.now.records IN
       /\ Len(records) \in 1..3
       /\ \A i \in DOMAIN records :
             /\ records[i].kind = Kinds[i]
             /\ \E n \in 0..Len(journal.now.records) :
                   records[i].journal = SubSeq(journal.now.records, 1, n)
       /\ Len(records) >= 2 => records[2].journal = records[1].journal
       /\ Len(records) = 3 => records[3].journal = journal.now.records

Steps == Len(progress.now.records)

(* verify_upgrade_leased. *)
UpgradeVerifies ==
    /\ receipt.now = "Complete" /\ ProgressValid /\ Steps = 3
    /\ RecoveryVerifies /\ Completed(journal.now.records)

(* inspect_upgrade_inner. *)
inspect_upgrade ==
    IF receipt.now = "Complete" THEN IF UpgradeVerifies THEN "Sealed" ELSE "Refused"
    ELSE IF ~ProgressValid \/ ~RecoveryVerifies THEN "Refused"
    ELSE LET pending == receipt.now = "Pending"
             done == Completed(journal.now.records)
         IN  CASE Steps = 1 /\ ~pending /\ ~done
                     /\ progress.now.records[1].journal = journal.now.records -> "Initial"
               [] Steps = 2 /\ ~pending -> "Running"
               [] Steps = 3 /\ ~pending /\ done -> "CompleteUnsealed"
               [] Steps = 3 /\ pending /\ done -> "ReceiptPending"
               [] OTHER -> "Refused"

-----------------------------------------------------------------------------
(* start_upgrade_inner. *)

StartUpgrade ==
    /\ call = Idle /\ outer.now = "Absent" /\ ~room.now
    /\ outer' = Change(outer, "Empty")
    /\ call' = [at |-> "Preflight"]
    /\ UNCHANGED <<recoveryVars, progress, receipt>>

(* The preflight is synced before the recovery starts. *)
WritePreflight ==
    /\ call.at = "Preflight"
    /\ outer' = Sure("Planned")
    /\ IF max_attempts < Needed
       THEN call' = Idle ELSE StartsRecovery("Initial", TRUE)
    /\ UNCHANGED <<recoveryVars, progress, receipt>>

WriteInitial ==
    /\ call.at = "Initial"
    /\ progress' = Write(progress, Progress("Initial"))
    /\ GoTo("SyncProgress")
    /\ UNCHANGED <<recoveryVars, outer, receipt>>

-----------------------------------------------------------------------------
(* resume_upgrade_inner.  With a complete receipt it only verifies; a      *)
(* pending receipt is refused.                                             *)

(* Mutant: RUNNING is admitted whatever the recovery journal has become. *)
AdmitRunningAnyJournal ==
    /\ call = Idle /\ receipt.now = "Absent" /\ ProgressValid /\ Steps = 1
    /\ RecoveryVerifies
    /\ call' = [at |-> "Running"]
    /\ UNCHANGED <<recoveryVars, receiptVars>>

(* The recovery must still be what start_upgrade left. *)
AdmitRunning ==
    /\ call = Idle /\ receipt.now = "Absent" /\ ProgressValid /\ Steps = 1
    /\ RecoveryVerifies /\ ~Completed(journal.now.records)
    /\ journal.now.records = progress.now.records[1].journal
    /\ call' = [at |-> "Running"]
    /\ UNCHANGED <<recoveryVars, receiptVars>>

WriteRunning ==
    /\ call.at = "Running"
    /\ progress' = Write(progress, [progress.now.records[1] EXCEPT !.kind = "Running"])
    /\ GoTo("SyncProgress")
    /\ UNCHANGED <<recoveryVars, outer, receipt>>

ResumeUpgrade ==
    /\ call = Idle /\ receipt.now = "Absent" /\ ProgressValid /\ Steps >= 2
    /\ ResumesRecovery("Completed", TRUE)
    /\ UNCHANGED <<recoveryVars, receiptVars>>

(* An append to the progress chain is synced; then start_upgrade returns,  *)
(* the recovery is resumed, or the receipt is written.                     *)
SyncProgress ==
    /\ call.at = "SyncProgress"
    /\ progress' = Sync(progress)
    /\ CASE Steps = 1 -> call' = Idle
         [] Steps = 2 -> RunsRecovery("Completed", TRUE)
         [] OTHER -> GoTo("WritePending")
    /\ UNCHANGED <<recoveryVars, outer, receipt>>

(* The complete recovery is verified again, under leases to the end. *)
WriteCompleted ==
    /\ call.at = "Completed" /\ RecoveryVerifies
    /\ IF Steps = 2
       THEN progress' = Write(progress, Progress("Completed")) /\ GoTo("SyncProgress")
       ELSE UNCHANGED progress /\ GoTo("WritePending")
    /\ UNCHANGED <<recoveryVars, outer, receipt>>

WritePending ==
    /\ call.at = "WritePending"
    /\ receipt' = Change(receipt, "Pending")
    /\ GoTo("SyncReceipt")
    /\ UNCHANGED <<recoveryVars, outer, progress>>

SyncReceipt ==
    /\ call.at = "SyncReceipt"
    /\ receipt' = Sync(receipt)
    /\ IF receipt.now = "Pending" THEN GoTo("Rename") ELSE call' = Idle
    /\ UNCHANGED <<recoveryVars, outer, progress>>

RenameReceipt ==
    /\ call.at = "Rename"
    /\ receipt' = Change(receipt, "Complete")
    /\ GoTo("SyncReceipt")
    /\ UNCHANGED <<recoveryVars, outer, progress>>

ReceiptStep ==
    \/ WritePreflight \/ WriteInitial \/ WriteRunning \/ SyncProgress
    \/ WriteCompleted \/ WritePending \/ SyncReceipt \/ RenameReceipt

ProgressCut ==
    /\ \/ call.at \in {"Initial", "Running"}
       \/ call.at = "Completed" /\ Steps = 2
    /\ progress' = WriteCut(progress)
    /\ Stop

-----------------------------------------------------------------------------
(* The calls on a recovery of its own, without an outer workspace, or on   *)
(* the one within before RUNNING: an outer workspace that runs is the      *)
(* caller's exclusively.                                                   *)

start_upgrade_recovery ==
    /\ call = Idle /\ outer.now = "Absent"
    /\ max_attempts >= Needed /\ StartsRecovery("Return", FALSE)

resume_upgrade_recovery ==
    /\ call = Idle /\ Steps < 2
    /\ ResumesRecovery("Return", FALSE)

-----------------------------------------------------------------------------
UpgradeInit == RecoveryInit /\ ReceiptInit

UpgradeCalls ==
    /\ \/ StartUpgrade \/ AdmitRunning \/ ResumeUpgrade \/ ReceiptStep
       \/ RecoveryStep /\ UNCHANGED <<from, max_attempts, receiptVars>>
       \/ /\ start_upgrade_recovery \/ resume_upgrade_recovery
          /\ UNCHANGED <<recoveryVars, receiptVars>>
    /\ UNCHANGED <<target, faults>>

UpgradeActivates ==
    /\ ActivateStep \/ (UpgradeVerifies /\ ActivateStart)
    /\ UNCHANGED <<recoveryVars, receiptVars, faults>>

UpgradeStops ==
    /\ \/ call # Idle /\ Stop /\ UNCHANGED <<journal, progress>>
       \/ AppendCut /\ UNCHANGED progress
       \/ ProgressCut /\ UNCHANGED journal
    /\ UNCHANGED <<target, from, max_attempts, room, attempts, outer, receipt>>

UpgradeLoses ==
    /\ Loss /\ RecoveryLoss
    /\ outer' \in Survivors(outer) /\ progress' \in Survivors(progress)
    /\ receipt' \in Survivors(receipt)
    /\ UNCHANGED <<from, max_attempts>>

UpgradeNext == UpgradeCalls \/ UpgradeActivates \/ UpgradeStops \/ UpgradeLoses

-----------------------------------------------------------------------------
(* ADR-0028, "A completed standalone recovery cannot be imported as this   *)
(* build's earlier work": a workspace is refused unless its own calls      *)
(* wrote every record of the recovery in it.                               *)
BuildBound ==
    inspect_upgrade # "Refused" =>
       \A i \in DOMAIN journal.now.records : journal.now.records[i].bound

(* upgrade_receipt.rs, "complete-last": when the receipt is complete, the  *)
(* progress chain, the recovery journal and every attempt that they name   *)
(* verify.  That needs faults of one kind: a resumed call takes a record   *)
(* as it reads it, and does not sync again what a call that was cut off    *)
(* had written, so that a later power loss can still take it back.         *)
UpgradeSealedStands ==
    receipt.now = "Complete" /\ (faults.stops = 0 \/ faults.losses = 0)
        => inspect_upgrade = "Sealed"

=============================================================================
