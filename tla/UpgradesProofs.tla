--------------------------- MODULE UpgradesProofs ---------------------------
(***************************************************************************)
(* What the two upgrades promise, for every limit on attempts and any      *)
(* number of cut-off calls and power losses.                               *)
(***************************************************************************)
EXTENDS Upgrades, TLAPS

Destinations == {"Return", "Initial", "Completed"}

RecoverySteps ==
    {"NewAttempt", "Fill", "SyncAttempt", "Publish", "SyncOutput", "Append", "SyncRecord"}

ActivationSteps ==
    {"ActivateGuard", "ActivateCopy", "ActivateSync", "ActivateUnlink", "ActivateFinish"}

(* The running call is a record; one that runs a recovery goes on with a   *)
(* step of the outer workspace, never with one of the activation.          *)
CallShape ==
    /\ call = [x \in DOMAIN call |-> call[x]]
    /\ "at" \in DOMAIN call
    /\ "then" \in DOMAIN call => call["then"] \in Destinations
    /\ call.at \in RecoverySteps => "then" \in DOMAIN call

(* Where the activation is, and what the target then is. *)
Fresh == /\ target.mark.may \subseteq {"Absent", "Empty"}
         /\ target.files = Sure("None") /\ target.told = FALSE

Guarded == target.mark = Sure("Guarded") /\ target.told = FALSE

Opening == /\ target.mark.may \subseteq {"Guarded", "Open"}
           /\ target.files = Sure("All")
           /\ target.told => target.mark = Sure("Open")

TargetShape ==
    /\ target = [mark |-> target.mark, files |-> target.files, told |-> target.told]
    /\ target.told \in BOOLEAN
    /\ target.mark = [now |-> target.mark.now, may |-> target.mark.may]
    /\ target.files = [now |-> target.files.now, may |-> target.files.may]
    /\ target.mark.now \in target.mark.may

TargetInv ==
    /\ CallShape /\ TargetShape
    /\ Fresh \/ Guarded \/ Opening
    /\ call.at = "ActivateGuard" => Fresh
    /\ call.at \in {"ActivateCopy", "ActivateSync", "ActivateUnlink"} => Guarded
    /\ call.at = "ActivateSync" => target.files.now = "All"
    /\ call.at = "ActivateUnlink" => target.files = Sure("All")
    /\ call.at = "ActivateFinish" => Opening /\ target.mark.now = "Open"

-----------------------------------------------------------------------------
(* A step of a call that is not the activation's leaves the target alone,  *)
(* and does not enter the activation.                                      *)
Elsewhere == UNCHANGED target /\ CallShape' /\ call'.at \notin ActivationSteps

(* GoTo moves a call to another step of its own kind. *)
LEMMA GoToShape ==
    ASSUME CallShape, NEW s, GoTo(s), s \in RecoverySteps => "then" \in DOMAIN call
    PROVE  CallShape' /\ call'.at = s /\ DOMAIN call' = DOMAIN call
<1> USE ZenonT(30)
<1>1. call' = [x \in DOMAIN call |-> IF x = "at" THEN s ELSE call[x]]
  BY DEF GoTo, CallShape
<1> QED BY <1>1 DEF CallShape

(* A call that starts with a record of one field has its shape. *)
LEMMA NewShape ==
    ASSUME NEW s, s \notin RecoverySteps, call' = [at |-> s]
    PROVE  CallShape' /\ call'.at = s
BY Zenon DEF CallShape

(* A call that ends leaves an idle operator. *)
LEMMA IdleShape == call' = Idle => CallShape' /\ call'.at = "Idle"
BY DEF CallShape, Idle, RecoverySteps

-----------------------------------------------------------------------------
(* The other calls of an upgrade do not come near the target.              *)

(* Every step of either upgrade keeps the invariant of the target. *)
LEMMA KeepsTarget ==
    TargetInv /\ (UpgradeNext \/ SchemaNext) => TargetInv'

(* Such a step keeps the invariant of the target. *)
<1>ElsewhereKeeps. TargetInv /\ Elsewhere => TargetInv'
  BY Zenon DEF TargetInv, Elsewhere, TargetShape, Fresh, Guarded, Opening, ActivationSteps

(* A call that begins to run a recovery has the fields of one. *)
<1>RunsShape.
    ASSUME NEW then \in Destinations, NEW b, RunsRecovery(then, b)
    PROVE  CallShape' /\ call'.at = "NewAttempt"
  BY <1>RunsShape, Zenon DEF CallShape, RunsRecovery, RecoverySteps

(* activate_upgrade_inner and activate_inner: each step leaves the target  *)
(* as the next one needs it.                                               *)
<1>ActivateKeeps. TargetInv /\ (ActivateStart \/ ActivateStep) => TargetInv'
  <2> USE ZenonT(30)
  <2> SUFFICES ASSUME TargetInv, ActivateStart \/ ActivateStep PROVE TargetInv'
    OBVIOUS
  <2> USE DEF TargetInv
  <2>1. CASE ActivateStart
    <3>1. CallShape' /\ call'.at = "ActivateGuard"
      BY <2>1, NewShape DEF ActivateStart, RecoverySteps
    <3>2. Fresh
      BY <2>1, SMT DEF ActivateStart, TargetShape, Guarded, Opening, Sure
    <3>3. target' = [mark |-> [now |-> "Empty", may |-> target.mark.may \union {"Empty"}],
                     files |-> Sure("None"), told |-> FALSE]
      BY <2>1, <3>2 DEF ActivateStart, TargetShape, Fresh, Change
    <3>4. TargetShape' /\ Fresh'
      BY <3>2, <3>3 DEF TargetShape, Fresh, Sure
    <3> QED BY <3>1, <3>4
  <2>2. CASE ActivateGuard
    <3>1. CallShape' /\ call'.at = "ActivateCopy"
      BY <2>2, GoToShape DEF ActivateGuard, RecoverySteps
    <3>2. target' = [mark |-> Sure("Guarded"), files |-> Sure("None"), told |-> FALSE]
      BY <2>2 DEF ActivateGuard, TargetShape, Fresh
    <3>3. TargetShape' /\ Guarded'
      BY <3>2 DEF TargetShape, Guarded, Sure
    <3> QED BY <3>1, <3>3
  <2>3. CASE ActivateCopy
    <3>1. Guarded
      BY <2>3 DEF ActivateCopy
    <3>2. /\ CallShape'
          /\ \/ call'.at = "ActivateCopy"
             \/ call'.at = "ActivateSync" /\ target'.files.now = "All"
      <4>1. CASE GoTo("ActivateCopy")
        BY <4>1, GoToShape DEF RecoverySteps
      <4>2. CASE /\ GoTo("ActivateSync")
                 /\ target' = [target EXCEPT !.files = Change(Change(@, "Some"), "All")]
        <5>1. target'.files.now = "All"
          BY <4>2 DEF TargetShape, Change
        <5> QED BY <4>2, <5>1, GoToShape DEF RecoverySteps
      <4> QED BY <2>3, <4>1, <4>2 DEF ActivateCopy
    <3>3. PICK c : target' = [target EXCEPT !.files = c] /\ c = [now |-> c.now, may |-> c.may]
      BY <2>3 DEF ActivateCopy, Change
    <3>4. target' = [mark |-> Sure("Guarded"), files |-> c, told |-> FALSE]
      BY <3>1, <3>3 DEF TargetShape, Guarded
    <3>5. TargetShape' /\ Guarded'
      BY <3>3, <3>4, SMT DEF TargetShape, Guarded, Sure
    <3> QED BY <3>2, <3>5
  <2>4. CASE ActivateSync
    <3>1. CallShape' /\ call'.at = "ActivateUnlink"
      BY <2>4, GoToShape DEF ActivateSync, RecoverySteps
    <3>2. target' = [mark |-> Sure("Guarded"), files |-> Sure("All"), told |-> FALSE]
      BY <2>4 DEF ActivateSync, TargetShape, Guarded, Sync
    <3>3. TargetShape' /\ Guarded' /\ target'.files = Sure("All")
      BY <3>2 DEF TargetShape, Guarded, Sure
    <3> QED BY <3>1, <3>3
  <2>5. CASE ActivateUnlink
    <3>1. CallShape' /\ call'.at = "ActivateFinish"
      BY <2>5, GoToShape DEF ActivateUnlink, RecoverySteps
    <3>2. target' = [mark |-> [now |-> "Open", may |-> {"Guarded", "Open"}],
                     files |-> Sure("All"), told |-> FALSE]
      <4>1. target.mark.may \union {"Open"} = {"Guarded", "Open"}
        BY <2>5, SMT DEF ActivateUnlink, Guarded, Sure
      <4>2. Change(target.mark, "Open") = [now |-> "Open", may |-> {"Guarded", "Open"}]
        BY <4>1 DEF Change
      <4> HIDE DEF TargetInv
      <4>3. target.files = Sure("All") /\ target.told = FALSE /\ TargetShape
        BY <2>5 DEF ActivateUnlink, TargetInv, Guarded
      <4> QED BY <2>5, <4>2, <4>3 DEF ActivateUnlink, TargetShape
    <3>3. TargetShape' /\ Opening' /\ target'.mark.now = "Open"
      BY <3>2 DEF TargetShape, Opening, Sure
    <3> QED BY <3>1, <3>3
  <2>6. CASE ActivateFinish
    <3>1. CallShape' /\ call'.at = "Idle"
      BY <2>6, IdleShape DEF ActivateFinish
    <3>2. target' = [mark |-> Sure("Open"), files |-> Sure("All"), told |-> TRUE]
      BY <2>6 DEF ActivateFinish, TargetShape, Opening, Sync
    <3>3. TargetShape' /\ Opening'
      BY <3>2 DEF TargetShape, Opening, Sure
    <3> QED BY <3>1, <3>3
  <2> QED BY <2>1, <2>2, <2>3, <2>4, <2>5, <2>6 DEF ActivateStep

(* The end of a call leaves the target as it is. *)
<1>StopKeeps. TargetInv /\ Stop /\ UNCHANGED target => TargetInv'
  BY IdleShape, <1>ElsewhereKeeps, Zenon DEF Stop, Elsewhere, ActivationSteps

(* Whatever a power loss leaves of the mark and of the files, the target   *)
(* stays fresh, guarded or open with all its files.                        *)
<1>LossKeeps. TargetInv /\ Loss => TargetInv'
  <2> USE ZenonT(30)
  <2> SUFFICES ASSUME TargetInv, Loss PROVE TargetInv'
    OBVIOUS
  <2> USE DEF TargetInv
  <2>1. CallShape' /\ call'.at = "Idle"
    BY IdleShape DEF Loss
  <2>2. PICK m \in target.mark.may, f \in target.files.may :
           target' = [target EXCEPT !.mark = Sure(m), !.files = Sure(f)]
    BY DEF Loss, Survivors
  <2>3. target' = [mark |-> Sure(m), files |-> Sure(f), told |-> target.told]
    BY <2>2 DEF TargetShape
  <2>4. TargetShape'
    BY <2>3 DEF TargetShape, Sure
  <2>5. CASE Fresh
    BY <2>1, <2>3, <2>4, <2>5, SMT DEF Fresh, Sure
  <2>6. CASE Guarded
    BY <2>1, <2>3, <2>4, <2>6, SMT DEF Guarded, Sure
  <2>7. CASE Opening
    BY <2>1, <2>3, <2>4, <2>7, SMTT(30) DEF Opening, Sure
  <2> QED BY <2>5, <2>6, <2>7

(* ResumesRecovery ends, goes on with `then', or runs the recovery. *)
<1>ResumesShape.
    ASSUME NEW then \in Destinations, NEW b, ResumesRecovery(then, b)
    PROVE  CallShape' /\ call'.at \notin ActivationSteps
  <2> USE <1>ResumesShape, ZenonT(30)
  <2>1. CASE RunsRecovery(then, b)
    BY <2>1, <1>RunsShape DEF ActivationSteps
  <2>2. CASE call' = Idle
    BY <2>2, IdleShape DEF ActivationSteps
  <2>3. CASE call' = [at |-> then]
    BY <2>3, NewShape DEF ActivationSteps, Destinations, RecoverySteps
  <2> QED BY <2>1, <2>2, <2>3 DEF ResumesRecovery

(* start_inner and resume_inner_at. *)
<1>RecoveryElsewhere. CallShape /\ RecoveryStep => CallShape' /\ call'.at \notin ActivationSteps
  <2> USE ZenonT(30)
  <2> SUFFICES ASSUME CallShape, RecoveryStep
               PROVE  CallShape' /\ call'.at \notin ActivationSteps
    OBVIOUS
  <2>0. call.at \in RecoverySteps /\ "then" \in DOMAIN call /\ call["then"] \in Destinations
    BY DEF RecoveryStep, NewAttempt, Fill, SyncAttempt, Publish, SyncOutput, AppendRecord,
           SyncRecord, RecoverySteps, CallShape
  <2>1. ASSUME NEW s, GoTo(s), s \in RecoverySteps \cup Destinations
        PROVE  CallShape' /\ call'.at \notin ActivationSteps
    BY <2>0, <2>1, GoToShape DEF RecoverySteps, Destinations, ActivationSteps
  <2>2. ASSUME NEW s \in RecoverySteps, NEW f, NEW v, f \notin {"at", "then"},
               call' = [call EXCEPT !.at = s, ![f] = v]
        PROVE  CallShape' /\ call'.at \notin ActivationSteps
    <3>1. call' = [x \in DOMAIN call |->
                      IF x = "at" THEN s ELSE IF x = f THEN v ELSE call[x]]
      BY <2>2 DEF CallShape
    <3> QED BY <2>0, <2>2, <3>1 DEF CallShape, RecoverySteps, ActivationSteps
  <2>3. CASE NewAttempt
    <3>1. call' = Idle \/ \E v : call' = [call EXCEPT !.at = "Fill", !.attempt = v]
      BY <2>3 DEF NewAttempt
    <3>2. ASSUME NEW v, call' = [call EXCEPT !.at = "Fill", !.attempt = v]
          PROVE  CallShape' /\ call'.at \notin ActivationSteps
      <4>1. "Fill" \in RecoverySteps /\ "attempt" \notin {"at", "then"}
        BY DEF RecoverySteps
      <4> QED BY <2>2, <3>2, <4>1
    <3> QED BY <3>1, <3>2, IdleShape DEF ActivationSteps
  <2>4. CASE Fill
    BY <2>1, <2>4 DEF Fill, RecoverySteps
  <2>5. CASE SyncAttempt
    BY <2>1, <2>5 DEF SyncAttempt, RecoverySteps
  <2>6. CASE Publish
    BY <2>1, <2>6 DEF Publish, RecoverySteps
  <2>7. CASE SyncOutput
    BY <2>1, <2>7 DEF SyncOutput, RecoverySteps
  <2>8. CASE AppendRecord
    BY <2>1, <2>8 DEF AppendRecord, RecoverySteps
  <2>9. CASE SyncRecord
    <3>1. \/ call' = Idle \/ GoTo(call["then"])
          \/ \E v : call' = [call EXCEPT !.at = "NewAttempt", !.records = v]
      BY <2>9 DEF SyncRecord
    <3> QED BY <2>0, <2>1, <2>2, <3>1, IdleShape DEF RecoverySteps, ActivationSteps
  <2> QED BY <2>3, <2>4, <2>5, <2>6, <2>7, <2>8, <2>9 DEF RecoveryStep

(* start_upgrade_inner and resume_upgrade_inner. *)
<1>ReceiptElsewhere. CallShape /\ ReceiptStep => CallShape' /\ call'.at \notin ActivationSteps
  <2> USE ZenonT(30)
  <2> SUFFICES ASSUME CallShape, ReceiptStep
               PROVE  CallShape' /\ call'.at \notin ActivationSteps
    OBVIOUS
  <2>1. ASSUME NEW s, GoTo(s), s \in {"SyncProgress", "WritePending", "SyncReceipt", "Rename"}
        PROVE  CallShape' /\ call'.at \notin ActivationSteps
    BY <2>1, GoToShape DEF RecoverySteps, ActivationSteps
  <2>2. ASSUME NEW then \in Destinations, NEW b, RunsRecovery(then, b)
        PROVE  CallShape' /\ call'.at \notin ActivationSteps
    BY <2>2, <1>RunsShape DEF ActivationSteps
  <2>3. CASE WritePreflight
    BY <2>2, <2>3, IdleShape DEF WritePreflight, StartsRecovery, Destinations, ActivationSteps
  <2>4. CASE WriteInitial \/ WriteRunning
    BY <2>1, <2>4 DEF WriteInitial, WriteRunning
  <2>5. CASE SyncProgress
    <3>1. \/ call' = Idle \/ RunsRecovery("Completed", TRUE) \/ GoTo("WritePending")
      BY <2>5 DEF SyncProgress
    <3> QED BY <2>1, <2>2, <3>1, IdleShape DEF Destinations, ActivationSteps
  <2>6. CASE WriteCompleted
    BY <2>1, <2>6 DEF WriteCompleted
  <2>7. CASE WritePending \/ SyncReceipt \/ RenameReceipt
    BY <2>1, <2>7, IdleShape DEF WritePending, SyncReceipt, RenameReceipt, ActivationSteps
  <2> QED BY <2>3, <2>4, <2>5, <2>6, <2>7 DEF ReceiptStep

(* start_inner and resume_inner of schema_upgrade.rs. *)
<1>SchemaElsewhere.
    CallShape /\ (start_schema_upgrade \/ resume_schema_upgrade \/ SchemaStep)
        => CallShape' /\ call'.at \notin ActivationSteps
  <2> USE ZenonT(30)
  <2> SUFFICES ASSUME CallShape, start_schema_upgrade \/ resume_schema_upgrade \/ SchemaStep
               PROVE  CallShape' /\ call'.at \notin ActivationSteps
    OBVIOUS
  <2> DEFINE Places == {"Plan", "Failed", "Intent", "Validated", "Sealed",
                        "Guard", "Mark", "Receipt", "Rename"}
  <2>1. ASSUME NEW s \in Places, GoTo(s) \/ call' = [at |-> s]
        PROVE  CallShape' /\ call'.at \notin ActivationSteps
    BY <2>1, GoToShape, NewShape DEF RecoverySteps, ActivationSteps
  <2>2. CASE start_schema_upgrade
    BY <2>1, <2>2 DEF start_schema_upgrade
  <2>3. CASE resume_schema_upgrade
    <3>1. \E s \in Places : call' = [at |-> s]
      BY <2>3 DEF resume_schema_upgrade
    <3> QED BY <2>1, <3>1
  <2>4. CASE AppendEntry
    <3> DEFINE s == CASE call.at = "Failed" -> "Intent" [] call.at = "Intent" -> "Guard"
                      [] call.at = "Validated" -> "Sealed" [] call.at = "Sealed" -> "Receipt"
    <3>1. GoTo(s)
      BY <2>4 DEF AppendEntry
    <3>2. s \in Places
      BY <2>4 DEF AppendEntry
    <3> QED BY <2>1, <3>1, <3>2
  <2>5. CASE MakeAttempt \/ MarkAttempt
    BY <2>1, <2>5 DEF MakeAttempt, MarkAttempt
  <2>6. CASE WritePlan \/ PendReceipt \/ PublishReceipt
    BY <2>1, <2>6, IdleShape DEF WritePlan, PendReceipt, PublishReceipt, ActivationSteps
  <2> QED BY <2>2, <2>3, <2>4, <2>5, <2>6 DEF SchemaStep

(* The calls of a legacy upgrade, at any step. *)
<1>UpgradeKeepsTarget. TargetInv /\ UpgradeNext => TargetInv'
  <2> USE ZenonT(30)
  <2> SUFFICES ASSUME TargetInv, UpgradeNext PROVE TargetInv'
    OBVIOUS
  <2>0. CallShape
    BY DEF TargetInv
  <2>1. CASE UpgradeCalls
    <3> DEFINE Away == CallShape' /\ call'.at \notin ActivationSteps
    <3>1. ASSUME StartUpgrade \/ AdmitRunning PROVE Away
      <4>1. call' = [at |-> "Preflight"] \/ call' = [at |-> "Running"]
        BY <3>1 DEF StartUpgrade, AdmitRunning
      <4> QED BY <4>1, NewShape, SMT DEF RecoverySteps, ActivationSteps
    <3>2. ASSUME ResumeUpgrade \/ start_upgrade_recovery \/ resume_upgrade_recovery PROVE Away
      <4>1. \/ ResumesRecovery("Completed", TRUE) \/ ResumesRecovery("Return", FALSE)
            \/ RunsRecovery("Return", FALSE)
        BY <3>2 DEF ResumeUpgrade, start_upgrade_recovery, resume_upgrade_recovery,
                          StartsRecovery
      <4> QED BY <4>1, <1>ResumesShape, <1>RunsShape DEF Destinations, ActivationSteps
    <3>3. ASSUME RecoveryStep PROVE Away
      BY <2>0, <3>3, <1>RecoveryElsewhere
    <3>4. ASSUME ReceiptStep PROVE Away
      BY <2>0, <3>4, <1>ReceiptElsewhere
    <3>5. Away /\ UNCHANGED target
      BY <2>1, <3>1, <3>2, <3>3, <3>4 DEF UpgradeCalls
    <3> QED BY <3>5, <1>ElsewhereKeeps DEF Elsewhere
  <2>2. CASE UpgradeActivates
    BY <2>2, <1>ActivateKeeps DEF UpgradeActivates
  <2>3. CASE UpgradeStops
    BY <2>3, <1>StopKeeps DEF UpgradeStops, AppendCut, ProgressCut
  <2>4. CASE UpgradeLoses
    BY <2>4, <1>LossKeeps DEF UpgradeLoses
  <2> QED BY <2>1, <2>2, <2>3, <2>4 DEF UpgradeNext

(* The calls of a schema upgrade, at any step. *)
<1>SchemaKeepsTarget. TargetInv /\ SchemaNext => TargetInv'
  <2> USE ZenonT(30)
  <2> SUFFICES ASSUME TargetInv, SchemaNext PROVE TargetInv'
    OBVIOUS
  <2>0. CallShape
    BY DEF TargetInv
  <2>1. CASE /\ start_schema_upgrade \/ resume_schema_upgrade \/ SchemaStep
             /\ UNCHANGED target
    BY <2>0, <2>1, <1>SchemaElsewhere, <1>ElsewhereKeeps DEF Elsewhere
  <2>2. CASE ActivateStep \/ ActivateStart
    BY <2>2, <1>ActivateKeeps
  <2>3. CASE SchemaStops
    BY <2>3, <1>StopKeeps DEF SchemaStops
  <2> QED BY <2>1, <2>2, <2>3 DEF SchemaNext
<1> QED BY <1>UpgradeKeepsTarget, <1>SchemaKeepsTarget, Zenon

(* activate_upgrade and activate_schema_upgrade: a target that opens has   *)
(* all its files, and one that a caller was told about stays open.         *)
THEOREM TargetIsWhole == Spec => []TargetNeverHalf
<1>1. Init => TargetInv
  BY DEF Init, ActivationInit, Idle, TargetInv, TargetShape, Fresh, CallShape, RecoverySteps, Sure
<1>2. TargetInv /\ [Next]_vars => TargetInv'
  <2>1. CASE UNCHANGED vars
    BY <2>1, Zenon DEF vars, upgradeVars, activationVars, TargetInv, TargetShape, CallShape,
                Fresh, Guarded, Opening
  <2> QED BY <2>1, KeepsTarget, Zenon DEF Next
<1>3. TargetInv => TargetNeverHalf
  BY DEF TargetInv, TargetShape, Fresh, Guarded, Opening, TargetNeverHalf, IsSure, Sure
<1> QED BY <1>1, <1>2, <1>3, PTL DEF Spec

-----------------------------------------------------------------------------
(* The invariant of the recovery of a legacy store and of the workspace    *)
(* around it: the journal never names an attempt that is not synced.       *)

(* An append that is cut off keeps the frames before it. *)
LEMMA TornFile ==
    ASSUME NEW a, NEW rs, NEW t
    PROVE  Torn([there |-> a, records |-> rs, torn |-> t])
             = [there |-> TRUE, records |-> rs, torn |-> TRUE]
<1> USE ZenonT(30)
<1>1. ASSUME NEW x, NEW y
      PROVE  [[there |-> a, records |-> rs, torn |-> t] EXCEPT !.there = x, !.torn = y]
               = [there |-> x, records |-> rs, torn |-> y]
  <2> DEFINE f == [there |-> a, records |-> rs, torn |-> t]
             g == [f EXCEPT !.there = x, !.torn = y]
             h == [there |-> x, records |-> rs, torn |-> y]
             D == {"there", "records", "torn"}
  <2>1. DOMAIN f = D /\ DOMAIN h = D /\ h = [i \in D |-> h[i]]
    OBVIOUS
  <2>2. g = [i \in D |-> IF i = "torn" THEN y ELSE IF i = "there" THEN x ELSE f[i]]
    BY <2>1
  <2>3. \A i \in D : g[i] = h[i]
    BY <2>2, SMT
  <2> QED BY <2>1, <2>2, <2>3
<1> QED BY <1>1 DEF Torn

-----------------------------------------------------------------------------
(* The recovery of a legacy upgrade. *)

RecordType == [kind : {"Checkpoint", "Final"}, attempt : Nat, from : Nat, to : Nat, bound : BOOLEAN]

ProgressType == [kind : {"Initial", "Running", "Completed"}, journal : Seq(RecordType)]

IsFile(f, R) ==
    /\ f = [there |-> f.there, records |-> f.records, torn |-> f.torn]
    /\ f.there \in BOOLEAN /\ f.torn \in BOOLEAN
    /\ f.records \in Seq(R)

IsCell(c) == c = [now |-> c.now, may |-> c.may] /\ c.now \in c.may

(* Journals are cells of files. *)
Journals(c, R) == IsCell(c) /\ \A f \in c.may : IsFile(f, R)

RecoveryShape ==
    /\ from \in 0..1 /\ max_attempts \in Nat
    /\ IsCell(room) /\ room.may \subseteq BOOLEAN
    /\ attempts = [a \in Numbers |-> attempts[a]]
    /\ \A a \in Numbers : IsCell(attempts[a])
    /\ Journals(journal, RecordType)

(* A chain whose attempts are complete and synced.  The attempts of its    *)
(* records grow, so that there are not more of them than attempts.         *)
Whole(rs) ==
    /\ Chained(rs)
    /\ \A i \in DOMAIN rs :
          /\ rs[i].attempt \in Numbers /\ rs[i].attempt >= i - 1 /\ rs[i].to <= 2
          /\ attempts[rs[i].attempt] = Sure(Holds(rs[i]))

(* Nothing is in a workspace that is not there, and whatever the journal   *)
(* turns out to have is whole.                                             *)
RecoveryData ==
    /\ RecoveryShape
    /\ ~room.now => journal = Sure(NoFile) /\ \A a \in Numbers : attempts[a].now = Absent
    /\ \A f \in journal.may : Decodes(f) => Whole(f.records)

(* A recovery that can go on. *)
Ready == room.now /\ Decodes(journal.now) /\ ~Completed(journal.now.records)

Working == {"Fill", "SyncAttempt", "Publish", "SyncOutput", "Append"}

Made == IF Goal(call.records).kind = "Output" THEN Content("Pending", 2) ELSE Goal(call.records)

(* The records that the running call on the recovery goes on from. *)
RunAt ==
    /\ call.at \in RecoverySteps =>
          /\ {"at", "records", "attempt", "then", "bound"} \subseteq DOMAIN call
          /\ call.bound \in BOOLEAN /\ call.records \in Seq(RecordType)
          /\ call.records # <<>> => Whole(call.records) /\ ~Completed(call.records)
          /\ call["then"] = "Initial" => call.records = <<>>
          /\ call.at # "SyncRecord" => journal.now.records = call.records /\ ~journal.now.torn
    /\ call.at = "NewAttempt" => (call.records = <<>> <=> ~room.now)

(* Its attempt, which is past those of every record. *)
WorkAt ==
    /\ call.at \in Working \cup {"SyncRecord"} =>
          /\ room.now /\ call.attempt \in Numbers
          /\ call.records = <<>> => call.attempt = 0
          /\ \A i \in DOMAIN call.records : call.records[i].attempt < call.attempt
    /\ call.at \in Working =>
          \A f \in journal.may : Decodes(f) =>
             \A i \in DOMAIN f.records : f.records[i].attempt # call.attempt

(* What it has made of the attempt, and recorded. *)
StepAt ==
    /\ call.at = "SyncAttempt" => attempts[call.attempt].now = Made
    /\ call.at \in {"Publish", "SyncOutput"} => Goal(call.records).kind = "Output"
    /\ call.at = "SyncOutput" => attempts[call.attempt].now = Content("Output", 2)
    /\ call.at \in {"Append", "SyncRecord"} => attempts[call.attempt] = Sure(Goal(call.records))
    /\ call.at = "SyncRecord" => journal.now = File(Append(call.records, RecordOf(call)))

RecoveryAt == RunAt /\ WorkAt /\ StepAt

(* What the calls that wrap it have. *)
OuterAt ==
    /\ Journals(progress, ProgressType)
    /\ call.at \in {"Initial", "Running"} => Ready
    /\ call.at = "Running" => Steps = 1
    /\ call.at = "SyncProgress" /\ Steps = 2 => Ready

RecoveryInv == RecoveryData /\ RecoveryAt /\ OuterAt

-----------------------------------------------------------------------------
(* A chain has a last record. *)
HasLast(rs) ==
    /\ rs # <<>> /\ Len(rs) \in Nat /\ Len(rs) > 0 /\ Len(rs) \in DOMAIN rs
    /\ Last(rs) = rs[Len(rs)] /\ Last(rs) \in RecordType
    /\ Last(rs).to \in 0..2
    /\ ~Completed(rs) => Last(rs).kind = "Checkpoint"

(* The last record of a chain. *)
LEMMA LastOfChain ==
    ASSUME RecoveryShape, NEW rs \in Seq(RecordType), Whole(rs)
    PROVE  HasLast(rs)
<1>1. Len(rs) \in Nat /\ Len(rs) > 0
  BY DEF Whole, Chained
<1>2. rs # <<>> /\ Len(rs) \in DOMAIN rs /\ Last(rs) = rs[Len(rs)] /\ rs[Len(rs)] \in RecordType
  BY <1>1 DEF Last
<1>3. rs[Len(rs)].to <= 2 /\ rs[Len(rs)].to \in Nat
  BY <1>2, Zenon DEF Whole, RecordType
<1>4. ~Completed(rs) => Last(rs).kind = "Checkpoint"
  BY <1>2, Zenon DEF Completed, RecordType
<1> QED BY <1>1, <1>2, <1>3, <1>4 DEF HasLast

(* What the call c appends to the records rs. *)
NextIs(c, rs) ==
    /\ RecordOf(c) \in RecordType /\ RecordOf(c).attempt = c.attempt
    /\ RecordOf(c).bound = c.bound
    /\ Holds(RecordOf(c)) = Goal(rs) /\ RecordOf(c).to <= 2
    /\ rs = <<>> => RecordOf(c) = Record("Checkpoint", c.attempt, from, from, c.bound)
    /\ rs # <<>> =>
         \/ /\ RecordOf(c).kind = "Checkpoint" /\ RecordOf(c).from = Last(rs).to
            /\ RecordOf(c).to = Last(rs).to + 1
         \/ RecordOf(c).kind = "Final" /\ Last(rs).to = 2

(* What the next attempt makes, and the record of it. *)
LEMMA NextRecord ==
    ASSUME RecoveryShape, NEW c, NEW rs \in Seq(RecordType), c.records = rs,
           c.attempt \in Numbers, c.bound \in BOOLEAN,
           rs # <<>> => Whole(rs) /\ ~Completed(rs)
    PROVE  NextIs(c, rs)
<1> USE DEF NextIs
<1>0. c.attempt \in Nat /\ from \in Nat /\ from <= 1
  BY DEF RecoveryShape, Numbers
<1>1. CASE rs = <<>>
  <2>1. Goal(rs) = Content("Store", from)
    BY <1>1, Zenon DEF Goal, Version
  <2>2. Goal(rs).kind = "Store"
    BY <2>1 DEF Content
  <2>3. RecordOf(c) = Record("Checkpoint", c.attempt, from, from, c.bound)
    BY <1>1, <2>2, Zenon DEF RecordOf, Version
  <2> QED BY <1>0, <1>1, <2>1, <2>3 DEF Record, RecordType, Holds
<1>2. CASE rs # <<>> /\ Last(rs).to < 2
  <2>1. Last(rs).to \in 0..1
    BY <1>2, LastOfChain DEF HasLast
  <2>2. Goal(rs) = Content("Store", Last(rs).to + 1)
    BY <1>2, Zenon DEF Goal, Version
  <2>3. Goal(rs).kind = "Store"
    BY <2>2 DEF Content
  <2>4. RecordOf(c) = Record("Checkpoint", c.attempt, Last(rs).to, Last(rs).to + 1, c.bound)
    BY <1>2, <2>3, Zenon DEF RecordOf, Version
  <2> QED BY <1>0, <1>2, <2>1, <2>2, <2>4 DEF Record, RecordType, Holds
<1>3. CASE rs # <<>> /\ ~(Last(rs).to < 2)
  <2>1. Last(rs).to = 2
    BY <1>3, LastOfChain DEF HasLast
  <2>2. Goal(rs) = Content("Output", 2)
    BY <1>3, Zenon DEF Goal
  <2>3. Goal(rs).kind = "Output"
    BY <2>2 DEF Content
  <2>4. RecordOf(c) = Record("Final", c.attempt, 2, 2, c.bound)
    BY <2>3, Zenon DEF RecordOf
  <2> QED BY <1>0, <1>3, <2>1, <2>2, <2>4 DEF Record, RecordType, Holds
<1> QED BY <1>1, <1>2, <1>3, Zenon DEF NextIs

-----------------------------------------------------------------------------
(* Steps that leave the recovery as it is. *)

(* What was true of its files stays true. *)
LEMMA DataSame ==
    ASSUME UNCHANGED recoveryVars
    PROVE  (RecoveryData' <=> RecoveryData) /\ (Ready' <=> Ready)
<1> USE ZenonT(30)
<1>1. /\ from' = from /\ max_attempts' = max_attempts /\ room' = room
      /\ attempts' = attempts /\ journal' = journal
  BY DEF recoveryVars
<1>2. RecoveryShape' <=> RecoveryShape
  BY <1>1 DEF RecoveryShape, Numbers
<1>3. \A rs : Whole(rs)' <=> Whole(rs)
  BY <1>1, SMT DEF Whole, Chained, Numbers, Holds
<1>4. Ready' <=> Ready
  BY <1>1 DEF Ready
<1>5. Numbers' = Numbers
  BY <1>1 DEF Numbers
<1> QED BY <1>1, <1>2, <1>3, <1>4, <1>5 DEF RecoveryData

(* What a recovery that can go on has. *)
ReadyToRun ==
    /\ Whole(journal.now.records) /\ journal.now.records # <<>>
    /\ journal.now.records \in Seq(RecordType)
    /\ ~Completed(journal.now.records) /\ ~journal.now.torn

(* The records that a call reads and takes over. *)
LEMMA ReadyRecords ==
    ASSUME RecoveryData, Ready
    PROVE  ReadyToRun
<1> USE ZenonT(30)
<1>1. /\ RecoveryShape /\ journal.now \in journal.may /\ IsFile(journal.now, RecordType)
      /\ Decodes(journal.now)
  BY DEF RecoveryData, RecoveryShape, Journals, IsCell, Ready
<1>2. Whole(journal.now.records) /\ journal.now.records \in Seq(RecordType) /\ ~journal.now.torn
  BY <1>1 DEF RecoveryData, IsFile, Decodes
<1> QED BY <1>1, <1>2, LastOfChain DEF ReadyToRun, HasLast, Ready

-----------------------------------------------------------------------------
(* What was written is read back. *)
LEMMA FileReads == \A rs : File(rs).records = rs /\ Decodes(File(rs))
BY Zenon DEF File, Decodes

(* Files with records in R. *)
FilesOf(R) ==
    /\ \A rs \in Seq(R) : IsFile(File(rs), R) /\ File(rs).records = rs
    /\ \A f : IsFile(f, R) => /\ IsFile(Torn(f), R) /\ Torn(f).torn
                              /\ Torn(f).records = f.records
    /\ IsFile(NoFile, R)

(* What appends, cut-off appends, syncs and losses make of them. *)
LEMMA FileShapes ==
    ASSUME NEW R
    PROVE  FilesOf(R)
<1> USE ZenonT(30)
<1>1. ASSUME NEW rs \in Seq(R) PROVE IsFile(File(rs), R) /\ File(rs).records = rs
  BY DEF IsFile, File
<1>2. ASSUME NEW f, IsFile(f, R) PROVE IsFile(Torn(f), R) /\ Torn(f).torn /\ Torn(f).records = f.records
  <2>1. PICK a, rs, t : f = [there |-> a, records |-> rs, torn |-> t] /\ rs = f.records
    BY <1>2 DEF IsFile
  <2>2. Torn(f) = [there |-> TRUE, records |-> f.records, torn |-> TRUE]
    <3>1. Torn([there |-> a, records |-> rs, torn |-> t])
            = [there |-> TRUE, records |-> rs, torn |-> TRUE]
      BY TornFile
    <3>2. Torn(f) = Torn([there |-> a, records |-> rs, torn |-> t])
      BY <2>1
    <3>3. [there |-> TRUE, records |-> f.records, torn |-> TRUE]
            = [there |-> TRUE, records |-> rs, torn |-> TRUE]
      BY <2>1
    <3> QED BY <3>1, <3>2, <3>3
  <2> QED BY <1>2, <2>2, SMT DEF IsFile
<1>3. IsFile(NoFile, R)
  BY SMT DEF IsFile, NoFile
<1> QED BY <1>1, <1>2, <1>3 DEF FilesOf

(* What appends, cut-off appends, syncs and losses make of a journal. *)
StaysJournal(c, R) ==
    /\ \A r \in R : Journals(Write(c, r), R)
    /\ Journals(WriteCut(c), R) /\ Journals(Sync(c), R)
    /\ \A d \in Survivors(c) : Journals(d, R)
    /\ \A r \in R : Write(c, r).now = File(Append(c.now.records, r))

(* An append, whole or cut off, a sync and a power loss make a journal of  *)
(* a journal.                                                              *)
LEMMA JournalShapes ==
    ASSUME NEW R, NEW c, Journals(c, R)
    PROVE  StaysJournal(c, R)
<1> USE ZenonT(30)
<1>1. IsFile(c.now, R) /\ c.now \in c.may
  BY DEF Journals, IsCell
<1>2. ASSUME NEW r \in R
      PROVE  Journals(Write(c, r), R) /\ Write(c, r).now = File(Append(c.now.records, r))
  <2> DEFINE new == File(Append(c.now.records, r))
  <2>1. Append(c.now.records, r) \in Seq(R)
    BY <1>1, SMT DEF IsFile
  <2>2. IsFile(new, R) /\ IsFile(Torn(c.now), R)
    BY <1>1, <2>1, FileShapes DEF FilesOf
  <2> HIDE DEF new
  <2>3. Write(c, r) = [now |-> new, may |-> c.may \union {Torn(c.now), new}]
    BY DEF Write, new
  <2>4. Write(c, r).now = new /\ Write(c, r).may = c.may \union {Torn(c.now), new}
    BY <2>3, SMT
  <2>5. Journals(Write(c, r), R)
    BY <2>2, <2>3, <2>4 DEF Journals, IsCell
  <2> QED BY <2>4, <2>5 DEF new
<1>3. Journals(WriteCut(c), R)
  <2>1. IsFile(Torn(c.now), R)
    BY <1>1, FileShapes DEF FilesOf
  <2> QED BY <2>1 DEF Journals, IsCell, WriteCut, Change
<1>4. \A f \in c.may : Journals(Sure(f), R)
  BY DEF Journals, IsCell, Sure
<1> QED BY <1>1, <1>2, <1>3, <1>4 DEF StaysJournal, Sync, Survivors

(* The steps of start_upgrade_inner and resume_upgrade_inner. *)
LEMMA ProgressSteps ==
    ASSUME Journals(progress, ProgressType), NEW r \in ProgressType, progress' = Write(progress, r)
    PROVE  Journals(progress', ProgressType) /\ Steps' = Steps + 1 /\ Steps \in Nat
<1>1. progress.now.records \in Seq(ProgressType)
  BY Zenon DEF Journals, IsCell, IsFile
<1>2. Journals(progress', ProgressType)
  BY JournalShapes, Zenon DEF StaysJournal
<1>3. progress'.now = File(Append(progress.now.records, r))
  BY JournalShapes, Zenon DEF StaysJournal
<1>4. progress'.now.records = Append(progress.now.records, r)
  BY <1>3 DEF File
<1> QED BY <1>1, <1>2, <1>4 DEF Steps

-----------------------------------------------------------------------------
(* The steps of a recovery. *)

(* What changes and syncs make of a cell. *)
StaysCell(c) ==
    /\ \A v : IsCell(Change(c, v)) /\ Change(c, v).now = v /\ Change(c, v).may = c.may \union {v}
    /\ IsCell(Sync(c)) /\ Sync(c).now = c.now /\ Sync(c) = Sure(c.now)
    /\ IsCell(EntrySync(c)) /\ EntrySync(c).now = c.now
    /\ \A v : c = Sure(v) => EntrySync(c) = c

(* A cell that is changed or synced stays a cell. *)
LEMMA CellShapes ==
    ASSUME NEW c, IsCell(c)
    PROVE  StaysCell(c)
<1> USE ZenonT(30)
<1>1. ASSUME NEW v PROVE IsCell(Change(c, v)) /\ Change(c, v).now = v /\ Change(c, v).may = c.may \union {v}
  BY DEF IsCell, Change
<1>2. IsCell(Sync(c)) /\ Sync(c).now = c.now /\ Sync(c) = Sure(c.now)
  BY DEF IsCell, Sync, Sure
<1>3. EntrySync(c) = [now |-> c.now, may |-> {v \in c.may : v = Absent <=> c.now = Absent}]
  BY SMT DEF IsCell, EntrySync
<1>4. IsCell(EntrySync(c)) /\ EntrySync(c).now = c.now
  BY <1>3, SMT DEF IsCell
<1>5. ASSUME NEW v, c = Sure(v) PROVE EntrySync(c) = c
  <2>1. c.now = v /\ c.may = {v} /\ c = [now |-> v, may |-> {v}]
    BY <1>5 DEF Sure
  <2>2. {w \in c.may : w = Absent <=> c.now = Absent} = {v}
    BY <2>1
  <2> QED BY <1>3, <2>1, <2>2
<1> QED BY <1>1, <1>2, <1>4, <1>5 DEF StaysCell

(* The attempt a is now c, and the others stay. *)
OnlyChanges(a, c) ==
    /\ attempts' = [x \in Numbers |-> attempts'[x]] /\ attempts'[a] = c
    /\ \A x \in Numbers : IsCell(attempts'[x])
    /\ \A x \in Numbers : x # a => attempts'[x] = attempts[x]

(* A step that changes one attempt. *)
LEMMA OneAttempt ==
    ASSUME RecoveryShape, NEW a \in Numbers, NEW c, IsCell(c), attempts' = [attempts EXCEPT ![a] = c]
    PROVE  OnlyChanges(a, c)
<1> USE ZenonT(30)
<1>1. attempts' = [x \in Numbers |-> IF x = a THEN c ELSE attempts[x]]
  BY DEF RecoveryShape
<1> QED BY <1>1 DEF OnlyChanges, RecoveryShape

(* The attempt of the call is synced, and what was sure stays. *)
OwnSynced ==
    /\ attempts' = [x \in Numbers |-> attempts'[x]]
    /\ attempts'[call.attempt] = Sure(attempts[call.attempt].now)
    /\ \A x \in Numbers : IsCell(attempts'[x])
    /\ \A x \in Numbers : \A v : x # call.attempt /\ attempts[x] = Sure(v) => attempts'[x] = attempts[x]

(* Syncing an attempt and the entries of the others. *)
LEMMA AttemptsSynced ==
    ASSUME RecoveryShape, call.attempt \in Numbers, attempts' = SyncAttempts
    PROVE  OwnSynced
<1> USE ZenonT(30)
<1>1. attempts' = [x \in Numbers |-> IF x = call.attempt THEN Sync(attempts[x]) ELSE EntrySync(attempts[x])]
  BY DEF SyncAttempts
<1>2. \A x \in Numbers : IsCell(attempts[x])
  BY DEF RecoveryShape
<1>3. ASSUME NEW x \in Numbers
      PROVE  /\ IsCell(Sync(attempts[x])) /\ IsCell(EntrySync(attempts[x]))
             /\ Sync(attempts[x]) = Sure(attempts[x].now)
             /\ \A v : attempts[x] = Sure(v) => EntrySync(attempts[x]) = attempts[x]
  BY <1>2, CellShapes DEF StaysCell
<1> QED BY <1>1, <1>3, SMT DEF OwnSynced

-----------------------------------------------------------------------------
(* The calls on the upgrade of a legacy store. *)
LEMMA UpgradeKeepsRecords ==
    RecoveryInv /\ CallShape /\ UpgradeNext => RecoveryInv'

(* validate_chain accepts a whole chain and the record of one more attempt *)
(* that is complete and synced.                                            *)
<1>ChainAppend.
    ASSUME RecoveryShape, NEW c, NEW rs \in Seq(RecordType), c.records = rs,
           c.attempt \in Numbers, c.bound \in BOOLEAN,
           rs # <<>> => Whole(rs) /\ ~Completed(rs),
           rs = <<>> => c.attempt = 0,
           \A i \in DOMAIN rs : rs[i].attempt < c.attempt,
           attempts[c.attempt] = Sure(Goal(rs))
    PROVE  /\ Append(rs, RecordOf(c)) \in Seq(RecordType)
           /\ Whole(Append(rs, RecordOf(c)))
  <2> USE <1>ChainAppend
  <2> DEFINE r == RecordOf(c)
             new == Append(rs, r)
             N == Len(rs)
  <2>1. /\ r \in RecordType /\ r.attempt = c.attempt /\ r.bound = c.bound
        /\ Holds(r) = Goal(rs) /\ r.to <= 2
        /\ rs = <<>> => r = Record("Checkpoint", c.attempt, from, from, c.bound)
        /\ rs # <<>> => \/ r.kind = "Checkpoint" /\ r.from = Last(rs).to /\ r.to = Last(rs).to + 1
                        \/ r.kind = "Final" /\ Last(rs).to = 2
    BY NextRecord, Zenon DEF NextIs
  <2> HIDE DEF r
  <2>2. /\ N \in Nat /\ DOMAIN new = 1..(N + 1) /\ Len(new) = N + 1 /\ new[N + 1] = r
        /\ \A i \in 1..N : new[i] = rs[i]
        /\ DOMAIN rs = 1..N /\ new \in Seq(RecordType)
        /\ rs = <<>> <=> N = 0
    BY <2>1
  <2>3. max_attempts \in Nat /\ c.attempt \in Nat /\ c.attempt < max_attempts
    BY DEF RecoveryShape, Numbers
  <2>4. N <= c.attempt
    <3>1. CASE rs = <<>>
      BY <2>2, <2>3, <3>1
    <3>2. CASE rs # <<>>
      <4>1. rs[N].attempt >= N - 1 /\ rs[N].attempt < c.attempt /\ rs[N].attempt \in Nat
        BY <2>2, <3>2 DEF Whole, Numbers
      <4> QED BY <2>2, <2>3, <4>1
    <3> QED BY <3>1, <3>2, Zenon
  <2> HIDE DEF new
  <2>5. Chained(new)
    <3>1. Len(new) \in 1..max_attempts
      BY <2>2, <2>3, <2>4
    <3>2. new[1] = Record("Checkpoint", 0, from, from, new[1].bound)
      <4>1. CASE rs = <<>>
        BY <2>1, <2>2, <4>1 DEF Record
      <4>2. CASE rs # <<>>
        <5>1. 1 \in 1..N /\ new[1] = rs[1]
          BY <2>2, <4>2
        <5>2. rs[1] = Record("Checkpoint", 0, from, from, rs[1].bound)
          BY <4>2, Zenon DEF Whole, Chained
        <5> QED BY <5>1, <5>2, Zenon
      <4> QED BY <4>1, <4>2, Zenon
    <3>3. ASSUME NEW i \in 2..(N + 1)
          PROVE  /\ new[i].attempt > new[i - 1].attempt /\ new[i].attempt < max_attempts
                 /\ \/ /\ new[i].kind = "Checkpoint" /\ new[i - 1].kind = "Checkpoint"
                       /\ new[i].from = new[i - 1].to /\ new[i].to = new[i - 1].to + 1
                       /\ new[i].to <= 2
                    \/ new[i].kind = "Final" /\ i = N + 1 /\ new[i - 1].to = 2
      <4>1. CASE i \in 2..N
        <5>1. new[i] = rs[i] /\ new[i - 1] = rs[i - 1] /\ rs # <<>>
          BY <2>2, <4>1
        <5>2. /\ rs[i].attempt > rs[i - 1].attempt /\ rs[i].attempt < max_attempts
              /\ \/ /\ rs[i].kind = "Checkpoint" /\ rs[i - 1].kind = "Checkpoint"
                    /\ rs[i].from = rs[i - 1].to /\ rs[i].to = rs[i - 1].to + 1 /\ rs[i].to <= 2
                 \/ rs[i].kind = "Final" /\ i = N /\ rs[i - 1].to = 2
          BY <4>1, <5>1, Zenon DEF Whole, Chained
        <5>3. rs[i].kind = "Final" => i # N
          BY <5>1, Zenon DEF Completed, Last
        <5> QED BY <5>1, <5>2, <5>3, Zenon
      <4>2. CASE i = N + 1
        <5>1. new[i] = r /\ i - 1 = N /\ N \in 1..N /\ new[i - 1] = rs[N] /\ rs # <<>>
          BY <2>2, <4>2
        <5>2. Last(rs) = rs[N] /\ Last(rs).kind = "Checkpoint"
          BY <5>1, LastOfChain, Zenon DEF HasLast
        <5>3. rs[N] \in RecordType /\ rs[N].attempt < c.attempt
          BY <2>2, <5>1
        <5>4. rs[N].attempt \in Nat
          BY <5>3, Zenon DEF RecordType
        <5> QED BY <2>1, <2>3, <4>2, <5>1, <5>2, <5>3, <5>4
      <4> QED BY <2>2, <4>1, <4>2
    <3> QED BY <2>2, <3>1, <3>2, <3>3, Zenon DEF Chained
  <2>6. ASSUME NEW i \in 1..(N + 1)
        PROVE  /\ new[i].attempt \in Numbers /\ new[i].attempt >= i - 1 /\ new[i].to <= 2
               /\ attempts[new[i].attempt] = Sure(Holds(new[i]))
    <3>1. CASE i \in 1..N
      BY <2>2, <3>1 DEF Whole
    <3>2. CASE i = N + 1
      BY <2>1, <2>2, <2>3, <2>4, <3>2
    <3> QED BY <2>2, <3>1, <3>2
  <2> QED BY <2>2, <2>5, <2>6, Zenon DEF Whole, r, new

(* A whole chain stays whole while its attempts stay. *)
<1>WholeKept.
    ASSUME NEW rs, Whole(rs), UNCHANGED <<from, max_attempts>>,
           \A i \in DOMAIN rs : attempts'[rs[i].attempt] = attempts[rs[i].attempt]
    PROVE  Whole(rs)'
  BY <1>WholeKept DEF Whole, Chained, Numbers, Holds

(* The attempts of a whole chain are used. *)
<1>WholeUsed.
    ASSUME NEW rs, Whole(rs), NEW i \in DOMAIN rs
    PROVE  rs[i].attempt \in Used
  <2> USE <1>WholeUsed, ZenonT(30)
  <2>1. Holds(rs[i]) # Absent
    BY DEF Holds, Content, Absent
  <2>2. rs[i].attempt \in Numbers /\ attempts[rs[i].attempt] = Sure(Holds(rs[i]))
    BY DEF Whole
  <2>3. attempts[rs[i].attempt].now = Holds(rs[i])
    BY <2>2, SMT DEF Sure
  <2> QED BY <2>1, <2>2, <2>3 DEF Used

(* A call elsewhere. *)
<1>AwayKeeps.
    ASSUME RecoveryData, UNCHANGED recoveryVars, call'.at \notin RecoverySteps
    PROVE  RecoveryData' /\ RecoveryAt'
  <2> USE <1>AwayKeeps, ZenonT(30)
  <2>1. RecoveryData'
    BY DataSame
  <2>2. RecoveryAt'
    BY DEF RecoveryAt, RunAt, WorkAt, StepAt, RecoverySteps, Working
  <2> QED BY <2>1, <2>2

(* A recovery is started in a workspace that is not there, or goes on with *)
(* records that are whole.                                                 *)
<1>RunsKeeps.
    ASSUME RecoveryData, UNCHANGED recoveryVars, NEW then \in Destinations, NEW b \in BOOLEAN,
           RunsRecovery(then, b), ~room.now \/ (Ready /\ then # "Initial")
    PROVE  RecoveryData' /\ RecoveryAt' /\ call'.at = "NewAttempt"
  <2> USE <1>RunsKeeps, ZenonT(30)
  <2>1. RecoveryData' /\ (Ready' <=> Ready) /\ journal' = journal /\ room' = room
    BY DataSame DEF recoveryVars
  <2>0. PICK rs : rs = journal.now.records
    OBVIOUS
  <2>2. call' = [at |-> "NewAttempt", records |-> rs, attempt |-> 0, then |-> then, bound |-> b]
    BY <2>0 DEF RunsRecovery
  <2>3. /\ rs \in Seq(RecordType) /\ ~journal.now.torn
        /\ rs = <<>> <=> ~room.now
        /\ rs # <<>> => Whole(rs)' /\ ~Completed(rs) /\ then # "Initial"
    <3>1. CASE ~room.now
      <4>1. journal.now = NoFile
        BY <3>1, SMT DEF RecoveryData, Sure
      <4>2. rs = <<>> /\ journal.now.torn = FALSE
        BY <2>0, <4>1, SMT DEF NoFile
      <4> QED BY <3>1, <4>2, SMT
    <3>2. CASE room.now /\ Ready /\ then # "Initial"
      <4>1. Whole(rs)'
        <5>1. Whole(rs)
          BY <2>0, <3>2, ReadyRecords DEF ReadyToRun
        <5> QED BY <5>1, <1>WholeKept DEF recoveryVars
      <4> QED BY <2>0, <3>2, <4>1, ReadyRecords DEF ReadyToRun
    <3> QED BY <3>1, <3>2
  <2>4. /\ call'.at = "NewAttempt" /\ call'.records = rs /\ call'["then"] = then /\ call'.bound = b
        /\ DOMAIN call' = {"at", "records", "attempt", "then", "bound"}
    BY <2>2
  <2>5. journal'.now.records = rs
    BY <2>0, <2>1
  <2>6. RecoveryAt'
    <3>1. Whole(rs)' => Whole(call.records)'
      BY <2>4, SMT DEF Whole, Chained, Numbers, Holds
    <3>2. call'.records # <<>> => Whole(call.records)' /\ ~Completed(call.records)'
      BY <2>3, <2>4, <3>1 DEF Completed
    <3>3. call'.at \in RecoverySteps \ (Working \cup {"SyncRecord"})
      BY <2>4 DEF RecoverySteps, Working
    <3> QED BY <2>1, <2>3, <2>4, <2>5, <3>2, <3>3 DEF RecoveryAt, RunAt, WorkAt, StepAt, Working
  <2> QED BY <2>1, <2>4, <2>6

(* A call that does not wait to run the recovery. *)
<1>OuterAway.
    ASSUME Journals(progress, ProgressType)', call'.at \notin {"Initial", "Running", "SyncProgress"}
    PROVE  OuterAt'
  BY <1>OuterAway, Zenon DEF OuterAt

(* The steps of the outer workspace leave the recovery as it is, and run   *)
(* it where it can go on.                                                  *)
<1>ReceiptKeeps.
    ASSUME RecoveryInv, CallShape, ReceiptStep
    PROVE  RecoveryInv'
  <2> USE <1>ReceiptKeeps, ZenonT(30)
  <2> USE DEF RecoveryInv
  <2>0. UNCHANGED recoveryVars /\ Journals(progress, ProgressType) /\ (Ready' <=> Ready)
    <3>1. UNCHANGED recoveryVars
      BY DEF ReceiptStep, WritePreflight, WriteInitial, WriteRunning, SyncProgress, WriteCompleted,
             WritePending, SyncReceipt, RenameReceipt
    <3> QED BY <3>1, DataSame DEF OuterAt
  <2>1. ASSUME NEW s, GoTo(s), s \notin RecoverySteps
        PROVE  RecoveryData' /\ RecoveryAt' /\ call'.at = s
    <3>1. call'.at = s
      BY <2>1, GoToShape
    <3> QED BY <2>0, <2>1, <3>1, <1>AwayKeeps
  <2>2. ASSUME call' = Idle PROVE RecoveryData' /\ RecoveryAt' /\ call'.at = "Idle"
    BY <2>0, <2>2, IdleShape, <1>AwayKeeps DEF RecoverySteps
  <2>3. ASSUME NEW r \in ProgressType, progress' = Write(progress, r)
        PROVE  Journals(progress, ProgressType)' /\ Steps' = Steps + 1 /\ Steps \in Nat
    BY <2>0, <2>3, ProgressSteps
  <2>4. ASSUME UNCHANGED progress PROVE Journals(progress, ProgressType)' /\ Steps' = Steps
    BY <2>0, <2>4 DEF Steps
  <2>5. journal.now.records \in Seq(RecordType)
    BY DEF RecoveryData, RecoveryShape, Journals, IsCell, IsFile
  <2>6. CASE WritePreflight
    <3>0. Journals(progress, ProgressType)'
      BY <2>4, <2>6 DEF WritePreflight
    <3>1. CASE call' = Idle
      BY <2>2, <3>0, <3>1, <1>OuterAway
    <3>2. CASE StartsRecovery("Initial", TRUE)
      <4>1. RecoveryData' /\ RecoveryAt' /\ call'.at = "NewAttempt"
        BY <2>0, <3>2, <1>RunsKeeps DEF StartsRecovery, Destinations
      <4> QED BY <3>0, <4>1, <1>OuterAway
    <3> QED BY <2>6, <3>1, <3>2 DEF WritePreflight
  <2>7. CASE WriteInitial
    <3>1. call.at = "Initial" /\ GoTo("SyncProgress") /\ progress' = Write(progress, Progress("Initial"))
      BY <2>7 DEF WriteInitial
    <3>2. Progress("Initial") \in ProgressType
      BY <2>5 DEF Progress, ProgressType
    <3>3. RecoveryData' /\ RecoveryAt' /\ call'.at = "SyncProgress"
      BY <2>1, <3>1 DEF RecoverySteps
    <3>4. Journals(progress, ProgressType)' /\ Ready'
      BY <2>0, <2>3, <3>1, <3>2, SMT DEF OuterAt
    <3> QED BY <3>3, <3>4 DEF OuterAt
  <2>8. CASE WriteRunning
    <3> DEFINE r == [progress.now.records[1] EXCEPT !.kind = "Running"]
    <3>1. call.at = "Running" /\ GoTo("SyncProgress") /\ progress' = Write(progress, r)
      BY <2>8 DEF WriteRunning
    <3>2. r \in ProgressType
      <4>1. progress.now.records \in Seq(ProgressType) /\ Len(progress.now.records) = 1
        BY <2>0, <3>1 DEF OuterAt, Steps, Journals, IsCell, IsFile
      <4>2. progress.now.records[1] \in ProgressType
        BY <4>1, SMT
      <4> QED BY <4>2 DEF ProgressType
    <3>3. RecoveryData' /\ RecoveryAt' /\ call'.at = "SyncProgress"
      BY <2>1, <3>1 DEF RecoverySteps
    <3> HIDE DEF r
    <3>4. Journals(progress, ProgressType)' /\ Ready'
      BY <2>0, <2>3, <3>1, <3>2 DEF OuterAt
    <3> QED BY <3>3, <3>4 DEF OuterAt
  <2>9. CASE SyncProgress
    <3>0. Journals(progress, ProgressType)'
      BY <2>0, <2>9, JournalShapes DEF StaysJournal, SyncProgress
    <3>1. CASE call' = Idle
      BY <2>2, <3>0, <3>1, <1>OuterAway
    <3>2. CASE GoTo("WritePending")
      BY <2>1, <3>0, <3>2, <1>OuterAway, SMT DEF RecoverySteps
    <3>3. CASE Steps = 2 /\ RunsRecovery("Completed", TRUE)
      <4>1. Ready
        BY <2>9, <3>3 DEF SyncProgress, OuterAt
      <4>2. RecoveryData' /\ RecoveryAt' /\ call'.at = "NewAttempt"
        BY <2>0, <3>3, <4>1, <1>RunsKeeps DEF Destinations
      <4> QED BY <3>0, <4>2, <1>OuterAway
    <3> QED BY <2>9, <3>1, <3>2, <3>3 DEF SyncProgress
  <2>10. CASE WriteCompleted
    <3>1. CASE /\ Steps = 2 /\ progress' = Write(progress, Progress("Completed"))
               /\ GoTo("SyncProgress")
      <4>1. Progress("Completed") \in ProgressType
        BY <2>5 DEF Progress, ProgressType
      <4>2. RecoveryData' /\ RecoveryAt' /\ call'.at = "SyncProgress"
        BY <2>1, <3>1 DEF RecoverySteps
      <4>3. Journals(progress, ProgressType)' /\ Steps' = 3
        BY <2>3, <3>1, <4>1, SMT
      <4> QED BY <4>2, <4>3, SMT DEF OuterAt
    <3>2. CASE UNCHANGED progress /\ GoTo("WritePending")
      BY <2>1, <2>4, <3>2, <1>OuterAway, SMT DEF RecoverySteps
    <3> QED BY <2>10, <3>1, <3>2 DEF WriteCompleted
  <2>11. CASE WritePending \/ SyncReceipt \/ RenameReceipt
    <3>1. /\ UNCHANGED progress
          /\ GoTo("SyncReceipt") \/ GoTo("Rename") \/ call' = Idle
      BY <2>11 DEF WritePending, SyncReceipt, RenameReceipt
    <3>2. RecoveryData' /\ RecoveryAt' /\ call'.at \in {"SyncReceipt", "Rename", "Idle"}
      BY <2>1, <2>2, <3>1 DEF RecoverySteps
    <3> QED BY <2>4, <3>1, <3>2, <1>OuterAway
  <2> QED BY <2>6, <2>7, <2>8, <2>9, <2>10, <2>11 DEF ReceiptStep

(* While the attempts that are sure stay, the recovery's data does. *)
<1>DataKept.
    ASSUME RecoveryData, UNCHANGED <<from, max_attempts, journal>>,
           IsCell(room'), room'.may \subseteq BOOLEAN, room'.now,
           attempts' = [x \in Numbers |-> attempts'[x]],
           \A x \in Numbers : IsCell(attempts'[x]),
           \A f \in journal.may : Decodes(f) =>
              \A i \in DOMAIN f.records :
                 attempts'[f.records[i].attempt] = attempts[f.records[i].attempt]
    PROVE  RecoveryData'
  <2> USE <1>DataKept, ZenonT(30)
  <2>1. Numbers' = Numbers /\ journal' = journal
    BY DEF Numbers
  <2>2. RecoveryShape'
    BY <2>1 DEF RecoveryData, RecoveryShape
  <2>3. ASSUME NEW f \in journal.may, Decodes(f) PROVE Whole(f.records)'
    BY <2>3, <1>WholeKept DEF RecoveryData
  <2> QED BY <2>1, <2>2, <2>3, SMT DEF RecoveryData

(* A step of a call that works on its attempt. *)
<1>WorkKeeps.
    ASSUME RecoveryData, RunAt, WorkAt, CallShape, call.at \in Working,
           NEW s \in Working, GoTo(s), UNCHANGED <<from, max_attempts, journal>>,
           IsCell(room'), room'.may \subseteq BOOLEAN, room'.now,
           attempts' = [x \in Numbers |-> attempts'[x]],
           \A x \in Numbers : IsCell(attempts'[x]),
           \A x \in Numbers : \A v : x # call.attempt /\ attempts[x] = Sure(v) => attempts'[x] = attempts[x]
    PROVE  /\ RecoveryData' /\ RunAt' /\ WorkAt' /\ call'.at = s
           /\ call'.records = call.records /\ call'.attempt = call.attempt
           /\ Goal(call.records)' = Goal(call.records)
  <2> USE <1>WorkKeeps, ZenonT(30)
  <2>0. call.at \in RecoverySteps /\ call.at # "SyncRecord" /\ s \in RecoverySteps /\ s # "SyncRecord"
    BY DEF Working, RecoverySteps
  <2>1. PICK rs : rs = call.records
    OBVIOUS
  <2>2. /\ {"at", "records", "attempt", "then", "bound"} \subseteq DOMAIN call
        /\ call.bound \in BOOLEAN /\ rs \in Seq(RecordType)
        /\ rs # <<>> => Whole(rs) /\ ~Completed(rs)
        /\ call["then"] = "Initial" => rs = <<>>
        /\ journal.now.records = rs /\ ~journal.now.torn
    BY <2>0, <2>1 DEF RunAt
  <2>3. /\ call'.at = s /\ call'.records = rs /\ call'.attempt = call.attempt
        /\ call'["then"] = call["then"] /\ call'.bound = call.bound /\ DOMAIN call' = DOMAIN call
    <3>1. call' = [x \in DOMAIN call |-> IF x = "at" THEN s ELSE call[x]]
      BY DEF GoTo, CallShape
    <3> QED BY <2>1, <2>2, <3>1
  <2>4. ASSUME NEW f \in journal.may, Decodes(f), NEW i \in DOMAIN f.records
        PROVE  attempts'[f.records[i].attempt] = attempts[f.records[i].attempt]
    <3>1. f.records[i].attempt # call.attempt
      BY <2>4 DEF WorkAt
    <3>2. /\ f.records[i].attempt \in Numbers
          /\ attempts[f.records[i].attempt] = Sure(Holds(f.records[i]))
      BY <2>4 DEF RecoveryData, Whole
    <3> QED BY <3>1, <3>2
  <2>5. RecoveryData'
    BY <2>4, <1>DataKept
  <2>6. rs # <<>> => Whole(call.records)'
    <3>1. SUFFICES ASSUME rs # <<>> PROVE Whole(call.records)'
      OBVIOUS
    <3>2. Whole(rs)
      BY <2>2, <3>1
    <3>3. ASSUME NEW i \in DOMAIN rs PROVE attempts'[rs[i].attempt] = attempts[rs[i].attempt]
      <4>1. rs[i].attempt < call.attempt /\ rs[i].attempt \in Numbers /\ call.attempt \in Numbers
        BY <2>1, <3>2 DEF WorkAt, Whole
      <4>2. rs[i].attempt # call.attempt
        BY <4>1, SMT DEF Numbers, RecoveryData, RecoveryShape
      <4>3. attempts[rs[i].attempt] = Sure(Holds(rs[i]))
        BY <3>2 DEF Whole
      <4> QED BY <4>1, <4>2, <4>3
    <3>4. Whole(rs)'
      BY <3>2, <3>3, <1>WholeKept
    <3> QED BY <2>3, <3>4, SMT DEF Whole, Chained, Numbers, Holds
  <2>7. RunAt'
    BY <2>0, <2>2, <2>3, <2>6 DEF RunAt, Completed, Working
  <2>8. WorkAt'
    BY <2>1, <2>3, SMT DEF WorkAt, Numbers
  <2>9. Goal(call.records)' = Goal(call.records)
    BY <2>1, <2>3 DEF Goal, Version
  <2> QED BY <2>1, <2>3, <2>5, <2>7, <2>8, <2>9, SMT

(* The steps that fill, sync and publish an attempt. *)
<1>FillKeeps.
    ASSUME RecoveryInv, CallShape, Fill \/ SyncAttempt \/ Publish \/ SyncOutput,
           UNCHANGED <<from, max_attempts, receiptVars>>
    PROVE  RecoveryInv'
  <2> USE <1>FillKeeps, ZenonT(30)
  <2> USE DEF RecoveryInv
  <2> DEFINE a == call.attempt
  <2>0. /\ call.at \in Working /\ RunAt /\ WorkAt /\ StepAt /\ RecoveryShape /\ a \in Numbers /\ room.now
        /\ IsCell(room) /\ room.may \subseteq BOOLEAN /\ IsCell(attempts[a]) /\ journal' = journal
    BY DEF Fill, SyncAttempt, Publish, SyncOutput, Working, RecoveryAt, WorkAt, RecoveryData, RecoveryShape
  <2>1. IsCell(room') /\ room'.may \subseteq BOOLEAN /\ room'.now
    <3>1. CASE UNCHANGED room
      BY <2>0, <3>1
    <3>2. CASE room' = Sync(room)
      <4>1. room' = Sure(room.now) /\ IsCell(room')
        BY <2>0, <3>2, CellShapes DEF StaysCell
      <4> QED BY <2>0, <4>1 DEF Sure
    <3> QED BY <3>1, <3>2 DEF Fill, SyncAttempt, Publish, SyncOutput
  <2>2. ASSUME NEW s \in Working, GoTo(s),
               attempts' = [x \in Numbers |-> attempts'[x]],
               \A x \in Numbers : IsCell(attempts'[x]),
               \A x \in Numbers : \A v : x # a /\ attempts[x] = Sure(v) => attempts'[x] = attempts[x]
        PROVE  /\ RecoveryData' /\ RunAt' /\ WorkAt' /\ call'.at = s
               /\ call'.records = call.records /\ call'.attempt = a
               /\ Goal(call.records)' = Goal(call.records)
    BY <2>0, <2>1, <2>2, <1>WorkKeeps
  <2>3. Journals(progress, ProgressType)'
    BY DEF OuterAt, receiptVars
  <2>4. ASSUME NEW s \in Working, call'.at = s PROVE OuterAt'
    BY <2>3, <2>4, <1>OuterAway DEF Working
  <2> DEFINE g == Goal(call.records)
  <2>5. CASE Fill
    <3> DEFINE c == Change(attempts[a], IF g.kind = "Output" THEN Content("Pending", 2) ELSE g)
    <3>1. attempts' = [attempts EXCEPT ![a] = c] /\ GoTo("SyncAttempt") /\ "SyncAttempt" \in Working
      BY <2>5 DEF Fill, Working
    <3>2. IsCell(c) /\ c.now = Made
      <4>1. IsCell(attempts[a])
        BY <2>0 DEF RecoveryShape
      <4>2. \A v : IsCell(Change(attempts[a], v)) /\ Change(attempts[a], v).now = v
        BY <4>1, CellShapes DEF StaysCell
      <4>3. c = Change(attempts[a], Made)
        BY DEF Made
      <4> HIDE DEF c
      <4> QED BY <4>2, <4>3
    <3> HIDE DEF c
    <3>3. /\ attempts' = [x \in Numbers |-> attempts'[x]] /\ attempts'[a] = c
          /\ \A x \in Numbers : IsCell(attempts'[x])
          /\ \A x \in Numbers : x # a => attempts'[x] = attempts[x]
      BY <2>0, <3>1, <3>2, OneAttempt DEF OnlyChanges
    <3>4. /\ RecoveryData' /\ RunAt' /\ WorkAt' /\ call'.at = "SyncAttempt"
          /\ call'.attempt = a /\ Goal(call.records)' = Goal(call.records)
      BY <2>2, <3>1, <3>3
    <3>5. Made' = Made
      BY <3>4 DEF Made
    <3>6. StepAt'
      BY <3>2, <3>3, <3>4, <3>5, SMT DEF StepAt
    <3> QED BY <2>4, <3>1, <3>4, <3>6, SMT DEF RecoveryAt
  <2>6. CASE SyncAttempt
    <3>1. /\ attempts' = SyncAttempts /\ attempts[a].now = Made
          /\ GoTo(IF g.kind = "Output" THEN "Publish" ELSE "Append")
      BY <2>0, <2>6 DEF SyncAttempt, StepAt
    <3>2. /\ attempts' = [x \in Numbers |-> attempts'[x]] /\ attempts'[a] = Sure(Made)
          /\ \A x \in Numbers : IsCell(attempts'[x])
          /\ \A x \in Numbers : \A v : x # a /\ attempts[x] = Sure(v) => attempts'[x] = attempts[x]
      BY <2>0, <3>1, AttemptsSynced DEF OwnSynced
    <3>3. CASE g.kind = "Output"
      <4>1. /\ RecoveryData' /\ RunAt' /\ WorkAt' /\ call'.at = "Publish"
            /\ Goal(call.records)' = g
        BY <2>2, <3>1, <3>2, <3>3 DEF Working
      <4>2. StepAt'
        BY <3>3, <4>1 DEF StepAt
      <4> QED BY <2>4, <4>1, <4>2 DEF RecoveryAt, Working
    <3>4. CASE g.kind # "Output"
      <4>1. /\ RecoveryData' /\ RunAt' /\ WorkAt' /\ call'.at = "Append"
            /\ call'.attempt = a /\ Goal(call.records)' = g
        BY <2>2, <3>1, <3>2, <3>4, SMT DEF Working
      <4>2. attempts'[a] = Sure(g)
        BY <3>2, <3>4 DEF Made
      <4>3. StepAt'
        BY <4>1, <4>2 DEF StepAt
      <4> QED BY <2>4, <4>1, <4>3 DEF RecoveryAt, Working
    <3> QED BY <3>3, <3>4
  <2>7. CASE Publish
    <3> DEFINE c == Change(attempts[a], Content("Output", 2))
    <3>1. attempts' = [attempts EXCEPT ![a] = c] /\ GoTo("SyncOutput") /\ "SyncOutput" \in Working
      BY <2>7 DEF Publish, Working
    <3>2. IsCell(c) /\ c.now = Content("Output", 2) /\ g.kind = "Output"
      <4>1. IsCell(attempts[a])
        BY <2>0 DEF RecoveryShape
      <4>2. IsCell(c) /\ c.now = Content("Output", 2)
        BY <4>1, CellShapes DEF StaysCell
      <4> QED BY <2>0, <2>7, <4>2 DEF Publish, StepAt
    <3> HIDE DEF c
    <3>3. /\ attempts' = [x \in Numbers |-> attempts'[x]] /\ attempts'[a] = c
          /\ \A x \in Numbers : IsCell(attempts'[x])
          /\ \A x \in Numbers : x # a => attempts'[x] = attempts[x]
      BY <2>0, <3>1, <3>2, OneAttempt DEF OnlyChanges
    <3>4. /\ RecoveryData' /\ RunAt' /\ WorkAt' /\ call'.at = "SyncOutput"
          /\ call'.attempt = a /\ Goal(call.records)' = g
      BY <2>2, <3>1, <3>3
    <3>5. StepAt'
      BY <3>2, <3>3, <3>4 DEF StepAt
    <3> QED BY <2>4, <3>1, <3>4, <3>5 DEF RecoveryAt
  <2>8. CASE SyncOutput
    <3>1. /\ attempts' = SyncAttempts /\ GoTo("Append") /\ "Append" \in Working
          /\ attempts[a].now = Content("Output", 2) /\ g.kind = "Output"
      BY <2>0, <2>8 DEF SyncOutput, StepAt, Working
    <3>2. /\ attempts' = [x \in Numbers |-> attempts'[x]] /\ attempts'[a] = Sure(Content("Output", 2))
          /\ \A x \in Numbers : IsCell(attempts'[x])
          /\ \A x \in Numbers : \A v : x # a /\ attempts[x] = Sure(v) => attempts'[x] = attempts[x]
      BY <2>0, <3>1, AttemptsSynced DEF OwnSynced
    <3>3. /\ RecoveryData' /\ RunAt' /\ WorkAt' /\ call'.at = "Append"
          /\ call'.attempt = a /\ Goal(call.records)' = g
      BY <2>2, <3>1, <3>2
    <3>4. g = Content("Output", 2)
      BY <3>1, SMT DEF Goal, Content
    <3>5. StepAt'
      BY <3>2, <3>3, <3>4, SMT DEF StepAt
    <3> QED BY <2>4, <3>1, <3>3, <3>5 DEF RecoveryAt
  <2> QED BY <2>5, <2>6, <2>7, <2>8

(* A new attempt gets a number past every attempt that is there. *)
<1>NewAttemptKeeps.
    ASSUME RecoveryInv, CallShape, NewAttempt, UNCHANGED <<from, max_attempts, receiptVars>>
    PROVE  RecoveryInv'
  <2> USE <1>NewAttemptKeeps, ZenonT(30)
  <2> USE DEF RecoveryInv
  <2>0. /\ call.at = "NewAttempt" /\ RunAt /\ RecoveryShape /\ journal' = journal
        /\ call.at \in RecoverySteps /\ Journals(progress, ProgressType)'
    BY DEF NewAttempt, RecoveryAt, RecoveryData, RecoverySteps, OuterAt, receiptVars
  <2>a. PICK a \in 0..max_attempts :
           /\ next_attempt(a)
           /\ IF a >= max_attempts
              THEN call' = Idle /\ UNCHANGED <<room, attempts>>
              ELSE /\ room' = Change(room, TRUE)
                   /\ attempts' = [attempts EXCEPT ![a] = Change(@, Partial)]
                   /\ call' = [call EXCEPT !.at = "Fill", !.attempt = a]
    BY DEF NewAttempt
  <2>1. CASE call' = Idle /\ UNCHANGED <<room, attempts>>
    <3>1. UNCHANGED recoveryVars
      BY <2>0, <2>1 DEF recoveryVars
    <3>2. call'.at = "Idle"
      BY <2>1, IdleShape
    <3> QED BY <2>0, <3>1, <3>2, <1>AwayKeeps, <1>OuterAway, SMT DEF RecoverySteps
  <2>2. CASE /\ ~(a >= max_attempts) /\ room' = Change(room, TRUE)
             /\ attempts' = [attempts EXCEPT ![a] = Change(@, Partial)]
             /\ call' = [call EXCEPT !.at = "Fill", !.attempt = a]
    <3>1. a \in Nat /\ (\A x \in Used : x < a) /\ (Used = {} => a = 0)
      <4>1. Used = {} => a = 0
        BY <2>a DEF next_attempt
      <4> QED BY <2>0, <2>a, <4>1, SMT DEF next_attempt, RecoveryShape
    <3>2. a \in Numbers
      BY <2>0, <2>2, <3>1, SMT DEF Numbers, RecoveryShape
    <3>4. IsCell(room') /\ room'.may \subseteq BOOLEAN /\ room'.now
      <4>1. IsCell(room) /\ room.may \subseteq BOOLEAN
        BY <2>0, SMT DEF RecoveryShape
      <4>2. IsCell(room') /\ room'.may = room.may \union {TRUE} /\ room'.now = TRUE
        BY <2>2, <4>1, CellShapes DEF StaysCell
      <4> QED BY <4>1, <4>2
    <3>5. /\ attempts' = [x \in Numbers |-> attempts'[x]]
          /\ \A x \in Numbers : IsCell(attempts'[x])
          /\ \A x \in Numbers : x # a => attempts'[x] = attempts[x]
      <4>1. IsCell(Change(attempts[a], Partial))
        BY <2>0, <3>2, CellShapes DEF StaysCell, RecoveryShape
      <4> QED BY <2>0, <2>2, <3>2, <4>1, OneAttempt DEF OnlyChanges
    <3>6. ASSUME NEW qs, Whole(qs), NEW i \in DOMAIN qs
          PROVE  qs[i].attempt \in Numbers /\ qs[i].attempt < a /\ qs[i].attempt # a
      <4>1. qs[i].attempt \in Used /\ qs[i].attempt \in Numbers
        BY <3>6, <1>WholeUsed DEF Used
      <4>2. qs[i].attempt \in Nat
        BY <2>0, <4>1, SMTT(30) DEF Numbers, RecoveryShape
      <4> QED BY <3>1, <4>1, <4>2, SMT
    <3>7. RecoveryData'
      <4>1. \A f \in journal.may : Decodes(f) =>
               \A i \in DOMAIN f.records :
                  attempts'[f.records[i].attempt] = attempts[f.records[i].attempt]
        BY <3>5, <3>6 DEF RecoveryData
      <4> QED BY <2>0, <3>4, <3>5, <4>1, <1>DataKept
    <3>8. PICK rs : rs = call.records
      OBVIOUS
    <3>9. /\ {"at", "records", "attempt", "then", "bound"} \subseteq DOMAIN call
          /\ call.bound \in BOOLEAN /\ rs \in Seq(RecordType)
          /\ rs # <<>> => Whole(rs) /\ ~Completed(rs)
          /\ call["then"] = "Initial" => rs = <<>>
          /\ journal.now.records = rs /\ ~journal.now.torn
          /\ rs = <<>> <=> ~room.now
      BY <2>0, <3>8 DEF RunAt
    <3>10. /\ call'.at = "Fill" /\ call'.records = rs /\ call'.attempt = a
           /\ call'["then"] = call["then"] /\ call'.bound = call.bound /\ DOMAIN call' = DOMAIN call
      <4>1. call' = [x \in DOMAIN call |-> IF x = "attempt" THEN a ELSE
                                           IF x = "at" THEN "Fill" ELSE call[x]]
        BY <2>2 DEF CallShape
      <4> QED BY <3>8, <3>9, <4>1
    <3>11. rs # <<>> => Whole(call.records)'
      <4>1. SUFFICES ASSUME rs # <<>> PROVE Whole(call.records)'
        OBVIOUS
      <4>2. Whole(rs)
        BY <3>9, <4>1
      <4>3. Whole(rs)'
        BY <3>5, <3>6, <4>2, <1>WholeKept
      <4> QED BY <3>10, <4>3 DEF Whole, Chained, Numbers, Holds
    <3>12. RunAt'
      BY <2>0, <3>9, <3>10, <3>11 DEF RunAt, Completed, RecoverySteps
    <3>13. rs = <<>> => a = 0
      <4>1. rs = <<>> => Used = {}
        BY <3>9 DEF RecoveryData, Used
      <4> QED BY <3>1, <4>1
    <3>14. WorkAt'
      <4>1. a \in Numbers'
        BY <3>2 DEF Numbers
      <4>2. \A i \in DOMAIN rs : rs[i].attempt < a
        BY <3>6, <3>9, SMTT(30)
      <4>3. \A f \in journal.may : Decodes(f) => \A i \in DOMAIN f.records : f.records[i].attempt # a
        BY <3>6 DEF RecoveryData
      <4> QED BY <2>0, <3>4, <3>10, <3>13, <4>1, <4>2, <4>3, SMT DEF WorkAt
    <3>15. StepAt'
      BY <3>10 DEF StepAt
    <3>16. OuterAt'
      BY <2>0, <3>10, <1>OuterAway
    <3> QED BY <3>7, <3>12, <3>14, <3>15, <3>16, SMT DEF RecoveryAt
  <2> QED BY <2>a, <2>1, <2>2

(* Only the call that runs and the journal change. *)
<1>AttemptsStay.
    ASSUME UNCHANGED <<from, max_attempts, attempts>>
    PROVE  \A rs : /\ Whole(rs) => Whole(rs)'
                   /\ \A c : Goal(rs)' = Goal(rs) /\ RecordOf(c)' = RecordOf(c)
  <2> USE <1>AttemptsStay, ZenonT(30)
  <2>1. \A rs : Whole(rs)' <=> Whole(rs)
    BY SMT DEF Whole, Chained, Numbers, Holds
  <2>2. \A rs : Goal(rs)' = Goal(rs) /\ Version(rs)' = Version(rs)
    BY DEF Goal, Version
  <2>3. \A c : RecordOf(c)' = RecordOf(c)
    BY <2>2 DEF RecordOf
  <2> QED BY <2>1, <2>2, <2>3

(* A record that is appended after its attempt has been synced. *)
<1>AppendKeeps.
    ASSUME RecoveryInv, CallShape, AppendRecord, UNCHANGED <<from, max_attempts, receiptVars>>
    PROVE  RecoveryInv'
  <2> USE <1>AppendKeeps, ZenonT(30)
  <2> USE DEF RecoveryInv
  <2>0. /\ call.at = "Append" /\ RunAt /\ WorkAt /\ StepAt /\ RecoveryShape
        /\ call.at \in RecoverySteps /\ Journals(progress, ProgressType)'
        /\ UNCHANGED <<from, max_attempts, room, attempts>>
    BY DEF AppendRecord, RecoveryAt, RecoveryData, RecoverySteps, OuterAt, receiptVars
  <2>1. PICK rs : rs = call.records
    OBVIOUS
  <2>2. /\ {"at", "records", "attempt", "then", "bound"} \subseteq DOMAIN call
        /\ call.bound \in BOOLEAN /\ rs \in Seq(RecordType)
        /\ rs # <<>> => Whole(rs) /\ ~Completed(rs)
        /\ call["then"] = "Initial" => rs = <<>>
        /\ journal.now.records = rs /\ ~journal.now.torn
    BY <2>0, <2>1 DEF RunAt
  <2>3. /\ room.now /\ call.attempt \in Numbers /\ (rs = <<>> => call.attempt = 0)
        /\ \A i \in DOMAIN rs : rs[i].attempt < call.attempt
    BY <2>0, <2>1 DEF WorkAt, Working
  <2>4. attempts[call.attempt] = Sure(Goal(rs))
    BY <2>0, <2>1 DEF StepAt
  <2>5. PICK r : r = RecordOf(call)
    OBVIOUS
  <2>6. PICK qs : qs = Append(rs, r)
    OBVIOUS
  <2>7. qs \in Seq(RecordType) /\ Whole(qs)
    BY <2>0, <2>1, <2>2, <2>3, <2>4, <2>5, <2>6, <1>ChainAppend
  <2>8. r \in RecordType
    BY <2>0, <2>1, <2>2, <2>3, <2>5, NextRecord DEF NextIs
  <2>9. /\ Journals(journal', RecordType) /\ journal'.now = File(qs)
        /\ journal'.may = journal.may \union {Torn(journal.now), File(qs)}
    <3>1. journal' = Write(journal, r) /\ Journals(journal, RecordType)
      BY <2>0, <2>5 DEF AppendRecord, RecoveryShape
    <3>2. Journals(Write(journal, r), RecordType)
      BY <2>8, <3>1, JournalShapes DEF StaysJournal
    <3> QED BY <2>2, <2>6, <3>1, <3>2 DEF Write
  <2>10. /\ call'.at = "SyncRecord" /\ call'.records = rs /\ call'.attempt = call.attempt
         /\ call'["then"] = call["then"] /\ call'.bound = call.bound /\ DOMAIN call' = DOMAIN call
    <3>1. GoTo("SyncRecord")
      BY DEF AppendRecord
    <3> QED BY <2>1, <2>2, <3>1, GoToShape DEF GoTo
  <2>11. RecoveryData'
    <3>1. RecoveryShape'
      BY <2>0, <2>9 DEF RecoveryShape, Numbers
    <3>2. ASSUME NEW f \in journal'.may, Decodes(f) PROVE Whole(f.records)'
      <4>1. CASE f \in journal.may
        <5>1. PICK fs : fs = f.records
          OBVIOUS
        <5>2. Whole(fs)
          BY <3>2, <4>1, <5>1 DEF RecoveryData
        <5>3. Whole(fs)'
          BY <2>0, <5>2, <1>AttemptsStay
        <5> QED BY <5>1, <5>3
      <4>2. CASE f = Torn(journal.now)
        <5>1. IsFile(journal.now, RecordType)
          BY <2>0 DEF RecoveryShape, Journals, IsCell
        <5>2. f.torn
          BY <4>2, <5>1, FileShapes DEF FilesOf
        <5> QED BY <3>2, <5>2 DEF Decodes
      <4>3. CASE f = File(qs)
        <5>1. f.records = qs
          BY <4>3 DEF File
        <5>2. Whole(qs)'
          BY <2>0, <2>7, <1>AttemptsStay, SMT
        <5> QED BY <5>1, <5>2
      <4> QED BY <2>9, <3>2, <4>1, <4>2, <4>3
    <3>3. room'.now
      BY <2>0, <2>3
    <3> QED BY <3>1, <3>2, <3>3, SMT DEF RecoveryData
  <2>12. RunAt'
    <3>1. rs # <<>> => Whole(call.records)'
      <4>1. rs # <<>> => Whole(rs)'
        BY <2>0, <2>2, <1>AttemptsStay
      <4> QED BY <2>10, <4>1 DEF Whole, Chained, Numbers, Holds
    <3> QED BY <2>2, <2>10, <3>1, SMT DEF RunAt, Completed, RecoverySteps
  <2>13. WorkAt'
    BY <2>0, <2>3, <2>10 DEF WorkAt, Working, Numbers
  <2>14. StepAt'
    <3>1. attempts'[call'.attempt] = Sure(Goal(call.records)')
      BY <2>0, <2>4, <2>10 DEF Goal, Version
    <3>2. RecordOf(call)' = r
      BY <2>0, <2>1, <2>5, <2>10 DEF RecordOf, Goal, Version
    <3> QED BY <2>6, <2>9, <2>10, <3>1, <3>2, SMTT(30) DEF StepAt
  <2>15. OuterAt'
    BY <2>0, <2>10, <1>OuterAway
  <2> QED BY <2>11, <2>12, <2>13, <2>14, <2>15 DEF RecoveryAt

(* A record that is synced is the only one the journal can end with: the   *)
(* call returns, goes on with its wrapper, or makes the next attempt.      *)
<1>SyncRecordKeeps.
    ASSUME RecoveryInv, CallShape, SyncRecord, UNCHANGED <<from, max_attempts, receiptVars>>
    PROVE  RecoveryInv'
  <2> USE <1>SyncRecordKeeps, ZenonT(30)
  <2> USE DEF RecoveryInv
  <2>0. /\ call.at = "SyncRecord" /\ RunAt /\ WorkAt /\ StepAt /\ RecoveryShape
        /\ call.at \in RecoverySteps /\ Journals(progress, ProgressType)'
        /\ UNCHANGED <<from, max_attempts, room, attempts>> /\ journal' = Sync(journal)
    BY DEF SyncRecord, RecoveryAt, RecoveryData, RecoverySteps, OuterAt, receiptVars
  <2>1. PICK rs, r, qs : rs = call.records /\ r = RecordOf(call) /\ qs = Append(rs, r)
    OBVIOUS
  <2>2. /\ {"at", "records", "attempt", "then", "bound"} \subseteq DOMAIN call
        /\ call.bound \in BOOLEAN /\ rs \in Seq(RecordType)
        /\ rs # <<>> => Whole(rs) /\ ~Completed(rs)
        /\ call["then"] = "Initial" => rs = <<>>
    BY <2>0, <2>1 DEF RunAt
  <2>3. /\ room.now /\ call.attempt \in Numbers /\ (rs = <<>> => call.attempt = 0)
        /\ \A i \in DOMAIN rs : rs[i].attempt < call.attempt
    BY <2>0, <2>1 DEF WorkAt
  <2>4. attempts[call.attempt] = Sure(Goal(rs)) /\ journal.now = File(qs)
    BY <2>0, <2>1 DEF StepAt
  <2>5. qs \in Seq(RecordType) /\ Whole(qs)
    BY <2>0, <2>1, <2>2, <2>3, <2>4, <1>ChainAppend
  <2>6. Whole(qs)'
    BY <2>0, <2>5, <1>AttemptsStay
  <2>7. journal' = Sure(File(qs)) /\ Journals(journal', RecordType)
    <3>1. Journals(journal, RecordType)
      BY <2>0 DEF RecoveryShape
    <3>2. Journals(Sync(journal), RecordType)
      BY <3>1, JournalShapes DEF StaysJournal
    <3> QED BY <2>0, <2>4, <3>2 DEF Sync
  <2>8. /\ journal'.now.records = qs /\ ~journal'.now.torn /\ Decodes(journal'.now)
        /\ \A f \in journal'.may : f.records = qs
    BY <2>7, SMTT(30) DEF Sure, File, Decodes
  <2>9. RecoveryData'
    <3>1. RecoveryShape'
      BY <2>0, <2>7 DEF RecoveryShape, Numbers
    <3>2. \A f \in journal'.may : Whole(f.records)'
      BY <2>6, <2>8
    <3> QED BY <2>0, <2>3, <3>1, <3>2 DEF RecoveryData
  <2>10. CASE Len(qs) = 1 \/ Completed(qs)
    <3>1. CASE call["then"] = "Return"
      <4>1. call'.at = "Idle"
        BY <2>1, <2>10, <3>1, IdleShape DEF SyncRecord
      <4>2. RecoveryAt'
        BY <4>1 DEF RecoveryAt, RunAt, WorkAt, StepAt, RecoverySteps, Working
      <4> QED BY <2>0, <2>9, <4>1, <4>2, <1>OuterAway
    <3>2. CASE call["then"] # "Return"
      <4>1. call'.at = call["then"] /\ call["then"] \in {"Initial", "Completed"}
        <5>1. GoTo(call["then"]) /\ call["then"] \in {"Initial", "Completed"}
          BY <2>0, <2>1, <2>10, <3>2 DEF SyncRecord, CallShape, Destinations
        <5> QED BY <2>2, <5>1, GoToShape
      <4>2. RecoveryAt'
        BY <4>1 DEF RecoveryAt, RunAt, WorkAt, StepAt, RecoverySteps, Working
      <4>3. call'.at = "Initial" => Ready'
        <5>1. SUFFICES ASSUME rs = <<>> PROVE Ready'
          BY <2>2, <4>1
        <5>2. r = Record("Checkpoint", call.attempt, from, from, call.bound)
          BY <2>0, <2>1, <2>2, <2>3, <5>1, NextRecord DEF NextIs
        <5>3. qs = <<r>> /\ Last(qs) = r
          BY <2>1, <5>1, SMT DEF Last
        <5>4. ~Completed(qs)
          BY <5>2, <5>3, SMT DEF Completed, Record
        <5> QED BY <2>0, <2>3, <2>8, <5>4 DEF Ready, Completed
      <4>4. OuterAt'
        BY <2>0, <4>1, <4>3 DEF OuterAt
      <4> QED BY <2>9, <4>2, <4>4
    <3> QED BY <3>1, <3>2
  <2>11. CASE ~(Len(qs) = 1 \/ Completed(qs))
    <3>1. call' = [call EXCEPT !.at = "NewAttempt", !.records = qs]
      BY <2>1, <2>11 DEF SyncRecord
    <3>2. call' = [x \in DOMAIN call |-> IF x = "records" THEN qs ELSE
                                         IF x = "at" THEN "NewAttempt" ELSE call[x]]
      BY <3>1 DEF CallShape
    <3>3. /\ call'.at = "NewAttempt" /\ call'.records = qs /\ DOMAIN call' = DOMAIN call
          /\ call'["then"] = call["then"] /\ call'.bound = call.bound
      BY <2>2, <3>2
    <3>4. call["then"] # "Initial" /\ qs # <<>>
      BY <2>1, <2>2, <2>11, SMT
    <3>5. Whole(call.records)'
      BY <2>6, <3>3 DEF Whole, Chained, Numbers, Holds
    <3>6. RunAt'
      BY <2>0, <2>2, <2>3, <2>5, <2>8, <2>11, <3>3, <3>4, <3>5 DEF RunAt, Completed, RecoverySteps
    <3>7. WorkAt' /\ StepAt'
      BY <3>3 DEF WorkAt, StepAt, Working
    <3> QED BY <2>0, <2>9, <3>3, <3>6, <3>7, <1>OuterAway DEF RecoveryAt
  <2> QED BY <2>10, <2>11

(* A call that is cut off, while it appends a record or not, leaves the    *)
(* journal with the records it had.                                        *)
<1>CutKeeps.
    ASSUME RecoveryInv, call' = Idle, UNCHANGED <<from, max_attempts, room, attempts>>,
           journal' = journal \/ (call.at = "Append" /\ journal' = WriteCut(journal)),
           progress' = progress \/ progress' = WriteCut(progress)
    PROVE  RecoveryInv'
  <2> USE <1>CutKeeps, ZenonT(30)
  <2> USE DEF RecoveryInv
  <2>1. /\ RecoveryShape /\ Journals(journal, RecordType) /\ Journals(progress, ProgressType)
    BY DEF RecoveryData, RecoveryShape, OuterAt
  <2>2. Journals(journal', RecordType) /\ Journals(progress', ProgressType)
    BY <2>1, JournalShapes DEF StaysJournal
  <2>3. call'.at = "Idle"
    BY IdleShape
  <2>4. RecoveryAt' /\ OuterAt'
    BY <2>2, <2>3, <1>OuterAway DEF RecoveryAt, RunAt, WorkAt, StepAt, RecoverySteps, Working
  <2>5. RecoveryShape'
    BY <2>1, <2>2 DEF RecoveryShape, Numbers
  <2>6. ASSUME NEW f \in journal'.may, Decodes(f) PROVE Whole(f.records)'
    <3>1. f \in journal.may
      <4>1. CASE journal' = WriteCut(journal)
        <5>1. journal'.may = journal.may \union {Torn(journal.now)}
          BY <4>1 DEF WriteCut, Change
        <5>2. IsFile(journal.now, RecordType)
          BY <2>1 DEF Journals, IsCell
        <5>3. Torn(journal.now).torn
          BY <5>2, FileShapes DEF FilesOf
        <5>4. f # Torn(journal.now)
          BY <2>6, <5>3 DEF Decodes
        <5> QED BY <2>6, <5>1, <5>4
      <4> QED BY <2>6, <4>1
    <3>2. PICK fs : fs = f.records
      OBVIOUS
    <3>3. Whole(fs)
      BY <2>6, <3>1, <3>2 DEF RecoveryData
    <3>4. Whole(fs)'
      BY <3>3, <1>AttemptsStay
    <3> QED BY <3>2, <3>4
  <2>7. ~room'.now => journal' = Sure(NoFile) /\ \A a \in Numbers' : attempts'[a].now = Absent
    <3>1. call.at = "Append" => room.now
      BY DEF RecoveryAt, WorkAt, Working
    <3> QED BY <3>1 DEF RecoveryData, Numbers
  <2> QED BY <2>4, <2>5, <2>6, <2>7 DEF RecoveryData

(* A power loss leaves the attempts of every record that it leaves. *)
<1>LossKeepsRecords.
    ASSUME RecoveryInv, call' = Idle, RecoveryLoss, UNCHANGED <<from, max_attempts>>,
           progress' \in Survivors(progress)
    PROVE  RecoveryInv'
  <2> USE <1>LossKeepsRecords, ZenonT(30)
  <2> USE DEF RecoveryInv
  <2>1. /\ RecoveryShape /\ Journals(journal, RecordType) /\ Journals(progress, ProgressType)
        /\ Numbers' = Numbers /\ \A a \in Numbers : IsCell(attempts[a])
    BY DEF RecoveryData, RecoveryShape, OuterAt, Numbers
  <2>2. Journals(progress', ProgressType) /\ call'.at = "Idle"
    BY <2>1, JournalShapes, IdleShape DEF StaysJournal
  <2>3. RecoveryAt' /\ OuterAt'
    BY <2>2, <1>OuterAway DEF RecoveryAt, RunAt, WorkAt, StepAt, RecoverySteps, Working
  <2>4. IsCell(room') /\ room'.may \subseteq BOOLEAN
    <3>1. PICK v \in room.may : room' = Sure(v)
      BY DEF RecoveryLoss, Survivors
    <3> QED BY <2>1, <3>1 DEF RecoveryShape, IsCell, Sure
  <2>5. CASE ~room'.now
    <3>1. attempts' = [a \in Numbers |-> Sure(Absent)] /\ journal' = Sure(NoFile)
      BY <2>5 DEF RecoveryLoss
    <3>2. Journals(journal', RecordType) /\ \A f \in journal'.may : ~Decodes(f)
      <4>1. IsFile(NoFile, RecordType)
        BY FileShapes DEF FilesOf
      <4>2. ~Decodes(NoFile)
        BY DEF Decodes, NoFile
      <4>3. IsCell(journal') /\ journal'.may = {NoFile}
        BY <3>1, SMT DEF IsCell, Sure
      <4> QED BY <4>1, <4>2, <4>3 DEF Journals
    <3>3. /\ attempts' = [a \in Numbers |-> attempts'[a]]
          /\ \A a \in Numbers : IsCell(attempts'[a]) /\ attempts'[a].now = Absent
      BY <3>1 DEF IsCell, Sure
    <3>4. RecoveryShape'
      BY <2>1, <2>4, <3>2, <3>3 DEF RecoveryShape
    <3> QED BY <2>1, <2>3, <3>1, <3>2, <3>3, <3>4 DEF RecoveryData
  <2>6. CASE room'.now
    <3> DEFINE unsure == {a \in Numbers : attempts[a] # Sync(attempts[a])}
               left == UNION {Survivors(attempts[a]) : a \in unsure}
    <3>1. PICK g \in [unsure -> left] :
             /\ \A a \in unsure : g[a] \in Survivors(attempts[a])
             /\ attempts' = [a \in Numbers |-> IF a \in unsure THEN g[a] ELSE attempts[a]]
      BY <2>6 DEF RecoveryLoss
    <3>4. /\ attempts' = [x \in Numbers |-> attempts'[x]]
          /\ \A x \in Numbers : attempts'[x] = IF x \in unsure THEN g[x] ELSE attempts[x]
      <4> HIDE DEF unsure
      <4> QED BY <3>1
    <3>5. ASSUME NEW x \in Numbers
          PROVE  IsCell(attempts'[x]) /\ \A v : attempts[x] = Sure(v) => attempts'[x] = attempts[x]
      <4>1. CASE x \in unsure
        <5>1. PICK w \in attempts[x].may : attempts'[x] = Sure(w)
          BY <3>1, <3>4, <4>1 DEF Survivors
        <5>2. ASSUME NEW v, attempts[x] = Sure(v) PROVE FALSE
          <6>1. attempts[x].now = v
            BY <5>2, SMT DEF Sure
          <6>2. attempts[x] # Sure(attempts[x].now)
            BY <4>1 DEF Sync
          <6> QED BY <5>2, <6>1, <6>2
        <5> QED BY <5>1, <5>2, SMT DEF IsCell, Sure
      <4>2. CASE x \notin unsure
        BY <2>1, <3>4, <4>2
      <4> QED BY <4>1, <4>2
    <3>6. PICK f \in journal.may : journal' = Sure(f)
      BY <2>6 DEF RecoveryLoss, Survivors
    <3>7. Journals(journal', RecordType)
      BY <2>1, <3>6 DEF Journals, IsCell, Sure
    <3>8. RecoveryShape'
      BY <2>1, <2>4, <3>4, <3>5, <3>7 DEF RecoveryShape
    <3>9. ASSUME Decodes(f) PROVE Whole(f.records)'
      <4>1. PICK fs : fs = f.records
        OBVIOUS
      <4>2. Whole(fs)
        BY <3>6, <3>9, <4>1 DEF RecoveryData
      <4>3. \A i \in DOMAIN fs : attempts'[fs[i].attempt] = attempts[fs[i].attempt]
        BY <3>5, <4>2 DEF Whole
      <4>4. Whole(fs)'
        BY <4>2, <4>3, <1>WholeKept
      <4> QED BY <4>1, <4>4
    <3>10. journal'.may = {f}
      BY <3>6 DEF Sure
    <3>11. \A h \in journal'.may : Decodes(h) => Whole(h.records)'
      <4> TAKE h \in journal'.may
      <4>1. h = f
        BY <3>10
      <4> QED BY <3>9, <4>1
    <3> QED BY <2>3, <2>6, <3>8, <3>11 DEF RecoveryData
  <2> QED BY <2>5, <2>6
<1> USE ZenonT(30)
<1> SUFFICES ASSUME RecoveryInv, CallShape, UpgradeNext PROVE RecoveryInv'
  OBVIOUS
<1> USE DEF RecoveryInv
<1>0. RecoveryData /\ Journals(progress, ProgressType)
  BY DEF OuterAt
<1>1. ASSUME UNCHANGED recoveryVars, UNCHANGED progress,
             call'.at \notin RecoverySteps \cup {"Initial", "Running", "SyncProgress"}
      PROVE  RecoveryInv'
  BY <1>0, <1>1, <1>AwayKeeps, <1>OuterAway
<1>2. ASSUME NEW then \in {"Return", "Completed"}, NEW b \in BOOLEAN, ResumesRecovery(then, b),
             UNCHANGED recoveryVars, UNCHANGED progress
      PROVE  RecoveryInv'
  <2>1. CASE Completed(journal.now.records)
    <3>1. call'.at \in {"Idle", "Completed"}
      BY <1>2, <2>1, SMT DEF ResumesRecovery, Idle
    <3> QED BY <1>1, <1>2, <3>1 DEF RecoverySteps
  <2>2. CASE ~Completed(journal.now.records)
    <3>1. Ready /\ RunsRecovery(then, b) /\ then \in Destinations /\ then # "Initial"
      BY <1>2, <2>2 DEF ResumesRecovery, RecoveryVerifies, Ready, Destinations
    <3>2. RecoveryData' /\ RecoveryAt' /\ call'.at = "NewAttempt"
      BY <1>0, <1>2, <3>1, <1>RunsKeeps
    <3> QED BY <1>0, <1>2, <3>2, <1>OuterAway
  <2> QED BY <2>1, <2>2
<1>3. CASE UpgradeCalls
  <2>1. CASE StartUpgrade
    BY <1>1, <2>1, NewShape DEF StartUpgrade, RecoverySteps
  <2>2. CASE AdmitRunning
    <3>1. call'.at = "Running" /\ UNCHANGED recoveryVars /\ progress' = progress /\ Ready /\ Steps = 1
      BY <2>2 DEF AdmitRunning, receiptVars, Ready, RecoveryVerifies
    <3>2. RecoveryData' /\ RecoveryAt'
      BY <1>0, <3>1, <1>AwayKeeps DEF RecoverySteps
    <3>3. OuterAt'
      BY <1>0, <3>1, DataSame DEF OuterAt, Steps
    <3> QED BY <3>2, <3>3
  <2>3. CASE ResumeUpgrade
    BY <1>2, <2>3 DEF ResumeUpgrade, receiptVars
  <2>4. CASE ReceiptStep
    BY <2>4, <1>ReceiptKeeps
  <2>5. CASE RecoveryStep /\ UNCHANGED <<from, max_attempts, receiptVars>>
    BY <2>5, <1>NewAttemptKeeps, <1>FillKeeps, <1>AppendKeeps, <1>SyncRecordKeeps DEF RecoveryStep
  <2>6. CASE start_upgrade_recovery /\ UNCHANGED <<recoveryVars, receiptVars>>
    <3>1. RunsRecovery("Return", FALSE) /\ ~room.now /\ "Return" \in Destinations /\ progress' = progress
      BY <2>6 DEF start_upgrade_recovery, StartsRecovery, Destinations, receiptVars
    <3>2. RecoveryData' /\ RecoveryAt' /\ call'.at = "NewAttempt"
      BY <1>0, <2>6, <3>1, <1>RunsKeeps
    <3> QED BY <1>0, <3>1, <3>2, <1>OuterAway
  <2>7. CASE resume_upgrade_recovery /\ UNCHANGED <<recoveryVars, receiptVars>>
    BY <1>2, <2>7 DEF resume_upgrade_recovery, receiptVars
  <2> QED BY <1>3, <2>1, <2>2, <2>3, <2>4, <2>5, <2>6, <2>7 DEF UpgradeCalls
<1>4. CASE UpgradeActivates
  <2>1. call'.at \in ActivationSteps \cup {"Idle"}
    <3>1. CASE ActivateStart
      BY <3>1, NewShape DEF ActivateStart, ActivationSteps, RecoverySteps
    <3>2. CASE ActivateFinish
      BY <3>2, IdleShape DEF ActivateFinish
    <3>3. CASE ActivateGuard \/ ActivateCopy \/ ActivateSync \/ ActivateUnlink
      BY <3>3, GoToShape DEF ActivateGuard, ActivateCopy, ActivateSync, ActivateUnlink,
                             ActivationSteps, RecoverySteps
    <3> QED BY <1>4, <3>1, <3>2, <3>3 DEF UpgradeActivates, ActivateStep
  <2> QED BY <1>1, <1>4, <2>1 DEF UpgradeActivates, receiptVars, ActivationSteps, RecoverySteps
<1>5. CASE UpgradeStops
  BY <1>5, <1>CutKeeps DEF UpgradeStops, Stop, AppendCut, ProgressCut
<1>6. CASE UpgradeLoses
  BY <1>6, <1>LossKeepsRecords DEF UpgradeLoses, Loss
<1> QED BY <1>3, <1>4, <1>5, <1>6 DEF UpgradeNext

-----------------------------------------------------------------------------
(* The faults that were counted. *)
FaultShape ==
    faults = [stops |-> faults.stops, losses |-> faults.losses]
        /\ faults.stops \in Nat /\ faults.losses \in Nat

-----------------------------------------------------------------------------
(* The schema upgrade. *)

Entries == [kind : {"Intent", "Failed", "Validated", "Sealed"}, attempt : Nat]

(* What a count of the INTENT records gives, shown at the end. *)
CountsFit ==
    /\ \A rs : \A n \in Nat : IntentsIn(rs, n) \in Nat
    /\ \A rs : IntentsIn(rs, 0) = 0
    /\ \A rs \in Seq(Entries), r \in Entries :
          /\ \A n \in 0..Len(rs) : IntentsIn(Append(rs, r), n) = IntentsIn(rs, n)
          /\ r.kind = "Intent" => Intents(Append(rs, r)) = Intents(rs) + 1
          /\ r.kind # "Intent" => Intents(Append(rs, r)) = Intents(rs)

(* What may be appended. *)
Follows(rs, r) ==
    IF r.kind = "Intent"
    THEN LastKind(rs) \in {"None", "Failed"} /\ r.attempt = Intents(rs) /\ r.attempt \in Tries
    ELSE /\ rs # <<>> /\ Last(rs).attempt = r.attempt
         /\ LastKind(rs) = IF r.kind = "Sealed" THEN "Validated" ELSE "Intent"

-----------------------------------------------------------------------------
(* What the workspace of a schema upgrade is. *)
SchemaShape ==
    /\ schema = [planned |-> schema.planned, journal |-> schema.journal,
                 attempts |-> schema.attempts, receipt |-> schema.receipt,
                 max_attempts |-> schema.max_attempts]
    /\ schema.journal = [there |-> schema.journal.there, records |-> Records,
                         torn |-> schema.journal.torn]
    /\ schema.max_attempts \in Nat
    /\ schema.attempts \in [Tries -> {"Absent", "Partial", "Marked"}]
    /\ Records \in Seq(Entries)

Marked(rs, kept) ==
    \A i \in DOMAIN rs : rs[i].kind = "Validated" => kept[rs[i].attempt] = "Marked"

SchemaData ==
    /\ SchemaShape
    /\ schema.planned # "Planned" => Records = <<>>
    /\ InOrder(Records)
    /\ Marked(Records, schema.attempts)

(* Every interruption may have cost one attempt, and the call that runs    *)
(* one more.                                                               *)
Spent ==
    /\ Intents(Records) <= Interruptions + 1
    /\ LastKind(Records) \in {"None", "Failed", "Intent"}
          /\ call.at \notin {"Guard", "Mark", "Validated"}
       => Intents(Records) <= Interruptions

(* What the running call has found or done. *)
SchemaAt ==
    /\ call.at = "Plan" => Records = <<>>
    /\ call.at \in {"Intent", "Failed", "Guard", "Mark", "Validated", "Sealed"}
          => schema.planned = "Planned"
    /\ call.at = "Intent" => LastKind(Records) \in {"None", "Failed"}
    /\ call.at \in {"Intent", "Failed"} => Intents(Records) \in Tries
    /\ call.at \in {"Failed", "Guard", "Mark", "Validated"} => LastKind(Records) = "Intent"
    /\ call.at = "Validated" => schema.attempts[Last(Records).attempt] = "Marked"
    /\ call.at = "Sealed" => LastKind(Records) = "Validated"

SchemaInv == SchemaData /\ Spent /\ SchemaAt

(* What a fault adds to the count of them. *)
FaultsCount ==
    /\ Interruptions \in Nat
    /\ Stop => FaultShape' /\ Interruptions' = Interruptions + 1
    /\ Loss => FaultShape' /\ Interruptions' = Interruptions + 1
    /\ UNCHANGED faults => FaultShape' /\ Interruptions' = Interruptions

(* The count of the faults is a number that only grows. *)
LEMMA FaultsGrow ==
    ASSUME FaultShape
    PROVE  FaultsCount
<1>1. ASSUME Stop PROVE faults' = [stops |-> faults.stops + 1, losses |-> faults.losses]
  BY <1>1, Zenon DEF Stop, FaultShape
<1>2. ASSUME Loss PROVE faults' = [stops |-> faults.stops, losses |-> faults.losses + 1]
  BY <1>2, Zenon DEF Loss, FaultShape
<1> QED BY <1>1, <1>2 DEF FaultsCount, FaultShape, Interruptions

(* The journal of a schema upgrade has a last record. *)
HasLastEntry ==
    /\ Len(Records) \in DOMAIN Records /\ Last(Records) = Records[Len(Records)]
    /\ Last(Records) \in Entries /\ LastKind(Records) = Last(Records).kind
    /\ LastKind(Records) = "Intent" => Last(Records).attempt \in Tries

(* The last record of a journal that is in order. *)
LEMMA LastRecord ==
    ASSUME SchemaData, Records # <<>>
    PROVE  HasLastEntry
<1> USE ZenonT(30)
<1>1. /\ Len(Records) \in DOMAIN Records /\ Last(Records) = Records[Len(Records)]
      /\ Last(Records) \in Entries /\ LastKind(Records) = Last(Records).kind
  <2> DEFINE rs == Records
  <2>1. rs \in Seq(Entries) /\ rs # <<>>
    BY DEF SchemaData, SchemaShape
  <2> HIDE DEF rs
  <2>2. /\ Len(rs) \in DOMAIN rs /\ Last(rs) = rs[Len(rs)] /\ Last(rs) \in Entries
    BY <2>1, SMT DEF Last
  <2>3. LastKind(rs) = Last(rs).kind
    BY <2>1 DEF LastKind
  <2> QED BY <2>2, <2>3 DEF rs
<1>2. LastKind(Records) = "Intent" => Last(Records).attempt \in Tries
  BY <1>1 DEF SchemaData, InOrder
<1> QED BY <1>1, <1>2 DEF HasLastEntry

(* A step that leaves the workspace as it is. *)
LEMMA SchemaSame ==
    ASSUME UNCHANGED schema
    PROVE  /\ SchemaData' <=> SchemaData
           /\ Records' = Records /\ Tries' = Tries
BY DEF SchemaData, SchemaShape, Records, Tries, InOrder

(* The record that the call is about to append. *)
EntryFollows ==
    /\ Entry(call.at, Attempt) \in Entries /\ Follows(Records, Entry(call.at, Attempt))
    /\ call.at # "Intent" => Records # <<>> /\ Attempt = Last(Records).attempt

(* Each append is of a record that may follow. *)
LEMMA AppendFollows ==
    ASSUME SchemaInv, call.at \in {"Failed", "Intent", "Validated", "Sealed"}
    PROVE  EntryFollows
<1> USE ZenonT(30)
<1> USE DEF SchemaInv, EntryFollows
<1>1. CASE call.at = "Intent"
  <2>1. /\ Attempt = Intents(Records) /\ Intents(Records) \in Tries
        /\ LastKind(Records) \in {"None", "Failed"}
    BY <1>1 DEF Attempt, SchemaAt
  <2>2. Attempt \in Nat
    BY <2>1, SMT DEF Tries, SchemaData, SchemaShape
  <2>3. Entry(call.at, Attempt) = [kind |-> "Intent", attempt |-> Attempt]
    BY <1>1 DEF Entry
  <2>4. Entry(call.at, Attempt) \in Entries
    BY <2>2, <2>3, SMT DEF Entries
  <2> QED BY <1>1, <2>1, <2>3, <2>4, SMTT(30) DEF Follows
<1>2. CASE call.at # "Intent"
  <2>1. LastKind(Records) = IF call.at = "Sealed" THEN "Validated" ELSE "Intent"
    BY <1>2 DEF SchemaAt
  <2>2. Records # <<>>
    BY <2>1 DEF LastKind
  <2>3. Attempt = Last(Records).attempt /\ Attempt \in Nat
    BY <1>2, <2>2, LastRecord DEF HasLastEntry, Attempt, Entries
  <2>4. Entry(call.at, Attempt) = [kind |-> call.at, attempt |-> Attempt]
    BY DEF Entry
  <2>5. Entry(call.at, Attempt) \in Entries
    BY <2>3, <2>4, SMT DEF Entries
  <2> QED BY <1>2, <2>1, <2>2, <2>3, <2>4, <2>5, SMTT(30) DEF Follows
<1> QED BY <1>1, <1>2 DEF EntryFollows

(* What an append writes, and what the call does next. *)
Appended(rs, r) ==
    /\ call.at \in {"Failed", "Intent", "Validated", "Sealed"}
    /\ r \in Entries /\ Follows(rs, r) /\ rs \in Seq(Entries) /\ r.kind = call.at
    /\ call.at # "Intent" => rs # <<>> /\ r.attempt = Last(rs).attempt
    /\ schema' = [planned |-> schema.planned, journal |-> File(Append(rs, r)),
                  attempts |-> schema.attempts, receipt |-> schema.receipt,
                  max_attempts |-> schema.max_attempts]
    /\ Records' = Append(rs, r) /\ Tries' = Tries /\ schema'.attempts = schema.attempts
    /\ Interruptions' = Interruptions /\ Interruptions \in Nat
    /\ Len(rs) \in Nat /\ Last(Append(rs, r)) = r /\ LastKind(Append(rs, r)) = call.at
    /\ Append(rs, r) # <<>> /\ DOMAIN Append(rs, r) = 1..(Len(rs) + 1)
    /\ \A i \in 1..Len(rs) : Append(rs, r)[i] = rs[i]
    /\ Append(rs, r)[Len(rs) + 1] = r
    /\ \/ call.at = "Failed" /\ call'.at = "Intent"
       \/ call.at = "Intent" /\ call'.at = "Guard"
       \/ call.at = "Validated" /\ call'.at = "Sealed"
       \/ call.at = "Sealed" /\ call'.at = "Receipt"

(* An append does so. *)
LEMMA EntryStep ==
    ASSUME SchemaInv, CallShape, FaultShape, AppendEntry, UNCHANGED faults,
           NEW rs, rs = Records, NEW r, r = Entry(call.at, Attempt)
    PROVE  Appended(rs, r)
<1> USE ZenonT(30)
<1> USE DEF SchemaInv
<1>0. call.at \in {"Failed", "Intent", "Validated", "Sealed"}
  BY DEF AppendEntry
<1>1. /\ r \in Entries /\ Follows(rs, r) /\ rs \in Seq(Entries) /\ r.kind = call.at
      /\ call.at # "Intent" => rs # <<>> /\ r.attempt = Last(rs).attempt
  <2>1. r.kind = call.at /\ r.attempt = Attempt
    BY DEF Entry
  <2>2. rs \in Seq(Entries)
    BY DEF SchemaData, SchemaShape
  <2>3. /\ r \in Entries /\ Follows(rs, r)
        /\ call.at # "Intent" => rs # <<>> /\ Attempt = Last(rs).attempt
    BY <1>0, AppendFollows DEF EntryFollows
  <2> QED BY <2>1, <2>2, <2>3
<1>2. schema' = [planned |-> schema.planned, journal |-> File(Append(rs, r)),
                    attempts |-> schema.attempts, receipt |-> schema.receipt,
                    max_attempts |-> schema.max_attempts]
  <2>1. schema' = [schema EXCEPT !.journal = File(Append(rs, r))]
    BY DEF AppendEntry, Records
  <2> QED BY <2>1 DEF SchemaData, SchemaShape
<1>3. /\ Records' = Append(rs, r) /\ Tries' = Tries /\ schema'.attempts = schema.attempts
      /\ Interruptions' = Interruptions /\ Interruptions \in Nat
  BY <1>2, FaultsGrow DEF FaultsCount, Records, Tries, File
<1>4. /\ Len(rs) \in Nat /\ Last(Append(rs, r)) = r /\ LastKind(Append(rs, r)) = call.at
      /\ Append(rs, r) # <<>> /\ DOMAIN Append(rs, r) = 1..(Len(rs) + 1)
      /\ \A i \in 1..Len(rs) : Append(rs, r)[i] = rs[i]
      /\ Append(rs, r)[Len(rs) + 1] = r
  BY <1>1, SMT DEF Last, LastKind
<1>5. \/ call.at = "Failed" /\ call'.at = "Intent"
      \/ call.at = "Intent" /\ call'.at = "Guard"
      \/ call.at = "Validated" /\ call'.at = "Sealed"
      \/ call.at = "Sealed" /\ call'.at = "Receipt"
  <2> DEFINE s == CASE call.at = "Failed" -> "Intent" [] call.at = "Intent" -> "Guard"
                    [] call.at = "Validated" -> "Sealed" [] call.at = "Sealed" -> "Receipt"
  <2>1. call' = [call EXCEPT !.at = s]
    BY DEF AppendEntry, GoTo
  <2>2. call'.at = s
    BY <2>1 DEF CallShape
  <2> QED BY <1>0, <2>2, SMT
<1> QED BY <1>0, <1>1, <1>2, <1>3, <1>4, <1>5 DEF Appended

(* What MakeAttempt and MarkAttempt do, with the attempt and its state. *)
AttemptMade(a, v) ==
    /\ LastKind(Records) = "Intent" /\ schema.planned = "Planned"
    /\ Records # <<>> /\ a \in Tries
    /\ schema' = [planned |-> schema.planned, journal |-> schema.journal,
                  attempts |-> [schema.attempts EXCEPT ![a] = v],
                  receipt |-> schema.receipt, max_attempts |-> schema.max_attempts]
    /\ schema'.planned = schema.planned /\ schema'.journal = schema.journal
    /\ schema'.max_attempts = schema.max_attempts /\ schema'.receipt = schema.receipt
    /\ schema'.attempts = [schema.attempts EXCEPT ![a] = v]
    /\ Records' = Records /\ Tries' = Tries /\ Interruptions' = Interruptions
    /\ \/ call.at = "Guard" /\ call'.at = "Mark"
       \/ call.at = "Mark" /\ call'.at = "Validated"

(* The attempt of the last INTENT is made, and then marked. *)
LEMMA AttemptStep ==
    ASSUME SchemaInv, CallShape, FaultShape, MakeAttempt \/ MarkAttempt, UNCHANGED faults,
           NEW a, a = Last(Records).attempt,
           NEW v, v = IF call.at = "Guard" THEN "Partial" ELSE "Marked"
    PROVE  AttemptMade(a, v)
<1> USE ZenonT(30)
<1> USE DEF SchemaInv
<1>1. call.at \in {"Guard", "Mark"} /\ LastKind(Records) = "Intent" /\ schema.planned = "Planned"
  BY DEF MakeAttempt, MarkAttempt, SchemaAt
<1>2. Records # <<>> /\ Attempt = a /\ a \in Tries
  <2>1. Records # <<>>
    BY <1>1 DEF LastKind
  <2> QED BY <1>1, <2>1, LastRecord DEF HasLastEntry, Attempt
<1>3. schema' = [planned |-> schema.planned, journal |-> schema.journal,
                 attempts |-> [schema.attempts EXCEPT ![a] = v],
                 receipt |-> schema.receipt, max_attempts |-> schema.max_attempts]
  BY <1>1, <1>2 DEF MakeAttempt, MarkAttempt, SchemaData, SchemaShape
<1>4. /\ schema'.planned = schema.planned /\ schema'.journal = schema.journal
      /\ schema'.max_attempts = schema.max_attempts /\ schema'.receipt = schema.receipt
      /\ schema'.attempts = [schema.attempts EXCEPT ![a] = v]
  BY <1>3
<1>5. Records' = Records /\ Tries' = Tries /\ Interruptions' = Interruptions
  BY <1>4, FaultsGrow DEF FaultsCount, Records, Tries
<1>6. \/ call.at = "Guard" /\ call'.at = "Mark"
      \/ call.at = "Mark" /\ call'.at = "Validated"
  BY <1>1, GoToShape DEF MakeAttempt, MarkAttempt, RecoverySteps
<1> HIDE DEF SchemaInv
<1> QED BY <1>1, <1>2, <1>3, <1>4, <1>5, <1>6 DEF AttemptMade

(* Every step of a schema upgrade and of its activation. *)
LEMMA SchemaNextKeeps ==
    CountsFit /\ SchemaInv /\ CallShape /\ FaultShape /\ SchemaNext => SchemaInv' /\ FaultShape'

(* decode_records accepts what was accepted before and one more record     *)
(* that may follow it.                                                     *)
<1>AppendInOrder.
    ASSUME CountsFit, NEW rs \in Seq(Entries), NEW r \in Entries, InOrder(rs), Follows(rs, r)
    PROVE  InOrder(Append(rs, r))
  <2> USE <1>AppendInOrder
  <2> DEFINE N == Len(rs)
             new == Append(rs, r)
  <2>1. /\ N \in Nat /\ DOMAIN new = 1..(N + 1) /\ new[N + 1] = r
        /\ \A i \in 1..N : new[i] = rs[i]
        /\ N > 0 => Last(rs) = rs[N] /\ rs # <<>>
        /\ N = 0 => rs = <<>>
    BY DEF Last
  <2>2. \A n \in 0..N : IntentsIn(new, n) = IntentsIn(rs, n)
    BY Zenon DEF CountsFit
  <2> SUFFICES ASSUME NEW i \in 1..(N + 1)
               PROVE  IF new[i].kind = "Intent"
                      THEN /\ i > 1 => new[i - 1].kind = "Failed"
                           /\ new[i].attempt = IntentsIn(new, i - 1) /\ new[i].attempt \in Tries
                      ELSE /\ i > 1 /\ new[i - 1].attempt = new[i].attempt
                           /\ new[i - 1].kind = IF new[i].kind = "Sealed" THEN "Validated" ELSE "Intent"
    BY <2>1, Zenon DEF InOrder
  <2>3. CASE i \in 1..N
    <3>1. new[i] = rs[i] /\ (i > 1 => new[i - 1] = rs[i - 1]) /\ i - 1 \in 0..N
      BY <2>1, <2>3
    <3>2. IF rs[i].kind = "Intent"
          THEN /\ i > 1 => rs[i - 1].kind = "Failed"
               /\ rs[i].attempt = IntentsIn(rs, i - 1) /\ rs[i].attempt \in Tries
          ELSE /\ i > 1 /\ rs[i - 1].attempt = rs[i].attempt
               /\ rs[i - 1].kind = IF rs[i].kind = "Sealed" THEN "Validated" ELSE "Intent"
      BY <2>3 DEF InOrder
    <3> HIDE DEF new
    <3> QED BY <2>2, <3>1, <3>2, Zenon
  <2>4. CASE i = N + 1
    <3>1. i - 1 = N /\ (N > 0 <=> i > 1) /\ new[i] = r
      BY <2>1, <2>4
    <3>2. N > 0 => new[i - 1] = Last(rs)
      BY <2>1, <3>1
    <3>3. IntentsIn(new, i - 1) = Intents(rs)
      BY <2>1, <2>2, <3>1 DEF Intents
    <3> HIDE DEF new
    <3>4. CASE r.kind = "Intent"
      <4>1. LastKind(rs) \in {"None", "Failed"} /\ r.attempt = Intents(rs) /\ r.attempt \in Tries
        BY <3>4, Zenon DEF Follows
      <4>2. i > 1 => Last(rs).kind = "Failed"
        <5>1. i > 1 => LastKind(rs) = Last(rs).kind /\ Last(rs) \in Entries
          BY <2>1, <3>1 DEF LastKind
        <5> QED BY <4>1, <5>1, Zenon DEF Entries
      <4> QED BY <3>1, <3>2, <3>3, <3>4, <4>1, <4>2, ZenonT(60)
    <3>5. CASE r.kind # "Intent"
      <4>1. /\ rs # <<>> /\ Last(rs).attempt = r.attempt
            /\ Last(rs).kind = IF r.kind = "Sealed" THEN "Validated" ELSE "Intent"
        BY <3>5, Zenon DEF Follows, LastKind
      <4>2. N > 0
        BY <2>1, <4>1
      <4> QED BY <3>1, <3>2, <3>5, <4>1, <4>2, ZenonT(60)
    <3> QED BY <3>4, <3>5, Zenon
  <2> QED BY <2>3, <2>4

(* Nothing but a SEALED record follows a VALIDATED one. *)
<1>ValidatedIsLast.
    ASSUME NEW rs \in Seq(Entries), InOrder(rs), NEW i \in DOMAIN rs, rs[i].kind = "Validated"
    PROVE  LastKind(rs) \in {"Validated", "Sealed"}
  <2> USE <1>ValidatedIsLast
  <2>1. \A j \in DOMAIN rs : j > 1 /\ rs[j - 1].kind = "Validated" => rs[j].kind = "Sealed"
    BY Zenon DEF InOrder
  <2>2. \A j \in DOMAIN rs : ~(j > 1 /\ rs[j - 1].kind = "Sealed")
    BY Zenon DEF InOrder
  <2>3. Len(rs) \in Nat /\ DOMAIN rs = 1..Len(rs) /\ rs # <<>> /\ Last(rs) = rs[Len(rs)]
    BY DEF Last
  <2>4. CASE i = Len(rs)
    BY <2>3, <2>4, Zenon DEF LastKind
  <2>5. CASE i < Len(rs)
    <3>1. i + 1 \in DOMAIN rs /\ (i + 1) - 1 = i /\ i + 1 > 1
      BY <2>3, <2>5
    <3>2. rs[i + 1].kind = "Sealed"
      BY <2>1, <3>1, Zenon
    <3>3. i + 1 = Len(rs)
      <4>1. SUFFICES ASSUME i + 1 < Len(rs) PROVE FALSE
        BY <2>3, <2>5
      <4>2. i + 2 \in DOMAIN rs /\ (i + 2) - 1 = i + 1 /\ i + 2 > 1
        BY <2>3, <4>1
      <4> QED BY <2>2, <3>2, <4>2, Zenon
    <3> QED BY <2>3, <3>2, <3>3, ZenonT(30) DEF LastKind
  <2> QED BY <2>3, <2>4, <2>5

(* resume_inner finds the last record and goes on from there. *)
<1>ResumeKeeps.
    ASSUME SchemaInv, FaultShape, resume_schema_upgrade, UNCHANGED faults
    PROVE  SchemaInv'
  <2> USE <1>ResumeKeeps, ZenonT(30)
  <2>1. /\ call.at = "Idle" /\ UNCHANGED schema
        /\ \/ /\ LastKind(Records) \in {"None", "Failed"} /\ Intents(Records) \in Tries
              /\ call' = [at |-> "Intent"]
           \/ /\ LastKind(Records) = "Intent" /\ Intents(Records) \in Tries
              /\ call' = [at |-> "Failed"]
           \/ LastKind(Records) = "Validated" /\ call' = [at |-> "Sealed"]
           \/ call' = [at |-> "Receipt"]
    BY DEF resume_schema_upgrade, Idle
  <2>2. SchemaData' /\ Records' = Records /\ Tries' = Tries /\ Interruptions' = Interruptions
    BY <2>1, SchemaSame, FaultsGrow DEF FaultsCount, SchemaInv
  <2>3. Spent'
    <3>1. call'.at \notin {"Guard", "Mark", "Validated"}
      BY <2>1, SMT
    <3> QED BY <2>1, <2>2, <3>1 DEF SchemaInv, Spent
  <2>4. SchemaAt'
    <3>1. schema'.planned = "Planned"
      BY <2>1 DEF resume_schema_upgrade, SchemaVerifies
    <3> QED BY <2>1, <2>2, <3>1, SMT DEF SchemaAt
  <2> QED BY <2>2, <2>3, <2>4 DEF SchemaInv

(* The append of a record that may follow, and what the call does next. *)
<1>EntryKeeps.
    ASSUME CountsFit, SchemaInv, CallShape, FaultShape, AppendEntry, UNCHANGED faults
    PROVE  SchemaInv'
  <2> USE <1>EntryKeeps, ZenonT(30)
  <2>a. PICK rs, r : rs = Records /\ r = Entry(call.at, Attempt)
    OBVIOUS
  <2>b. Appended(rs, r)
    BY <2>a, EntryStep
  <2> USE DEF SchemaInv
  <2>0. call.at \in {"Failed", "Intent", "Validated", "Sealed"}
    BY DEF AppendEntry
  <2>1. /\ r \in Entries /\ Follows(rs, r) /\ rs \in Seq(Entries) /\ r.kind = call.at
        /\ call.at # "Intent" => rs # <<>> /\ r.attempt = Last(rs).attempt
    BY <2>b DEF Appended
  <2>2. /\ schema' = [planned |-> schema.planned, journal |-> File(Append(rs, r)),
                      attempts |-> schema.attempts, receipt |-> schema.receipt,
                      max_attempts |-> schema.max_attempts]
        /\ schema.planned = schema'.planned
    <3>1. schema' = [planned |-> schema.planned, journal |-> File(Append(rs, r)),
                     attempts |-> schema.attempts, receipt |-> schema.receipt,
                     max_attempts |-> schema.max_attempts]
      BY <2>b DEF Appended
    <3> QED BY <3>1
  <2>3. /\ Records' = Append(rs, r) /\ Tries' = Tries /\ schema'.attempts = schema.attempts
        /\ Interruptions' = Interruptions /\ Interruptions \in Nat
    BY <2>b DEF Appended
  <2>4. SchemaShape'
    <3>1. Append(rs, r) \in Seq(Entries)
      BY <2>1, SMT
    <3>2. /\ schema.max_attempts \in Nat
          /\ schema.attempts \in [Tries -> {"Absent", "Partial", "Marked"}]
      BY DEF SchemaData, SchemaShape
    <3>3. schema'.journal = [there |-> TRUE, records |-> Append(rs, r), torn |-> FALSE]
      BY <2>2 DEF File
    <3> HIDE DEF SchemaInv
    <3> QED BY <2>2, <2>3, <3>1, <3>2, <3>3, SMTT(30) DEF SchemaShape
  <2>5. InOrder(Records)'
    <3>1. InOrder(Append(rs, r))
      BY <2>1, <2>a, <1>AppendInOrder DEF SchemaData
    <3> QED BY <2>3, <3>1 DEF InOrder
  <2>6. /\ Len(rs) \in Nat /\ Last(Append(rs, r)) = r /\ LastKind(Append(rs, r)) = call.at
        /\ Append(rs, r) # <<>> /\ DOMAIN Append(rs, r) = 1..(Len(rs) + 1)
        /\ \A i \in 1..Len(rs) : Append(rs, r)[i] = rs[i]
        /\ Append(rs, r)[Len(rs) + 1] = r
    BY <2>b DEF Appended
  <2>7. SchemaData'
    <3>1. Marked(Append(rs, r), schema.attempts)
      <4> SUFFICES ASSUME NEW i \in 1..(Len(rs) + 1), Append(rs, r)[i].kind = "Validated"
                   PROVE  schema.attempts[Append(rs, r)[i].attempt] = "Marked"
        BY <2>6 DEF Marked
      <4>1. CASE i \in 1..Len(rs)
        <5>1. Append(rs, r)[i] = rs[i] /\ i \in DOMAIN rs
          BY <2>1, <2>6, <4>1, SMTT(30)
        <5>2. Marked(rs, schema.attempts)
          BY <2>a DEF SchemaData
        <5> QED BY <5>1, <5>2 DEF Marked
      <4>2. CASE i = Len(rs) + 1
        <5>1. call.at = "Validated" /\ r.attempt = Last(rs).attempt /\ Append(rs, r)[i] = r
          BY <2>1, <2>6, <4>2
        <5>2. schema.attempts[Last(rs).attempt] = "Marked"
          BY <2>a, <5>1 DEF SchemaAt
        <5> QED BY <5>1, <5>2
      <4> QED BY <2>6, <4>1, <4>2, SMTT(30)
    <3>2. schema'.planned = "Planned"
      BY <2>0, <2>2 DEF SchemaAt
    <3> QED BY <2>3, <2>4, <2>5, <3>1, <3>2 DEF SchemaData
  <2>8. /\ call.at = "Intent" => Intents(Append(rs, r)) = Intents(rs) + 1
        /\ call.at # "Intent" => Intents(Append(rs, r)) = Intents(rs)
        /\ Intents(rs) \in Nat
    <3>1. Len(rs) \in Nat
      BY <2>1, SMT
    <3> QED BY <2>1, <2>6, <3>1 DEF CountsFit, Intents
  <2>9. \/ call.at = "Failed" /\ call'.at = "Intent"
        \/ call.at = "Intent" /\ call'.at = "Guard"
        \/ call.at = "Validated" /\ call'.at = "Sealed"
        \/ call.at = "Sealed" /\ call'.at = "Receipt"
    BY <2>b DEF Appended
  <2>10. Spent'
    <3>1. /\ Intents(rs) <= Interruptions + 1
          /\ call.at \in {"Failed", "Intent"} => Intents(rs) <= Interruptions
      BY <2>a, SMT DEF Spent, SchemaAt
    <3> QED BY <2>3, <2>6, <2>8, <2>9, <3>1, SMT DEF Spent
  <2>11. SchemaAt'
    <3>1. schema'.planned = "Planned"
      BY <2>0, <2>2 DEF SchemaAt
    <3>2. call.at = "Failed" => Intents(rs) \in Tries
      BY <2>a DEF SchemaAt
    <3> QED BY <2>3, <2>6, <2>8, <2>9, <3>1, <3>2 DEF SchemaAt
  <2> QED BY <2>7, <2>10, <2>11

(* The attempt of the last INTENT is made and marked before it is recorded *)
(* as VALIDATED; no VALIDATED record is about that attempt.                *)
<1>AttemptKeeps.
    ASSUME SchemaInv, CallShape, FaultShape, MakeAttempt \/ MarkAttempt, UNCHANGED faults
    PROVE  SchemaInv'
  <2> USE <1>AttemptKeeps, ZenonT(30)
  <2>a. PICK a, v : /\ a = Last(Records).attempt
                    /\ v = IF call.at = "Guard" THEN "Partial" ELSE "Marked"
    OBVIOUS
  <2>1. /\ LastKind(Records) = "Intent" /\ schema.planned = "Planned"
        /\ Records # <<>> /\ a \in Tries
    BY <2>a, AttemptStep DEF AttemptMade
  <2>3. schema' = [planned |-> schema.planned, journal |-> schema.journal,
                   attempts |-> [schema.attempts EXCEPT ![a] = v],
                   receipt |-> schema.receipt, max_attempts |-> schema.max_attempts]
    BY <2>a, AttemptStep DEF AttemptMade
  <2>4. /\ schema'.planned = schema.planned /\ schema'.journal = schema.journal
        /\ schema'.max_attempts = schema.max_attempts
        /\ schema'.attempts = [schema.attempts EXCEPT ![a] = v]
    BY <2>3
  <2>5. Records' = Records /\ Tries' = Tries /\ Interruptions' = Interruptions
    BY <2>a, AttemptStep DEF AttemptMade
  <2> USE DEF SchemaInv
  <2>6. /\ schema'.attempts \in [Tries' -> {"Absent", "Partial", "Marked"}]
        /\ schema'.attempts[a] = v
    <3>1. schema.attempts \in [Tries -> {"Absent", "Partial", "Marked"}]
      BY DEF SchemaData, SchemaShape
    <3> QED BY <2>1, <2>a, <2>4, <2>5, <3>1
  <2>7. \A i \in DOMAIN Records : Records[i].kind # "Validated"
    BY <2>1, <1>ValidatedIsLast DEF SchemaData, SchemaShape
  <2>8. SchemaData'
    <3>1. SchemaShape'
      BY <2>3, <2>4, <2>5, <2>6 DEF SchemaData, SchemaShape
    <3>2. Marked(Records, schema'.attempts)
      BY <2>7 DEF Marked
    <3>3. InOrder(Records)'
      BY <2>5 DEF SchemaData, InOrder
    <3> QED BY <2>1, <2>4, <2>5, <3>1, <3>2, <3>3 DEF SchemaData
  <2>9. \/ call.at = "Guard" /\ call'.at = "Mark"
        \/ call.at = "Mark" /\ call'.at = "Validated"
    <3> HIDE DEF SchemaInv
    <3> QED BY <2>a, AttemptStep DEF AttemptMade
  <2>10. Spent'
    BY <2>5, <2>9 DEF Spent
  <2>11. SchemaAt'
    BY <2>1, <2>4, <2>5, <2>6, <2>9, <2>a DEF SchemaAt
  <2> QED BY <2>8, <2>10, <2>11

(* start_inner, and the receipt at the end. *)
<1>EndsKeep.
    ASSUME SchemaInv, CallShape, FaultShape, UNCHANGED faults,
           start_schema_upgrade \/ WritePlan \/ PendReceipt \/ PublishReceipt
    PROVE  SchemaInv'
  <2> USE <1>EndsKeep, ZenonT(30)
  <2> USE DEF SchemaInv
  <2>1. /\ call.at \notin {"Guard", "Mark", "Validated"}
        /\ call'.at \in {"Idle", "Plan", "Rename"}
        /\ call'.at = "Plan" => schema.planned = "Absent"
    BY IdleShape, GoToShape, NewShape, SMTT(30) DEF start_schema_upgrade, WritePlan, PendReceipt, PublishReceipt,
       Idle, RecoverySteps
  <2>2. \E p, j, c :
           /\ schema' = [planned |-> p, journal |-> j, attempts |-> schema.attempts,
                         receipt |-> c, max_attempts |-> schema.max_attempts]
           /\ \/ p = schema.planned /\ j = schema.journal
              \/ p # "Planned" /\ schema.planned # "Planned" /\ j = schema.journal
              \/ j = File(<<>>) /\ Records = <<>>
    <3> DEFINE with(p, j, c) ==
                 [planned |-> p, journal |-> j, attempts |-> schema.attempts,
                  receipt |-> c, max_attempts |-> schema.max_attempts]
    <3>1. CASE start_schema_upgrade
      <4>1. schema' = with("Empty", schema.journal, schema.receipt)
        BY <3>1 DEF start_schema_upgrade, SchemaData, SchemaShape
      <4> QED BY <3>1, <4>1 DEF start_schema_upgrade
    <3>2. CASE WritePlan
      <4>1. schema' = with("Planned", File(<<>>), schema.receipt)
        BY <3>2 DEF WritePlan, SchemaData, SchemaShape
      <4> QED BY <3>2, <4>1 DEF WritePlan, SchemaAt
    <3>3. CASE PendReceipt \/ PublishReceipt
      <4>1. PICK c : schema' = with(schema.planned, schema.journal, c)
        BY <3>3 DEF PendReceipt, PublishReceipt, SchemaData, SchemaShape
      <4> QED BY <4>1
    <3> QED BY <3>1, <3>2, <3>3
  <2>3. /\ Records' = Records /\ Tries' = Tries /\ schema'.attempts = schema.attempts
        /\ Interruptions' = Interruptions
    BY <2>2, FaultsGrow, SMT DEF FaultsCount, Records, Tries, File
  <2>4. SchemaData'
    <3>1. SchemaShape'
      BY <2>2, <2>3, SMTT(30) DEF SchemaData, SchemaShape, File
    <3>2. InOrder(Records)'
      BY <2>3 DEF SchemaData, InOrder
    <3>3. schema'.planned # "Planned" => Records = <<>>
      BY <2>2, SMT DEF SchemaData
    <3> QED BY <2>3, <3>1, <3>2, <3>3 DEF SchemaData
  <2>5. Spent'
    BY <2>1, <2>3 DEF Spent
  <2>6. SchemaAt'
    <3>1. call'.at \notin {"Intent", "Failed", "Guard", "Mark", "Validated", "Sealed"}
      BY <2>1
    <3>2. call'.at = "Plan" => Records' = <<>>
      BY <2>1, <2>3 DEF SchemaData
    <3> QED BY <3>1, <3>2 DEF SchemaAt
  <2> QED BY <2>4, <2>5, <2>6

(* A call on the schema upgrade that ends leaves no VALIDATED record over  *)
(* an attempt that is not whole, and costs one attempt at most.            *)
<1>SchemaStopKeeps.
    ASSUME CountsFit, SchemaInv, CallShape, FaultShape, SchemaStops
    PROVE  SchemaInv'
  <2> USE <1>SchemaStopKeeps, ZenonT(30)
  <2> USE DEF SchemaInv
  <2>1. call'.at = "Idle" /\ Interruptions' = Interruptions + 1 /\ Interruptions \in Nat
    BY FaultsGrow, IdleShape DEF FaultsCount, SchemaStops, Stop
  <2>2. \E j, c :
           /\ schema' = [planned |-> schema.planned, journal |-> j, attempts |-> schema.attempts,
                         receipt |-> c, max_attempts |-> schema.max_attempts]
           /\ j = schema.journal \/ j = [there |-> TRUE, records |-> Records, torn |-> TRUE]
    <3> DEFINE with(j, c) ==
                 [planned |-> schema.planned, journal |-> j, attempts |-> schema.attempts,
                  receipt |-> c, max_attempts |-> schema.max_attempts]
    <3>1. CASE UNCHANGED schema
      BY <3>1 DEF SchemaData, SchemaShape
    <3>2. CASE schema' = [schema EXCEPT !.journal = Torn(@)]
      <4>1. Torn(schema.journal) = [there |-> TRUE, records |-> Records, torn |-> TRUE]
        <5>1. PICK a, t : schema.journal = [there |-> a, records |-> Records, torn |-> t]
          BY DEF SchemaData, SchemaShape
        <5>2. Torn(schema.journal) = Torn([there |-> a, records |-> Records, torn |-> t])
          BY <5>1
        <5> QED BY <5>2, TornFile
      <4>2. schema' = with(Torn(schema.journal), schema.receipt)
        BY <3>2 DEF SchemaData, SchemaShape
      <4> QED BY <4>1, <4>2
    <3>3. CASE schema' = [schema EXCEPT !.receipt = "Torn"]
      <4>1. schema' = with(schema.journal, "Torn")
        BY <3>3 DEF SchemaData, SchemaShape
      <4> QED BY <4>1
    <3> QED BY <3>1, <3>2, <3>3 DEF SchemaStops
  <2>3. /\ Records' = Records /\ Tries' = Tries /\ schema'.attempts = schema.attempts
        /\ schema'.planned = schema.planned
    BY <2>2, SMT DEF Records, Tries
  <2>4. SchemaData'
    <3>1. SchemaShape'
      BY <2>2, <2>3, SMTT(30) DEF SchemaData, SchemaShape
    <3>2. InOrder(Records)'
      BY <2>3 DEF SchemaData, InOrder
    <3> QED BY <2>3, <3>1, <3>2 DEF SchemaData
  <2>5. Intents(Records) \in Nat
    <3>1. Len(Records) \in Nat
      BY SMT DEF SchemaData, SchemaShape
    <3> QED BY <3>1 DEF CountsFit, Intents
  <2>6. Spent'
    BY <2>1, <2>3, <2>5, SMTT(30) DEF Spent
  <2>7. SchemaAt'
    BY <2>1, <2>3 DEF SchemaAt
  <2> QED BY <2>4, <2>6, <2>7
<1> USE ZenonT(30)
<1> SUFFICES ASSUME CountsFit, SchemaInv, CallShape, FaultShape, SchemaNext PROVE SchemaInv' /\ FaultShape'
  OBVIOUS
<1>1. CASE resume_schema_upgrade /\ UNCHANGED faults
  BY <1>1, <1>ResumeKeeps, FaultsGrow DEF FaultsCount
<1>2. CASE AppendEntry /\ UNCHANGED faults
  BY <1>2, <1>EntryKeeps, FaultsGrow DEF FaultsCount
<1>3. CASE (MakeAttempt \/ MarkAttempt) /\ UNCHANGED faults
  BY <1>3, <1>AttemptKeeps, FaultsGrow DEF FaultsCount
<1>4. CASE /\ start_schema_upgrade \/ WritePlan \/ PendReceipt \/ PublishReceipt
           /\ UNCHANGED faults
  BY <1>4, <1>EndsKeep, FaultsGrow DEF FaultsCount
<1>5. CASE (ActivateStep \/ ActivateStart) /\ UNCHANGED <<schema, faults>>
  <2>1. /\ call.at \in ActivationSteps \cup {"Idle"}
        /\ call'.at \in ActivationSteps \cup {"Idle"}
    BY <1>5, IdleShape, NewShape, GoToShape, SMTT(30) DEF ActivateStep, ActivateStart, ActivateGuard,
       ActivateCopy, ActivateSync, ActivateUnlink, ActivateFinish, ActivationSteps,
       RecoverySteps, Idle
  <2>2. SchemaData' /\ Records' = Records /\ Interruptions' = Interruptions /\ FaultShape'
    BY <1>5, SchemaSame, FaultsGrow DEF FaultsCount, SchemaInv
  <2>3. Spent'
    BY <2>1, <2>2 DEF SchemaInv, Spent, ActivationSteps
  <2>4. SchemaAt'
    BY <2>1 DEF SchemaAt, ActivationSteps
  <2> QED BY <2>2, <2>3, <2>4 DEF SchemaInv
<1>6. CASE SchemaStops
  BY <1>6, <1>SchemaStopKeeps, FaultsGrow DEF FaultsCount, SchemaStops
<1> QED BY <1>1, <1>2, <1>3, <1>4, <1>5, <1>6 DEF SchemaNext, SchemaStep

-----------------------------------------------------------------------------
(* The upgrade of one source leaves the records of the other empty. *)
RecordsInv ==
    /\ TargetInv /\ FaultShape
    /\ subject \in {"Legacy", "Schema"}
    /\ subject = "Legacy" => RecoveryInv /\ Records = <<>>
    /\ subject = "Schema" => SchemaInv /\ journal = Sure(NoFile)

(* A journal without records is in order, and no attempt was spent. *)
LEMMA NoRecords ==
    ASSUME CountsFit, Records = <<>>
    PROVE  InOrder(Records) /\ Intents(Records) = 0 /\ LastKind(Records) = "None"
<1>1. DOMAIN Records = {} /\ Len(Records) = 0
  OBVIOUS
<1>2. Intents(Records) = 0
  BY <1>1, Zenon DEF CountsFit, Intents
<1> QED BY <1>1, <1>2, ZenonT(30) DEF InOrder, LastKind

(* Both upgrades begin without records, attempts and faults. *)
LEMMA RecordsInit == CountsFit /\ Init => RecordsInv
<1> USE ZenonT(30)
<1> SUFFICES ASSUME CountsFit, Init PROVE RecordsInv
  OBVIOUS
<1>1. TargetInv
  BY DEF Init, ActivationInit, Idle, TargetInv, TargetShape, Fresh, CallShape, RecoverySteps, Sure
<1>2. FaultShape /\ subject \in {"Legacy", "Schema"} /\ call.at = "Idle" /\ journal = Sure(NoFile)
  BY DEF Init, ActivationInit, FaultShape, Idle, UpgradeInit, RecoveryInit
<1>3. PICK m \in SchemaLimits :
        schema = [planned |-> "Absent", journal |-> NoFile,
                  attempts |-> [a \in 0..(m - 1) |-> "Absent"],
                  receipt |-> "Absent", max_attempts |-> m]
  BY DEF Init, SchemaInit
<1>4. Records = <<>>
  BY <1>3 DEF Records, NoFile
<1>5. SchemaInv
  <2>1. SchemaShape
    <3>1. m \in Nat /\ Tries = 0..(m - 1)
      BY <1>3, SchemaLimitsAssumption DEF Tries
    <3>2. schema.attempts \in [Tries -> {"Absent", "Partial", "Marked"}]
      BY <1>3, <3>1
    <3>3. /\ schema = [planned |-> schema.planned, journal |-> schema.journal,
                       attempts |-> schema.attempts, receipt |-> schema.receipt,
                       max_attempts |-> schema.max_attempts]
          /\ schema.max_attempts = m /\ schema.journal = NoFile
      BY <1>3
    <3>4. schema.journal = [there |-> schema.journal.there, records |-> Records,
                            torn |-> schema.journal.torn]
      BY <3>3 DEF Records, NoFile
    <3> QED BY <1>4, <3>1, <3>2, <3>3, <3>4, SMTT(30) DEF SchemaShape
  <2>2. SchemaData
    BY <1>4, <2>1, NoRecords, SMTT(30) DEF SchemaData, Marked
  <2>3. Spent
    BY <1>2, <1>4, NoRecords, FaultsGrow, SMTT(30) DEF FaultsCount, Spent
  <2>4. SchemaAt
    BY <1>2 DEF SchemaAt
  <2> QED BY <2>2, <2>3, <2>4 DEF SchemaInv
<1>6. RecoveryInv
  <2>1. /\ from \in 0..1 /\ max_attempts \in Nat /\ room = Sure(FALSE)
        /\ attempts = [a \in Numbers |-> Sure(Absent)] /\ progress = Sure(NoFile)
    BY LimitsAssumption DEF Init, UpgradeInit, RecoveryInit, ReceiptInit
  <2>2. ASSUME NEW R PROVE Journals(Sure(NoFile), R)
    <3>1. IsFile(NoFile, R)
      BY FileShapes DEF FilesOf
    <3> QED BY <3>1 DEF Journals, IsCell, Sure
  <2>3. /\ attempts = [a \in Numbers |-> attempts[a]]
        /\ \A a \in Numbers : IsCell(attempts[a]) /\ attempts[a].now = Absent
    BY <2>1 DEF IsCell, Sure
  <2>4. IsCell(room) /\ room.may \subseteq BOOLEAN
    BY <2>1 DEF IsCell, Sure
  <2>5. RecoveryShape
    BY <1>2, <2>1, <2>2, <2>3, <2>4 DEF RecoveryShape
  <2>6. \A f \in journal.may : ~Decodes(f)
    BY <1>2, SMT DEF Sure, Decodes, NoFile
  <2>7. RecoveryData
    BY <1>2, <2>3, <2>5, <2>6 DEF RecoveryData
  <2>8. RecoveryAt
    BY <1>2 DEF RecoveryAt, RunAt, WorkAt, StepAt, RecoverySteps, Working
  <2>9. OuterAt
    BY <1>2, <2>1, <2>2 DEF OuterAt
  <2> QED BY <2>7, <2>8, <2>9 DEF RecoveryInv
<1> QED BY <1>1, <1>2, <1>4, <1>5, <1>6 DEF RecordsInv

(* Every call, cut-off call and power loss of either upgrade keeps it. *)
LEMMA RecordsNext == CountsFit /\ RecordsInv /\ [Next]_vars => RecordsInv'
<1> USE ZenonT(30)
<1> SUFFICES ASSUME CountsFit, RecordsInv, [Next]_vars PROVE RecordsInv'
  OBVIOUS
<1>0. TargetInv /\ CallShape /\ FaultShape
  BY DEF RecordsInv, TargetInv
<1>1. CASE UNCHANGED vars
  <2>1. /\ UNCHANGED <<subject, target, call, faults, schema, recoveryVars, progress, journal>>
    BY <1>1 DEF vars, upgradeVars, activationVars, receiptVars, recoveryVars
  <2>2. TargetInv' /\ FaultShape'
    BY <1>0, <2>1 DEF TargetInv, TargetShape, CallShape, Fresh, Guarded, Opening, FaultShape
  <2>3. SchemaInv => SchemaInv'
    BY <2>1, SchemaSame DEF SchemaInv, Spent, SchemaAt, Interruptions, Records
  <2>4. RecoveryInv => RecoveryInv'
    <3>1. (RecoveryData' <=> RecoveryData) /\ (Ready' <=> Ready)
      BY <2>1, DataSame
    <3>2. UNCHANGED <<from, max_attempts, room, attempts, journal, call, progress>>
      BY <2>1 DEF recoveryVars
    <3>3. RecoveryAt' <=> RecoveryAt
      <4>1. Whole(call.records)' <=> Whole(call.records)
        BY <3>2 DEF Whole, Chained, Numbers, Holds
      <4>2. RunAt' <=> RunAt
        BY <3>2, <4>1 DEF RunAt, Completed
      <4>3. WorkAt' <=> WorkAt
        BY <3>2 DEF WorkAt, Numbers
      <4>4. Goal(call.records)' = Goal(call.records) /\ RecordOf(call)' = RecordOf(call)
        BY <3>2 DEF Goal, Version, RecordOf
      <4>5. StepAt' <=> StepAt
        BY <3>2, <4>4 DEF StepAt, Made
      <4> QED BY <4>2, <4>3, <4>5 DEF RecoveryAt
    <3>4. OuterAt' <=> OuterAt
      BY <3>1, <3>2 DEF OuterAt, Steps
    <3> QED BY <3>1, <3>3, <3>4 DEF RecoveryInv
  <2> QED BY <2>1, <2>2, <2>3, <2>4 DEF RecordsInv, Records
<1>2. CASE subject = "Legacy" /\ UpgradeNext /\ UNCHANGED <<schema, subject>>
  <2>1. TargetInv'
    BY <1>0, <1>2, KeepsTarget
  <2>2. FaultShape'
    <3>1. Stop \/ Loss \/ UNCHANGED faults
      BY <1>2 DEF UpgradeNext, UpgradeCalls, UpgradeActivates, UpgradeStops,
                         AppendCut, ProgressCut, UpgradeLoses
    <3> QED BY <1>0, <3>1, FaultsGrow DEF FaultsCount
  <2>3. RecoveryInv'
    BY <1>0, <1>2, UpgradeKeepsRecords DEF RecordsInv
  <2> QED BY <1>2, <2>1, <2>2, <2>3 DEF RecordsInv, Records
<1>3. CASE subject = "Schema" /\ SchemaNext /\ UNCHANGED <<recoveryVars, receiptVars, subject>>
  <2>1. TargetInv'
    BY <1>0, <1>3, KeepsTarget
  <2>2. SchemaInv' /\ FaultShape'
    BY <1>0, <1>3, SchemaNextKeeps DEF RecordsInv
  <2> QED BY <1>3, <2>1, <2>2 DEF RecordsInv, recoveryVars
<1> QED BY <1>1, <1>2, <1>3 DEF Next

-----------------------------------------------------------------------------
(* The receipt of a schema upgrade. *)

Sealing == schema.planned = "Planned" /\ Decodes(schema.journal) /\ LastKind(Records) = "Sealed"

(* Every attempt that is there has its INTENT. *)
Intended(rs, kept) ==
    \A a \in Tries : kept[a] # "Absent" => \E i \in DOMAIN rs : rs[i] = Entry("Intent", a)

(* A receipt is begun only over a SEALED record, and nothing is appended   *)
(* to the journal once it is there.                                        *)
SchemaSeal ==
    /\ Intended(Records, schema.attempts)
    /\ call.at = "Plan" => schema.planned = "Empty"
    /\ call.at \in {"Receipt", "Rename"} => Sealing
    /\ call.at \in {"Intent", "Failed", "Guard", "Mark", "Validated", "Sealed"}
          => schema.receipt = "Absent" /\ Decodes(schema.journal)
    /\ schema.receipt # "Absent" => Sealing

(* Every step of a schema upgrade and of its activation. *)
LEMMA SchemaNextSeals ==
    SchemaInv /\ SchemaSeal /\ CallShape /\ FaultShape /\ SchemaNext => SchemaSeal'

(* resume_inner goes on to the receipt only from a SEALED record. *)
<1>ResumeSeals.
    ASSUME SchemaInv, SchemaSeal, resume_schema_upgrade
    PROVE  SchemaSeal'
  <2> USE <1>ResumeSeals, ZenonT(30)
  <2>1. /\ UNCHANGED schema /\ schema.planned = "Planned" /\ Decodes(schema.journal)
        /\ schema.receipt # "Absent" => LastKind(Records) = "Sealed"
        /\ \/ LastKind(Records) \in {"None", "Failed", "Intent", "Validated"}
                 /\ call'.at \in {"Intent", "Failed", "Sealed"}
           \/ LastKind(Records) \notin {"None", "Failed", "Intent", "Validated"}
                 /\ call'.at = "Receipt"
    <3>1. \/ LastKind(Records) \in {"None", "Failed"} /\ call' = [at |-> "Intent"]
          \/ LastKind(Records) = "Intent" /\ call' = [at |-> "Failed"]
          \/ LastKind(Records) = "Validated" /\ call' = [at |-> "Sealed"]
          \/ LastKind(Records) \notin {"None", "Failed", "Intent", "Validated"}
                /\ call' = [at |-> "Receipt"]
      BY DEF resume_schema_upgrade
    <3>2. /\ UNCHANGED schema /\ schema.planned = "Planned" /\ Decodes(schema.journal)
          /\ schema.receipt # "Absent" => LastKind(Records) = "Sealed"
      BY DEF resume_schema_upgrade, SchemaVerifies
    <3> QED BY <3>1, <3>2, SMT
  <2>2. LastKind(Records) \in {"None", "Failed", "Intent", "Validated", "Sealed"}
    BY LastRecord DEF HasLastEntry, SchemaInv, LastKind, Entries
  <2>3. Records' = Records /\ Tries' = Tries
    BY <2>1, SchemaSame
  <2>4. Intended(Records, schema.attempts)'
    BY <2>1, <2>3 DEF SchemaSeal, Intended, Entry
  <2>5. Sealing' <=> Sealing
    BY <2>1, <2>3 DEF Sealing, LastKind, Decodes
  <2>6. /\ call'.at # "Plan" /\ call'.at # "Rename"
        /\ call'.at = "Receipt" => Sealing
        /\ call'.at \in {"Intent", "Failed", "Guard", "Mark", "Validated", "Sealed"}
              => schema.receipt = "Absent" /\ Decodes(schema.journal)
    BY <2>1, <2>2 DEF Sealing
  <2>7. schema.receipt # "Absent" => Sealing
    BY DEF SchemaSeal
  <2> QED BY <2>1, <2>4, <2>5, <2>6, <2>7 DEF SchemaSeal

(* Each append is made while there is no receipt. *)
<1>EntrySeals.
    ASSUME SchemaInv, SchemaSeal, CallShape, FaultShape, AppendEntry, UNCHANGED faults
    PROVE  SchemaSeal'
  <2> USE <1>EntrySeals, ZenonT(30)
  <2>a. PICK rs, r : rs = Records /\ r = Entry(call.at, Attempt)
    OBVIOUS
  <2>b. Appended(rs, r)
    BY <2>a, EntryStep
  <2>1. schema' = [planned |-> schema.planned, journal |-> File(Append(rs, r)),
                   attempts |-> schema.attempts, receipt |-> schema.receipt,
                   max_attempts |-> schema.max_attempts]
    BY <2>b DEF Appended
  <2>2. /\ schema'.planned = schema.planned /\ schema'.receipt = schema.receipt
        /\ schema'.attempts = schema.attempts /\ Decodes(schema'.journal)
    BY <2>1 DEF File, Decodes
  <2>3. /\ call.at \in {"Failed", "Intent", "Validated", "Sealed"}
        /\ Records' = Append(rs, r) /\ Tries' = Tries
        /\ LastKind(Append(rs, r)) = call.at
        /\ \/ call.at = "Failed" /\ call'.at = "Intent"
           \/ call.at = "Intent" /\ call'.at = "Guard"
           \/ call.at = "Validated" /\ call'.at = "Sealed"
           \/ call.at = "Sealed" /\ call'.at = "Receipt"
    BY <2>b DEF Appended
  <2>4. /\ Len(rs) \in Nat /\ rs \in Seq(Entries) /\ DOMAIN Append(rs, r) = 1..(Len(rs) + 1)
        /\ \A i \in 1..Len(rs) : Append(rs, r)[i] = rs[i]
    BY <2>b DEF Appended
  <2>5. \A i \in DOMAIN rs : i \in DOMAIN Append(rs, r) /\ Append(rs, r)[i] = rs[i]
    BY <2>4, SMTT(30)
  <2>6. Intended(Records, schema.attempts)'
    <3>1. Intended(rs, schema.attempts)
      BY <2>a DEF SchemaSeal
    <3>2. ASSUME NEW a \in Tries, schema.attempts[a] # "Absent"
          PROVE  \E i \in DOMAIN Append(rs, r) : Append(rs, r)[i] = Entry("Intent", a)
      <4>1. PICK i \in DOMAIN rs : rs[i] = Entry("Intent", a)
        BY <3>1, <3>2 DEF Intended
      <4> QED BY <2>5, <4>1
    <3>3. \A a \in Tries' : schema'.attempts[a] # "Absent" =>
             \E i \in DOMAIN Records' : Records'[i] = Entry("Intent", a)
      BY <2>2, <2>3, <3>2
    <3> QED BY <3>3 DEF Intended
  <2>7. schema.receipt = "Absent" /\ schema.planned = "Planned"
    BY <2>3 DEF SchemaSeal, SchemaInv, SchemaAt
  <2>8. call'.at = "Receipt" => Sealing'
    BY <2>2, <2>3, <2>7 DEF Sealing
  <2>9. call'.at \notin {"Plan", "Rename"}
    BY <2>3
  <2> QED BY <2>2, <2>6, <2>7, <2>8, <2>9 DEF SchemaSeal

(* An attempt is made and marked after its INTENT. *)
<1>AttemptSeals.
    ASSUME SchemaInv, SchemaSeal, CallShape, FaultShape, MakeAttempt \/ MarkAttempt, UNCHANGED faults
    PROVE  SchemaSeal'
  <2> USE <1>AttemptSeals, ZenonT(30)
  <2>a. PICK a, v : /\ a = Last(Records).attempt
                    /\ v = IF call.at = "Guard" THEN "Partial" ELSE "Marked"
    OBVIOUS
  <2>1. LastKind(Records) = "Intent" /\ schema.planned = "Planned" /\ Records # <<>> /\ a \in Tries
    BY <2>a, AttemptStep DEF AttemptMade
  <2>2. schema' = [planned |-> schema.planned, journal |-> schema.journal,
                   attempts |-> [schema.attempts EXCEPT ![a] = v],
                   receipt |-> schema.receipt, max_attempts |-> schema.max_attempts]
    BY <2>a, AttemptStep DEF AttemptMade
  <2>3. /\ schema'.journal = schema.journal /\ schema'.receipt = schema.receipt
        /\ schema'.attempts = [schema.attempts EXCEPT ![a] = v]
    BY <2>2
  <2>4. /\ Records' = Records /\ Tries' = Tries
        /\ \/ call.at = "Guard" /\ call'.at = "Mark"
           \/ call.at = "Mark" /\ call'.at = "Validated"
    BY <2>a, AttemptStep DEF AttemptMade
  <2>5. Len(Records) \in DOMAIN Records /\ Records[Len(Records)] = Entry("Intent", a)
    BY <2>a, <2>1, LastRecord DEF HasLastEntry, SchemaInv, Entries, Entry
  <2>6. Intended(Records, schema.attempts)'
    <3>1. \A b \in Tries : b # a => schema'.attempts[b] = schema.attempts[b]
      BY <2>3 DEF SchemaInv, SchemaData, SchemaShape
    <3>2. Intended(Records, schema.attempts)
      BY DEF SchemaSeal
    <3> QED BY <2>4, <2>5, <3>1, <3>2 DEF Intended, Entry
  <2>7. schema.receipt = "Absent" /\ Decodes(schema.journal)
    BY <2>4 DEF SchemaSeal
  <2>8. call'.at \notin {"Plan", "Receipt", "Rename"}
    BY <2>4
  <2> QED BY <2>3, <2>6, <2>7, <2>8 DEF SchemaSeal

(* start_inner, and the receipt at the end. *)
<1>EndsSeal.
    ASSUME SchemaInv, SchemaSeal, CallShape,
           start_schema_upgrade \/ WritePlan \/ PendReceipt \/ PublishReceipt
    PROVE  SchemaSeal'
  <2> USE <1>EndsSeal, ZenonT(30)
  <2> DEFINE with(p, j, c) ==
               [planned |-> p, journal |-> j, attempts |-> schema.attempts,
                receipt |-> c, max_attempts |-> schema.max_attempts]
  <2>1. \/ /\ schema' = with("Empty", schema.journal, schema.receipt) /\ call'.at = "Plan"
           /\ schema.planned = "Absent"
        \/ /\ schema' = with("Planned", File(<<>>), schema.receipt) /\ call'.at = "Idle"
           /\ call.at = "Plan" /\ Records = <<>>
        \/ UNCHANGED schema /\ call'.at = "Idle"
        \/ \E c : /\ schema' = with(schema.planned, schema.journal, c) /\ call'.at \in {"Idle", "Rename"}
                  /\ call.at \in {"Receipt", "Rename"}
    <3> HIDE DEF with
    <3>1. CASE start_schema_upgrade
      <4>1. schema' = with("Empty", schema.journal, schema.receipt)
        BY <3>1 DEF start_schema_upgrade, SchemaInv, SchemaData, SchemaShape, with
      <4> QED BY <3>1, <4>1, NewShape DEF start_schema_upgrade, RecoverySteps
    <3>2. CASE WritePlan
      <4>1. schema' = with("Planned", File(<<>>), schema.receipt)
        BY <3>2 DEF WritePlan, SchemaInv, SchemaData, SchemaShape, with
      <4> QED BY <3>2, <4>1, IdleShape DEF WritePlan, SchemaInv, SchemaAt
    <3>3. CASE PendReceipt
      <4>1. CASE UNCHANGED schema /\ call' = Idle
        BY <4>1, IdleShape
      <4>2. CASE schema' = [schema EXCEPT !.receipt = "Pending"] /\ GoTo("Rename")
        <5>1. schema' = with(schema.planned, schema.journal, "Pending")
          BY <4>2 DEF SchemaInv, SchemaData, SchemaShape, with
        <5> QED BY <3>3, <4>2, <5>1, GoToShape DEF PendReceipt, RecoverySteps
      <4> QED BY <3>3, <4>1, <4>2 DEF PendReceipt
    <3>4. CASE PublishReceipt
      <4>1. schema' = with(schema.planned, schema.journal, "Complete")
        BY <3>4 DEF PublishReceipt, SchemaInv, SchemaData, SchemaShape, with
      <4> QED BY <3>4, <4>1, IdleShape DEF PublishReceipt
    <3> QED BY <3>1, <3>2, <3>3, <3>4
  <2>2. Records' = Records /\ Tries' = Tries /\ schema'.attempts = schema.attempts
    BY <2>1, SMTT(30) DEF Records, Tries, File
  <2>3. Intended(Records, schema.attempts)'
    BY <2>2 DEF SchemaSeal, Intended, Entry
  <2>4. /\ call'.at \in {"Idle", "Plan", "Rename"}
        /\ call'.at = "Plan" => schema'.planned = "Empty"
        /\ call'.at = "Rename" \/ schema'.receipt # "Absent" => Sealing'
    <3>1. CASE /\ schema' = with("Empty", schema.journal, schema.receipt) /\ call'.at = "Plan"
               /\ schema.planned = "Absent"
      BY <3>1 DEF SchemaSeal, Sealing
    <3>2. CASE /\ schema' = with("Planned", File(<<>>), schema.receipt) /\ call'.at = "Idle"
               /\ call.at = "Plan" /\ Records = <<>>
      BY <3>2 DEF SchemaSeal, Sealing
    <3>3. CASE UNCHANGED schema /\ call'.at = "Idle"
      BY <2>2, <3>3 DEF SchemaSeal, Sealing
    <3>4. ASSUME NEW c, schema' = with(schema.planned, schema.journal, c), call'.at \in {"Idle", "Rename"},
                 call.at \in {"Receipt", "Rename"}
          PROVE  call'.at # "Plan" /\ Sealing'
      <4>1. schema'.planned = schema.planned /\ schema'.journal = schema.journal
        BY <3>4
      <4> QED BY <2>2, <3>4, <4>1 DEF SchemaSeal, Sealing
    <3> HIDE DEF with
    <3> QED BY <2>1, <3>1, <3>2, <3>3, <3>4
  <2> QED BY <2>3, <2>4 DEF SchemaSeal

(* A call that ends tears the journal only while there is no receipt, and  *)
(* the receipt only over a SEALED record.                                  *)
<1>StopSeals.
    ASSUME SchemaInv, SchemaSeal, SchemaStops
    PROVE  SchemaSeal'
  <2> USE <1>StopSeals, ZenonT(30)
  <2>1. call'.at = "Idle"
    BY IdleShape DEF SchemaStops, Stop
  <2>2. /\ Records' = Records /\ Tries' = Tries /\ schema'.attempts = schema.attempts
        /\ schema'.receipt # "Absent" =>
              /\ Sealing /\ schema'.planned = schema.planned /\ schema'.journal = schema.journal
    <3>1. CASE UNCHANGED schema
      BY <3>1, SchemaSame DEF SchemaSeal
    <3>2. CASE /\ call.at \in {"Failed", "Intent", "Validated", "Sealed"}
               /\ schema' = [schema EXCEPT !.journal = Torn(@)]
      <4>1. schema' = [planned |-> schema.planned, journal |-> Torn(schema.journal),
                       attempts |-> schema.attempts, receipt |-> schema.receipt,
                       max_attempts |-> schema.max_attempts]
        BY <3>2 DEF SchemaInv, SchemaData, SchemaShape
      <4>2. Torn(schema.journal).records = Records
        <5>1. PICK x, t : schema.journal = [there |-> x, records |-> Records, torn |-> t]
          BY DEF SchemaInv, SchemaData, SchemaShape
        <5>2. Torn(schema.journal) = Torn([there |-> x, records |-> Records, torn |-> t])
          BY <5>1
        <5>3. Torn(schema.journal) = [there |-> TRUE, records |-> Records, torn |-> TRUE]
          BY <5>2, TornFile
        <5> QED BY <5>3, SMT
      <4>3. schema.receipt = "Absent"
        BY <3>2 DEF SchemaSeal
      <4> QED BY <4>1, <4>2, <4>3 DEF Records, Tries
    <3>3. CASE call.at = "Receipt" /\ schema' = [schema EXCEPT !.receipt = "Torn"]
      <4>1. schema' = [planned |-> schema.planned, journal |-> schema.journal,
                       attempts |-> schema.attempts, receipt |-> "Torn",
                       max_attempts |-> schema.max_attempts]
        BY <3>3 DEF SchemaInv, SchemaData, SchemaShape
      <4>2. Sealing
        BY <3>3 DEF SchemaSeal
      <4> QED BY <4>1, <4>2 DEF Records, Tries
    <3> QED BY <3>1, <3>2, <3>3 DEF SchemaStops
  <2>3. Intended(Records, schema.attempts)'
    BY <2>2 DEF SchemaSeal, Intended, Entry
  <2>4. schema'.receipt # "Absent" => Sealing'
    BY <2>2 DEF Sealing
  <2> QED BY <2>1, <2>3, <2>4 DEF SchemaSeal
<1> USE ZenonT(30)
<1> SUFFICES ASSUME SchemaInv, SchemaSeal, CallShape, FaultShape, SchemaNext PROVE SchemaSeal'
  OBVIOUS
<1>1. CASE resume_schema_upgrade
  BY <1>1, <1>ResumeSeals
<1>2. CASE AppendEntry /\ UNCHANGED faults
  BY <1>2, <1>EntrySeals
<1>3. CASE (MakeAttempt \/ MarkAttempt) /\ UNCHANGED faults
  BY <1>3, <1>AttemptSeals
<1>4. CASE start_schema_upgrade \/ WritePlan \/ PendReceipt \/ PublishReceipt
  BY <1>4, <1>EndsSeal
<1>5. CASE (ActivateStep \/ ActivateStart) /\ UNCHANGED schema
  <2>1. call'.at \in ActivationSteps \cup {"Idle"}
    BY <1>5, IdleShape, NewShape, GoToShape DEF ActivateStep, ActivateStart, ActivateGuard,
       ActivateCopy, ActivateSync, ActivateUnlink, ActivateFinish, ActivationSteps,
       RecoverySteps, Idle
  <2>2. Records' = Records /\ Tries' = Tries
    BY <1>5, SchemaSame
  <2>3. Intended(Records, schema.attempts)' /\ (Sealing' <=> Sealing)
    BY <1>5, <2>2 DEF SchemaSeal, Intended, Entry, Sealing, Decodes
  <2> QED BY <1>5, <2>1, <2>3 DEF SchemaSeal, ActivationSteps
<1>6. CASE SchemaStops
  BY <1>6, <1>StopSeals
<1> QED BY <1>1, <1>2, <1>3, <1>4, <1>5, <1>6 DEF SchemaNext, SchemaStep

(* A receipt that is there is over a journal and attempts that verify. *)
LEMMA SealVerifies ==
    ASSUME SchemaInv, SchemaSeal
    PROVE  SchemaSealedStands
<1> USE ZenonT(30)
<1>1. schema.receipt # "Absent" => Sealing
  BY DEF SchemaSeal
<1>2. /\ InOrder(Records) /\ Marked(Records, schema.attempts)
      /\ Intended(Records, schema.attempts)
  BY DEF SchemaSeal, SchemaInv, SchemaData
<1>3. schema.receipt # "Absent" => SchemaVerifies
  BY <1>1, <1>2 DEF SchemaVerifies, Sealing, Marked, Intended
<1> QED BY <1>1, <1>3 DEF SchemaSealedStands, SchemaSealed, Sealing

-----------------------------------------------------------------------------
(* The steps of a recovery, as what they do to the call and to the files. *)

SameRun == call'["then"] = call["then"] /\ call'.bound = call.bound

SameWork == SameRun /\ call'.records = call.records /\ call'.attempt = call.attempt

Refuses ==
    /\ call.at = "NewAttempt" /\ call'.at = "Idle"
    /\ UNCHANGED <<room, attempts, journal>>

Begins(n) ==
    /\ call.at = "NewAttempt" /\ call'.at = "Fill" /\ SameRun
    /\ call'.records = call.records /\ call'.attempt = n
    /\ next_attempt(n) /\ room' = Change(room, TRUE)
    /\ attempts' = [attempts EXCEPT ![n] = Change(@, Partial)]
    /\ UNCHANGED journal

Works ==
    /\ call.at \in Working \ {"Append"} /\ call'.at \in Working \ {"Fill"} /\ SameWork
    /\ call'.at = "SyncAttempt" <=> call.at = "Fill"
    /\ room' = room \/ room' = Sync(room)
    /\ call.at = "SyncAttempt" => room' = Sync(room)
    /\ attempts'[call.attempt].may # {Absent}
    /\ \A x \in Numbers : x # call.attempt /\ attempts[x].may = {Absent} => attempts'[x].may = {Absent}
    /\ UNCHANGED journal

Appends ==
    /\ call.at = "Append" /\ call'.at = "SyncRecord" /\ SameWork
    /\ journal' = Write(journal, RecordOf(call))
    /\ UNCHANGED <<room, attempts>>

Recorded == Append(call.records, RecordOf(call))

Keeps ==
    /\ call.at = "SyncRecord" /\ journal' = Sync(journal)
    /\ \/ call'.at = "NewAttempt" /\ SameRun /\ call'.records = Recorded
       \/ /\ Len(Recorded) = 1 \/ Completed(Recorded)
          /\ \/ call["then"] = "Return" /\ call'.at = "Idle"
             \/ call["then"] # "Return" /\ call'.at = call["then"]
    /\ UNCHANGED <<room, attempts>>

(* What the steps on an attempt leave of the attempts. *)
Worked ==
    /\ attempts'[call.attempt].may # {Absent}
    /\ \A x \in Numbers : x # call.attempt /\ attempts[x].may = {Absent} => attempts'[x].may = {Absent}

(* Each step of a recovery is one of those. *)
LEMMA RecoveryMoves ==
    RecoveryInv /\ CallShape /\ RecoveryStep
    => Refuses \/ (\E n \in Numbers : Begins(n)) \/ Works \/ Appends \/ Keeps

(* GoTo keeps the other fields of a call. *)
<1>GoToSame.
    ASSUME CallShape, NEW s, GoTo(s), {"at", "records", "attempt", "then", "bound"} \subseteq DOMAIN call
    PROVE  call'.at = s /\ SameWork
  <2> USE <1>GoToSame, ZenonT(30)
  <2>1. call' = [x \in DOMAIN call |-> IF x = "at" THEN s ELSE call[x]]
    BY DEF GoTo, CallShape
  <2> QED BY <2>1 DEF SameWork, SameRun

(* An attempt that is changed is there, or may be. *)
<1>ChangeWorks.
    ASSUME RecoveryShape, call.attempt \in Numbers, NEW v, v # Absent,
           attempts' = [attempts EXCEPT ![call.attempt] = Change(@, v)]
    PROVE  Worked
  <2> USE <1>ChangeWorks, ZenonT(30)
  <2>1. IsCell(attempts[call.attempt])
    BY DEF RecoveryShape
  <2>2. PICK c : c = Change(attempts[call.attempt], v)
    OBVIOUS
  <2>3. IsCell(c) /\ c.may = attempts[call.attempt].may \union {v}
    BY <2>1, <2>2, CellShapes DEF StaysCell
  <2>4. attempts' = [attempts EXCEPT ![call.attempt] = c]
    BY <2>2
  <2>5. attempts'[call.attempt] = c /\ \A x \in Numbers : x # call.attempt => attempts'[x] = attempts[x]
    BY <2>3, <2>4, OneAttempt DEF OnlyChanges
  <2>6. c.may # {Absent}
    BY <2>3
  <2> QED BY <2>5, <2>6 DEF Worked

(* Syncing attempts/ brings no attempt back. *)
<1>SyncWorks.
    ASSUME RecoveryShape, call.attempt \in Numbers, attempts' = SyncAttempts,
           attempts[call.attempt].now # Absent
    PROVE  Worked
  <2> USE <1>SyncWorks, ZenonT(30)
  <2>1. /\ attempts'[call.attempt] = Sure(attempts[call.attempt].now)
        /\ \A x \in Numbers : \A v : x # call.attempt /\ attempts[x] = Sure(v) => attempts'[x] = attempts[x]
    BY AttemptsSynced DEF OwnSynced
  <2>2. attempts'[call.attempt].may # {Absent}
    BY <2>1, SMT DEF Sure
  <2>3. ASSUME NEW x \in Numbers, x # call.attempt, attempts[x].may = {Absent}
        PROVE  attempts'[x].may = {Absent}
    <3>1. attempts[x] = Sure(Absent)
      BY <2>3 DEF RecoveryShape, IsCell, Sure
    <3> QED BY <2>1, <2>3, <3>1
  <2> QED BY <2>2, <2>3 DEF Worked
<1> USE ZenonT(30)
<1> SUFFICES ASSUME RecoveryInv, CallShape, RecoveryStep PROVE Refuses \/ (\E n \in Numbers : Begins(n)) \/ Works \/ Appends \/ Keeps
  OBVIOUS
<1>0. /\ RecoveryShape /\ RunAt /\ WorkAt /\ StepAt
  BY DEF RecoveryInv, RecoveryData, RecoveryAt
<1>1. call.at \in RecoverySteps =>
         {"at", "records", "attempt", "then", "bound"} \subseteq DOMAIN call
  BY <1>0 DEF RunAt
<1>2. CASE NewAttempt
  <2>1. PICK n \in 0..max_attempts :
          /\ next_attempt(n)
          /\ IF n >= max_attempts
             THEN call' = Idle /\ UNCHANGED <<room, attempts>>
             ELSE /\ room' = Change(room, TRUE)
                  /\ attempts' = [attempts EXCEPT ![n] = Change(@, Partial)]
                  /\ call' = [call EXCEPT !.at = "Fill", !.attempt = n]
    BY <1>2 DEF NewAttempt
  <2>2. call.at = "NewAttempt" /\ UNCHANGED journal
    BY <1>2 DEF NewAttempt
  <2>3. CASE n >= max_attempts
    BY <2>1, <2>2, <2>3, IdleShape DEF Refuses
  <2>4. CASE ~(n >= max_attempts)
    <3>1. n \in Numbers
      BY <1>0, <2>4, SMT DEF Numbers, RecoveryShape
    <3>2. call' = [call EXCEPT !.at = "Fill", !.attempt = n]
      BY <2>1, <2>4
    <3>3. {"at", "records", "attempt", "then", "bound"} \subseteq DOMAIN call
      BY <1>1, <2>2 DEF RecoverySteps
    <3>4. call'.at = "Fill" /\ SameRun /\ call'.records = call.records /\ call'.attempt = n
      BY <3>2, <3>3 DEF CallShape, SameRun
    <3>5. Begins(n)
      BY <2>1, <2>2, <2>4, <3>4 DEF Begins
    <3> QED BY <3>1, <3>5
  <2> QED BY <2>3, <2>4
<1>3. ASSUME call.at \in Working \ {"Append"}, NEW s \in Working \ {"Fill"}, GoTo(s),
             s = "SyncAttempt" <=> call.at = "Fill", room' = room \/ room' = Sync(room),
             call.at = "SyncAttempt" => room' = Sync(room), UNCHANGED journal, Worked
      PROVE  Works
  <2>1. call'.at = s /\ SameWork
    BY <1>1, <1>3, <1>GoToSame DEF RecoverySteps, Working
  <2> QED BY <1>3, <2>1 DEF Works, Worked
<1>4. call.at \in Working => call.attempt \in Numbers
  BY <1>0 DEF WorkAt
<1>5. /\ Content("Pending", 2) # Absent /\ Content("Output", 2) # Absent
      /\ \A rs : Goal(rs) # Absent
  BY DEF Content, Goal, Absent
<1>6. CASE Fill
  <2>1. call.at = "Fill" /\ GoTo("SyncAttempt") /\ UNCHANGED <<room, journal>>
    BY <1>6 DEF Fill
  <2>2. PICK v : v # Absent /\ attempts' = [attempts EXCEPT ![call.attempt] = Change(@, v)]
    BY <1>5, <1>6 DEF Fill
  <2>3. Worked
    BY <1>0, <1>4, <2>1, <2>2, <1>ChangeWorks DEF Working
  <2> QED BY <1>3, <2>1, <2>3 DEF Working
<1>7. CASE SyncAttempt
  <2>1. /\ call.at = "SyncAttempt" /\ attempts' = SyncAttempts /\ room' = Sync(room)
        /\ UNCHANGED journal
        /\ GoTo(IF Goal(call.records).kind = "Output" THEN "Publish" ELSE "Append")
    BY <1>7 DEF SyncAttempt
  <2>2. attempts[call.attempt].now # Absent
    BY <1>0, <1>5, <2>1 DEF StepAt, Made
  <2>3. Worked
    BY <1>0, <1>4, <2>1, <2>2, <1>SyncWorks DEF Working
  <2>4. PICK s \in {"Publish", "Append"} : GoTo(s)
    BY <2>1
  <2> QED BY <1>3, <2>1, <2>3, <2>4 DEF Working
<1>8. CASE Publish
  <2>1. /\ call.at = "Publish" /\ GoTo("SyncOutput") /\ UNCHANGED <<room, journal>>
        /\ attempts' = [attempts EXCEPT ![call.attempt] = Change(@, Content("Output", 2))]
    BY <1>8 DEF Publish
  <2>2. Worked
    BY <1>0, <1>4, <1>5, <2>1, <1>ChangeWorks DEF Working
  <2> QED BY <1>3, <2>1, <2>2 DEF Working
<1>9. CASE SyncOutput
  <2>1. /\ call.at = "SyncOutput" /\ attempts' = SyncAttempts /\ GoTo("Append")
        /\ UNCHANGED <<room, journal>>
    BY <1>9 DEF SyncOutput
  <2>2. attempts[call.attempt].now # Absent
    BY <1>0, <1>5, <2>1 DEF StepAt
  <2>3. Worked
    BY <1>0, <1>4, <2>1, <2>2, <1>SyncWorks DEF Working
  <2> QED BY <1>3, <2>1, <2>3 DEF Working
<1>10. CASE AppendRecord
  <2>1. call.at = "Append" /\ GoTo("SyncRecord")
    BY <1>10 DEF AppendRecord
  <2>2. call'.at = "SyncRecord" /\ SameWork
    BY <1>1, <2>1, <1>GoToSame DEF RecoverySteps
  <2> QED BY <1>10, <2>2 DEF AppendRecord, Appends
<1>11. CASE SyncRecord
  <2>1. call.at = "SyncRecord" /\ journal' = Sync(journal) /\ UNCHANGED <<room, attempts>>
    BY <1>11 DEF SyncRecord
  <2>2. {"at", "records", "attempt", "then", "bound"} \subseteq DOMAIN call
    BY <1>1, <2>1 DEF RecoverySteps
  <2>3. \/ call' = [call EXCEPT !.at = "NewAttempt", !.records = Recorded]
        \/ /\ Len(Recorded) = 1 \/ Completed(Recorded)
           /\ \/ call["then"] = "Return" /\ call' = Idle
              \/ call["then"] # "Return" /\ GoTo(call["then"])
    BY <1>11 DEF SyncRecord, Recorded
  <2>4. CASE call' = [call EXCEPT !.at = "NewAttempt", !.records = Recorded]
    <3>1. call'.at = "NewAttempt" /\ SameRun /\ call'.records = Recorded
      BY <2>2, <2>4 DEF CallShape, SameRun
    <3> QED BY <2>1, <3>1 DEF Keeps
  <2>5. CASE /\ Len(Recorded) = 1 \/ Completed(Recorded)
             /\ call["then"] = "Return" /\ call' = Idle
    BY <2>1, <2>5, IdleShape DEF Keeps
  <2>6. CASE /\ Len(Recorded) = 1 \/ Completed(Recorded)
             /\ call["then"] # "Return" /\ GoTo(call["then"])
    <3>1. PICK s : s = call["then"] /\ GoTo(s)
      BY <2>6
    <3>2. call'.at = s
      BY <2>2, <3>1, <1>GoToSame
    <3> QED BY <2>1, <2>6, <3>1, <3>2 DEF Keeps
  <2> QED BY <2>3, <2>4, <2>5, <2>6
<1> QED BY <1>2, <1>6, <1>7, <1>8, <1>9, <1>10, <1>11 DEF RecoveryStep

-----------------------------------------------------------------------------
(* The other calls on an upgrade leave the recovery as it is, or run it    *)
(* where there is none or where it can go on.                              *)

RunsAs(then, b) ==
    /\ call'.at = "NewAttempt" /\ call'.records = journal.now.records
    /\ call'["then"] = then /\ call'.bound = b

OuterCalls ==
    /\ \/ StartUpgrade \/ AdmitRunning \/ ResumeUpgrade \/ ReceiptStep
       \/ (start_upgrade_recovery \/ resume_upgrade_recovery) /\ UNCHANGED receiptVars
    /\ UNCHANGED recoveryVars

(* A call that begins to run a recovery has the records it reads. *)
LEMMA RunsFields ==
    ASSUME NEW then, NEW b, RunsRecovery(then, b)
    PROVE  RunsAs(then, b)
BY Zenon  DEF RunsRecovery, RunsAs

(* A recovery is resumed, or was complete. *)
Resumed(then, b) ==
    /\ RecoveryVerifies
    /\ \/ Ready /\ RunsAs(then, b)
       \/ /\ Completed(journal.now.records)
          /\ \/ then = "Return" /\ call'.at = "Idle"
             \/ then # "Return" /\ call'.at = then

(* Resuming a recovery runs it, or finds it complete. *)
LEMMA ResumesMoves ==
    ASSUME NEW then \in Destinations, NEW b, ResumesRecovery(then, b)
    PROVE  Resumed(then, b)
<1> USE ZenonT(30)
<1> USE DEF Resumed
<1>1. RecoveryVerifies
  BY DEF ResumesRecovery
<1>2. CASE Completed(journal.now.records) /\ then = "Return"
  BY <1>1, <1>2, IdleShape DEF ResumesRecovery
<1>3. CASE Completed(journal.now.records) /\ then # "Return"
  <2>1. call' = [at |-> then]
    BY <1>3 DEF ResumesRecovery
  <2>2. call'.at = then
    BY <2>1
  <2> QED BY <1>1, <1>3, <2>2
<1>4. CASE ~Completed(journal.now.records)
  <2>1. RunsAs(then, b)
    BY <1>4, RunsFields DEF ResumesRecovery
  <2>2. Ready
    BY <1>1, <1>4 DEF Ready, RecoveryVerifies
  <2> QED BY <1>1, <2>1, <2>2, SMT
<1> QED BY <1>2, <1>3, <1>4 DEF Resumed

(* What a call on the outer workspace does to the running call. *)
OuterMoved ==
    /\ call.at \notin RecoverySteps
    /\ \/ call'.at \notin RecoverySteps
       \/ \E then \in Destinations, b \in BOOLEAN : RunsAs(then, b) /\ (~room.now \/ Ready)

(* What they do to the call. *)
LEMMA OuterMoves ==
    ASSUME RecoveryInv, CallShape, OuterCalls
    PROVE  OuterMoved
<1> USE ZenonT(30)
<1> USE DEF OuterMoved
<1>1. CASE StartUpgrade
  BY <1>1, NewShape DEF StartUpgrade, Idle, RecoverySteps
<1>2. CASE AdmitRunning
  BY <1>2, NewShape DEF AdmitRunning, Idle, RecoverySteps
<1>3. CASE ResumeUpgrade
  <2>1. ResumesRecovery("Completed", TRUE) /\ call = Idle
    BY <1>3 DEF ResumeUpgrade
  <2>2. (Ready /\ RunsAs("Completed", TRUE)) \/ call'.at = "Completed"
    BY <2>1, ResumesMoves DEF Resumed, Destinations
  <2>3. call.at \notin RecoverySteps
    BY <2>1 DEF Idle, RecoverySteps
  <2> QED BY <2>2, <2>3 DEF Destinations, RecoverySteps
<1>4. CASE start_upgrade_recovery
  <2>1. ~room.now /\ RunsAs("Return", FALSE) /\ call = Idle
    BY <1>4, RunsFields DEF start_upgrade_recovery, StartsRecovery
  <2>2. call.at \notin RecoverySteps
    BY <2>1 DEF Idle, RecoverySteps
  <2> QED BY <2>1, <2>2 DEF Destinations
<1>5. CASE resume_upgrade_recovery
  <2>1. ResumesRecovery("Return", FALSE) /\ call = Idle
    BY <1>5 DEF resume_upgrade_recovery
  <2>2. (Ready /\ RunsAs("Return", FALSE)) \/ call'.at = "Idle"
    BY <2>1, ResumesMoves DEF Resumed, Destinations
  <2>3. call.at \notin RecoverySteps
    BY <2>1 DEF Idle, RecoverySteps
  <2> QED BY <2>2, <2>3 DEF Destinations, RecoverySteps
<1>6. CASE WritePreflight
  <2>1. call' = Idle \/ (~room.now /\ RunsAs("Initial", TRUE))
    BY <1>6, RunsFields DEF WritePreflight, StartsRecovery
  <2>2. call.at \notin RecoverySteps
    BY <1>6 DEF WritePreflight, RecoverySteps
  <2> QED BY <2>1, <2>2, IdleShape DEF Destinations, RecoverySteps
<1>7. CASE SyncProgress
  <2>1. \/ call' = Idle \/ (Steps = 2 /\ RunsAs("Completed", TRUE)) \/ GoTo("WritePending")
    BY <1>7, RunsFields DEF SyncProgress
  <2>2. call.at = "SyncProgress"
    BY <1>7 DEF SyncProgress
  <2>3. Steps = 2 => Ready
    BY <2>2 DEF RecoveryInv, OuterAt
  <2>4. GoTo("WritePending") => call'.at = "WritePending"
    BY GoToShape DEF RecoverySteps
  <2>5. call'.at \in {"Idle", "WritePending"} \/ (Ready /\ RunsAs("Completed", TRUE))
    BY <2>1, <2>3, <2>4, IdleShape
  <2>6. call'.at \in {"Idle", "WritePending"} => call'.at \notin RecoverySteps
    BY DEF RecoverySteps
  <2> QED BY <2>2, <2>5, <2>6 DEF Destinations, RecoverySteps
<1>8. CASE \/ WriteInitial \/ WriteRunning \/ WriteCompleted
           \/ WritePending \/ SyncReceipt \/ RenameReceipt
  <2>1. call.at \in {"Initial", "Running", "Completed", "WritePending", "SyncReceipt", "Rename"}
    BY <1>8 DEF WriteInitial, WriteRunning, WriteCompleted, WritePending, SyncReceipt,
       RenameReceipt
  <2>2. PICK s \in {"SyncProgress", "WritePending", "SyncReceipt", "Rename"} : GoTo(s) \/ call' = Idle
    BY <1>8 DEF WriteInitial, WriteRunning, WriteCompleted, WritePending, SyncReceipt,
       RenameReceipt
  <2>3. s \notin RecoverySteps
    BY SMT DEF RecoverySteps
  <2>4. call'.at \notin RecoverySteps
    BY <2>2, <2>3, IdleShape, GoToShape DEF RecoverySteps
  <2> QED BY <2>1, <2>4 DEF RecoverySteps
<1> QED BY <1>1, <1>2, <1>3, <1>4, <1>5, <1>6, <1>7, <1>8 DEF OuterMoved, OuterCalls, ReceiptStep

-----------------------------------------------------------------------------
(* g is s with one more element, e. *)
Grows(s, e, g) ==
    /\ Len(s) \in Nat /\ Len(g) = Len(s) + 1
    /\ DOMAIN s = 1..Len(s) /\ DOMAIN g = 1..(Len(s) + 1)
    /\ g[Len(s) + 1] = e /\ \A i \in 1..Len(s) : g[i] = s[i]
    /\ \A i \in 1..(Len(s) + 1) : i \in 1..Len(s) \/ i = Len(s) + 1

(* Append adds one element, at the end. *)
LEMMA AppendIs ==
    ASSUME NEW T, NEW s \in Seq(T), NEW e \in T
    PROVE  Grows(s, e, Append(s, e))
<1>1. Len(s) \in Nat
  OBVIOUS
<1>2. \A i \in 1..(Len(s) + 1) : i \in 1..Len(s) \/ i = Len(s) + 1
  BY <1>1
<1> QED BY <1>1, <1>2 DEF Grows

(* s is a sequence, and its own longest prefix. *)
Listed(s) ==
    Len(s) \in Nat /\ DOMAIN s = 1..Len(s) /\ s = SubSeq(s, 1, Len(s)) /\ Len(s) \in 0..Len(s)

(* The places of a sequence, and the sequence as its own prefix. *)
LEMMA SequenceIs ==
    ASSUME NEW T, NEW s \in Seq(T)
    PROVE  Listed(s)
BY DEF Listed

(* One more element leaves the prefixes as they are. *)
LEMMA PrefixStays ==
    ASSUME NEW T, NEW s \in Seq(T), NEW e \in T, NEW n \in 0..Len(s)
    PROVE  SubSeq(Append(s, e), 1, n) = SubSeq(s, 1, n) /\ n \in 0..(Len(s) + 1)
<1>1. Len(s) \in Nat /\ Len(Append(s, e)) = Len(s) + 1 /\ Append(s, e) \in Seq(T)
  OBVIOUS
<1>2. PICK a, b : a = SubSeq(Append(s, e), 1, n) /\ b = SubSeq(s, 1, n)
  BY Zenon
<1>3. a \in Seq(T) /\ Len(a) = n /\ \A i \in 1..n : a[i] = s[i]
  BY <1>1, <1>2
<1>4. b \in Seq(T) /\ Len(b) = n /\ \A i \in 1..n : b[i] = s[i]
  BY <1>1, <1>2
<1>5. a = b
  BY <1>3, <1>4
<1> QED BY <1>1, <1>2, <1>5

(* The numbers a progress journal of one or two records has. *)
LEMMA OneOrTwo ==
    /\ \A n \in 1..2 : n = 1 \/ n = 2
    /\ 1 + 1 = 2 /\ 2 + 1 = 3 /\ 1 \in 1..1 /\ 1 \in 1..2 /\ 2 \in 1..2 /\ 3 # 2 /\ 3 # 1 /\ 2 # 1
OBVIOUS

(* A number and the next one. *)
NextTo(m) ==
    /\ m + 1 \in Nat /\ m + 1 <= m + 1 /\ \A l \in Nat : l <= m => l <= m + 1
    /\ m + 1 = 3 => m = 2
    /\ m + 1 >= 2 => m >= 1
    /\ m = 0 => m + 1 = 1
    /\ m = 1 => m + 1 = 2
    /\ m = 2 => m + 1 = 3

(* What is known of a number from the next one. *)
LEMMA NextNumber ==
    ASSUME NEW m \in Nat
    PROVE  NextTo(m)
BY DEF NextTo

(* An interruption makes up for one record more. *)
LEMMA MakesUp ==
    ASSUME NEW l \in Nat, NEW i \in Nat, NEW k \in {0, 1}
    PROVE  l + k \in Nat /\ l + 0 \in Nat /\ (l + k) + i <= (l + 0) + (i + 1)
OBVIOUS

-----------------------------------------------------------------------------
(* How many attempts are spent. *)

(* The attempts that are there, or may turn out to be. *)
Taken == {a \in Numbers : attempts[a].may # {Absent}}

Enough(n) == \A a \in Taken : a < n + Interruptions

Busy == Working \cup {"SyncRecord"}

(* However many records the journal turns out to have, every attempt past  *)
(* them was spent by an interruption, but for the one being worked on.     *)
AttemptsInv ==
    /\ ~room.now => Taken = {}
    /\ \A f \in journal.may : Decodes(f) =>
          Enough(Len(f.records) + IF call.at \in Busy THEN 1 ELSE 0)
    /\ call.at = "NewAttempt" => Enough(Len(call.records))
    /\ call.at \in Busy => Enough(Len(call.records) + 1) /\ call.attempt \in Taken

(* The shape of the journal and of the records that a call has. *)
RunShape ==
    /\ RecoveryShape /\ RunAt /\ WorkAt /\ StepAt
    /\ journal.now \in journal.may
    /\ \A f \in journal.may : f.records \in Seq(RecordType) /\ Len(f.records) \in Nat
    /\ call.at \in RecoverySteps => call.records \in Seq(RecordType) /\ Len(call.records) \in Nat

(* The files of the journal have records. *)
LEMMA JournalLens ==
    ASSUME RecoveryInv
    PROVE  RunShape
<1> USE ZenonT(30)
<1>1. RecoveryShape /\ RunAt /\ WorkAt /\ StepAt
  BY DEF RecoveryInv, RecoveryData, RecoveryAt
<1>2. journal.now \in journal.may /\ \A f \in journal.may : f.records \in Seq(RecordType)
  BY <1>1 DEF RecoveryShape, Journals, IsCell, IsFile
<1>3. call.at \in RecoverySteps => call.records \in Seq(RecordType)
  BY <1>1 DEF RunAt
<1>4. \A s \in Seq(RecordType) : Len(s) \in Nat
  BY SMT
<1> QED BY <1>1, <1>2, <1>3, <1>4 DEF RunShape

(* Every step of a legacy upgrade and of its activation. *)
LEMMA UpgradeSpends ==
    RecoveryInv /\ AttemptsInv /\ CallShape /\ FaultShape /\ UpgradeNext => AttemptsInv'

(* What was enough is enough while no further attempt is taken. *)
<1>EnoughStays.
    ASSUME RecoveryShape, FaultShape, FaultShape', UNCHANGED max_attempts, Taken' \subseteq Taken,
           NEW m \in Nat, NEW n \in Nat, Enough(m), m + Interruptions <= n + Interruptions'
    PROVE  Enough(n)'
  <2> USE <1>EnoughStays, ZenonT(30)
  <2>1. Interruptions \in Nat /\ Interruptions' \in Nat
    BY SMT DEF FaultShape, Interruptions
  <2>2. Taken \subseteq Nat
    BY SMT DEF Taken, Numbers, RecoveryShape
  <2> SUFFICES ASSUME NEW a \in Taken' PROVE a < n + Interruptions'
    BY DEF Enough
  <2>3. a \in Nat /\ a < m + Interruptions
    BY <2>2 DEF Enough
  <2>4. PICK i, j : i = Interruptions /\ j = Interruptions'
    OBVIOUS
  <2>5. i \in Nat /\ j \in Nat /\ a < m + i /\ m + i <= n + j
    BY <2>1, <2>3, <2>4
  <2>6. a < n + j
    BY <2>3, <2>5, SMT
  <2> QED BY <2>4, <2>6

(* A step of a call that leaves the files of the recovery as they are. *)
<1>OuterSpends.
    ASSUME RecoveryInv, AttemptsInv, CallShape, FaultShape, OuterCalls, UNCHANGED faults
    PROVE  AttemptsInv'
  <2> USE <1>OuterSpends, ZenonT(30)
  <2>1. /\ call.at \notin RecoverySteps
        /\ \/ call'.at \notin RecoverySteps
           \/ /\ call'.at = "NewAttempt" /\ call'.records = journal.now.records
              /\ ~room.now \/ Ready
    BY OuterMoves DEF OuterMoved, RunsAs
  <2>2. UNCHANGED <<max_attempts, room, attempts, journal>>
    BY DEF OuterCalls, recoveryVars
  <2>3. Taken' = Taken /\ Interruptions' = Interruptions
    BY <2>2, FaultsGrow DEF FaultsCount, Taken, Numbers
  <2>4. \A n : Enough(n)' <=> Enough(n)
    BY <2>3 DEF Enough
  <2>5. call.at \notin Busy /\ call'.at \notin Busy
    BY <2>1 DEF Busy, Working, RecoverySteps
  <2>6. call'.at = "NewAttempt" => Enough(Len(call'.records))
    <3> SUFFICES ASSUME call'.at = "NewAttempt" PROVE Enough(Len(call'.records))
      OBVIOUS
    <3>1. call'.records = journal.now.records /\ (~room.now \/ Ready)
      BY <2>1 DEF RecoverySteps
    <3>2. CASE ~room.now
      BY <3>2 DEF AttemptsInv, Enough
    <3>3. CASE Ready
      <4>1. Enough(Len(journal.now.records) + 0)
        BY <2>5, <3>3, JournalLens DEF RunShape, AttemptsInv, Ready
      <4>2. Len(journal.now.records) \in Nat
        BY JournalLens DEF RunShape
      <4>3. Len(journal.now.records) + 0 = Len(journal.now.records)
        BY <4>2, SMT
      <4> QED BY <3>1, <4>1, <4>3
    <3> QED BY <3>1, <3>2, <3>3
  <2>7. \A f \in journal.may : Decodes(f) => Enough(Len(f.records) + 0)
    BY <2>5 DEF AttemptsInv
  <2>8. ~room.now => Taken = {}
    BY DEF AttemptsInv
  <2> QED BY <2>2, <2>3, <2>4, <2>5, <2>6, <2>7, <2>8 DEF AttemptsInv

(* A new attempt is one past an attempt that is there. *)
<1>BeginSpends.
    ASSUME RecoveryInv, AttemptsInv, FaultShape, UNCHANGED <<faults, max_attempts>>,
           NEW n \in Numbers, Begins(n)
    PROVE  AttemptsInv'
  <2> USE <1>BeginSpends, ZenonT(30)
  <2>1. RecoveryShape
    BY JournalLens DEF RunShape
  <2>2. call.at = "NewAttempt" /\ call'.at = "Fill" /\ call'.records = call.records /\ call'.attempt = n
    BY DEF Begins
  <2>3. Interruptions' = Interruptions /\ Interruptions \in Nat /\ Numbers' = Numbers /\ Numbers \subseteq Nat
    BY <2>1, FaultsGrow, SMT DEF FaultsCount, Numbers, RecoveryShape
  <2>4. Taken' = Taken \cup {n}
    <3>1. PICK c : c = Change(attempts[n], Partial)
      OBVIOUS
    <3>2. IsCell(c) /\ c.may = attempts[n].may \union {Partial}
      BY <2>1, <3>1, CellShapes DEF StaysCell, RecoveryShape
    <3>3. attempts' = [attempts EXCEPT ![n] = c]
      BY <3>1 DEF Begins
    <3>4. attempts'[n] = c /\ \A x \in Numbers : x # n => attempts'[x] = attempts[x]
      BY <2>1, <3>2, <3>3, OneAttempt DEF OnlyChanges
    <3>5. c.may # {Absent}
      <4>1. Partial # Absent
        BY DEF Partial, Absent, Content
      <4> QED BY <3>2, <4>1
    <3> QED BY <2>3, <3>4, <3>5 DEF Taken
  <2>5. n = 0 \/ n - 1 \in Taken
    <3>1. n = 0 \/ n - 1 \in Used
      BY DEF Begins, next_attempt
    <3>2. Used \subseteq Taken
      BY <2>1 DEF Used, Taken, RecoveryShape, IsCell
    <3> QED BY <3>1, <3>2
  <2>6. ASSUME NEW k \in Nat, Enough(k) PROVE Enough(k + 1)'
    <3> SUFFICES ASSUME NEW a \in Taken' PROVE a < (k + 1) + Interruptions'
      BY DEF Enough
    <3>1. n \in Nat /\ (n # 0 => n - 1 < k + Interruptions)
      BY <2>3, <2>5, <2>6 DEF Enough
    <3>2. a \in Taken => a \in Nat /\ a < k + Interruptions
      BY <2>3, <2>6 DEF Enough, Taken
    <3>3. a \in Taken \/ a = n
      BY <2>4
    <3> QED BY <2>3, <3>1, <3>2, <3>3, SMT
  <2>7. \A f \in journal.may : Decodes(f) => Enough(Len(f.records) + 1)'
    <3> TAKE f \in journal.may
    <3>1. Decodes(f) => Enough(Len(f.records) + 0)
      BY <2>2 DEF AttemptsInv, Busy, Working
    <3>2. Len(f.records) \in Nat
      BY JournalLens DEF RunShape
    <3>3. Len(f.records) + 0 = Len(f.records)
      BY <3>2, SMT
    <3> QED BY <2>6, <3>1, <3>2, <3>3
  <2>8. Enough(Len(call.records) + 1)'
    <3>1. Enough(Len(call.records)) /\ Len(call.records) \in Nat
      BY <2>2, JournalLens DEF RunShape, AttemptsInv, RecoverySteps
    <3>2. PICK k : k = Len(call.records)
      OBVIOUS
    <3>3. Enough(k + 1)'
      BY <2>6, <3>1, <3>2
    <3>4. Len(call.records)' = k
      BY <2>2, <3>2
    <3> QED BY <3>3, <3>4
  <2>9. room'.now /\ journal' = journal
    BY DEF Begins, Change
  <2>10. call'.at \in Busy /\ call'.at # "NewAttempt" /\ call'.attempt \in Taken'
    BY <2>2, <2>4 DEF Busy, Working
  <2> QED BY <2>2, <2>7, <2>8, <2>9, <2>10 DEF AttemptsInv

(* The other steps of a recovery take no further attempt. *)
<1>StepSpends.
    ASSUME RecoveryInv, AttemptsInv, CallShape, FaultShape, UNCHANGED <<faults, max_attempts>>,
           Refuses \/ Works \/ Appends \/ Keeps
    PROVE  AttemptsInv'
  <2> USE <1>StepSpends, ZenonT(30)
  <2>1. /\ RecoveryShape /\ journal.now \in journal.may
        /\ \A f \in journal.may : Len(f.records) \in Nat
        /\ call.records \in Seq(RecordType) /\ Len(call.records) \in Nat
    <3>1. call.at \in RecoverySteps
      BY DEF Refuses, Works, Appends, Keeps, RecoverySteps, Working
    <3> QED BY <3>1, JournalLens DEF RunShape
  <2>2. FaultShape' /\ Interruptions' = Interruptions /\ Interruptions \in Nat
    BY FaultsGrow DEF FaultsCount
  <2>3. ASSUME Taken' \subseteq Taken, NEW k \in Nat, Enough(k) PROVE Enough(k)' /\ Enough(k + 1)'
    <3>1. PICK i : i = Interruptions
      OBVIOUS
    <3>2. k + i <= (k + 1) + i /\ k + i <= k + i /\ k + 1 \in Nat
      BY <2>2, <3>1, SMT
    <3> QED BY <2>1, <2>2, <2>3, <3>1, <3>2, <1>EnoughStays
  <2>4. CASE Refuses
    <3>1. /\ call.at = "NewAttempt" /\ call'.at = "Idle" /\ UNCHANGED <<room, attempts, journal>>
      BY <2>4 DEF Refuses
    <3>2. Taken' = Taken
      BY <3>1 DEF Taken, Numbers
    <3>3. \A n : Enough(n)' <=> Enough(n)
      BY <2>2, <3>2 DEF Enough
    <3>4. call.at \notin Busy /\ call'.at \notin Busy /\ call'.at # "NewAttempt"
      BY <3>1 DEF Busy, Working
    <3> QED BY <3>1, <3>2, <3>3, <3>4 DEF AttemptsInv
  <2>5. CASE Works
    <3>1. /\ call.at \in Busy /\ call'.at \in Busy /\ call'.at # "NewAttempt" /\ UNCHANGED journal
          /\ call'.records = call.records /\ call'.attempt = call.attempt
      BY <2>5 DEF Works, SameWork, Busy, Working
    <3>2. room'.now
      <4>1. room.now
        BY <3>1, JournalLens DEF RunShape, WorkAt, Busy
      <4>2. room' = room \/ room' = Sync(room)
        BY <2>5 DEF Works
      <4>3. Sync(room).now = room.now
        BY DEF Sync, Sure
      <4> QED BY <4>1, <4>2, <4>3
    <3>3. call.attempt \in Taken /\ call.attempt \in Numbers
      BY <3>1 DEF AttemptsInv, Taken
    <3>4. Taken' \subseteq Taken /\ call.attempt \in Taken'
      BY <2>5, <3>3 DEF Works, Taken, Numbers
    <3>5. \A f \in journal.may : Decodes(f) => Enough(Len(f.records) + 1)'
      <4> TAKE f \in journal.may
      <4>1. Decodes(f) => Enough(Len(f.records) + 1)
        BY <3>1 DEF AttemptsInv
      <4>2. Len(f.records) + 1 \in Nat
        BY <2>1, SMT
      <4> QED BY <2>3, <3>4, <4>1, <4>2
    <3>6. Enough(Len(call.records) + 1)'
      <4>1. PICK k : k = Len(call.records) + 1
        OBVIOUS
      <4>2. k \in Nat /\ Enough(k)
        <5>1. k \in Nat
          BY <2>1, <4>1, SMT
        <5> QED BY <3>1, <4>1, <5>1 DEF AttemptsInv
      <4>3. Enough(k)'
        BY <2>3, <3>4, <4>2
      <4> QED BY <3>1, <4>1, <4>3
    <3> QED BY <3>1, <3>2, <3>4, <3>5, <3>6 DEF AttemptsInv
  <2>6. CASE Appends
    <3>1. /\ call.at = "Append" /\ call'.at = "SyncRecord" /\ UNCHANGED <<room, attempts>>
          /\ call'.records = call.records /\ call'.attempt = call.attempt
          /\ journal' = Write(journal, RecordOf(call))
      BY <2>6 DEF Appends, SameWork
    <3>2. Taken' = Taken /\ call.attempt \in Taken /\ room.now
      <4>1. room.now
        BY <3>1, JournalLens DEF RunShape, WorkAt, Working
      <4> QED BY <3>1, <4>1 DEF Taken, Numbers, AttemptsInv, Busy, Working
    <3>3. PICK k : k = Len(call.records) + 1
      BY SMT
    <3>4. k \in Nat /\ Enough(k)
      <4>1. k \in Nat
        BY <2>1, <3>3, SMT
      <4> QED BY <3>1, <3>3, <4>1 DEF AttemptsInv, Busy, Working
    <3>5. Enough(k)' /\ Enough(k + 1)'
      BY <2>3, <3>2, <3>4
    <3>6. \A f \in journal'.may : Decodes(f) => Enough(Len(f.records) + 1)'
      <4> SUFFICES ASSUME NEW f \in journal'.may, Decodes(f) PROVE Enough(Len(f.records) + 1)'
        OBVIOUS
      <4>1. f \in journal.may \/ f = File(Append(call.records, RecordOf(call)))
        <5>1. journal.now.records = call.records
          BY <3>1, JournalLens DEF RunShape, RunAt, RecoverySteps
        <5>2. f \in journal.may \/ f = Torn(journal.now) \/ f = File(Append(call.records, RecordOf(call)))
          BY <3>1, <5>1 DEF Write
        <5>3. Torn(journal.now).torn
          BY <2>1, FileShapes DEF FilesOf, RecoveryShape, Journals
        <5> QED BY <5>2, <5>3 DEF Decodes
      <4>2. CASE f \in journal.may
        <5>1. Enough(Len(f.records) + 1) /\ Len(f.records) \in Nat
          BY <2>1, <3>1, <4>2 DEF AttemptsInv, Busy, Working
        <5>2. Len(f.records) + 1 \in Nat
          BY <5>1, SMT
        <5> QED BY <2>3, <3>2, <5>1, <5>2
      <4>3. CASE f = File(Append(call.records, RecordOf(call)))
        <5>1. Len(f.records) = k
          <6>1. f.records = Append(call.records, RecordOf(call))
            BY <4>3 DEF File
          <6>2. \A s \in Seq(RecordType) : \A r : Len(Append(s, r)) = Len(s) + 1
            BY SMT
          <6> QED BY <2>1, <3>3, <6>1, <6>2
        <5> QED BY <3>5, <5>1
      <4> QED BY <4>1, <4>2, <4>3
    <3>7. Enough(Len(call.records) + 1)'
      BY <3>1, <3>3, <3>5
    <3>8. call'.at \in Busy /\ call'.at # "NewAttempt" /\ room'.now /\ call'.attempt \in Taken'
      BY <3>1, <3>2 DEF Busy
    <3> QED BY <3>6, <3>7, <3>8 DEF AttemptsInv
  <2>7. CASE Keeps
    <3>1. /\ call.at = "SyncRecord" /\ call'.at \in {"NewAttempt", "Idle"} \cup Destinations
          /\ call'.at = "NewAttempt" => call'.records = Recorded
          /\ journal' = Sync(journal) /\ UNCHANGED <<room, attempts>>
      <4>1. call["then"] \in Destinations
        <5>1. call.at = "SyncRecord"
          BY <2>7 DEF Keeps
        <5> QED BY <5>1 DEF CallShape, RecoverySteps
      <4> QED BY <2>7, <4>1 DEF Keeps, Destinations
    <3>2. Taken' = Taken /\ room.now
      <4>1. room.now
        BY <3>1, JournalLens DEF RunShape, WorkAt
      <4> QED BY <3>1, <4>1 DEF Taken, Numbers
    <3>3. PICK k : k = Len(call.records) + 1
      OBVIOUS
    <3>4. k \in Nat /\ Enough(k)
      <4>1. k \in Nat
        BY <2>1, <3>3, SMT
      <4> QED BY <3>1, <3>3, <4>1 DEF AttemptsInv, Busy
    <3>5. Enough(k)'
      BY <2>3, <3>2, <3>4
    <3>6. journal'.may = {File(Recorded)} /\ Len(Recorded) = k /\ Len(File(Recorded).records) + 0 = k
      <4>1. journal.now = File(Recorded)
        BY <3>1, JournalLens DEF RunShape, StepAt, Recorded
      <4>2. Len(Recorded) = k
        BY <2>1, <3>3, SMT DEF Recorded
      <4>3. journal'.may = {File(Recorded)}
        BY <3>1, <4>1 DEF Sync, Sure
      <4> QED BY <3>4, <4>2, <4>3, SMT DEF File
    <3>7. call'.at \notin Busy
      BY <3>1 DEF Busy, Working, Destinations
    <3>8. room'.now
      BY <3>1, <3>2
    <3>9. call'.at = "NewAttempt" => Enough(Len(call.records))'
      BY <3>1, <3>5, <3>6
    <3>10. \A f \in journal'.may : Decodes(f) => Enough(Len(f.records) + 0)'
      BY <3>5, <3>6
    <3> QED BY <3>7, <3>8, <3>9, <3>10 DEF AttemptsInv
  <2> QED BY <2>4, <2>5, <2>6, <2>7, SMT

(* An interruption costs at most the attempt that was worked on. *)
<1>CutSpends.
    ASSUME RecoveryInv, AttemptsInv, FaultShape, UpgradeStops
    PROVE  AttemptsInv'
  <2> USE <1>CutSpends, ZenonT(30)
  <2>1. /\ Stop /\ UNCHANGED <<max_attempts, room, attempts>>
        /\ journal' = journal \/ journal' = WriteCut(journal)
    BY DEF UpgradeStops, AppendCut, ProgressCut
  <2>2. /\ RecoveryShape /\ \A f \in journal.may : Len(f.records) \in Nat
    BY JournalLens DEF RunShape
  <2>3. FaultShape' /\ Interruptions' = Interruptions + 1 /\ Interruptions \in Nat
    BY <2>1, FaultsGrow DEF FaultsCount
  <2>4. Taken' = Taken
    BY <2>1 DEF Taken, Numbers
  <2>5. call'.at \notin Busy /\ call'.at # "NewAttempt"
    BY <2>1, IdleShape DEF Stop, Busy, Working
  <2>6. \A f \in journal'.may : Decodes(f) => Enough(Len(f.records) + 0)'
    <3> SUFFICES ASSUME NEW f \in journal'.may, Decodes(f) PROVE Enough(Len(f.records) + 0)'
      OBVIOUS
    <3>1. f \in journal.may
      <4>1. f \in journal.may \/ f = Torn(journal.now)
        BY <2>1, SMTT(30) DEF WriteCut, Change
      <4>2. Torn(journal.now).torn
        BY <2>2, FileShapes DEF FilesOf, RecoveryShape, Journals, IsCell
      <4> QED BY <4>1, <4>2 DEF Decodes
    <3>2. PICK k \in {0, 1} : Enough(Len(f.records) + k)
      BY <3>1 DEF AttemptsInv
    <3>3. PICK m, n, i, j : m = Len(f.records) + k /\ n = Len(f.records) + 0 /\ i = Interruptions /\ j = Interruptions'
      OBVIOUS
    <3>4. m \in Nat /\ n \in Nat /\ m + i <= n + j
      <4>1. PICK l : l = Len(f.records)
        OBVIOUS
      <4>2. l \in Nat /\ i \in Nat /\ j = i + 1 /\ m = l + k /\ n = l + 0
        BY <2>2, <2>3, <3>1, <3>3, <4>1
      <4> QED BY <4>2, MakesUp
    <3> QED BY <2>1, <2>2, <2>3, <2>4, <3>2, <3>3, <3>4, <1>EnoughStays
  <2>7. ~room'.now => Taken' = {}
    BY <2>1, <2>4 DEF AttemptsInv
  <2> QED BY <2>5, <2>6, <2>7 DEF AttemptsInv

(* A power loss takes attempts back, never adds one. *)
<1>LossSpends.
    ASSUME RecoveryInv, AttemptsInv, FaultShape, UpgradeLoses
    PROVE  AttemptsInv'
  <2> USE <1>LossSpends, ZenonT(30)
  <2>1. Loss /\ RecoveryLoss /\ UNCHANGED max_attempts
    BY DEF UpgradeLoses
  <2>2. /\ RecoveryShape /\ \A f \in journal.may : Len(f.records) \in Nat
    BY JournalLens DEF RunShape
  <2>3. FaultShape' /\ Interruptions' = Interruptions + 1 /\ Interruptions \in Nat
    BY <2>1, FaultsGrow DEF FaultsCount
  <2>4. call'.at \notin Busy /\ call'.at # "NewAttempt"
    BY <2>1, IdleShape DEF Loss, Busy, Working
  <2>5. CASE room'.now
    <3>1. Taken' \subseteq Taken
      <4> SUFFICES ASSUME NEW x \in Numbers, attempts'[x].may # {Absent} PROVE attempts[x].may # {Absent}
        BY <2>1 DEF Taken, Numbers
      <4>1. attempts'[x] = attempts[x] \/ attempts'[x] \in Survivors(attempts[x])
        <5> DEFINE unsure == {a \in Numbers : attempts[a] # Sync(attempts[a])}
        <5>1. \E f : /\ \A a \in unsure : f[a] \in Survivors(attempts[a])
                     /\ attempts' = [a \in Numbers |-> IF a \in unsure THEN f[a] ELSE attempts[a]]
          BY <2>1, <2>5 DEF RecoveryLoss
        <5> HIDE DEF unsure
        <5> QED BY <5>1
      <4>2. attempts'[x] \in Survivors(attempts[x]) => attempts[x].may # {Absent}
        <5> SUFFICES ASSUME NEW v \in attempts[x].may, attempts'[x] = Sure(v)
                     PROVE  attempts[x].may # {Absent}
          BY DEF Survivors
        <5>1. attempts'[x].may = {v}
          BY SMT DEF Sure
        <5> QED BY <5>1
      <4> QED BY <4>1, <4>2
    <3>2. \A f \in journal'.may : Decodes(f) => Enough(Len(f.records) + 0)'
      <4> SUFFICES ASSUME NEW f \in journal'.may, Decodes(f) PROVE Enough(Len(f.records) + 0)'
        OBVIOUS
      <4>1. f \in journal.may
        BY <2>1, <2>5, SMT DEF RecoveryLoss, Survivors, Sure
      <4>2. PICK k \in {0, 1} : Enough(Len(f.records) + k)
        BY <4>1 DEF AttemptsInv
      <4>3. PICK m, n, i, j : m = Len(f.records) + k /\ n = Len(f.records) + 0 /\ i = Interruptions /\ j = Interruptions'
        OBVIOUS
      <4>4. m \in Nat /\ n \in Nat /\ m + i <= n + j
        <5>1. PICK l : l = Len(f.records)
          OBVIOUS
        <5>2. l \in Nat /\ i \in Nat /\ j = i + 1 /\ m = l + k /\ n = l + 0
          BY <2>2, <2>3, <4>1, <4>3, <5>1
        <5> QED BY <5>2, MakesUp
      <4> QED BY <2>1, <2>2, <2>3, <3>1, <4>2, <4>3, <4>4, <1>EnoughStays
    <3> QED BY <2>4, <2>5, <3>2 DEF AttemptsInv
  <2>6. CASE ~room'.now
    <3>1. attempts' = [a \in Numbers |-> Sure(Absent)] /\ journal' = Sure(NoFile)
      BY <2>1, <2>6 DEF RecoveryLoss
    <3>2. Taken' = {}
      BY <2>1, <3>1 DEF Taken, Numbers, Sure
    <3>3. \A f \in journal'.may : ~Decodes(f)
      BY <3>1, SMT DEF Sure, Decodes, NoFile
    <3> QED BY <2>4, <3>2, <3>3 DEF AttemptsInv
  <2> QED BY <2>5, <2>6
<1> USE ZenonT(30)
<1> SUFFICES ASSUME RecoveryInv, AttemptsInv, CallShape, FaultShape, UpgradeNext PROVE AttemptsInv'
  OBVIOUS
<1>1. CASE OuterCalls /\ UNCHANGED faults
  BY <1>1, <1>OuterSpends
<1>2. CASE RecoveryStep /\ UNCHANGED <<max_attempts, faults>>
  BY <1>2, RecoveryMoves, <1>BeginSpends, <1>StepSpends
<1>3. CASE (ActivateStep \/ ActivateStart) /\ UNCHANGED <<recoveryVars, faults>>
  <2>1. call.at \notin RecoverySteps /\ call'.at \notin RecoverySteps
    <3>1. /\ call.at \in ActivationSteps \cup {"Idle"}
          /\ call'.at \in ActivationSteps \cup {"Idle"}
      BY <1>3, IdleShape, NewShape, GoToShape, SMTT(30) DEF ActivateStep, ActivateStart, ActivateGuard,
         ActivateCopy, ActivateSync, ActivateUnlink, ActivateFinish, ActivationSteps,
         RecoverySteps, Idle
    <3> QED BY <3>1 DEF ActivationSteps, RecoverySteps
  <2>2. call.at \notin Busy /\ call'.at \notin Busy /\ call'.at # "NewAttempt"
    BY <2>1 DEF RecoverySteps, Busy, Working
  <2>3. UNCHANGED <<max_attempts, room, attempts, journal>>
    BY <1>3 DEF recoveryVars
  <2>4. Taken' = Taken /\ Interruptions' = Interruptions
    BY <1>3, <2>3, FaultsGrow DEF FaultsCount, Taken, Numbers
  <2>5. \A n : Enough(n)' <=> Enough(n)
    BY <2>4 DEF Enough
  <2> QED BY <2>2, <2>3, <2>4, <2>5 DEF AttemptsInv
<1>4. CASE UpgradeStops
  BY <1>4, <1>CutSpends
<1>5. CASE UpgradeLoses
  BY <1>5, <1>LossSpends
<1> QED BY <1>1, <1>2, <1>3, <1>4, <1>5 DEF UpgradeNext, UpgradeCalls, UpgradeActivates,
       OuterCalls, StartUpgrade, AdmitRunning, ResumeUpgrade, ReceiptStep, WritePreflight, WriteInitial,
       WriteRunning, SyncProgress, WriteCompleted, WritePending, SyncReceipt, RenameReceipt

-----------------------------------------------------------------------------
(* The outer workspace. *)

Planned == outer = Sure("Planned")

AllBound(rs) == \A i \in DOMAIN rs : rs[i].bound

(* A journal with no record has none that is not bound. *)
LEMMA NoneBound == AllBound(<<>>)
BY DEF AllBound

Seals == ProgressValid /\ Steps = 3 /\ Decodes(journal.now) /\ Completed(journal.now.records)

(* The progress chain and the receipt are in a directory that is sure. *)
OuterData ==
    /\ IsCell(outer) /\ IsCell(receipt)
    /\ outer.may \subseteq {"Absent", "Empty"} \/ Planned
    /\ ~Planned => progress = Sure(NoFile) /\ receipt = Sure("Absent")

(* The progress chain binds only what the build wrote, COMPLETED only a    *)
(* complete recovery, and from RUNNING on the whole journal is the build's.*)
BoundData ==
    /\ AllBound(journal.now.records) => \A f \in journal.may : AllBound(f.records)
    /\ \A p \in progress.may :
          /\ Len(p.records) <= Steps
          /\ \A i \in DOMAIN p.records : AllBound(p.records[i].journal)
          /\ Len(p.records) = 3 => Completed(p.records[3].journal)
    /\ Steps >= 2 => AllBound(journal.now.records)

(* For whom the recovery runs. *)
RunsFor ==
    /\ call["then"] # "Return" => call.bound
    /\ call["then"] = "Initial" => Planned /\ Steps = 0
    /\ call["then"] = "Completed" => ProgressValid /\ Steps = 2 /\ call.records # <<>>
    /\ call["then"] = "Return" => Steps < 2

(* What the running call has found or done. *)
ReceiptAt ==
    /\ call.at = "Preflight" => ~Planned
    /\ call.at \in RecoverySteps => RunsFor
    /\ call.at = "Initial" => Planned /\ Steps = 0 /\ AllBound(journal.now.records)
    /\ call.at = "Running" => ProgressValid /\ Steps = 1 /\ AllBound(journal.now.records)
    /\ call.at = "SyncProgress" =>
          /\ Planned /\ Steps \in 1..3
          /\ Steps = 2 => ProgressValid
          /\ Steps = 3 => Seals
    /\ call.at = "Completed" =>
          /\ ProgressValid /\ Steps \in 2..3
          /\ Decodes(journal.now) /\ Completed(journal.now.records)
    /\ call.at \in {"WritePending", "SyncReceipt", "Rename"} => Seals
    /\ call.at \in {"SyncReceipt", "Rename"} => receipt.now # "Absent"

(* Once the receipt is begun, nothing but the receipt and the target       *)
(* changes, unless both calls are cut off and the power fails.             *)
Begun == receipt.now # "Absent" /\ (faults.stops = 0 \/ faults.losses = 0)

BegunAt == Begun => Seals /\ call.at \in {"Idle", "SyncReceipt", "Rename"} \cup ActivationSteps

(* While no call is cut off, a file that is not synced is the one that the *)
(* running call is about to sync.                                          *)
Settled ==
    faults.stops = 0 =>
       /\ call.at # "SyncRecord" => journal = Sure(journal.now)
       /\ call.at \notin {"Fill", "SyncAttempt"} => room = Sure(room.now)
       /\ call.at # "SyncProgress" => progress = Sure(progress.now)
       /\ call.at # "SyncReceipt" => receipt = Sure(receipt.now)

ReceiptInv == OuterData /\ BoundData /\ ReceiptAt /\ BegunAt /\ Settled

(* The shape of the progress chain. *)
ChainShape ==
    /\ Journals(progress, ProgressType) /\ progress.now \in progress.may
    /\ \A p \in progress.may : IsFile(p, ProgressType) /\ p.records \in Seq(ProgressType)
                               /\ Len(p.records) \in Nat
    /\ Steps \in Nat /\ progress.now.records \in Seq(ProgressType)

(* The records of the progress chain. *)
LEMMA ProgressLens ==
    ASSUME RecoveryInv
    PROVE  ChainShape
<1> USE ZenonT(30)
<1>1. Journals(progress, ProgressType)
  BY DEF RecoveryInv, OuterAt
<1>2. /\ progress.now \in progress.may
      /\ \A p \in progress.may : IsFile(p, ProgressType) /\ p.records \in Seq(ProgressType)
  BY <1>1 DEF Journals, IsCell, IsFile
<1>3. \A s \in Seq(ProgressType) : Len(s) \in Nat
  BY SMT
<1> QED BY <1>1, <1>2, <1>3 DEF ChainShape, Steps

(* A workspace whose progress is accepted is planned. *)
LEMMA ValidPlanned == OuterData /\ ProgressValid => Planned
BY Zenon  DEF OuterData, ProgressValid, IsCell

(* validate_progress, for a chain of progress and the recovery's journal. *)
Accepts(rs, js) ==
    /\ Len(rs) \in 1..3
    /\ \A i \in DOMAIN rs :
          /\ rs[i].kind = Kinds[i]
          /\ \E n \in 0..Len(js) : rs[i].journal = SubSeq(js, 1, n)
    /\ Len(rs) >= 2 => rs[2].journal = rs[1].journal
    /\ Len(rs) = 3 => rs[3].journal = js

(* That is what makes the progress valid. *)
LEMMA ValidIs ==
    ProgressValid <=> /\ outer.now = "Planned" /\ room.now /\ Decodes(progress.now)
                      /\ Accepts(progress.now.records, journal.now.records)
BY Zenon DEF ProgressValid, Accepts

(* It is so after a step, too. *)
LEMMA ValidIsThen ==
    ProgressValid' <=> /\ outer'.now = "Planned" /\ room'.now /\ Decodes(progress'.now)
                       /\ Accepts(progress'.now.records, journal'.now.records)
BY Zenon DEF ProgressValid, Accepts

(* What is accepted depends on what the files now have. *)
LEMMA ValidSame ==
    ASSUME outer'.now = outer.now, room'.now = room.now, progress'.now = progress.now,
           journal'.now = journal.now
    PROVE  /\ ProgressValid' <=> ProgressValid
           /\ Steps' = Steps /\ (Seals' <=> Seals)
<1> USE ZenonT(30)
<1>1. (ProgressValid' <=> ProgressValid) /\ Steps' = Steps
  BY ValidIs, ValidIsThen DEF Steps
<1>2. /\ Decodes(journal.now)' <=> Decodes(journal.now)
      /\ Completed(journal.now.records)' <=> Completed(journal.now.records)
  BY DEF Completed, Decodes
<1>3. Seals' <=> Seals
  BY <1>1, <1>2 DEF Seals
<1> QED BY <1>1, <1>3, SMT

(* What the progress chain binds depends on it and on the journal. *)
LEMMA BoundSame ==
    ASSUME UNCHANGED <<journal, progress>>
    PROVE  BoundData' <=> BoundData
BY ZenonT(30) DEF BoundData, AllBound, Completed, Steps

(* One more record of the progress chain. *)
LEMMA ProgressBinds ==
    ASSUME RecoveryInv, BoundData, UNCHANGED journal, NEW r \in ProgressType,
           progress' = Write(progress, r), AllBound(r.journal),
           Steps >= 1 => AllBound(journal.now.records),
           Steps = 2 => Completed(r.journal)
    PROVE  BoundData' /\ Steps' = Steps + 1 /\ progress'.now = File(Append(progress.now.records, r))
<1> USE ZenonT(30)
<1> DEFINE old == progress.now.records
<1>0. /\ Steps \in Nat /\ Steps = Len(old) /\ old \in Seq(ProgressType)
      /\ progress.now \in progress.may /\ IsFile(progress.now, ProgressType)
      /\ \A p \in progress.may : Len(p.records) \in Nat
  BY ProgressLens DEF ChainShape, Steps
<1>1. Steps' = Steps + 1 /\ progress'.now = File(Append(old, r))
  BY ProgressSteps, ProgressLens, JournalShapes DEF StaysJournal, ChainShape
<1>2. ASSUME NEW p \in progress'.may
      PROVE  /\ Len(p.records) <= Steps'
             /\ \A i \in DOMAIN p.records : AllBound(p.records[i].journal)
             /\ Len(p.records) = 3 => Completed(p.records[3].journal)
  <2>1. p \in progress.may \/ p = Torn(progress.now) \/ p = File(Append(old, r))
    BY DEF Write
  <2>2. CASE p \in progress.may \/ p = Torn(progress.now)
    <3>1. PICK q \in progress.may : p.records = q.records
      BY <1>0, <2>2, FileShapes DEF FilesOf
    <3>2. /\ Len(q.records) <= Steps /\ Len(q.records) \in Nat
          /\ \A i \in DOMAIN q.records : AllBound(q.records[i].journal)
          /\ Len(q.records) = 3 => Completed(q.records[3].journal)
      BY <1>0 DEF BoundData
    <3>3. Len(q.records) <= Steps'
      <4>1. PICK m, n, l : m = Steps /\ n = Steps' /\ l = Len(q.records)
        OBVIOUS
      <4>2. m \in Nat /\ n = m + 1 /\ l \in Nat /\ l <= m
        BY <1>0, <1>1, <3>2, <4>1
      <4>3. l <= n
        BY <4>2, NextNumber DEF NextTo
      <4> QED BY <4>1, <4>3
    <3> QED BY <3>1, <3>2, <3>3
  <2>3. CASE p = File(Append(old, r))
    <3>1. p.records = Append(old, r)
      BY <2>3 DEF File
    <3>g. Grows(old, r, Append(old, r))
      BY <1>0, AppendIs
    <3>2. /\ Len(Append(old, r)) = Steps + 1 /\ DOMAIN Append(old, r) = 1..(Steps + 1)
          /\ Append(old, r)[Steps + 1] = r
          /\ \A i \in 1..Steps : Append(old, r)[i] = old[i] /\ i \in DOMAIN old
      BY <1>0, <3>g DEF Grows
    <3>3. \A i \in DOMAIN old : AllBound(old[i].journal)
      BY <1>0 DEF BoundData
    <3>4. \A i \in 1..(Steps + 1) : i \in 1..Steps \/ i = Steps + 1
      BY <1>0, <3>g DEF Grows
    <3>5. Len(p.records) = 3 => Completed(p.records[3].journal)
      <4>1. PICK n : n = Len(p.records)
        OBVIOUS
      <4>2. n = Steps + 1
        BY <3>1, <3>2, <4>1
      <4>3. n = 3 => Steps = 2
        BY <1>0, <4>2, NextNumber DEF NextTo
      <4>4. p.records[n] = r
        BY <3>1, <3>2, <4>2
      <4> QED BY <4>1, <4>3, <4>4
    <3>6. Len(p.records) <= Steps'
      <4>1. PICK m, n : m = Len(p.records) /\ n = Steps'
        OBVIOUS
      <4>2. m = Steps + 1 /\ n = Steps + 1
        BY <1>1, <3>1, <3>2, <4>1
      <4>3. m <= n
        BY <1>0, <4>2, NextNumber DEF NextTo
      <4> QED BY <4>1, <4>3
    <3> HIDE DEF old
    <3>7. \A i \in DOMAIN p.records : AllBound(p.records[i].journal)
      BY <3>1, <3>2, <3>3, <3>4
    <3> QED BY <3>5, <3>6, <3>7
  <2> QED BY <2>1, <2>2, <2>3
<1>3. Steps' >= 2 => AllBound(journal.now.records)
  <2>1. Steps' >= 2 => Steps >= 1
    BY <1>0, <1>1, NextNumber DEF NextTo
  <2> QED BY <2>1
<1>4. BoundData'
  BY <1>2, <1>3 DEF BoundData, AllBound, Completed
<1> QED BY <1>1, <1>4

(* One more record of progress is accepted when it binds what it has to. *)
LEMMA AcceptsRecord ==
    ASSUME NEW rs \in Seq(ProgressType), NEW js \in Seq(RecordType), NEW r \in ProgressType,
           Accepts(rs, js), Len(rs) \in 1..2, r.kind = Kinds[Len(rs) + 1],
           Len(rs) = 1 => r.journal = rs[1].journal, Len(rs) = 2 => r.journal = js
    PROVE  Accepts(Append(rs, r), js)
<1> USE ZenonT(30)
<1> DEFINE new == Append(rs, r)
<1>0. Grows(rs, r, new) /\ Listed(js)
  BY AppendIs, SequenceIs
<1>1. /\ Len(new) = Len(rs) + 1 /\ DOMAIN new = 1..(Len(rs) + 1) /\ DOMAIN rs = 1..Len(rs)
      /\ new[Len(rs) + 1] = r /\ Len(rs) \in Nat /\ Len(js) \in Nat
      /\ \A i \in 1..Len(rs) : new[i] = rs[i]
  BY <1>0 DEF Grows, Listed
<1>2. js = SubSeq(js, 1, Len(js)) /\ Len(js) \in 0..Len(js)
  BY <1>0 DEF Listed
<1>3. \E n \in 0..Len(js) : rs[1].journal = SubSeq(js, 1, n)
  <2>1. 1 \in 1..Len(rs)
    BY OneOrTwo
  <2> QED BY <1>1, <2>1 DEF Accepts
<1>4. \E n \in 0..Len(js) : r.journal = SubSeq(js, 1, n)
  <2>1. Len(rs) = 1 \/ Len(rs) = 2
    BY OneOrTwo
  <2> QED BY <1>2, <1>3, <2>1
<1> HIDE DEF new
<1>5. \A i \in DOMAIN new : /\ new[i].kind = Kinds[i]
                            /\ \E n \in 0..Len(js) : new[i].journal = SubSeq(js, 1, n)
  <2> TAKE i \in DOMAIN new
  <2>1. CASE i \in 1..Len(rs)
    BY <1>1, <2>1 DEF Accepts
  <2>2. CASE i = Len(rs) + 1
    BY <1>1, <1>4, <2>2
  <2>3. i \in 1..Len(rs) \/ i = Len(rs) + 1
    BY <1>0, <1>1 DEF Grows
  <2> QED BY <2>1, <2>2, <2>3
<1>6. CASE Len(rs) = 1
  <2>1. Len(new) = 2 /\ new[2] = r /\ new[1] = rs[1]
    BY <1>1, <1>6, OneOrTwo
  <2> QED BY <1>5, <1>6, <2>1, SMT DEF Accepts, new
<1>7. CASE Len(rs) = 2
  <2>1. Len(new) = 3 /\ new[3] = r /\ new[1] = rs[1] /\ new[2] = rs[2]
    BY <1>1, <1>7, OneOrTwo
  <2>2. rs[2].journal = rs[1].journal
    BY <1>7, SMT DEF Accepts
  <2> QED BY <1>5, <1>7, <2>1, <2>2, SMT DEF Accepts, new
<1> QED BY <1>6, <1>7, OneOrTwo

(* Before COMPLETED, the journal may get one more record. *)
LEMMA AcceptsGrown ==
    ASSUME NEW rs \in Seq(ProgressType), NEW js \in Seq(RecordType), NEW x \in RecordType,
           Accepts(rs, js), Len(rs) # 3
    PROVE  Accepts(rs, Append(js, x))
<1> USE ZenonT(30)
<1>0. Grows(js, x, Append(js, x))
  BY AppendIs
<1>1. Len(js) \in Nat /\ Len(Append(js, x)) = Len(js) + 1
  BY <1>0 DEF Grows
<1>2. \A n \in 0..Len(js) : SubSeq(Append(js, x), 1, n) = SubSeq(js, 1, n) /\ n \in 0..(Len(js) + 1)
  BY PrefixStays
<1>3. \A i \in DOMAIN rs : \E n \in 0..Len(Append(js, x)) : rs[i].journal = SubSeq(Append(js, x), 1, n)
  <2> TAKE i \in DOMAIN rs
  <2>1. PICK n \in 0..Len(js) : rs[i].journal = SubSeq(js, 1, n)
    BY DEF Accepts
  <2>2. n \in 0..Len(Append(js, x)) /\ rs[i].journal = SubSeq(Append(js, x), 1, n)
    BY <1>1, <1>2, <2>1
  <2> QED BY <2>2, SMT
<1> QED BY <1>3 DEF Accepts

-----------------------------------------------------------------------------
(* The steps of the outer workspace. *)

(* Those before the receipt. *)
Early ==
    \/ StartUpgrade \/ AdmitRunning \/ ResumeUpgrade
    \/ WritePreflight \/ WriteInitial \/ WriteRunning \/ SyncProgress \/ WriteCompleted
    \/ (start_upgrade_recovery \/ resume_upgrade_recovery) /\ UNCHANGED receiptVars

(* The invariant but for what holds while the faults are of one kind. *)
ReceiptData == OuterData /\ BoundData /\ ReceiptAt

-----------------------------------------------------------------------------
(* The steps of the recovery, for the workspace around it. *)

-----------------------------------------------------------------------------
(* Activations, cut-off calls and power losses, for the outer workspace. *)

SameRecords(c, d) ==
    d.now.records = c.now.records /\ \A f \in d.may : \E g \in c.may : f.records = g.records

(* Every step of a legacy upgrade and of its activation. *)
LEMMA UpgradeKeepsReceipt ==
    RecoveryInv /\ ReceiptInv /\ CallShape /\ FaultShape /\ UpgradeNext => ReceiptInv'

(* None of them is taken once the receipt is begun. *)
<1>EarlyUnbegun.
    ASSUME RecoveryInv, BegunAt, Early, UNCHANGED faults
    PROVE  BegunAt' /\ UNCHANGED receipt
  <2> USE <1>EarlyUnbegun, ZenonT(30)
  <2>1. UNCHANGED receipt
    BY DEF Early, StartUpgrade, AdmitRunning, ResumeUpgrade, WritePreflight, WriteInitial,
       WriteRunning, SyncProgress, WriteCompleted, receiptVars
  <2>2. Seals => outer.now = "Planned" /\ Steps = 3
    BY DEF Seals, ProgressValid
  <2>3. ~Begun
    <3> SUFFICES ASSUME Begun PROVE FALSE
      OBVIOUS
    <3>1. /\ outer.now = "Planned" /\ Steps = 3 /\ receipt.now # "Absent"
          /\ call.at \in {"Idle", "SyncReceipt", "Rename"} \cup ActivationSteps
      BY <2>2 DEF BegunAt, Begun
    <3>2. CASE WritePreflight \/ WriteInitial \/ WriteRunning \/ SyncProgress \/ WriteCompleted
      <4>1. call.at \in {"Preflight", "Initial", "Running", "SyncProgress", "Completed"}
        BY <3>2 DEF WritePreflight, WriteInitial, WriteRunning, SyncProgress, WriteCompleted
      <4> QED BY <3>1, <4>1, SMT DEF ActivationSteps
    <3>3. CASE StartUpgrade \/ start_upgrade_recovery
      <4>1. outer.now = "Absent"
        BY <3>3 DEF StartUpgrade, start_upgrade_recovery
      <4> QED BY <3>1, <4>1
    <3>4. CASE AdmitRunning \/ ResumeUpgrade
      BY <3>1, <3>4 DEF AdmitRunning, ResumeUpgrade
    <3>5. CASE resume_upgrade_recovery
      <4>1. Steps < 2
        BY <3>5 DEF resume_upgrade_recovery
      <4> QED BY <3>1, <4>1, SMT
    <3> QED BY <3>2, <3>3, <3>4, <3>5 DEF Early
  <2> QED BY <2>1, <2>3 DEF BegunAt, Begun

(* What they write they sync next. *)
<1>OuterSettles.
    ASSUME RecoveryInv, Settled, CallShape, OuterCalls, UNCHANGED faults
    PROVE  Settled'
  <2> USE <1>OuterSettles, ZenonT(30)
  <2>1. UNCHANGED <<room, journal>>
    BY DEF OuterCalls, recoveryVars
  <2>2. call.at \notin RecoverySteps
    BY OuterMoves DEF OuterMoved
  <2>3. call.at \notin {"SyncRecord", "Fill", "SyncAttempt"}
    BY <2>2 DEF RecoverySteps
  <2>4. /\ \/ progress' = Sync(progress) \/ call'.at = "SyncProgress"
           \/ UNCHANGED progress /\ call.at # "SyncProgress"
        /\ \/ receipt' = Sync(receipt) \/ call'.at = "SyncReceipt"
           \/ UNCHANGED receipt /\ call.at # "SyncReceipt"
    <3>1. CASE StartUpgrade \/ AdmitRunning \/ ResumeUpgrade
      <4>1. call = Idle /\ UNCHANGED <<progress, receipt>>
        BY <3>1 DEF StartUpgrade, AdmitRunning, ResumeUpgrade, receiptVars
      <4> QED BY <4>1 DEF Idle
    <3>2. CASE (start_upgrade_recovery \/ resume_upgrade_recovery) /\ UNCHANGED receiptVars
      <4>1. call = Idle /\ UNCHANGED <<progress, receipt>>
        BY <3>2 DEF start_upgrade_recovery, resume_upgrade_recovery, receiptVars
      <4> QED BY <4>1 DEF Idle
    <3>3. CASE WritePreflight
      <4>1. call.at = "Preflight" /\ UNCHANGED <<progress, receipt>>
        BY <3>3 DEF WritePreflight
      <4> QED BY <4>1
    <3>4. CASE WriteInitial \/ WriteRunning
      <4>1. call.at \in {"Initial", "Running"} /\ GoTo("SyncProgress") /\ UNCHANGED receipt
        BY <3>4 DEF WriteInitial, WriteRunning
      <4>2. call'.at = "SyncProgress"
        BY <4>1, GoToShape DEF RecoverySteps
      <4> QED BY <4>1, <4>2, SMT
    <3>5. CASE SyncProgress
      <4>1. call.at = "SyncProgress" /\ progress' = Sync(progress) /\ UNCHANGED receipt
        BY <3>5 DEF SyncProgress
      <4> QED BY <4>1
    <3>6. CASE WriteCompleted
      <4>1. call.at = "Completed" /\ UNCHANGED receipt /\ (GoTo("SyncProgress") \/ UNCHANGED progress)
        BY <3>6 DEF WriteCompleted
      <4>2. GoTo("SyncProgress") => call'.at = "SyncProgress"
        BY GoToShape DEF RecoverySteps
      <4> QED BY <4>1, <4>2
    <3>7. CASE WritePending \/ RenameReceipt
      <4>1. call.at \in {"WritePending", "Rename"} /\ GoTo("SyncReceipt") /\ UNCHANGED progress
        BY <3>7 DEF WritePending, RenameReceipt
      <4>2. call'.at = "SyncReceipt"
        BY <4>1, GoToShape DEF RecoverySteps
      <4> QED BY <4>1, <4>2
    <3>8. CASE SyncReceipt
      <4>1. call.at = "SyncReceipt" /\ receipt' = Sync(receipt) /\ UNCHANGED progress
        BY <3>8 DEF SyncReceipt
      <4> QED BY <4>1
    <3> QED BY <3>1, <3>2, <3>3, <3>4, <3>5, <3>6, <3>7, <3>8 DEF OuterCalls, ReceiptStep
  <2>5. \A c, d : d = Sync(c) => d = Sure(d.now)
    BY SMT DEF Sync, Sure
  <2> QED BY <2>1, <2>3, <2>4, <2>5 DEF Settled

(* start_upgrade_inner. *)
<1>StartKeeps.
    ASSUME RecoveryInv, ReceiptData, CallShape, StartUpgrade \/ WritePreflight \/ WriteInitial
    PROVE  ReceiptData'
  <2> USE <1>StartKeeps, ZenonT(30)
  <2>0. OuterData /\ BoundData /\ ReceiptAt
    BY DEF ReceiptData
  <2>1. CASE StartUpgrade
    <3>1. /\ outer.now = "Absent" /\ outer' = Change(outer, "Empty") /\ UNCHANGED <<journal, progress, receipt>>
          /\ call' = [at |-> "Preflight"]
      BY <2>1 DEF StartUpgrade, recoveryVars
    <3>2. ~Planned
      BY <3>1, SMT DEF Planned, Sure
    <3>3. IsCell(outer') /\ outer'.now = "Empty" /\ outer'.may = outer.may \union {"Empty"}
      <4>1. PICK c, d : c = outer /\ d = outer'
        OBVIOUS
      <4>2. IsCell(c) /\ d = Change(c, "Empty")
        BY <2>0, <3>1, <4>1 DEF OuterData
      <4>3. IsCell(d) /\ d.now = "Empty" /\ d.may = c.may \union {"Empty"}
        BY <4>2 DEF IsCell, Change
      <4> QED BY <4>1, <4>3
    <3>4. ~Planned'
      BY <3>3, SMT DEF Planned, Sure
    <3>5. OuterData'
      BY <2>0, <3>1, <3>2, <3>3, <3>4 DEF OuterData
    <3>6. BoundData'
      BY <2>0, <3>1, BoundSame
    <3>7. call'.at = "Preflight"
      BY <3>1
    <3>8. ReceiptAt'
      BY <3>4, <3>7 DEF ReceiptAt, RecoverySteps
    <3> QED BY <3>5, <3>6, <3>8 DEF ReceiptData
  <2>2. CASE WritePreflight
    <3>1. /\ call.at = "Preflight" /\ outer' = Sure("Planned") /\ UNCHANGED <<journal, progress, receipt>>
          /\ call' = Idle \/ RunsAs("Initial", TRUE)
      BY <2>2, RunsFields DEF WritePreflight, recoveryVars, StartsRecovery
    <3>2. progress = Sure(NoFile) /\ Planned'
      BY <2>0, <3>1 DEF ReceiptAt, OuterData, Planned, Sure
    <3>3. Steps' = 0
      BY <3>1, <3>2, SMT DEF Steps, Sure, NoFile
    <3>4. OuterData'
      <4>1. IsCell(outer')
        BY <3>1 DEF IsCell, Sure
      <4> QED BY <2>0, <3>1, <3>2, <4>1 DEF OuterData
    <3>5. BoundData'
      BY <2>0, <3>1, BoundSame
    <3>6. ReceiptAt'
      <4>1. CASE call' = Idle
        BY <4>1, IdleShape DEF ReceiptAt, RecoverySteps
      <4>2. CASE RunsAs("Initial", TRUE)
        <5>1. call'.at = "NewAttempt" /\ call'["then"] = "Initial" /\ call'.bound
          BY <4>2 DEF RunsAs
        <5>2. RunsFor'
          BY <3>2, <3>3, <5>1 DEF RunsFor
        <5> QED BY <5>1, <5>2 DEF ReceiptAt
      <4> QED BY <3>1, <4>1, <4>2
    <3> QED BY <3>4, <3>5, <3>6 DEF ReceiptData
  <2>3. CASE WriteInitial
    <3>1. /\ call.at = "Initial" /\ progress' = Write(progress, Progress("Initial"))
          /\ GoTo("SyncProgress") /\ UNCHANGED <<journal, outer, receipt>>
      BY <2>3 DEF WriteInitial, recoveryVars
    <3>2. Planned /\ Steps = 0 /\ AllBound(journal.now.records)
      BY <2>0, <3>1 DEF ReceiptAt
    <3>3. PICK r : r = Progress("Initial")
      OBVIOUS
    <3>4. r \in ProgressType /\ r.journal = journal.now.records
      <4>1. journal.now.records \in Seq(RecordType)
        BY JournalLens DEF RunShape
      <4> QED BY <3>3, <4>1 DEF Progress, ProgressType
    <3>5. BoundData' /\ Steps' = 1
      <4>1. (Steps >= 1 => AllBound(journal.now.records)) /\ (Steps = 2 => Completed(r.journal))
        BY <3>2, SMT
      <4>2. BoundData' /\ Steps' = Steps + 1
        BY <2>0, <3>1, <3>2, <3>3, <3>4, <4>1, ProgressBinds
      <4> QED BY <3>2, <4>2, SMTT(30)
    <3>6. Planned' /\ OuterData'
      BY <2>0, <3>1, <3>2 DEF OuterData, Planned, Sure
    <3>7. call'.at = "SyncProgress"
      BY <3>1, GoToShape DEF RecoverySteps
    <3>8. Steps' \in 1..3 /\ Steps' # 2 /\ Steps' # 3
      BY <3>5, SMTT(30)
    <3>9. ReceiptAt'
      BY <3>6, <3>7, <3>8 DEF ReceiptAt, RecoverySteps
    <3> QED BY <3>5, <3>6, <3>9 DEF ReceiptData
  <2> QED BY <2>1, <2>2, <2>3

(* resume_upgrade_inner admits RUNNING over the journal that INITIAL binds. *)
<1>RunningKeeps.
    ASSUME RecoveryInv, ReceiptData, CallShape, AdmitRunning \/ WriteRunning
    PROVE  ReceiptData'
  <2> USE <1>RunningKeeps, ZenonT(30)
  <2>0. OuterData /\ BoundData /\ ReceiptAt
    BY DEF ReceiptData
  <2>a. /\ progress.now \in progress.may /\ progress.now.records \in Seq(ProgressType)
        /\ journal.now.records \in Seq(RecordType)
    BY ProgressLens, JournalLens DEF RunShape, ChainShape
  <2>b. Steps = 1 => /\ progress.now.records[1] \in ProgressType
                     /\ AllBound(progress.now.records[1].journal)
    <3> SUFFICES ASSUME Steps = 1 PROVE /\ progress.now.records[1] \in ProgressType
                                        /\ AllBound(progress.now.records[1].journal)
      OBVIOUS
    <3>1. 1 \in DOMAIN progress.now.records /\ progress.now.records[1] \in ProgressType
      <4>1. \A ps \in Seq(ProgressType) : Len(ps) = 1 => 1 \in DOMAIN ps /\ ps[1] \in ProgressType
        BY SMT
      <4> QED BY <2>a, <4>1 DEF Steps
    <3> QED BY <2>0, <2>a, <3>1 DEF BoundData
  <2>1. CASE AdmitRunning
    <3>1. /\ ProgressValid /\ Steps = 1 /\ journal.now.records = progress.now.records[1].journal
          /\ UNCHANGED <<room, journal, outer, progress, receipt>> /\ call' = [at |-> "Running"]
      BY <2>1 DEF AdmitRunning, recoveryVars, receiptVars
    <3>2. ProgressValid' /\ Steps' = 1 /\ BoundData'
      BY <2>0, <3>1, ValidSame, BoundSame
    <3>3. OuterData'
      BY <2>0, <3>1 DEF OuterData, Planned, Sure
    <3>4. AllBound(journal.now.records)'
      <4>1. AllBound(journal.now.records)
        BY <2>b, <3>1
      <4> QED BY <3>1, <4>1 DEF AllBound
    <3>5. call'.at = "Running"
      BY <3>1
    <3>6. ReceiptAt'
      BY <3>2, <3>4, <3>5 DEF ReceiptAt, RecoverySteps
    <3> QED BY <3>2, <3>3, <3>6 DEF ReceiptData
  <2>2. CASE WriteRunning
    <3>1. /\ call.at = "Running" /\ GoTo("SyncProgress") /\ UNCHANGED <<room, journal, outer, receipt>>
          /\ progress' = Write(progress, [progress.now.records[1] EXCEPT !.kind = "Running"])
      BY <2>2 DEF WriteRunning, recoveryVars
    <3>2. ProgressValid /\ Steps = 1 /\ AllBound(journal.now.records)
      BY <2>0, <3>1 DEF ReceiptAt
    <3>3. PICK r : r = [progress.now.records[1] EXCEPT !.kind = "Running"]
      OBVIOUS
    <3>4. r \in ProgressType /\ r.journal = progress.now.records[1].journal /\ r.kind = "Running"
      BY <2>b, <3>2, <3>3 DEF ProgressType
    <3>5. /\ BoundData' /\ Steps' = 2
          /\ progress'.now = File(Append(progress.now.records, r))
      <4>1. Steps = 2 => Completed(r.journal)
        BY <3>2, SMT
      <4>2. /\ BoundData' /\ Steps' = Steps + 1
            /\ progress'.now = File(Append(progress.now.records, r))
        BY <2>0, <2>b, <3>1, <3>2, <3>3, <3>4, <4>1, ProgressBinds
      <4> QED BY <3>2, <4>2, SMTT(30)
    <3>6. ProgressValid'
      <4>1. /\ outer.now = "Planned" /\ room.now
            /\ Accepts(progress.now.records, journal.now.records)
        BY <3>2, ValidIs
      <4>2. /\ Len(progress.now.records) = 1 /\ Len(progress.now.records) \in 1..2
            /\ r.kind = Kinds[Len(progress.now.records) + 1] /\ Len(progress.now.records) # 2
        BY <3>2, <3>4, SMTT(30) DEF Steps, Kinds
      <4>3. Accepts(Append(progress.now.records, r), journal.now.records)
        BY <2>a, <3>4, <4>1, <4>2, AcceptsRecord
      <4>4. progress'.now.records = Append(progress.now.records, r) /\ Decodes(progress'.now)
        BY <3>5, FileReads
      <4>5. Accepts(progress.now.records, journal.now.records)'
        BY <3>1, <4>3, <4>4 DEF Accepts
      <4> QED BY <3>1, <4>1, <4>4, <4>5 DEF ProgressValid, Accepts
    <3>7. Planned' /\ OuterData'
      BY <2>0, <3>1, <3>2, ValidPlanned DEF OuterData, Planned, Sure
    <3>8. call'.at = "SyncProgress"
      BY <3>1, GoToShape DEF RecoverySteps
    <3>9. Steps' \in 1..3 /\ Steps' # 3
      BY <3>5, SMTT(30)
    <3>10. ReceiptAt'
      BY <3>6, <3>7, <3>8, <3>9 DEF ReceiptAt, RecoverySteps
    <3> QED BY <3>5, <3>7, <3>10 DEF ReceiptData
  <2> QED BY <2>1, <2>2, SMT

(* The recovery is run for COMPLETED only from a progress chain of two. *)
<1>ResumeKeepsOuter.
    ASSUME RecoveryInv, ReceiptData, CallShape, ResumeUpgrade
    PROVE  ReceiptData'
  <2> USE <1>ResumeKeepsOuter, ZenonT(30)
  <2>0. OuterData /\ BoundData /\ ReceiptAt
    BY DEF ReceiptData
  <2>1. /\ ProgressValid /\ Steps >= 2 /\ UNCHANGED <<room, journal, outer, progress, receipt>>
        /\ ResumesRecovery("Completed", TRUE)
    BY DEF ResumeUpgrade, recoveryVars, receiptVars
  <2>2. ProgressValid' /\ Steps' = Steps /\ BoundData' /\ OuterData'
    <3>1. OuterData'
      BY <2>0, <2>1 DEF OuterData, Planned, Sure
    <3> QED BY <2>0, <2>1, <3>1, ValidSame, BoundSame
  <2>3. Steps \in 2..3
    <3>1. Len(progress.now.records) \in 1..3
      BY <2>1 DEF ProgressValid
    <3>2. \A n \in 1..3 : n >= 2 => n \in 2..3
      BY SMT
    <3> QED BY <2>1, <3>1, <3>2 DEF Steps
  <2>4. Steps = 3 => Completed(journal.now.records)
    <3> SUFFICES ASSUME Steps = 3 PROVE Completed(journal.now.records)
      OBVIOUS
    <3>1. Completed(progress.now.records[3].journal)
      BY <2>0, ProgressLens DEF ChainShape, BoundData, Steps
    <3>2. progress.now.records[3].journal = journal.now.records
      BY <2>1 DEF ProgressValid, Steps
    <3> QED BY <3>1, <3>2
  <2>5. CASE Ready /\ RunsAs("Completed", TRUE)
    <3>1. /\ call'.at = "NewAttempt" /\ call'["then"] = "Completed" /\ call'.bound
          /\ call'.records = journal.now.records
      BY <2>5 DEF RunsAs
    <3>2. journal.now.records # <<>> /\ ~Completed(journal.now.records)
      BY <2>5, ReadyRecords DEF ReadyToRun, RecoveryInv
    <3>3. Steps' = 2
      BY <2>2, <2>3, <2>4, <3>2, SMTT(30)
    <3>4. RunsFor'
      BY <2>2, <3>1, <3>2, <3>3 DEF RunsFor
    <3>5. ReceiptAt'
      BY <3>1, <3>4 DEF ReceiptAt
    <3> QED BY <2>2, <3>5 DEF ReceiptData
  <2>6. CASE Completed(journal.now.records) /\ call'.at = "Completed" /\ RecoveryVerifies
    <3>1. Decodes(journal.now)' /\ Completed(journal.now.records)'
      BY <2>1, <2>6 DEF RecoveryVerifies, Decodes, Completed
    <3>2. Steps' \in 2..3
      BY <2>2, <2>3
    <3>3. ReceiptAt'
      BY <2>2, <2>6, <3>1, <3>2 DEF ReceiptAt, RecoverySteps
    <3> QED BY <2>2, <3>3 DEF ReceiptData
  <2> QED BY <2>1, <2>5, <2>6, ResumesMoves DEF Resumed, Destinations

(* An append to the progress chain is synced, and the call goes on. *)
<1>SyncProgressKeeps.
    ASSUME RecoveryInv, ReceiptData, CallShape, SyncProgress
    PROVE  ReceiptData'
  <2> USE <1>SyncProgressKeeps, ZenonT(30)
  <2>0. OuterData /\ BoundData /\ ReceiptAt
    BY DEF ReceiptData
  <2>1. /\ call.at = "SyncProgress" /\ progress' = Sync(progress)
        /\ UNCHANGED <<room, journal, outer, receipt>>
        /\ \/ Steps = 1 /\ call' = Idle
           \/ Steps = 2 /\ RunsAs("Completed", TRUE)
           \/ Steps # 1 /\ Steps # 2 /\ GoTo("WritePending")
    <3>1. \/ Steps = 1 /\ call' = Idle
          \/ Steps = 2 /\ RunsRecovery("Completed", TRUE)
          \/ Steps # 1 /\ Steps # 2 /\ GoTo("WritePending")
      BY DEF SyncProgress
    <3> QED BY <3>1, RunsFields DEF SyncProgress, recoveryVars
  <2>2. /\ Planned /\ Steps \in 1..3
        /\ Steps = 2 => ProgressValid
        /\ Steps = 3 => Seals
    BY <2>0, <2>1 DEF ReceiptAt
  <2>3. progress'.now = progress.now /\ progress'.may = {progress.now}
    BY <2>1 DEF Sync, Sure
  <2>4. (ProgressValid' <=> ProgressValid) /\ Steps' = Steps /\ (Seals' <=> Seals)
    BY <2>1, <2>3, ValidSame
  <2>5. BoundData'
    <3>1. progress'.may \subseteq progress.may
      BY <2>3, ProgressLens DEF ChainShape
    <3> QED BY <2>0, <2>1, <2>4, <3>1 DEF BoundData, AllBound, Completed
  <2>6. OuterData'
    BY <2>0, <2>1, <2>2 DEF OuterData, Planned, Sure
  <2>7. ReceiptAt'
    <3>1. CASE Steps = 1 /\ call' = Idle
      BY <3>1, IdleShape DEF ReceiptAt, RecoverySteps
    <3>2. CASE Steps = 2 /\ RunsAs("Completed", TRUE)
      <4>1. /\ call'.at = "NewAttempt" /\ call'["then"] = "Completed" /\ call'.bound
            /\ call'.records = journal.now.records
        BY <3>2 DEF RunsAs
      <4>2. journal.now.records # <<>>
        BY <2>1, <3>2, ReadyRecords DEF ReadyToRun, RecoveryInv, OuterAt
      <4>3. RunsFor'
        BY <2>2, <2>4, <3>2, <4>1, <4>2 DEF RunsFor
      <4> QED BY <4>1, <4>3 DEF ReceiptAt
    <3>3. CASE Steps # 1 /\ Steps # 2 /\ GoTo("WritePending")
      <4>1. call'.at = "WritePending"
        BY <3>3, GoToShape DEF RecoverySteps
      <4>2. Steps = 3
        BY <2>2, <3>3, SMTT(30)
      <4> QED BY <2>2, <2>4, <4>1, <4>2 DEF ReceiptAt, RecoverySteps
    <3> QED BY <2>1, <3>1, <3>2, <3>3
  <2> QED BY <2>5, <2>6, <2>7 DEF ReceiptData

(* COMPLETED binds the complete recovery. *)
<1>CompletedKeeps.
    ASSUME RecoveryInv, ReceiptData, CallShape, WriteCompleted
    PROVE  ReceiptData'
  <2> USE <1>CompletedKeeps, ZenonT(30)
  <2>0. OuterData /\ BoundData /\ ReceiptAt
    BY DEF ReceiptData
  <2>1. /\ call.at = "Completed" /\ UNCHANGED <<room, journal, outer, receipt>>
        /\ \/ Steps = 2 /\ progress' = Write(progress, Progress("Completed")) /\ GoTo("SyncProgress")
           \/ Steps # 2 /\ UNCHANGED progress /\ GoTo("WritePending")
    BY DEF WriteCompleted, recoveryVars
  <2>2. /\ ProgressValid /\ Steps \in 2..3
        /\ Decodes(journal.now) /\ Completed(journal.now.records)
    BY <2>0, <2>1 DEF ReceiptAt
  <2>3. Planned
    BY <2>0, <2>2, ValidPlanned
  <2>4. Planned' /\ OuterData'
    BY <2>0, <2>1, <2>3 DEF OuterData, Planned, Sure
  <2>5. CASE Steps = 2 /\ progress' = Write(progress, Progress("Completed")) /\ GoTo("SyncProgress")
    <3>0. /\ journal.now.records \in Seq(RecordType) /\ progress.now.records \in Seq(ProgressType)
      BY ProgressLens, JournalLens DEF RunShape, ChainShape
    <3>1. PICK r : r = Progress("Completed")
      OBVIOUS
    <3>2. r \in ProgressType /\ r.journal = journal.now.records /\ r.kind = "Completed"
      BY <3>0, <3>1 DEF Progress, ProgressType
    <3>3. AllBound(journal.now.records)
      <4>1. Steps >= 2
        BY <2>5, SMTT(30)
      <4> QED BY <2>0, <4>1 DEF BoundData
    <3>4. /\ BoundData' /\ Steps' = 3
          /\ progress'.now = File(Append(progress.now.records, r))
      <4>1. AllBound(r.journal) /\ Completed(r.journal)
        BY <2>2, <3>2, <3>3
      <4>2. /\ BoundData' /\ Steps' = Steps + 1
            /\ progress'.now = File(Append(progress.now.records, r))
        BY <2>0, <2>1, <2>5, <3>1, <3>2, <3>3, <4>1, ProgressBinds
      <4> QED BY <2>5, <4>2, SMTT(30)
    <3>5. ProgressValid'
      <4>1. /\ outer.now = "Planned" /\ room.now
            /\ Accepts(progress.now.records, journal.now.records)
        BY <2>2, ValidIs
      <4>2. /\ Len(progress.now.records) # 1 /\ Len(progress.now.records) \in 1..2
            /\ r.kind = Kinds[Len(progress.now.records) + 1]
        BY <2>5, <3>2, SMTT(30) DEF Steps, Kinds
      <4>3. Accepts(Append(progress.now.records, r), journal.now.records)
        BY <3>0, <3>2, <4>1, <4>2, AcceptsRecord
      <4>4. progress'.now.records = Append(progress.now.records, r) /\ Decodes(progress'.now)
        BY <3>4, FileReads
      <4>5. Accepts(progress.now.records, journal.now.records)'
        BY <2>1, <4>3, <4>4 DEF Accepts
      <4> QED BY <2>1, <4>1, <4>4, <4>5 DEF ProgressValid, Accepts
    <3>6. Seals'
      BY <2>1, <2>2, <3>4, <3>5 DEF Seals, Decodes, Completed
    <3>7. call'.at = "SyncProgress"
      BY <2>5, GoToShape DEF RecoverySteps
    <3>8. Steps' \in 1..3
      BY <3>4, SMTT(30)
    <3>9. ReceiptAt'
      BY <2>4, <3>5, <3>6, <3>7, <3>8 DEF ReceiptAt, RecoverySteps
    <3> QED BY <2>4, <3>4, <3>9 DEF ReceiptData
  <2>6. CASE Steps # 2 /\ UNCHANGED progress /\ GoTo("WritePending")
    <3>1. BoundData' /\ (Seals' <=> Seals)
      BY <2>0, <2>1, <2>6, BoundSame, ValidSame
    <3>2. Steps = 3
      BY <2>2, <2>6, SMTT(30)
    <3>3. Seals'
      BY <2>2, <3>1, <3>2 DEF Seals
    <3>4. call'.at = "WritePending"
      BY <2>6, GoToShape DEF RecoverySteps
    <3>5. ReceiptAt'
      BY <3>3, <3>4 DEF ReceiptAt, RecoverySteps
    <3> QED BY <2>4, <3>1, <3>5 DEF ReceiptData
  <2> QED BY <2>1, <2>5, <2>6

(* A recovery of its own is started or resumed before RUNNING. *)
<1>AloneKeeps.
    ASSUME RecoveryInv, ReceiptData, CallShape, start_upgrade_recovery \/ resume_upgrade_recovery,
           UNCHANGED <<recoveryVars, receiptVars>>
    PROVE  ReceiptData'
  <2> USE <1>AloneKeeps, ZenonT(30)
  <2>0. OuterData /\ BoundData /\ ReceiptAt
    BY DEF ReceiptData
  <2>1. UNCHANGED <<room, journal, outer, progress, receipt>>
    BY DEF recoveryVars, receiptVars
  <2>2. Steps < 2 /\ (RunsAs("Return", FALSE) \/ call'.at = "Idle")
    <3>1. CASE start_upgrade_recovery
      <4>1. outer.now = "Absent" /\ RunsAs("Return", FALSE)
        BY <3>1, RunsFields DEF start_upgrade_recovery, StartsRecovery
      <4>2. ~Planned
        BY <4>1, SMT DEF Planned, Sure
      <4>3. progress = Sure(NoFile)
        BY <2>0, <4>2 DEF OuterData
      <4>4. Steps = 0
        BY <4>3 DEF Steps, Sure, NoFile
      <4>5. Steps < 2
        BY <4>4, SMT
      <4> QED BY <4>1, <4>5
    <3>2. CASE resume_upgrade_recovery
      <4>1. Steps < 2 /\ ResumesRecovery("Return", FALSE)
        BY <3>2 DEF resume_upgrade_recovery
      <4> QED BY <4>1, ResumesMoves DEF Resumed, Destinations
    <3> QED BY <3>1, <3>2
  <2>3. Steps' = Steps /\ BoundData' /\ OuterData'
    <3>1. OuterData'
      BY <2>0, <2>1 DEF OuterData, Planned, Sure
    <3> QED BY <2>0, <2>1, <3>1, ValidSame, BoundSame
  <2>4. ReceiptAt'
    <3>1. CASE RunsAs("Return", FALSE)
      <4>1. call'.at = "NewAttempt" /\ call'["then"] = "Return"
        BY <3>1 DEF RunsAs
      <4>2. RunsFor'
        BY <2>2, <2>3, <4>1 DEF RunsFor
      <4> QED BY <4>1, <4>2 DEF ReceiptAt
    <3>2. CASE call'.at = "Idle"
      BY <3>2 DEF ReceiptAt, RecoverySteps
    <3> QED BY <2>2, <3>1, <3>2
  <2> QED BY <2>3, <2>4 DEF ReceiptData

(* The receipt is written pending, synced, renamed and synced again. *)
<1>SealKeeps.
    ASSUME RecoveryInv, ReceiptData, CallShape, WritePending \/ SyncReceipt \/ RenameReceipt
    PROVE  ReceiptData' /\ Seals' /\ call'.at \in {"Idle", "SyncReceipt", "Rename"}
  <2> USE <1>SealKeeps, ZenonT(30)
  <2>0. OuterData /\ BoundData /\ ReceiptAt
    BY DEF ReceiptData
  <2>1. /\ call.at \in {"WritePending", "SyncReceipt", "Rename"}
        /\ UNCHANGED <<room, journal, outer, progress>>
    BY DEF WritePending, SyncReceipt, RenameReceipt, recoveryVars
  <2>2. Seals /\ IsCell(receipt)
    BY <2>0, <2>1 DEF ReceiptAt, OuterData
  <2>3. IsCell(receipt') /\ receipt'.now # "Absent"
    <3>1. CASE WritePending \/ RenameReceipt
      <4>1. PICK v \in {"Pending", "Complete"} : receipt' = Change(receipt, v)
        BY <3>1 DEF WritePending, RenameReceipt
      <4>2. IsCell(receipt') /\ receipt'.now = v
        <5>1. PICK c : c = receipt /\ IsCell(c)
          BY <2>2
        <5>2. IsCell(Change(c, v)) /\ Change(c, v).now = v
          BY <5>1 DEF IsCell, Change
        <5> QED BY <4>1, <5>1, <5>2
      <4> QED BY <4>2
    <3>2. CASE SyncReceipt
      <4>1. receipt' = Sync(receipt) /\ call.at = "SyncReceipt"
        BY <3>2 DEF SyncReceipt
      <4>2. IsCell(receipt') /\ receipt'.now = receipt.now /\ receipt.now # "Absent"
        BY <2>0, <2>2, <4>1, CellShapes DEF StaysCell, ReceiptAt
      <4> QED BY <4>2
    <3> QED BY <3>1, <3>2
  <2>4. call'.at \in {"Idle", "SyncReceipt", "Rename"}
    <3>1. PICK s \in {"SyncReceipt", "Rename"} : GoTo(s) \/ call' = Idle
      BY DEF WritePending, SyncReceipt, RenameReceipt
    <3>2. s \notin RecoverySteps
      BY DEF RecoverySteps
    <3> QED BY <3>1, <3>2, IdleShape, GoToShape
  <2>5. Seals' /\ BoundData'
    BY <2>0, <2>1, <2>2, ValidSame, BoundSame
  <2>6. Planned /\ Planned'
    <3>1. Planned
      BY <2>0, <2>2, ValidPlanned DEF Seals
    <3> QED BY <2>1, <3>1 DEF Planned, Sure
  <2>7. OuterData'
    BY <2>0, <2>1, <2>3, <2>6 DEF OuterData
  <2>8. ReceiptAt'
    BY <2>3, <2>4, <2>5 DEF ReceiptAt, RecoverySteps
  <2> QED BY <2>4, <2>5, <2>7, <2>8 DEF ReceiptData

(* A call runs on for the same caller. *)
<1>RunsOn.
    ASSUME RunsFor, SameRun, UNCHANGED receiptVars,
           ProgressValid /\ Steps = 2 /\ call.records # <<>>
               => ProgressValid' /\ call'.records # <<>>
    PROVE  RunsFor'
  <2> USE <1>RunsOn, ZenonT(30)
  <2>1. Steps' = Steps /\ (Planned' <=> Planned)
    BY DEF Steps, Planned, Sure, receiptVars
  <2> QED BY <2>1 DEF RunsFor, SameRun

(* A workspace that is there is accepted as before. *)
<1>ValidWith.
    ASSUME UNCHANGED receiptVars, journal'.now = journal.now, room.now => room'.now
    PROVE  ProgressValid => ProgressValid'
  BY <1>ValidWith, ValidIs, ValidIsThen, Zenon DEF receiptVars

(* The steps that append no record. *)
<1>WorkKeepsOuter.
    ASSUME RecoveryInv, ReceiptData, UNCHANGED receiptVars,
           Refuses \/ (\E n \in Numbers : Begins(n)) \/ Works
    PROVE  ReceiptData'
  <2> USE <1>WorkKeepsOuter, ZenonT(30)
  <2>0. OuterData /\ BoundData /\ ReceiptAt
    BY DEF ReceiptData
  <2>1. UNCHANGED <<journal, outer, progress, receipt>>
    BY DEF receiptVars, Refuses, Begins, Works
  <2>2. BoundData' /\ OuterData'
    <3>1. OuterData'
      BY <2>0, <2>1 DEF OuterData, Planned, Sure
    <3> QED BY <2>0, <2>1, <3>1, BoundSame
  <2>3. CASE Refuses
    BY <2>2, <2>3 DEF Refuses, ReceiptData, ReceiptAt, RecoverySteps
  <2>4. CASE (\E n \in Numbers : Begins(n)) \/ Works
    <3>1. /\ call.at \in RecoverySteps /\ call'.at \in Working /\ SameRun /\ call'.records = call.records
          /\ room' = Change(room, TRUE) \/ room' = room \/ room' = Sync(room)
      <4>1. CASE \E n \in Numbers : Begins(n)
        BY <4>1 DEF Begins, RecoverySteps, Working
      <4>2. CASE Works
        BY <4>2 DEF Works, SameWork, RecoverySteps, Working
      <4> QED BY <2>4, <4>1, <4>2
    <3>3. room.now => room'.now
      <4>1. Change(room, TRUE).now = TRUE /\ Sync(room).now = room.now
        BY DEF Change, Sync, Sure
      <4> QED BY <3>1, <4>1
    <3>4. RunsFor'
      <4>1. RunsFor
        BY <2>0, <3>1 DEF ReceiptAt
      <4> QED BY <2>1, <3>1, <3>3, <4>1, <1>RunsOn, <1>ValidWith
    <3>5. ReceiptAt'
      BY <3>1, <3>4 DEF ReceiptAt, Working
    <3> QED BY <2>2, <3>5 DEF ReceiptData
  <2> QED BY <2>3, <2>4, SMT

(* A record is appended by the caller that the recovery runs for. *)
<1>AppendKeepsOuter.
    ASSUME RecoveryInv, ReceiptData, UNCHANGED receiptVars, Appends
    PROVE  ReceiptData'
  <2> USE <1>AppendKeepsOuter, ZenonT(30)
  <2>0. OuterData /\ BoundData /\ ReceiptAt
    BY DEF ReceiptData
  <2>1. /\ call.at = "Append" /\ call'.at = "SyncRecord" /\ SameRun /\ call'.records = call.records
        /\ journal' = Write(journal, RecordOf(call)) /\ UNCHANGED <<room, outer, progress, receipt>>
    BY DEF Appends, SameWork, receiptVars
  <2>2. /\ RunsFor /\ RecoveryShape /\ call.bound \in BOOLEAN /\ call.records \in Seq(RecordType)
        /\ call.records # <<>> => Whole(call.records) /\ ~Completed(call.records)
        /\ journal.now.records = call.records /\ call.attempt \in Numbers
        /\ journal.now \in journal.may /\ IsFile(journal.now, RecordType)
    <3>1. RunsFor /\ RecoveryShape /\ RunAt /\ WorkAt /\ journal.now \in journal.may
      BY <2>0, <2>1, JournalLens DEF RunShape, ReceiptAt, RecoverySteps
    <3> QED BY <2>1, <3>1 DEF RunAt, WorkAt, RecoverySteps, Working, RecoveryShape, Journals
  <2>3. PICK r \in RecordType : r = RecordOf(call) /\ r.bound = call.bound
    BY <2>2, NextRecord DEF NextIs
  <2>4. PICK js \in Seq(RecordType) : js = journal.now.records
    BY <2>2
  <2>5. journal'.now = File(Append(js, r)) /\ journal'.may = journal.may \union {Torn(journal.now), File(Append(js, r))}
    BY <2>1, <2>3, <2>4 DEF Write
  <2>6. journal'.now.records = Append(js, r) /\ Decodes(journal'.now)
    BY <2>5, FileReads
  <2>7. AllBound(Append(js, r)) <=> AllBound(js) /\ r.bound
    <3>1. /\ DOMAIN Append(js, r) = DOMAIN js \cup {Len(js) + 1}
          /\ Append(js, r)[Len(js) + 1] = r /\ \A i \in DOMAIN js : Append(js, r)[i] = js[i]
      <4>1. Append(js, r) \in Seq(RecordType) /\ Len(Append(js, r)) = Len(js) + 1 /\ Len(js) \in Nat
        BY SMT
      <4>2. 1..(Len(js) + 1) = (1..Len(js)) \cup {Len(js) + 1}
        BY <4>1, SMT
      <4>3. DOMAIN Append(js, r) = 1..(Len(js) + 1) /\ DOMAIN js = 1..Len(js)
        BY SMT
      <4>4. Append(js, r)[Len(js) + 1] = r /\ \A i \in 1..Len(js) : Append(js, r)[i] = js[i]
        BY SMT
      <4> QED BY <4>2, <4>3, <4>4
    <3> QED BY <3>1 DEF AllBound
  <2>8. BoundData'
    <3>1. AllBound(Append(js, r)) => \A f \in journal'.may : AllBound(f.records)
      <4> SUFFICES ASSUME AllBound(Append(js, r)), NEW f \in journal'.may PROVE AllBound(f.records)
        OBVIOUS
      <4>1. CASE f \in journal.may
        BY <2>0, <2>4, <2>7, <4>1 DEF BoundData
      <4>2. CASE f = Torn(journal.now)
        BY <2>2, <2>4, <2>7, <4>2, FileShapes DEF FilesOf
      <4>3. CASE f = File(Append(js, r))
        BY <2>5, <2>6, <4>3
      <4> QED BY <2>5, <4>1, <4>2, <4>3
    <3>2. Steps >= 2 => AllBound(Append(js, r))
      <4> SUFFICES ASSUME Steps >= 2 PROVE AllBound(js) /\ r.bound
        BY <2>7
      <4>1. AllBound(js)
        BY <2>0, <2>4 DEF BoundData
      <4>2. PICK s \in Nat : s = Steps
        BY ProgressLens DEF ChainShape
      <4>3. s >= 2 => ~(s < 2)
        BY SMT
      <4>4. call["then"] # "Return"
        BY <2>2, <4>2, <4>3 DEF RunsFor
      <4> QED BY <2>2, <2>3, <4>1, <4>4 DEF RunsFor
    <3>3. \A p \in progress'.may :
            /\ Len(p.records) <= Steps'
            /\ \A i \in DOMAIN p.records : AllBound(p.records[i].journal)
            /\ Len(p.records) = 3 => Completed(p.records[3].journal)
      BY <2>0, <2>1 DEF BoundData, Steps
    <3>4. AllBound(journal.now.records)' <=> AllBound(Append(js, r))
      BY <2>6 DEF AllBound
    <3>5. Steps' = Steps
      BY <2>1 DEF Steps
    <3> QED BY <3>1, <3>2, <3>3, <3>4, <3>5 DEF BoundData, AllBound, Completed
  <2>9. OuterData'
    BY <2>0, <2>1 DEF OuterData, Planned, Sure
  <2>10. ASSUME ProgressValid, Steps = 2 PROVE ProgressValid'
    <3>1. PICK rs \in Seq(ProgressType) : rs = progress.now.records
      BY ProgressLens DEF ChainShape
    <3>2. /\ outer.now = "Planned" /\ room.now /\ Decodes(progress.now) /\ Accepts(rs, js)
      BY <2>4, <2>10, <3>1, ValidIs
    <3>3. Len(rs) # 3
      BY <2>10, <3>1, OneOrTwo DEF Steps
    <3>4. Accepts(rs, Append(js, r))
      BY <3>2, <3>3, AcceptsGrown
    <3>5. Accepts(progress.now.records, journal.now.records)'
      BY <2>1, <2>6, <3>1, <3>4 DEF Accepts
    <3> QED BY <2>1, <3>2, <3>5 DEF ProgressValid, Accepts, Decodes
  <2>11. RunsFor'
    BY <2>1, <2>2, <2>10, <1>RunsOn
  <2>12. ReceiptAt'
    BY <2>1, <2>11 DEF ReceiptAt
  <2> QED BY <2>8, <2>9, <2>12 DEF ReceiptData

(* The record is synced, and the call goes on or ends. *)
<1>KeepKeepsOuter.
    ASSUME RecoveryInv, ReceiptData, CallShape, UNCHANGED receiptVars, Keeps
    PROVE  ReceiptData'
  <2> USE <1>KeepKeepsOuter, ZenonT(30)
  <2>0. OuterData /\ BoundData /\ ReceiptAt
    BY DEF ReceiptData
  <2>1. /\ call.at = "SyncRecord" /\ journal' = Sync(journal)
        /\ UNCHANGED <<room, outer, progress, receipt>>
    BY DEF Keeps, receiptVars
  <2>2. /\ RunsFor /\ RecoveryShape /\ call.bound \in BOOLEAN /\ call.records \in Seq(RecordType)
        /\ call.records # <<>> => Whole(call.records) /\ ~Completed(call.records)
        /\ call["then"] = "Initial" => call.records = <<>>
        /\ call.attempt \in Numbers /\ journal.now \in journal.may
        /\ journal.now = File(Recorded) /\ call["then"] \in Destinations
    <3>1. RunsFor /\ RecoveryShape /\ RunAt /\ WorkAt /\ StepAt /\ journal.now \in journal.may
      BY <2>0, <2>1, JournalLens DEF RunShape, ReceiptAt, RecoverySteps
    <3>2. call.at \in RecoverySteps
      BY <2>1 DEF RecoverySteps
    <3> QED BY <2>1, <3>1, <3>2 DEF RunAt, WorkAt, StepAt, Recorded, CallShape
  <2>3. PICK r \in RecordType : r = RecordOf(call) /\ r.bound = call.bound
    BY <2>2, NextRecord DEF NextIs
  <2>4. PICK cs \in Seq(RecordType) : cs = call.records
    BY <2>2
  <2>5. Recorded = Append(cs, r)
    BY <2>3, <2>4 DEF Recorded
  <2>6. journal'.now = journal.now /\ journal'.may = {journal.now}
    <3>1. PICK c, d : c = journal /\ d = journal'
      OBVIOUS
    <3>2. d = [now |-> c.now, may |-> {c.now}]
      BY <2>1, <3>1 DEF Sync, Sure
    <3>3. d.now = c.now /\ d.may = {c.now}
      BY <3>2
    <3> QED BY <3>1, <3>3
  <2>7. journal.now.records = Append(cs, r) /\ Decodes(journal.now)
    BY <2>2, <2>5, FileReads
  <2>8. (ProgressValid' <=> ProgressValid) /\ Steps' = Steps
    BY <2>1, <2>6, ValidSame
  <2>9. OuterData' /\ (Planned' <=> Planned)
    BY <2>0, <2>1 DEF OuterData, Planned, Sure
  <2>10. BoundData'
    <3>1. AllBound(journal.now.records)' <=> AllBound(journal.now.records)
      BY <2>6 DEF AllBound
    <3>2. \A p \in progress'.may :
            /\ Len(p.records) <= Steps'
            /\ \A i \in DOMAIN p.records : AllBound(p.records[i].journal)
            /\ Len(p.records) = 3 => Completed(p.records[3].journal)
      BY <2>0, <2>1 DEF BoundData, Steps
    <3>3. \A f \in journal'.may : f = journal.now
      BY <2>6
    <3>4. Steps >= 2 => AllBound(journal.now.records)
      BY <2>0 DEF BoundData
    <3> QED BY <2>8, <3>1, <3>2, <3>3, <3>4 DEF BoundData, AllBound, Completed
  <2>11. ReceiptAt'
    <3>1. CASE call'.at = "NewAttempt" /\ SameRun /\ call'.records = Recorded
      <4>1. Append(cs, r) # <<>>
        <5>1. \A s \in Seq(RecordType) : \A x \in RecordType : Append(s, x) # <<>>
          BY SMT
        <5> QED BY <5>1
      <4>2. RunsFor'
        BY <2>2, <2>5, <2>8, <3>1, <4>1, <1>RunsOn
      <4> QED BY <3>1, <4>2 DEF ReceiptAt
    <3>2. CASE call'.at = "Idle"
      BY <3>2 DEF ReceiptAt, RecoverySteps
    <3>3. CASE call["then"] = "Initial" /\ call'.at = "Initial"
      <4>1. Planned /\ Steps = 0 /\ r.bound /\ cs = <<>>
        BY <2>2, <2>3, <2>4, <3>3 DEF RunsFor
      <4>2. journal'.now.records = <<r>>
        BY <2>6, <2>7, <4>1, SMT
      <4>3. AllBound(journal.now.records)'
        BY <4>1, <4>2, SMT DEF AllBound
      <4> QED BY <2>8, <2>9, <3>3, <4>1, <4>3 DEF ReceiptAt, RecoverySteps
    <3>4. CASE /\ call["then"] = "Completed" /\ call'.at = "Completed"
               /\ Len(Recorded) = 1 \/ Completed(Recorded)
      <4>1. ProgressValid /\ Steps = 2 /\ cs # <<>>
        BY <2>2, <2>4, <3>4 DEF RunsFor
      <4>2. Len(Append(cs, r)) # 1
        BY <4>1, SMT
      <4>3. Completed(Recorded)
        BY <2>5, <3>4, <4>2
      <4>4. Decodes(journal.now)' /\ Completed(journal.now.records)'
        BY <2>5, <2>6, <2>7, <4>3 DEF Decodes, Completed
      <4>5. Steps' \in 2..3
        BY <2>8, <4>1, SMTT(30)
      <4> QED BY <2>8, <3>4, <4>1, <4>4, <4>5 DEF ReceiptAt, RecoverySteps
    <3> QED BY <2>2, <3>1, <3>2, <3>3, <3>4 DEF Keeps, Destinations
  <2> QED BY <2>9, <2>10, <2>11 DEF ReceiptData

(* The recovery runs only while no receipt is begun, and a file that it    *)
(* changes it syncs before it goes on.                                     *)
<1>RecoverySettles.
    ASSUME RecoveryInv, BegunAt, Settled, CallShape, RecoveryStep, UNCHANGED <<receiptVars, faults>>
    PROVE  BegunAt' /\ Settled'
  <2> USE <1>RecoverySettles, ZenonT(30)
  <2>1. Refuses \/ (\E n \in Numbers : Begins(n)) \/ Works \/ Appends \/ Keeps
    BY RecoveryMoves
  <2>2. call.at \in RecoverySteps /\ call.at \notin {"SyncProgress", "SyncReceipt"}
    <3>1. call.at \in RecoverySteps
      BY <2>1 DEF Refuses, Begins, Works, Appends, Keeps, RecoverySteps, Working
    <3> QED BY <3>1 DEF RecoverySteps
  <2>3. BegunAt'
    <3>1. ~Begun
      BY <2>2 DEF BegunAt, RecoverySteps, ActivationSteps
    <3> QED BY <3>1 DEF BegunAt, Begun, receiptVars
  <2>4. \A c, d : d = Sync(c) => d = Sure(d.now)
    BY SMT DEF Sync, Sure
  <2>5. faults.stops = 0 => progress' = Sure(progress'.now) /\ receipt' = Sure(receipt'.now)
    BY <2>2 DEF Settled, receiptVars
  <2>6. faults.stops = 0 /\ call'.at # "SyncRecord" => journal' = Sure(journal'.now)
    <3>1. CASE UNCHANGED journal /\ call.at # "SyncRecord"
      BY <3>1 DEF Settled
    <3>2. CASE journal' = Sync(journal) \/ call'.at = "SyncRecord"
      BY <2>4, <3>2
    <3> QED BY <2>1, <3>1, <3>2 DEF Refuses, Begins, Works, Appends, Keeps, Working
  <2>7. faults.stops = 0 /\ call'.at \notin {"Fill", "SyncAttempt"} => room' = Sure(room'.now)
    <3>1. CASE UNCHANGED room /\ call.at \notin {"Fill", "SyncAttempt"}
      BY <3>1 DEF Settled
    <3>2. CASE room' = Sync(room) \/ call'.at \in {"Fill", "SyncAttempt"}
      BY <2>4, <3>2
    <3>3. CASE Works
      BY <3>1, <3>2, <3>3 DEF Works, Working
    <3>4. CASE Refuses \/ (\E n \in Numbers : Begins(n)) \/ Appends \/ Keeps
      BY <3>1, <3>2, <3>4 DEF Refuses, Begins, Appends, Keeps
    <3> QED BY <2>1, <3>3, <3>4
  <2> QED BY <2>3, <2>5, <2>6, <2>7 DEF Settled

(* An activation leaves the workspace as it is. *)
<1>ActivationKeepsOuter.
    ASSUME ReceiptInv, CallShape, ActivateStep \/ ActivateStart,
           UNCHANGED <<recoveryVars, receiptVars, faults>>
    PROVE  ReceiptInv'
  <2> USE <1>ActivationKeepsOuter, ZenonT(30)
  <2>0. OuterData /\ BoundData /\ ReceiptAt /\ BegunAt /\ Settled
    BY DEF ReceiptInv
  <2>1. UNCHANGED <<room, journal, outer, progress, receipt>>
    BY DEF recoveryVars, receiptVars
  <2>2. /\ call.at \in ActivationSteps \cup {"Idle"}
        /\ call'.at \in ActivationSteps \cup {"Idle"}
    BY IdleShape, NewShape, GoToShape, SMTT(30) DEF ActivateStep, ActivateStart, ActivateGuard,
       ActivateCopy, ActivateSync, ActivateUnlink, ActivateFinish, ActivationSteps, RecoverySteps, Idle
  <2>3. OuterData' /\ BoundData' /\ (Seals' <=> Seals)
    <3>1. OuterData'
      BY <2>0, <2>1 DEF OuterData, Planned, Sure
    <3> QED BY <2>0, <2>1, <3>1, BoundSame, ValidSame
  <2>4. /\ call.at \notin {"SyncRecord", "Fill", "SyncAttempt", "SyncProgress", "SyncReceipt"}
        /\ call'.at \notin RecoverySteps
        /\ call'.at \notin {"Preflight", "Initial", "Running", "SyncProgress", "Completed",
                            "WritePending", "SyncReceipt", "Rename"}
    BY <2>2, SMTT(30) DEF ActivationSteps, RecoverySteps
  <2>5. ReceiptAt'
    BY <2>4 DEF ReceiptAt
  <2>6. BegunAt'
    BY <2>0, <2>1, <2>2, <2>3 DEF BegunAt, Begun
  <2>7. Settled'
    BY <2>0, <2>1, <2>4 DEF Settled
  <2> QED BY <2>3, <2>5, <2>6, <2>7 DEF ReceiptInv

(* A call that is cut off leaves the records that were there. *)
<1>StopKeepsOuter.
    ASSUME RecoveryInv, ReceiptInv, FaultShape, UpgradeStops
    PROVE  ReceiptInv'
  <2> USE <1>StopKeepsOuter, ZenonT(30)
  <2>0. OuterData /\ BoundData /\ ReceiptAt /\ BegunAt /\ Settled
    BY DEF ReceiptInv
  <2>1. /\ call' = Idle /\ faults' = [faults EXCEPT !.stops = @ + 1]
        /\ UNCHANGED <<room, outer, receipt>>
        /\ \/ UNCHANGED <<journal, progress>>
           \/ call.at = "Append" /\ journal' = WriteCut(journal) /\ UNCHANGED progress
           \/ /\ call.at \in {"Initial", "Running", "Completed"}
              /\ progress' = WriteCut(progress) /\ UNCHANGED journal
    BY DEF UpgradeStops, Stop, AppendCut, ProgressCut
  <2>2. faults'.stops # 0 /\ faults'.losses = faults.losses
    BY <2>1, SMTT(30) DEF FaultShape
  <2>3. /\ journal'.now.records = journal.now.records /\ progress'.now.records = progress.now.records
        /\ \A f \in journal'.may : \E g \in journal.may : f.records = g.records
        /\ \A f \in progress'.may : \E g \in progress.may : f.records = g.records
    <3>1. ASSUME NEW c, NEW R, Journals(c, R), NEW d, d = c \/ d = WriteCut(c)
          PROVE  SameRecords(c, d)
      <4>1. c.now \in c.may /\ Torn(c.now).records = c.now.records
        BY <3>1, FileShapes DEF FilesOf, Journals, IsCell
      <4>2. WriteCut(c).now = Torn(c.now) /\ WriteCut(c).may = c.may \union {Torn(c.now)}
        BY DEF WriteCut, Change
      <4> QED BY <3>1, <4>1, <4>2 DEF SameRecords
    <3>2. Journals(journal, RecordType) /\ Journals(progress, ProgressType)
      BY JournalLens, ProgressLens DEF RunShape, ChainShape, RecoveryShape
    <3>3. (journal' = journal \/ journal' = WriteCut(journal)) /\ (progress' = progress \/ progress' = WriteCut(progress))
      BY <2>1
    <3>4. PICK c, d, p, q : c = journal /\ d = journal' /\ p = progress /\ q = progress'
      OBVIOUS
    <3>5. SameRecords(c, d)
      BY <3>1, <3>2, <3>3, <3>4
    <3>6. SameRecords(p, q)
      BY <3>1, <3>2, <3>3, <3>4
    <3> QED BY <3>4, <3>5, <3>6 DEF SameRecords
  <2>4. BoundData'
    <3>1. Steps' = Steps
      BY <2>3 DEF Steps
    <3>2. AllBound(journal.now.records)' <=> AllBound(journal.now.records)
      BY <2>3 DEF AllBound
    <3>3. \A p \in progress'.may :
            /\ Len(p.records) <= Steps
            /\ \A i \in DOMAIN p.records : AllBound(p.records[i].journal)
            /\ Len(p.records) = 3 => Completed(p.records[3].journal)
      <4> TAKE p \in progress'.may
      <4>1. PICK q \in progress.may : p.records = q.records
        BY <2>3
      <4> QED BY <2>0, <4>1 DEF BoundData
    <3>4. AllBound(journal.now.records) => \A f \in journal'.may : AllBound(f.records)
      BY <2>0, <2>3 DEF BoundData
    <3>5. Steps >= 2 => AllBound(journal.now.records)
      BY <2>0 DEF BoundData
    <3> QED BY <3>1, <3>2, <3>3, <3>4, <3>5 DEF BoundData, AllBound, Completed
  <2>5. OuterData'
    <3>1. ~Planned => UNCHANGED progress
      <4>1. call.at \in {"Initial", "Running", "Completed"} => Planned
        BY <2>0, ValidPlanned DEF ReceiptAt
      <4> QED BY <2>1, <4>1
    <3> QED BY <2>0, <2>1, <3>1 DEF OuterData, Planned, Sure
  <2>6. call'.at = "Idle"
    BY <2>1, IdleShape
  <2>7. ReceiptAt'
    BY <2>6 DEF ReceiptAt, RecoverySteps
  <2>8. BegunAt'
    <3> SUFFICES ASSUME Begun' PROVE Seals'
      BY <2>6 DEF BegunAt
    <3>1. Begun
      BY <2>1, <2>2 DEF Begun
    <3>2. Seals /\ call.at \in {"Idle", "SyncReceipt", "Rename"} \cup ActivationSteps
      BY <2>0, <3>1 DEF BegunAt
    <3>3. call.at \notin {"Append", "Initial", "Running", "Completed"}
      BY <3>2 DEF ActivationSteps
    <3>4. UNCHANGED <<journal, progress>>
      BY <2>1, <3>3
    <3> QED BY <2>1, <3>2, <3>4, ValidSame
  <2>9. Settled'
    BY <2>2 DEF Settled
  <2> QED BY <2>4, <2>5, <2>7, <2>8, <2>9 DEF ReceiptInv

(* What is synced survives. *)
<1>SureSurvives.
    ASSUME NEW c, NEW d \in Survivors(c), NEW v, c = Sure(v)
    PROVE  d = c /\ d.now = v
  <2> USE <1>SureSurvives, ZenonT(30)
  <2>1. c.may = {v}
    BY DEF Sure
  <2>2. d = Sure(v)
    BY <2>1 DEF Survivors
  <2>3. Sure(v).now = v
    BY DEF Sure
  <2> QED BY <2>2, <2>3

(* A power loss takes back what was not synced, which without a cut-off    *)
(* call is only what the running call was about to sync.                   *)
<1>LossKeepsOuter.
    ASSUME RecoveryInv, ReceiptInv, FaultShape, UpgradeLoses
    PROVE  ReceiptInv'
  <2> USE <1>LossKeepsOuter, ZenonT(30)
  <2>0. OuterData /\ BoundData /\ ReceiptAt /\ BegunAt /\ Settled
    BY DEF ReceiptInv
  <2>1. /\ call' = Idle /\ faults' = [faults EXCEPT !.losses = @ + 1] /\ RecoveryLoss
        /\ outer' \in Survivors(outer) /\ progress' \in Survivors(progress)
        /\ receipt' \in Survivors(receipt)
    BY DEF UpgradeLoses, Loss
  <2>2. faults'.losses # 0 /\ faults'.stops = faults.stops
    BY <2>1, SMTT(30) DEF FaultShape
  <2>3. /\ \A c : \A d \in Survivors(c) : d = Sure(d.now) /\ d.now \in c.may /\ IsCell(d) /\ d.may = {d.now}
        /\ \A c, v : c = Sure(v) => c.now = v /\ c.may = {v}
    <3>1. \A v : Sure(v).now = v /\ Sure(v).may = {v} /\ IsCell(Sure(v))
      BY DEF Sure, IsCell
    <3>2. ASSUME NEW c, NEW d \in Survivors(c)
          PROVE  d = Sure(d.now) /\ d.now \in c.may /\ IsCell(d) /\ d.may = {d.now}
      <4>1. PICK v \in c.may : d = Sure(v)
        BY DEF Survivors
      <4> QED BY <3>1, <4>1
    <3> QED BY <3>1, <3>2
  <2>4. OuterData'
    <3>1. IsCell(outer') /\ IsCell(receipt') /\ outer' = Sure(outer'.now) /\ outer'.now \in outer.may
      BY <2>1, <2>3
    <3>2. CASE Planned
      <4>1. outer'.now = "Planned"
        BY <2>3, <3>1, <3>2, SMTT(30) DEF Planned
      <4> QED BY <3>1, <4>1 DEF OuterData, Planned
    <3>3. CASE ~Planned
      <4>1. /\ outer.may \subseteq {"Absent", "Empty"} /\ progress = Sure(NoFile) /\ receipt = Sure("Absent")
        BY <2>0, <3>3 DEF OuterData
      <4>2. progress' = Sure(NoFile) /\ receipt' = Sure("Absent")
        <5>1. progress'.now = NoFile /\ progress' = Sure(progress'.now)
          BY <2>1, <2>3, <4>1, SMTT(30)
        <5>2. receipt'.now = "Absent" /\ receipt' = Sure(receipt'.now)
          BY <2>1, <2>3, <4>1, SMTT(30)
        <5> QED BY <5>1, <5>2
      <4>3. outer'.may \subseteq {"Absent", "Empty"}
        BY <2>1, <2>3, <4>1, SMTT(30)
      <4> QED BY <3>1, <4>2, <4>3 DEF OuterData
    <3> QED BY <3>2, <3>3, SMT
  <2>5. /\ progress'.now \in progress.may /\ progress'.may = {progress'.now}
        /\ progress' = Sure(progress'.now)
    BY <2>1, <2>3
  <2>6. /\ journal' = Sure(journal'.now) /\ journal'.may = {journal'.now}
        /\ journal'.now \in journal.may \/ journal'.now.records = <<>>
    <3>1. CASE room'.now
      BY <2>1, <2>3, <3>1 DEF RecoveryLoss
    <3>2. CASE ~room'.now
      <4>1. journal' = Sure(NoFile)
        BY <2>1, <3>2 DEF RecoveryLoss
      <4>2. journal'.now = NoFile /\ journal'.may = {NoFile}
        BY <4>1 DEF Sure
      <4>3. NoFile.records = <<>>
        BY DEF NoFile
      <4> QED BY <4>1, <4>2, <4>3
    <3> QED BY <3>1, <3>2, SMT
  <2>7. BoundData'
    <3>1. PICK p \in progress.may : p = progress'.now
      BY <2>5
    <3>2. /\ Len(p.records) <= Steps /\ Steps \in Nat /\ Len(p.records) \in Nat
          /\ \A i \in DOMAIN p.records : AllBound(p.records[i].journal)
          /\ Len(p.records) = 3 => Completed(p.records[3].journal)
      BY <2>0, ProgressLens DEF ChainShape, BoundData
    <3>3. Steps' = Len(p.records)
      BY <3>1 DEF Steps
    <3>4. Len(p.records) >= 2 => AllBound(journal'.now.records)
      <4> SUFFICES ASSUME Len(p.records) >= 2 PROVE AllBound(journal'.now.records)
        OBVIOUS
      <4>1. PICK l \in Nat, s \in Nat : l = Len(p.records) /\ s = Steps
        BY <3>2
      <4>2. l <= s /\ l >= 2 => s >= 2
        BY SMTT(30)
      <4>3. AllBound(journal.now.records)
        BY <2>0, <3>2, <4>1, <4>2 DEF BoundData
      <4>4. CASE journal'.now \in journal.may
        BY <2>0, <4>3, <4>4 DEF BoundData
      <4>5. CASE journal'.now.records = <<>>
        BY <4>5, NoneBound
      <4> QED BY <2>6, <4>4, <4>5
    <3>5. Len(p.records) <= Len(p.records)
      BY <3>2, SMT
    <3> QED BY <2>5, <2>6, <3>1, <3>2, <3>3, <3>4, <3>5 DEF BoundData, AllBound, Completed
  <2>8. call'.at = "Idle"
    BY <2>1, IdleShape
  <2>9. ReceiptAt'
    BY <2>8 DEF ReceiptAt, RecoverySteps
  <2>10. BegunAt'
    <3> SUFFICES ASSUME Begun' PROVE Seals'
      BY <2>8 DEF BegunAt
    <3>1. faults.stops = 0 /\ receipt'.now # "Absent"
      BY <2>2 DEF Begun
    <3>2. Begun
      <4>1. CASE call.at = "SyncReceipt"
        BY <2>0, <3>1, <4>1 DEF Begun, ReceiptAt
      <4>2. CASE call.at # "SyncReceipt"
        <5>1. receipt = Sure(receipt.now)
          BY <2>0, <3>1, <4>2 DEF Settled
        <5>2. receipt'.now = receipt.now
          BY <2>1, <5>1, <1>SureSurvives
        <5> QED BY <3>1, <5>2 DEF Begun
      <4> QED BY <4>1, <4>2, SMT
    <3>3. Seals /\ call.at \in {"Idle", "SyncReceipt", "Rename"} \cup ActivationSteps
      BY <2>0, <3>2 DEF BegunAt
    <3>4. call.at \notin {"SyncRecord", "Fill", "SyncAttempt", "SyncProgress"}
      BY <3>3, SMT DEF ActivationSteps
    <3>5. journal = Sure(journal.now) /\ room = Sure(room.now) /\ progress = Sure(progress.now)
      BY <2>0, <3>1, <3>4 DEF Settled
    <3>6. outer = Sure("Planned") /\ room.now
      BY <2>0, <3>3, ValidPlanned DEF Seals, Planned, ProgressValid
    <3>7. room'.now = room.now
      <4>1. room' \in Survivors(room)
        BY <2>1 DEF RecoveryLoss
      <4> QED BY <3>5, <4>1, <1>SureSurvives
    <3>8. journal'.now = journal.now
      <4>1. journal' \in Survivors(journal)
        BY <2>1, <3>6, <3>7 DEF RecoveryLoss
      <4> QED BY <3>5, <4>1, <1>SureSurvives
    <3>9. progress'.now = progress.now /\ outer'.now = outer.now
      <4>1. progress'.now = progress.now
        BY <2>1, <3>5, <1>SureSurvives
      <4>2. outer' = outer
        BY <2>1, <3>6, <1>SureSurvives
      <4> QED BY <4>1, <4>2
    <3> QED BY <3>3, <3>7, <3>8, <3>9, ValidSame
  <2>11. Settled'
    <3>1. room' = Sure(room'.now) /\ receipt' = Sure(receipt'.now)
      BY <2>1, <2>3 DEF RecoveryLoss
    <3> QED BY <2>5, <2>6, <3>1 DEF Settled
  <2> QED BY <2>4, <2>7, <2>9, <2>10, <2>11 DEF ReceiptInv
<1> USE ZenonT(30)
<1> SUFFICES ASSUME RecoveryInv, ReceiptInv, CallShape, FaultShape, UpgradeNext PROVE ReceiptInv'
  OBVIOUS
<1>0. ReceiptData /\ BegunAt /\ Settled
  BY DEF ReceiptInv, ReceiptData
<1>1. ASSUME ReceiptData', BegunAt', Settled' PROVE ReceiptInv'
  BY <1>1 DEF ReceiptInv, ReceiptData
<1>2. CASE Early /\ OuterCalls /\ UNCHANGED faults
  <2>1. ReceiptData'
    BY <1>0, <1>2, <1>StartKeeps, <1>RunningKeeps, <1>ResumeKeepsOuter, <1>SyncProgressKeeps, <1>CompletedKeeps,
       <1>AloneKeeps DEF Early, OuterCalls
  <2>2. BegunAt' /\ Settled'
    BY <1>0, <1>2, <1>EarlyUnbegun, <1>OuterSettles
  <2> QED BY <1>1, <2>1, <2>2
<1>3. CASE (WritePending \/ SyncReceipt \/ RenameReceipt) /\ OuterCalls /\ UNCHANGED faults
  <2>1. ReceiptData' /\ Seals' /\ call'.at \in {"Idle", "SyncReceipt", "Rename"}
    BY <1>0, <1>3, <1>SealKeeps
  <2>2. BegunAt'
    BY <2>1 DEF BegunAt
  <2>3. Settled'
    BY <1>0, <1>3, <1>OuterSettles
  <2> QED BY <1>1, <2>1, <2>2, <2>3
<1>4. CASE RecoveryStep /\ UNCHANGED <<receiptVars, faults>>
  <2>1. ReceiptData'
    BY <1>0, <1>4, RecoveryMoves, <1>WorkKeepsOuter, <1>AppendKeepsOuter, <1>KeepKeepsOuter
  <2>2. BegunAt' /\ Settled'
    BY <1>0, <1>4, <1>RecoverySettles
  <2> QED BY <1>1, <2>1, <2>2
<1>5. CASE UpgradeActivates
  BY <1>5, <1>ActivationKeepsOuter DEF UpgradeActivates
<1>6. CASE UpgradeStops
  BY <1>6, <1>StopKeepsOuter
<1>7. CASE UpgradeLoses
  BY <1>7, <1>LossKeepsOuter
<1>8. CASE UpgradeCalls
  <2>1. CASE RecoveryStep /\ UNCHANGED <<from, max_attempts, receiptVars>>
    BY <1>4, <1>8, <2>1 DEF UpgradeCalls
  <2>2. CASE OuterCalls /\ UNCHANGED faults
    BY <1>2, <1>3, <2>2 DEF OuterCalls, ReceiptStep, Early
  <2>3. (RecoveryStep /\ UNCHANGED <<from, max_attempts, receiptVars>>) \/ (OuterCalls /\ UNCHANGED faults)
    BY <1>8 DEF UpgradeCalls,
       OuterCalls, StartUpgrade, AdmitRunning, ResumeUpgrade, ReceiptStep, WritePreflight, WriteInitial,
       WriteRunning, SyncProgress, WriteCompleted, WritePending, SyncReceipt, RenameReceipt
  <2> QED BY <2>1, <2>2, <2>3
<1> QED BY <1>5, <1>6, <1>7, <1>8 DEF UpgradeNext

-----------------------------------------------------------------------------
(* Both upgrades.  The upgrade of one source leaves the files of the other *)
(* as they were.                                                           *)
SealsInv ==
    /\ RecordsInv
    /\ subject = "Legacy" => AttemptsInv /\ ReceiptInv /\ schema.receipt = "Absent"
    /\ subject = "Schema" => /\ SchemaSeal /\ receipt = Sure("Absent")
                             /\ attempts = [a \in Numbers |-> Sure(Absent)]

(* Both begin without a receipt. *)
LEMMA SealsInit == CountsFit /\ Init => SealsInv
<1> USE ZenonT(30)
<1> SUFFICES ASSUME CountsFit, Init PROVE SealsInv
  OBVIOUS
<1>1. RecordsInv
  BY RecordsInit
<1>2. /\ room = Sure(FALSE) /\ attempts = [a \in Numbers |-> Sure(Absent)]
      /\ journal = Sure(NoFile) /\ outer = Sure("Absent") /\ progress = Sure(NoFile)
      /\ receipt = Sure("Absent") /\ call = Idle
  BY DEF Init, ActivationInit, UpgradeInit, RecoveryInit, ReceiptInit
<1>3. PICK m \in SchemaLimits :
        schema = [planned |-> "Absent", journal |-> NoFile,
                  attempts |-> [a \in 0..(m - 1) |-> "Absent"],
                  receipt |-> "Absent", max_attempts |-> m]
  BY DEF Init, SchemaInit
<1>4. call.at = "Idle" /\ schema.receipt = "Absent" /\ schema.max_attempts = m
  BY <1>2, <1>3 DEF Idle
<1>5. /\ \A v : Sure(v).now = v /\ Sure(v).may = {v} /\ IsCell(Sure(v))
      /\ NoFile.records = <<>> /\ ~Decodes(NoFile)
  BY DEF Sure, IsCell, NoFile, Decodes
<1>6. AttemptsInv
  <2>1. \A a \in Numbers : attempts[a].may = {Absent}
    BY <1>2, <1>5
  <2>2. Taken = {}
    BY <2>1 DEF Taken
  <2>3. \A f \in journal.may : ~Decodes(f)
    BY <1>2, <1>5
  <2> QED BY <1>4, <2>2, <2>3 DEF AttemptsInv, Busy, Working
<1>7. ReceiptInv
  <2>1. OuterData
    <3>1. outer.may = {"Absent"} /\ IsCell(outer) /\ IsCell(receipt)
      BY <1>2, <1>5
    <3> QED BY <1>2, <3>1 DEF OuterData
  <2>2. BoundData
    <3>1. /\ journal.now.records = <<>> /\ progress.now.records = <<>>
          /\ \A f \in journal.may \cup progress.may : f.records = <<>>
      BY <1>2, SMTT(30) DEF Sure, NoFile
    <3>2. Len(<<>>) = 0 /\ DOMAIN <<>> = {} /\ 0 <= 0
      BY SMT
    <3>3. Len(<<>>) # 3
      BY SMT
    <3> QED BY <3>1, <3>2, <3>3 DEF BoundData, AllBound, Steps
  <2>3. ReceiptAt
    BY <1>4 DEF ReceiptAt, RecoverySteps
  <2>4. BegunAt
    BY <1>2, <1>5 DEF BegunAt, Begun
  <2>5. Settled
    BY <1>2, <1>5 DEF Settled
  <2> QED BY <2>1, <2>2, <2>3, <2>4, <2>5 DEF ReceiptInv
<1>8. SchemaSeal
  <2>1. \A a \in Tries : schema.attempts[a] = "Absent"
    <3>1. Tries = 0..(m - 1) /\ schema.attempts = [a \in 0..(m - 1) |-> "Absent"]
      BY <1>3, <1>4 DEF Tries
    <3> QED BY <3>1
  <2> QED BY <1>4, <2>1 DEF SchemaSeal, Intended
<1> QED BY <1>1, <1>2, <1>4, <1>6, <1>7, <1>8 DEF SealsInv

(* Every call, cut-off call and power loss of either upgrade keeps it. *)
LEMMA SealsNext == CountsFit /\ SealsInv /\ [Next]_vars => SealsInv'
<1> USE ZenonT(30)
<1> SUFFICES ASSUME CountsFit, SealsInv, [Next]_vars PROVE SealsInv'
  OBVIOUS
<1>0. RecordsInv /\ RecordsInv' /\ CallShape /\ FaultShape
  BY RecordsNext DEF SealsInv, RecordsInv, TargetInv
<1>1. CASE UNCHANGED vars
  <2>1. UNCHANGED <<subject, call, faults, schema, receipt, attempts, max_attempts, room, journal,
                    outer, progress>>
    BY <1>1 DEF vars, upgradeVars, activationVars, receiptVars, recoveryVars
  <2>2. AttemptsInv' <=> AttemptsInv
    BY <2>1 DEF AttemptsInv, Taken, Numbers, Enough, Interruptions
  <2>3. /\ (ProgressValid' <=> ProgressValid) /\ Steps' = Steps /\ (Seals' <=> Seals)
        /\ BoundData' <=> BoundData
    BY <2>1, ValidSame, BoundSame
  <2>4. ReceiptInv' <=> ReceiptInv
    <3>1. (Planned' <=> Planned) /\ (OuterData' <=> OuterData)
      BY <2>1 DEF Planned, OuterData
    <3>2. RunsFor' <=> RunsFor
      BY <2>1, <2>3, <3>1 DEF RunsFor
    <3>3. ReceiptAt' <=> ReceiptAt
      BY <2>1, <2>3, <3>1, <3>2 DEF ReceiptAt, AllBound, Decodes, Completed
    <3>4. (BegunAt' <=> BegunAt) /\ (Settled' <=> Settled)
      BY <2>1, <2>3 DEF BegunAt, Begun, Settled
    <3> QED BY <2>3, <3>1, <3>3, <3>4 DEF ReceiptInv
  <2>5. SchemaSeal' <=> SchemaSeal
    <3>1. Records' = Records /\ Tries' = Tries
      BY <2>1, SchemaSame
    <3>2. Intended(Records, schema.attempts)' <=> Intended(Records, schema.attempts)
      BY <2>1, <3>1 DEF Intended
    <3>3. Sealing' <=> Sealing
      BY <2>1, <3>1 DEF Sealing, LastKind, Decodes
    <3> QED BY <2>1, <3>2, <3>3 DEF SchemaSeal, Decodes
  <2> QED BY <1>0, <2>1, <2>2, <2>4, <2>5 DEF SealsInv, Numbers
<1>2. CASE subject = "Legacy" /\ UpgradeNext /\ UNCHANGED <<schema, subject>>
  <2>1. RecoveryInv /\ AttemptsInv /\ ReceiptInv
    BY <1>0, <1>2 DEF SealsInv, RecordsInv
  <2>2. AttemptsInv' /\ ReceiptInv'
    BY <1>0, <1>2, <2>1, UpgradeSpends, UpgradeKeepsReceipt
  <2> QED BY <1>0, <1>2, <2>2 DEF SealsInv
<1>3. CASE subject = "Schema" /\ SchemaNext /\ UNCHANGED <<recoveryVars, receiptVars, subject>>
  <2>1. SchemaInv /\ SchemaSeal
    BY <1>0, <1>3 DEF SealsInv, RecordsInv
  <2>2. SchemaSeal'
    BY <1>0, <1>3, <2>1, SchemaNextSeals
  <2> QED BY <1>0, <1>3, <2>2 DEF SealsInv, recoveryVars, receiptVars, Numbers
<1> QED BY <1>1, <1>2, <1>3 DEF Next

(* Recorded attempts are whole under the invariant. *)
LEMMA RecordsFollow == CountsFit /\ RecordsInv => RecordsAreWhole
<1> USE ZenonT(30)
<1> SUFFICES ASSUME CountsFit, RecordsInv PROVE RecordedIsWhole /\ SchemaRecordedIsWhole
  BY DEF RecordsAreWhole
<1>1. CASE subject = "Legacy"
  <2>1. RecordedIsWhole
    <3>1. \A f \in journal.may : Decodes(f) => Whole(f.records)
      BY <1>1, SMT DEF RecordsInv, RecoveryInv, RecoveryData
    <3> QED BY <3>1 DEF RecordedIsWhole, Whole, IsSure
  <2>2. Records = <<>> /\ FaultShape
    BY <1>1 DEF RecordsInv
  <2>3. SchemaRecordedIsWhole
    BY <2>2, NoRecords, FaultsGrow, SMT DEF FaultsCount, SchemaRecordedIsWhole
  <2> QED BY <2>1, <2>3
<1>2. CASE subject = "Schema"
  <2>1. RecordedIsWhole
    <3>1. journal = Sure(NoFile)
      BY <1>2 DEF RecordsInv
    <3> QED BY <3>1, SMT DEF RecordedIsWhole, Sure, Decodes, NoFile
  <2>2. SchemaRecordedIsWhole
    BY <1>2, SMT DEF RecordsInv, SchemaInv, SchemaData, Spent, Marked, SchemaRecordedIsWhole
  <2> QED BY <2>1, <2>2
<1> QED BY <1>1, <1>2 DEF RecordsInv

(* So are the attempts in use few enough, *)
LEMMA AttemptsFollow == SealsInv => AttemptsSuffice
<1> USE ZenonT(30)
<1> SUFFICES ASSUME SealsInv, call.at = "NewAttempt", NEW a \in Used
             PROVE  a < Len(call.records) + Interruptions
  BY DEF AttemptsSuffice
<1>1. CASE subject = "Legacy"
  <2>1. RecoveryShape
    BY <1>1 DEF SealsInv, RecordsInv, RecoveryInv, RecoveryData
  <2>2. a \in Numbers /\ attempts[a].now # Absent /\ attempts[a].now \in attempts[a].may
    BY <2>1 DEF Used, RecoveryShape, IsCell
  <2>3. a \in Taken
    BY <2>2 DEF Taken
  <2> QED BY <1>1, <2>3 DEF SealsInv, AttemptsInv, Enough
<1>2. CASE subject = "Schema"
  <2>1. attempts[a] = Sure(Absent)
    BY <1>2 DEF SealsInv, Used
  <2>2. attempts[a].now = Absent
    BY <2>1, SMT DEF Sure
  <2> QED BY <2>2 DEF Used
<1> QED BY <1>1, <1>2 DEF SealsInv, RecordsInv

(* the records of a workspace that is accepted its own, *)
LEMMA BoundFollows == SealsInv => BuildBound
<1> USE ZenonT(30)
<1> SUFFICES ASSUME SealsInv, inspect_upgrade # "Refused" PROVE AllBound(journal.now.records)
  BY DEF BuildBound, AllBound
<1>1. CASE subject = "Legacy"
  <2>1. RecoveryInv /\ BoundData
    BY <1>1 DEF SealsInv, RecordsInv, ReceiptInv
  <2>2. PICK s \in Nat : s = Steps
    BY <2>1, ProgressLens DEF ChainShape
  <2>3. s = 2 \/ s = 3 => s >= 2
    BY SMT
  <2>4. Steps = 2 \/ Steps = 3 => AllBound(journal.now.records)
    BY <2>1, <2>2, <2>3 DEF BoundData
  <2>5. Steps = 1 => AllBound(progress.now.records[1].journal)
    <3>1. \A rs \in Seq(ProgressType) : Len(rs) = 1 => 1 \in DOMAIN rs
      BY SMT
    <3>2. Steps = 1 => 1 \in DOMAIN progress.now.records
      BY <2>1, <3>1, ProgressLens DEF ChainShape, Steps
    <3> QED BY <2>1, <3>2, ProgressLens DEF ChainShape, BoundData
  <2>6. \/ Steps = 2 \/ Steps = 3
        \/ Steps = 1 /\ progress.now.records[1].journal = journal.now.records
    <3>1. CASE receipt.now = "Complete"
      BY <3>1 DEF inspect_upgrade, UpgradeVerifies
    <3>2. CASE receipt.now # "Complete"
      BY <3>2 DEF inspect_upgrade
    <3> QED BY <3>1, <3>2, SMT
  <2> QED BY <2>4, <2>5, <2>6
<1>2. CASE subject = "Schema"
  <2>1. journal.now.records = <<>>
    BY <1>2, SMT DEF SealsInv, RecordsInv, Sure, NoFile
  <2> QED BY <2>1, NoneBound
<1> QED BY <1>1, <1>2 DEF SealsInv, RecordsInv

(* and a complete receipt one that verifies. *)
LEMMA StandsFollows == SealsInv => SealedStands
<1> USE ZenonT(30)
<1> SUFFICES ASSUME SealsInv PROVE UpgradeSealedStands /\ SchemaSealedStands
  BY DEF SealedStands
<1>1. CASE subject = "Legacy"
  <2>1. RecoveryInv /\ BegunAt /\ schema.receipt = "Absent"
    BY <1>1 DEF SealsInv, RecordsInv, ReceiptInv
  <2>2. SchemaSealedStands
    BY <2>1 DEF SchemaSealedStands
  <2>3. ASSUME receipt.now = "Complete", faults.stops = 0 \/ faults.losses = 0
        PROVE  inspect_upgrade = "Sealed"
    <3>1. Begun
      BY <2>3 DEF Begun
    <3>2. Seals
      BY <2>1, <3>1 DEF BegunAt
    <3>3. /\ ProgressValid /\ Steps = 3 /\ room.now
          /\ Decodes(journal.now) /\ Completed(journal.now.records)
      BY <3>2 DEF Seals, ProgressValid
    <3>4. Whole(journal.now.records)
      BY <2>1, <3>3, JournalLens DEF RunShape, RecoveryInv, RecoveryData
    <3>5. Intact(journal.now.records)
      <4>1. \A v : Sure(v).now = v
        BY DEF Sure
      <4> QED BY <3>4, <4>1 DEF Whole, Intact
    <3>6. RecoveryVerifies
      BY <3>3, <3>4, <3>5 DEF RecoveryVerifies, Whole
    <3> QED BY <2>3, <3>3, <3>6 DEF inspect_upgrade, UpgradeVerifies
  <2> QED BY <2>2, <2>3 DEF UpgradeSealedStands
<1>2. CASE subject = "Schema"
  <2>1. SchemaSealedStands
    BY <1>2, SealVerifies DEF SealsInv, RecordsInv
  <2>2. receipt.now = "Absent"
    BY <1>2, SMT DEF SealsInv, Sure
  <2> QED BY <2>1, <2>2, SMT DEF UpgradeSealedStands
<1> QED BY <1>1, <1>2 DEF SealsInv, RecordsInv

(* The invariants hold if counting works, *)
LEMMA RecordsHolds == []CountsFit /\ Spec => []RecordsInv
<1>1. CountsFit /\ Init => RecordsInv
  BY RecordsInit, Zenon
<1>2. CountsFit /\ RecordsInv /\ [Next]_vars => RecordsInv'
  BY RecordsNext, Zenon
<1> QED BY <1>1, <1>2, PTL DEF Spec

(* of the records and of the receipts. *)
LEMMA SealsHolds == []CountsFit /\ Spec => []SealsInv
<1>1. CountsFit /\ Init => SealsInv
  BY SealsInit, Zenon
<1>2. CountsFit /\ SealsInv /\ [Next]_vars => SealsInv'
  BY SealsNext, Zenon
<1> QED BY <1>1, <1>2, PTL DEF Spec

-----------------------------------------------------------------------------
(* Cardinalities, of which only the rest of the module needs to know.  The *)
(* instance has a Cardinality of its own, with the same definition.        *)

Sized(S, k) ==
    k = LET CS[T \in SUBSET S] == IF T = {} THEN 0
                                  ELSE 1 + CS[T \ {CHOOSE x : x \in T}]
        IN  CS[S]

IntentsAt(rs, n) == {i \in 1..n : rs[i].kind = "Intent"}

(* IntentsIn is a cardinality. *)
LEMMA IntentsSized ==
    ASSUME NEW rs, NEW n
    PROVE  Sized(IntentsAt(rs, n), IntentsIn(rs, n))
<1> USE ZenonT(30)
<1>1. PICK S : S = IntentsAt(rs, n)
  OBVIOUS
<1>2. Sized(S, Cardinality(S))
  BY DEF Sized, Cardinality
<1> QED BY <1>1, <1>2 DEF IntentsIn, IntentsAt

(* The places up to n are among the first n. *)
LEMMA IntentsWithin ==
    ASSUME NEW rs, NEW n \in Nat
    PROVE  IntentsAt(rs, n) \subseteq 1..n /\ (n = 0 => IntentsAt(rs, n) = {})
BY DEF IntentsAt

(* One more record adds a place exactly when it is an INTENT. *)
Splits(rs, r, s, N) ==
    /\ \A n \in 0..N : IntentsAt(s, n) = IntentsAt(rs, n)
    /\ N + 1 \notin IntentsAt(rs, N)
    /\ r.kind = "Intent" => IntentsAt(s, N + 1) = IntentsAt(rs, N) \cup {N + 1}
    /\ r.kind # "Intent" => IntentsAt(s, N + 1) = IntentsAt(rs, N)

(* An append does that. *)
LEMMA IntentsSplit ==
    ASSUME NEW rs, NEW r, NEW s, Grows(rs, r, s)
    PROVE  Splits(rs, r, s, Len(rs))
<1> USE ZenonT(30)
<1>1. PICK N \in Nat : N = Len(rs)
  BY DEF Grows
<1>2. s[N + 1] = r /\ \A i \in 1..N : s[i] = rs[i]
  BY <1>1 DEF Grows
<1>3. Splits(rs, r, s, N)
  BY <1>2, SMT DEF Splits, IntentsAt
<1> QED BY <1>1, <1>3

LOCAL INSTANCE FiniteSetTheorems

(* It is the cardinality that the theorems on finite sets are about. *)
LEMMA IntentsAre ==
    ASSUME NEW rs, NEW n
    PROVE  IntentsIn(rs, n) = Cardinality(IntentsAt(rs, n))
<1> USE ZenonT(30)
<1>1. PICK S : S = IntentsAt(rs, n)
  OBVIOUS
<1>2. Sized(S, Cardinality(S))
  BY DEF Sized, Cardinality
<1>3. Sized(S, IntentsIn(rs, n))
  BY <1>1, IntentsSized
<1> QED BY <1>1, <1>2, <1>3 DEF Sized

(* Intents are counted. *)
LEMMA IntentsType ==
    ASSUME NEW rs, NEW n \in Nat
    PROVE  /\ IntentsIn(rs, n) \in Nat /\ IsFiniteSet(IntentsAt(rs, n))
           /\ n = 0 => IntentsIn(rs, n) = 0
<1> USE ZenonT(30)
<1>1. PICK S : S = IntentsAt(rs, n)
  OBVIOUS
<1>2. S \subseteq 1..n /\ (n = 0 => S = {})
  BY <1>1, IntentsWithin
<1>f. IsFiniteSet(1..n)
  BY FS_Interval, SMT
<1>3. IsFiniteSet(S)
  BY <1>2, <1>f, FS_Subset
<1>4. Cardinality(S) \in Nat /\ (S = {} => Cardinality(S) = 0)
  BY <1>3, FS_CardinalityType, FS_EmptySet
<1>5. IntentsIn(rs, n) = Cardinality(S)
  BY <1>1, IntentsAre
<1> QED BY <1>1, <1>2, <1>3, <1>4, <1>5

(* An append adds to the count exactly when it is an INTENT. *)
LEMMA AppendIntents ==
    ASSUME NEW rs \in Seq(Entries), NEW r \in Entries
    PROVE  /\ \A n \in 0..Len(rs) : IntentsIn(Append(rs, r), n) = IntentsIn(rs, n)
           /\ r.kind = "Intent" => Intents(Append(rs, r)) = Intents(rs) + 1
           /\ r.kind # "Intent" => Intents(Append(rs, r)) = Intents(rs)
<1> USE ZenonT(30)
<1>1. PICK N, s : N = Len(rs) /\ s = Append(rs, r)
  OBVIOUS
<1>g. Grows(rs, r, s)
  BY <1>1, AppendIs
<1>2. N \in Nat /\ Len(s) = N + 1
  BY <1>1, <1>g DEF Grows
<1>s. Splits(rs, r, s, N)
  BY <1>1, <1>g, IntentsSplit
<1>3. \A n \in 0..N : IntentsAt(s, n) = IntentsAt(rs, n)
  BY <1>s DEF Splits
<1>4. \A n \in 0..N : IntentsIn(s, n) = IntentsIn(rs, n)
  BY <1>3, IntentsAre
<1>5. PICK S, T : S = IntentsAt(rs, N) /\ T = IntentsAt(s, N + 1)
  OBVIOUS
<1>6. IsFiniteSet(S) /\ N + 1 \notin S
  <2>1. IsFiniteSet(S)
    BY <1>2, <1>5, IntentsType
  <2>2. N + 1 \notin S
    BY <1>5, <1>s DEF Splits
  <2> QED BY <2>1, <2>2
<1>7. /\ r.kind = "Intent" => T = S \cup {N + 1}
      /\ r.kind # "Intent" => T = S
  BY <1>5, <1>s DEF Splits
<1>8. Cardinality(S \cup {N + 1}) = Cardinality(S) + 1
  BY <1>6, FS_AddElement
<1>9. Intents(rs) = Cardinality(S) /\ Intents(s) = Cardinality(T)
  BY <1>1, <1>2, <1>5, IntentsAre DEF Intents
<1>10. /\ r.kind = "Intent" => Intents(s) = Intents(rs) + 1
       /\ r.kind # "Intent" => Intents(s) = Intents(rs)
  BY <1>7, <1>8, <1>9
<1> QED BY <1>1, <1>4, <1>10

(* So counting works. *)
LEMMA Counts == CountsFit
<1> USE ZenonT(30)
<1>1. \A rs : \A n \in Nat : IntentsIn(rs, n) \in Nat
  BY IntentsType
<1>2. \A rs : IntentsIn(rs, 0) = 0
  BY IntentsType
<1>3. \A rs \in Seq(Entries), r \in Entries :
         /\ \A n \in 0..Len(rs) : IntentsIn(Append(rs, r), n) = IntentsIn(rs, n)
         /\ r.kind = "Intent" => Intents(Append(rs, r)) = Intents(rs) + 1
         /\ r.kind # "Intent" => Intents(Append(rs, r)) = Intents(rs)
  BY AppendIntents
<1> QED BY <1>1, <1>2, <1>3 DEF CountsFit

(* upgrade_resume.rs and schema_upgrade.rs, for every limit on attempts    *)
(* and any number of cut-off calls and power losses: whatever records the  *)
(* journals turn out to have, they form a chain, and the attempts that     *)
(* they name are complete and, on the legacy path, synced; no attempt of a *)
(* schema upgrade is spent but by an interruption.                         *)
THEOREM RecordedAttemptsAreWhole == Spec => []RecordsAreWhole
BY Counts, RecordsHolds, RecordsFollow, PTL

(* upgrade_resume.rs, for every limit on attempts and any number of        *)
(* cut-off calls and power losses: an interruption costs at most one       *)
(* attempt.                                                                *)
THEOREM AttemptsAreEnough == Spec => []AttemptsSuffice
BY Counts, SealsHolds, AttemptsFollow, PTL

(* upgrade_receipt.rs, validate_progress and inspect_upgrade, under the    *)
(* same faults: a workspace in which a call on the recovery alone wrote a  *)
(* record is refused.                                                      *)
THEOREM BuildIsBound == Spec => []BuildBound
BY Counts, SealsHolds, BoundFollows, PTL

(* upgrade_receipt.rs and schema_upgrade.rs, for every limit on attempts   *)
(* and any number of faults of one kind: a complete receipt is only found  *)
(* over a progress chain, a journal and attempts that verify.              *)
THEOREM SealsStand == Spec => []SealedStands
BY Counts, SealsHolds, StandsFollows, PTL

=============================================================================
