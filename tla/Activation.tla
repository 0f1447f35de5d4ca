----------------------------- MODULE Activation -----------------------------
(***************************************************************************)
(* The publication of an upgraded store at a fresh target, which both      *)
(* upgrades share (activate_upgrade_inner in upgrade_receipt.rs and        *)
(* activate_inner in schema_upgrade.rs): the directory gets a guard that   *)
(* ordinary opens refuse, then the files, and at last the guard goes.      *)
(*                                                                         *)
(* One operator runs the calls of an upgrade one after the other: the      *)
(* workspace and native leases refuse a second caller, which changes       *)
(* nothing.  `call' is the running call.                                   *)
(***************************************************************************)
EXTENDS Naturals, Journal

CONSTANTS
    MaxStops,   \* the bound on calls that fail or end with their process
    MaxLosses   \* the bound on power losses

ASSUME FaultsAssumption == MaxStops \in Nat /\ MaxLosses \in Nat

VARIABLES
    target,     \* the fresh target: its mark, its files, and whether a caller
                \* was told that it is active
    call,       \* the running call and its next step
    faults      \* how many calls were cut off, and how many power losses there were

activationVars == <<target, call, faults>>

Idle == [at |-> "Idle"]

GoTo(step) == call' = [call EXCEPT !.at = step]

ActivationInit ==
    /\ target = [mark |-> Sure("Absent"), files |-> Sure("None"), told |-> FALSE]
    /\ call = Idle
    /\ faults = [stops |-> 0, losses |-> 0]

ActivateStart ==
    /\ call = Idle /\ target.mark.now = "Absent"
    /\ target' = [target EXCEPT !.mark = Change(@, "Empty")]
    /\ call' = [at |-> "ActivateGuard"]

(* The guard is written; the target and its parent are synced. *)
ActivateGuard ==
    /\ call.at = "ActivateGuard"
    /\ target' = [target EXCEPT !.mark = Sure("Guarded")]
    /\ GoTo("ActivateCopy")

ActivateCopy ==
    /\ call.at = "ActivateCopy"
    /\ \/ /\ target.files.now = "None"
          /\ target' = [target EXCEPT !.files = Change(@, "Some")]
          /\ GoTo("ActivateCopy")
       \/ /\ target' = [target EXCEPT !.files = Change(Change(@, "Some"), "All")]
          /\ GoTo("ActivateSync")

(* Mutant: the guard goes as soon as the files are there. *)
ActivateSyncSkipped ==
    /\ call.at = "ActivateSync"
    /\ UNCHANGED target
    /\ GoTo("ActivateUnlink")

(* The copy is compared with the inventory and the projection, and synced. *)
ActivateSync ==
    /\ call.at = "ActivateSync"
    /\ target' = [target EXCEPT !.files = Sync(@)]
    /\ GoTo("ActivateUnlink")

ActivateUnlink ==
    /\ call.at = "ActivateUnlink"
    /\ target' = [target EXCEPT !.mark = Change(@, "Open")]
    /\ GoTo("ActivateFinish")

ActivateFinish ==
    /\ call.at = "ActivateFinish"
    /\ target' = [target EXCEPT !.mark = Sync(@), !.told = TRUE]
    /\ call' = Idle

ActivateStep ==
    ActivateGuard \/ ActivateCopy \/ ActivateSync \/ ActivateUnlink \/ ActivateFinish

(* The running call fails or its process is killed: the disk stays as it is. *)
Stop ==
    /\ faults.stops < MaxStops
    /\ faults' = [faults EXCEPT !.stops = @ + 1]
    /\ call' = Idle

Loss ==
    /\ faults.losses < MaxLosses
    /\ faults' = [faults EXCEPT !.losses = @ + 1]
    /\ call' = Idle
    /\ \E m \in Survivors(target.mark), f \in Survivors(target.files) :
          target' = [target EXCEPT !.mark = m, !.files = f]

Interruptions == faults.stops + faults.losses

(* activate_upgrade and activate_schema_upgrade: before the guard is       *)
(* unlinked the target is absent, empty or guarded, and a target that      *)
(* opens has all its files, whatever fails and however the power fails.    *)
TargetNeverHalf ==
    /\ "Open" \in target.mark.may => IsSure(target.files, "All")
    /\ target.files # Sure("None") => target.mark.may \subseteq {"Guarded", "Open"}
    /\ target.told => IsSure(target.mark, "Open")

=============================================================================
