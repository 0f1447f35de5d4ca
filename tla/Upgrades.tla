------------------------------ MODULE Upgrades ------------------------------
(***************************************************************************)
(* The two upgrades of the store, each of a source of its own: a store of  *)
(* version 0 or 1, or one of version 2 without a schema envelope.  Both    *)
(* end with the same activation.                                           *)
(***************************************************************************)
EXTENDS UpgradeReceipt, SchemaUpgrade

VARIABLE subject    \* which of the two is being upgraded

vars == <<subject, upgradeVars, schema>>

Init ==
    /\ subject \in {"Legacy", "Schema"}
    /\ ActivationInit /\ UpgradeInit /\ SchemaInit
    /\ IF subject = "Legacy"
       THEN schema.max_attempts = CHOOSE m \in SchemaLimits : TRUE
       ELSE from = 0 /\ max_attempts = CHOOSE m \in Limits : TRUE

Next ==
    /\ \/ subject = "Legacy" /\ UpgradeNext /\ UNCHANGED schema
       \/ subject = "Schema" /\ SchemaNext /\ UNCHANGED <<recoveryVars, receiptVars>>
    /\ UNCHANGED subject

Spec == Init /\ [][Next]_vars

(* UpgradeSealedStands and SchemaSealedStands of the two parts. *)
SealedStands == UpgradeSealedStands /\ SchemaSealedStands

(* RecordedIsWhole and SchemaRecordedIsWhole of the two parts. *)
RecordsAreWhole == RecordedIsWhole /\ SchemaRecordedIsWhole

=============================================================================
