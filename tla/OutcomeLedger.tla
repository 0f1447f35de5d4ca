---------------------------- MODULE OutcomeLedger ----------------------------
(***************************************************************************)
(* What a store promises of caller-supplied transaction keys               *)
(* (OutcomeAwareTransactionalDataset in lib/oxigraph/src/store.rs): a key  *)
(* is reserved once, its transaction is decided at most once, and a        *)
(* decision is never taken back.  An undecided key looks up as             *)
(* indeterminate.                                                          *)
(***************************************************************************)
CONSTANT LedgerKeys

VARIABLE status

Init == status = [k \in LedgerKeys |-> "Absent"]

(* A start reserves a key nobody has used.                                 *)
Reserve(k) ==
    /\ status[k] = "Absent"
    /\ status' = [status EXCEPT ![k] = "Staging"]

(* A commit or a rollback decides the transaction of a reserved key.       *)
Decide(k, outcome) ==
    /\ status[k] = "Staging"
    /\ status' = [status EXCEPT ![k] = outcome]

Next ==
    \E k \in LedgerKeys :
        Reserve(k) \/ \E outcome \in {"Committed", "RolledBack"} : Decide(k, outcome)

Spec == Init /\ [][Next]_status
=============================================================================
