----------------------------- MODULE KeyedStore ------------------------------
(***************************************************************************)
(* Keyed transactions of the RocksDB storage over crashes and write errors,*)
(* lib/oxigraph/src/storage/rocksdb_wrapper.rs and rocksdb.rs.  The        *)
(* outcome of a key is a record of its own, written synchronously before   *)
(* and in the same batch as the effects.  A governed transaction keeps it  *)
(* in a second namespace and takes the next receipt sequence.              *)
(*                                                                         *)
(* RocksDB is external.  An unsynchronised write is visible at once and    *)
(* may be lost by a crash, a synchronised one makes all before it durable. *)
(* A write that reports an error has done nothing, or everything, or is    *)
(* only in the log of a database that takes no more writes, to appear or   *)
(* not when it is opened again.                                            *)
(***************************************************************************)
EXTENDS Naturals, Sequences, FiniteSets

CONSTANTS
    Keys,
    NoKey,      \* the key of an unkeyed transaction
    MaxPlain    \* bound: commits of unkeyed transactions

Namespaces == {"legacy", "governed"}

Values == {"Absent", "Staging", "CommitAttempted", "Committed", "RolledBack"}

ASSUME KeyAssumption == NoKey \notin Keys /\ MaxPlain \in Nat

VARIABLES
    states,     \* contents a crash may leave, durable first, visible last
    limbo,      \* the contents with a failed write that may appear, as a set
    tx,         \* the transaction that holds the writer permit
    told        \* history: key -> the definite answers callers got

vars == <<states, limbo, tx, told>>

(* The outcome records, how often the effects of a key, or of unkeyed      *)
(* transactions, were applied, and the governance sequence.                *)
Contents == [outcome : [Keys -> [Namespaces -> Values]],
             data : [Keys \cup {NoKey} -> Nat],
             sequence : Nat]

Visible == states[Len(states)]

Recorded(c, k) == {ns \in Namespaces : c.outcome[k][ns] # "Absent"}

(* What lookup_commit_receipt makes of the records of a key.               *)
Answer(c, k) ==
    IF \E ns \in Namespaces : c.outcome[k][ns] = "Committed" THEN "Committed"
    ELSE IF \E ns \in Namespaces : c.outcome[k][ns] = "RolledBack" THEN "RolledBack"
    ELSE "Indeterminate"

WithOutcome(c, k, ns, value) == [c EXCEPT !.outcome[k][ns] = value]

NoTransaction == [phase |-> "None", key |-> NoKey, namespace |-> "legacy"]

Init ==
    /\ states = <<[outcome |-> [k \in Keys |-> [ns \in Namespaces |-> "Absent"]],
                   data |-> [k \in Keys \cup {NoKey} |-> 0], sequence |-> 0]>>
    /\ limbo = {}
    /\ tx = NoTransaction
    /\ told = [k \in Keys |-> {}]

-----------------------------------------------------------------------------
Results == {"Ok", "NoEffect", "Applied", "Limbo"}

(* A synchronised write and its result.                                    *)
WriteSync(new, result) ==
    /\ limbo # {} => result = "NoEffect"
    /\ states' = IF result \in {"Ok", "Applied"} THEN <<new>> ELSE states
    /\ limbo' = IF result = "Limbo" THEN {new} ELSE limbo

(* A write with the default options: no error, or one without effect.      *)
WriteUnsynced(new, result) ==
    /\ result \in {"Ok", "NoEffect"}
    /\ limbo # {} => result = "NoEffect"
    /\ states' = IF result = "Ok" THEN Append(states, new) ELSE states
    /\ UNCHANGED limbo

Tell(k, answers) == told' = [told EXCEPT ![k] = @ \cup answers]

-----------------------------------------------------------------------------
StartPlain ==
    /\ tx.phase = "None"
    /\ tx' = [NoTransaction EXCEPT !.phase = "Open"]
    /\ UNCHANGED <<states, limbo, told>>

CommitPlain(result) ==
    /\ tx.phase = "Open"
    /\ Visible.data[NoKey] < MaxPlain
    /\ WriteUnsynced([Visible EXCEPT !.data[NoKey] = @ + 1], result)
    /\ tx' = NoTransaction
    /\ UNCHANGED told

DropPlain ==
    /\ tx.phase = "Open"
    /\ tx' = NoTransaction
    /\ UNCHANGED <<states, limbo, told>>

(* Mutant: only the namespace of the start is looked at. *)
FreeInNamespace(k, ns) == Visible.outcome[k][ns] = "Absent"

(* Neither namespace knows the key.                                        *)
Free(k, ns) == Recorded(Visible, k) = {}

(* The permit is taken, then the key is looked for and reserved.  When the *)
(* reservation fails there is no transaction, whatever became of it.       *)
StartKeyed(k, ns, result) ==
    /\ tx.phase = "None"
    /\ Free(k, ns)
    /\ WriteSync(WithOutcome(Visible, k, ns, "Staging"), result)
    /\ tx' = IF result = "Ok" THEN [phase |-> "Staging", key |-> k, namespace |-> ns]
             ELSE tx
    /\ UNCHANGED told

(* commit_keyed: from here on the transaction is not staging any more,     *)
(* whether the record is written or not.                                   *)
CommitAttempt(result) ==
    /\ tx.phase = "Staging"
    /\ WriteSync(WithOutcome(Visible, tx.key, tx.namespace, "CommitAttempted"), result)
    /\ tx' = IF result = "Ok" THEN [tx EXCEPT !.phase = "CommitAttempted"]
             ELSE NoTransaction
    /\ UNCHANGED told

(* The batch of effects, outcome and, when governed, the next sequence.    *)
FinalBatch(c) ==
    [WithOutcome(c, tx.key, tx.namespace, "Committed") EXCEPT
        !.data[tx.key] = @ + 1,
        !.sequence = IF tx.namespace = "governed" THEN @ + 1 ELSE @]

(* Mutant: the final batch is written with the default options. *)
CommitFinalUnsynced(result) ==
    /\ tx.phase = "CommitAttempted"
    /\ WriteUnsynced(FinalBatch(Visible), result)
    /\ tx' = NoTransaction
    /\ Tell(tx.key, IF result = "Ok" THEN {"Committed"} ELSE {})

(* Mutant: a transaction whose final batch failed is staging again. *)
CommitFinalBack(result) ==
    /\ tx.phase = "CommitAttempted"
    /\ WriteSync(FinalBatch(Visible), result)
    /\ tx' = IF result = "Ok" THEN NoTransaction ELSE [tx EXCEPT !.phase = "Staging"]
    /\ Tell(tx.key, IF result = "Ok" THEN {"Committed"} ELSE {})

CommitFinal(result) ==
    /\ tx.phase = "CommitAttempted"
    /\ WriteSync(FinalBatch(Visible), result)
    /\ tx' = NoTransaction
    /\ Tell(tx.key, IF result = "Ok" THEN {"Committed"} ELSE {})

(* rollback_keyed; when it fails the transaction is dropped while staging. *)
Rollback(result) ==
    /\ tx.phase = "Staging"
    /\ WriteSync(WithOutcome(Visible, tx.key, tx.namespace, "RolledBack"), result)
    /\ tx' = IF result = "Ok" THEN NoTransaction ELSE [tx EXCEPT !.phase = "Dropping"]
    /\ Tell(tx.key, IF result = "Ok" THEN {"RolledBack"} ELSE {})

(* The drop of a staging transaction, also of a rejected governed commit,  *)
(* records the rollback if it can, and frees the permit.                   *)
Drop(result) ==
    /\ tx.phase \in {"Staging", "Dropping"}
    /\ WriteSync(WithOutcome(Visible, tx.key, tx.namespace, "RolledBack"), result)
    /\ tx' = NoTransaction
    /\ UNCHANGED told

(* Anybody may look a key up at any time, without the permit.              *)
Lookup(k) ==
    /\ Tell(k, {Answer(Visible, k)} \ {"Indeterminate"})
    /\ UNCHANGED <<states, limbo, tx>>

(* The process dies, without running any drop, and opens the store again.  *)
Crash ==
    /\ \E c \in {states[i] : i \in 1..Len(states)} \cup limbo : states' = <<c>>
    /\ limbo' = {}
    /\ tx' = NoTransaction
    /\ UNCHANGED told

Next ==
    \/ StartPlain \/ DropPlain \/ Crash
    \/ \E result \in Results :
         \/ CommitPlain(result) \/ CommitAttempt(result) \/ CommitFinal(result)
         \/ Rollback(result) \/ Drop(result)
         \/ \E k \in Keys, ns \in Namespaces : StartKeyed(k, ns, result)
    \/ \E k \in Keys : Lookup(k)

Spec == Init /\ [][Next]_vars

-----------------------------------------------------------------------------
Phases == {"None", "Open", "Staging", "CommitAttempted", "Dropping"}

TypeOK ==
    /\ states \in Seq(Contents) /\ states # <<>>
    /\ limbo \subseteq Contents /\ Cardinality(limbo) <= 1
    /\ tx \in [phase : Phases, key : Keys \cup {NoKey}, namespace : Namespaces]
    /\ told \in [Keys -> SUBSET {"Committed", "RolledBack"}]

(* Every content that is visible, durable, or may appear after a crash.    *)
Possible == {states[i] : i \in 1..Len(states)} \cup limbo

(* A caller that was once told that its transaction committed or was       *)
(* rolled back, by commit, rollback or lookup, is told so for ever: no     *)
(* crash, write error or late drop of the transaction takes it back.       *)
DefiniteAnswersHold ==
    \A k \in Keys, answer \in {"Committed", "RolledBack"} :
        answer \in told[k] => \A c \in Possible : Answer(c, k) = answer

(* No key is ever recorded in both namespaces, which every lookup of it    *)
(* would report as corruption.                                             *)
OneNamespace == \A c \in Possible, k \in Keys : Cardinality(Recorded(c, k)) <= 1

(* The effects of a keyed transaction are in the store exactly once if its *)
(* record says committed, and not at all otherwise, after any crash; and   *)
(* as many receipt sequences were given as governed commits are in it,     *)
(* whatever attempts failed or crashed in between.  No key is recorded in  *)
(* both namespaces, also when a start is retried.                          *)
EffectsIffCommitted ==
    OneNamespace /\ \A c \in Possible :
        /\ \A k \in Keys :
             c.data[k] = IF Answer(c, k) = "Committed" THEN 1 ELSE 0
        /\ c.sequence = Cardinality({k \in Keys : c.outcome[k]["governed"] = "Committed"})

(* What the records of a key in c are to the ledger.                       *)
Status(c, k) ==
    CASE Recorded(c, k) = {} -> "Absent"
      [] Recorded(c, k) # {} /\ Answer(c, k) = "Indeterminate" -> "Staging"
      [] Recorded(c, k) # {} /\ Answer(c, k) # "Indeterminate" -> Answer(c, k)

Ledger == INSTANCE OutcomeLedger WITH
    LedgerKeys <- Keys, status <- [k \in Keys |-> Status(Visible, k)]

(* The visible outcomes are those of a ledger that decides each key once,  *)
(* crashes included.                                                       *)
LedgerHolds == Ledger!Spec
=============================================================================
