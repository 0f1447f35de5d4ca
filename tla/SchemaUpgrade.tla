--------------------------- MODULE SchemaUpgrade ----------------------------
(***************************************************************************)
(* The upgrade of an ordinary version-2 store to an explicit schema        *)
(* envelope (store/schema_upgrade.rs, storage/rocksdb/schema_upgrade.rs):  *)
(* a plan, a journal of INTENT, FAILED, VALIDATED and SEALED records, an   *)
(* attempt per INTENT, and a receipt that is renamed last.                 *)
(*                                                                         *)
(* Calls fail and processes end at any step.  Power losses are left out:   *)
(* the code does not sync the native files of an attempt, and ADR-0028     *)
(* claims nothing about them.                                              *)
(***************************************************************************)
EXTENDS Activation, FiniteSets

CONSTANT SchemaLimits   \* the values of max_attempts that an operator may choose

ASSUME SchemaLimitsAssumption == SchemaLimits \subseteq Nat \ {0}

VARIABLE schema     \* the workspace: whether it is planned, and its journal,
                    \* attempts and receipt; and the operator's max_attempts

Tries == 0..(schema.max_attempts - 1)

SchemaInit ==
    schema \in {[planned |-> "Absent", journal |-> NoFile,
                 attempts |-> [a \in 0..(m - 1) |-> "Absent"],
                 receipt |-> "Absent", max_attempts |-> m] : m \in SchemaLimits}

Entry(kind, attempt) == [kind |-> kind, attempt |-> attempt]

(* The INTENT records among the first n. *)
IntentsIn(records, n) == Cardinality({i \in 1..n : records[i].kind = "Intent"})
Intents(records) == IntentsIn(records, Len(records))

LastKind(records) == IF records = <<>> THEN "None" ELSE Last(records).kind

(* decode_records: what may follow what, and the number of an INTENT. *)
InOrder(records) ==
    \A i \in DOMAIN records :
       LET r == records[i] last == records[i - 1] IN
       IF r.kind = "Intent"
       THEN /\ i > 1 => last.kind = "Failed"
            /\ r.attempt = IntentsIn(records, i - 1) /\ r.attempt \in Tries
       ELSE /\ i > 1 /\ last.attempt = r.attempt
            /\ last.kind = IF r.kind = "Sealed" THEN "Validated" ELSE "Intent"

Records == schema.journal.records

(* verify_workspace with scan_workspace and verify_output. *)
SchemaVerifies ==
    /\ schema.planned = "Planned" /\ Decodes(schema.journal) /\ InOrder(Records)
    /\ schema.receipt # "Absent" => LastKind(Records) = "Sealed"
    /\ \A a \in Tries : schema.attempts[a] # "Absent" =>
          \E i \in DOMAIN Records : Records[i] = Entry("Intent", a)
    /\ \A i \in DOMAIN Records :
          Records[i].kind = "Validated" => schema.attempts[Records[i].attempt] = "Marked"

(* What activate_inner and verify check on top. *)
SchemaSealed ==
    SchemaVerifies /\ LastKind(Records) = "Sealed" /\ schema.receipt = "Complete"

-----------------------------------------------------------------------------
(* start_inner. *)

start_schema_upgrade ==
    /\ call = Idle /\ schema.planned = "Absent"
    /\ schema' = [schema EXCEPT !.planned = "Empty"]
    /\ call' = [at |-> "Plan"]

WritePlan ==
    /\ call.at = "Plan"
    /\ schema' = [schema EXCEPT !.planned = "Planned", !.journal = File(<<>>)]
    /\ call' = Idle

-----------------------------------------------------------------------------
(* resume_inner.  With a complete receipt it only verifies. *)

resume_schema_upgrade ==
    /\ call = Idle /\ SchemaVerifies /\ schema.receipt # "Complete"
    /\ CASE LastKind(Records) \in {"None", "Failed"} ->
              Intents(Records) \in Tries /\ call' = [at |-> "Intent"]
         [] LastKind(Records) = "Intent" ->
              Intents(Records) \in Tries /\ call' = [at |-> "Failed"]
         [] LastKind(Records) = "Validated" -> call' = [at |-> "Sealed"]
         [] OTHER -> call' = [at |-> "Receipt"]     \* SEALED
    /\ UNCHANGED schema

Attempt == IF call.at = "Intent" THEN Intents(Records) ELSE Last(Records).attempt

(* Each append is synced before the next step. *)
AppendEntry ==
    /\ call.at \in {"Failed", "Intent", "Validated", "Sealed"}
    /\ schema' = [schema EXCEPT !.journal = File(Append(@.records, Entry(call.at, Attempt)))]
    /\ GoTo(CASE call.at = "Failed" -> "Intent" [] call.at = "Intent" -> "Guard"
              [] call.at = "Validated" -> "Sealed" [] call.at = "Sealed" -> "Receipt")

MakeAttempt ==
    /\ call.at = "Guard"
    /\ schema' = [schema EXCEPT !.attempts[Attempt] = "Partial"]
    /\ GoTo("Mark")

(* The package is copied and compared, the envelope written, and the       *)
(* result compared with the source.                                        *)
MarkAttempt ==
    /\ call.at = "Mark"
    /\ schema' = [schema EXCEPT !.attempts[Attempt] = "Marked"]
    /\ GoTo("Validated")

(* A pending receipt of an earlier call is reused when it is the same. *)
PendReceipt ==
    /\ call.at = "Receipt"
    /\ IF schema.receipt = "Torn"
       THEN UNCHANGED schema /\ call' = Idle
       ELSE schema' = [schema EXCEPT !.receipt = "Pending"] /\ GoTo("Rename")

PublishReceipt ==
    /\ call.at = "Rename"
    /\ schema' = [schema EXCEPT !.receipt = "Complete"]
    /\ call' = Idle

SchemaStep ==
    \/ WritePlan \/ AppendEntry \/ MakeAttempt \/ MarkAttempt
    \/ PendReceipt \/ PublishReceipt

-----------------------------------------------------------------------------
(* A cut-off append leaves a torn frame, and a cut-off pending receipt is  *)
(* not the one that a later call would write.                              *)
SchemaStops ==
    /\ Stop
    /\ \/ call # Idle /\ UNCHANGED schema
       \/ /\ call.at \in {"Failed", "Intent", "Validated", "Sealed"}
          /\ schema' = [schema EXCEPT !.journal = Torn(@)]
       \/ /\ call.at = "Receipt" /\ schema.receipt = "Absent"
          /\ schema' = [schema EXCEPT !.receipt = "Torn"]
    /\ UNCHANGED target

SchemaNext ==
    \/ /\ start_schema_upgrade \/ resume_schema_upgrade \/ SchemaStep
       /\ UNCHANGED <<target, faults>>
    \/ /\ ActivateStep \/ (SchemaSealed /\ ActivateStart)
       /\ UNCHANGED <<schema, faults>>
    \/ SchemaStops

-----------------------------------------------------------------------------
(* decode_records and resume_inner: a record is VALIDATED only over an     *)
(* attempt that is whole, no attempt is resumed once a call on it ended,   *)
(* and an interruption costs at most one attempt.                          *)
SchemaRecordedIsWhole ==
    /\ InOrder(Records)
    /\ \A i \in DOMAIN Records :
          Records[i].kind = "Validated" => schema.attempts[Records[i].attempt] = "Marked"
    /\ Intents(Records) <= Interruptions + 1

(* schema_upgrade.rs: a complete receipt verifies, whatever interrupted    *)
(* the calls before it.                                                    *)
SchemaSealedStands == schema.receipt = "Complete" => SchemaSealed

=============================================================================
