-------------------------- MODULE UpgradeRecovery ---------------------------
(***************************************************************************)
(* The restartable upgrade of a legacy store (upgrade_resume.rs,           *)
(* upgrade_transform.rs, ADR-0028): one attempt directory for the initial  *)
(* copy, one for every version edge and one for the final output, and a    *)
(* journal that records an attempt once it is synced.  An attempt that no  *)
(* record names is kept and never used.                                    *)
(*                                                                         *)
(* The source and its legacy backup are offline, unchanged and under the   *)
(* caller's control; every call verifies them and fails when they differ.  *)
(***************************************************************************)
EXTENDS Activation

CONSTANT Limits     \* the values of max_attempts that an operator may choose

ASSUME LimitsAssumption == Limits \subseteq Nat \ {0}

VARIABLES
    from,           \* the storage version of the source
    max_attempts,
    room,           \* whether the workspace is there
    attempts,       \* what each attempt directory holds
    journal         \* the recovery journal

recoveryVars == <<from, max_attempts, room, attempts, journal>>

Numbers == 0..(max_attempts - 1)

Content(kind, version) == [kind |-> kind, version |-> version]
Absent == Content("Absent", 0)
Partial == Content("Partial", 0)

(* `bound' is not in the file: whether the build that an outer workspace is *)
(* bound to wrote the record, or a call on the recovery alone.             *)
Record(kind, attempt, old, new, bound) ==
    [kind |-> kind, attempt |-> attempt, from |-> old, to |-> new, bound |-> bound]

RecoveryInit ==
    /\ from \in 0..1
    /\ max_attempts \in Limits
    /\ room = Sure(FALSE)
    /\ attempts = [a \in Numbers |-> Sure(Absent)]
    /\ journal = Sure(NoFile)

-----------------------------------------------------------------------------
(* What a call checks before it goes on. *)

(* scan_workspace: the attempt directories that are there. *)
Used == {a \in Numbers : attempts[a].now # Absent}

Completed(records) == records # <<>> /\ Last(records).kind = "Final"

(* validate_chain. *)
Chained(records) ==
    /\ Len(records) \in 1..max_attempts
    /\ records[1] = Record("Checkpoint", 0, from, from, records[1].bound)
    /\ \A i \in 2..Len(records) :
          LET last == records[i - 1] r == records[i] IN
          /\ r.attempt > last.attempt /\ r.attempt < max_attempts
          /\ \/ /\ r.kind = "Checkpoint" /\ last.kind = "Checkpoint"
                /\ r.from = last.to /\ r.to = last.to + 1 /\ r.to <= 2
             \/ r.kind = "Final" /\ i = Len(records) /\ last.to = 2

Holds(r) == IF r.kind = "Final" THEN Content("Output", 2) ELSE Content("Store", r.to)

(* Every record's attempt has exactly the files that the record names. *)
Intact(records) == \A i \in DOMAIN records : attempts[records[i].attempt].now = Holds(records[i])

(* verify_recovery_leased. *)
RecoveryVerifies ==
    /\ room.now /\ Decodes(journal.now)
    /\ Chained(journal.now.records) /\ Intact(journal.now.records)

-----------------------------------------------------------------------------
(* start_inner and resume_inner_at.  The next attempt makes the initial    *)
(* copy, a store of the next version, or the output.                       *)

Version(records) == IF records = <<>> THEN from ELSE Last(records).to + 1

Goal(records) ==
    IF records = <<>> \/ Last(records).to < 2
    THEN Content("Store", Version(records)) ELSE Content("Output", 2)

RecordOf(c) ==
    IF Goal(c.records).kind = "Output"
    THEN Record("Final", c.attempt, 2, 2, c.bound)
    ELSE Record("Checkpoint", c.attempt,
                IF c.records = <<>> THEN from ELSE Last(c.records).to,
                Version(c.records), c.bound)

(* Mutant: one past the next attempt. *)
next_attempt_off_by_one(n) ==
    (\A a \in Used : a + 1 < n) /\ (n # 0 => n - 2 \in Used)

(* The next attempt is one past the last of the directories that the scan  *)
(* found, and the ones that this call made itself.                         *)
next_attempt(n) == (\A a \in Used : a < n) /\ (n # 0 => n - 1 \in Used)

NewAttempt ==
    /\ call.at = "NewAttempt"
    /\ \E n \in 0..max_attempts :
          /\ next_attempt(n)
          /\ IF n >= max_attempts
             THEN call' = Idle /\ UNCHANGED <<room, attempts>>
             ELSE /\ room' = Change(room, TRUE)
                  /\ attempts' = [attempts EXCEPT ![n] = Change(@, Partial)]
                  /\ call' = [call EXCEPT !.at = "Fill", !.attempt = n]
    /\ UNCHANGED journal

(* The prior checkpoint is copied, transformed and compared with the       *)
(* projection of the source; an output is filled up to its pending record. *)
Fill ==
    /\ call.at = "Fill"
    /\ attempts' = [attempts EXCEPT ![call.attempt] =
          Change(@, IF Goal(call.records).kind = "Output"
                    THEN Content("Pending", 2) ELSE Goal(call.records))]
    /\ GoTo("SyncAttempt")
    /\ UNCHANGED <<room, journal>>

(* Syncing attempts/ also makes the entries of earlier attempts sure. *)
EntrySync(c) == [c EXCEPT !.may = {v \in @ : v = Absent <=> c.now = Absent}]

SyncAttempts ==
    [a \in Numbers |-> IF a = call.attempt THEN Sync(attempts[a]) ELSE EntrySync(attempts[a])]

(* Mutant: the attempt is recorded without syncing it first. *)
SyncAttemptSkipped ==
    /\ call.at = "SyncAttempt"
    /\ GoTo(IF Goal(call.records).kind = "Output" THEN "Publish" ELSE "Append")
    /\ UNCHANGED <<room, attempts, journal>>

SyncAttempt ==
    /\ call.at = "SyncAttempt"
    /\ attempts' = SyncAttempts
    /\ room' = Sync(room)
    /\ GoTo(IF Goal(call.records).kind = "Output" THEN "Publish" ELSE "Append")
    /\ UNCHANGED journal

(* The output is completed by a rename, and only then recorded. *)
Publish ==
    /\ call.at = "Publish"
    /\ attempts' = [attempts EXCEPT ![call.attempt] = Change(@, Content("Output", 2))]
    /\ GoTo("SyncOutput")
    /\ UNCHANGED <<room, journal>>

SyncOutput ==
    /\ call.at = "SyncOutput"
    /\ attempts' = SyncAttempts
    /\ GoTo("Append")
    /\ UNCHANGED <<room, journal>>

AppendRecord ==
    /\ call.at = "Append"
    /\ journal' = Write(journal, RecordOf(call))
    /\ GoTo("SyncRecord")
    /\ UNCHANGED <<room, attempts>>

(* Mutant: the last record is left unsynced. *)
SyncRecordSkipped ==
    /\ call.at = "SyncRecord"
    /\ LET records == Append(call.records, RecordOf(call)) IN
       IF Len(records) = 1 \/ Completed(records)
       THEN IF call.then = "Return" THEN call' = Idle ELSE GoTo(call.then)
       ELSE call' = [call EXCEPT !.at = "NewAttempt", !.records = records]
    /\ UNCHANGED <<room, attempts, journal>>

(* A start and a complete recovery return; a call that wraps this one goes *)
(* on with the step `then'.                                                *)
SyncRecord ==
    /\ call.at = "SyncRecord"
    /\ journal' = Sync(journal)
    /\ LET records == Append(call.records, RecordOf(call)) IN
       IF Len(records) = 1 \/ Completed(records)
       THEN IF call.then = "Return" THEN call' = Idle ELSE GoTo(call.then)
       ELSE call' = [call EXCEPT !.at = "NewAttempt", !.records = records]
    /\ UNCHANGED <<room, attempts>>

RecoveryStep ==
    \/ NewAttempt \/ Fill \/ SyncAttempt \/ Publish
    \/ SyncOutput \/ AppendRecord \/ SyncRecord

(* The frame of a record is cut off. *)
AppendCut ==
    /\ call.at = "Append"
    /\ journal' = WriteCut(journal)
    /\ Stop

(* Starting needs enough attempts for a recovery that is never cut off. *)
Needed == 4 - from

RunsRecovery(then, bound) ==
    call' = [at |-> "NewAttempt", records |-> journal.now.records, attempt |-> 0,
             then |-> then, bound |-> bound]

StartsRecovery(then, bound) == ~room.now /\ RunsRecovery(then, bound)

ResumesRecovery(then, bound) ==
    /\ RecoveryVerifies
    /\ IF Completed(journal.now.records)
       THEN call' = IF then = "Return" THEN Idle ELSE [at |-> then]
       ELSE RunsRecovery(then, bound)

(* A workspace that is lost takes everything in it along. *)
RecoveryLoss ==
    /\ room' \in Survivors(room)
    /\ IF room'.now
       THEN /\ LET unsure == {a \in Numbers : attempts[a] # Sync(attempts[a])}
                   left == UNION {Survivors(attempts[a]) : a \in unsure}
               IN  \E f \in [unsure -> left] :
                      /\ \A a \in unsure : f[a] \in Survivors(attempts[a])
                      /\ attempts' = [a \in Numbers |-> IF a \in unsure THEN f[a] ELSE attempts[a]]
            /\ journal' \in Survivors(journal)
       ELSE /\ attempts' = [a \in Numbers |-> Sure(Absent)]
            /\ journal' = Sure(NoFile)

-----------------------------------------------------------------------------
(* upgrade_resume.rs, ADR-0028: whatever records the journal turns out to  *)
(* have, they form a chain and the attempts that they name are complete    *)
(* and synced; in particular a complete output that was never recorded is  *)
(* not adopted, and no attempt number is used for two records.             *)
RecordedIsWhole ==
    \A f \in {g \in journal.may : Decodes(g)} :
       /\ Chained(f.records)
       /\ \A i \in DOMAIN f.records :
             IsSure(attempts[f.records[i].attempt], Holds(f.records[i]))

(* start_inner and next_attempt: an interruption costs at most one         *)
(* attempt, so that a recovery with as many spare attempts as              *)
(* interruptions is never refused for want of attempts.                    *)
AttemptsSuffice ==
    call.at = "NewAttempt" => \A a \in Used : a < Len(call.records) + Interruptions

=============================================================================
