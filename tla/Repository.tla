----------------------------- MODULE Repository -----------------------------
(***************************************************************************)
(* The lifecycle of one repository, cli/src/repository.rs, together with   *)
(* the work it admits.  A rejected call changes nothing and is a           *)
(* stuttering step, so an action's guard is the conjunction of the checks  *)
(* that the method makes.  Handles are kept by their holders for ever and  *)
(* may be presented at any time; a handle of another instance is always    *)
(* stale and is left out.  The work and the reading of the drain evidence  *)
(* are the caller's: it reads the evidence while it holds the handle of    *)
(* begin_quiesce and may present it much later.                            *)
(***************************************************************************)
EXTENDS Naturals, FiniteSets

CONSTANTS
    retention, max_generation,  \* RepositoryLimits
    MaxTime,                    \* the largest u64
    None,                       \* the absent value of an Option
    MaxWork                     \* bound: units of work of one kind in flight

Time == 0..MaxTime

OpenModes == {"ReadWrite", "ReadOnly"}

ASSUME RepositoryAssumption ==
    /\ retention \in Nat \ {0}
    /\ max_generation \in Nat \ {0}
    /\ MaxTime \in Nat
    /\ MaxWork \in Nat
    /\ None \notin Nat /\ None \notin OpenModes

VARIABLES
    state, generation, last_seen, pending_open, tombstone_deadline, retired,
    recovery_reference, purge_reference,
    spent,      \* history: handles a completion accepted
    handles,    \* TransitionHandles issued, with the state they were issued in
    work,       \* units of work admitted and not finished, by kind
    evidence    \* the drain confirmation the caller read last

vars == <<state, generation, last_seen, pending_open, tombstone_deadline,
          retired, recovery_reference, purge_reference, handles, spent, work,
          evidence>>

States ==
    {"Provisioning", "Closed", "Opening", "ReadyReadWrite", "ReadyReadOnly",
     "Quiescing", "Tombstoned", "Deleting", "Failed"}

(* The states that a TransitionHandle completes.                           *)
Transitional == {"Provisioning", "Opening", "Quiescing", "Deleting"}

WorkKinds == {"Read", "Write"}

Handles == [generation : Nat, began : Transitional]

(* DrainConfirmation: what the caller saw of the work, `unread` before it  *)
(* looked.                                                                 *)
Evidence == {"Unread", "InFlight", "Drained"}

Init ==
    /\ state = "Provisioning"
    /\ generation = 1
    /\ last_seen \in Time
    /\ pending_open = None
    /\ tombstone_deadline = None
    /\ retired = FALSE
    /\ recovery_reference = FALSE
    /\ purge_reference = FALSE
    /\ handles = {[generation |-> 1, began |-> "Provisioning"]}
    /\ spent = {}
    /\ work = [kind \in WorkKinds |-> 0]
    /\ evidence = "Unread"

gate_time(at) == at >= last_seen

gate_live == ~retired

gate_cas(expected, at) ==
    gate_time(at) /\ expected = generation /\ gate_live

(* Mutant: a handle of an earlier generation passes. *)
GateAnyHandle(h, at) == gate_time(at) /\ gate_live

gate_handle(h, at) ==
    gate_time(at) /\ h.generation = generation /\ gate_live

next_generation == generation + 1 <= max_generation

(* `commit` with the fields its caller sets afterwards.                    *)
commit(at, to, mode, deadline) ==
    /\ next_generation
    /\ generation' = generation + 1
    /\ last_seen' = at
    /\ state' = to
    /\ pending_open' = mode
    /\ tombstone_deadline' = deadline

(* `issue` hands out a handle of the generation just committed.            *)
issue(to) ==
    /\ handles' = handles \cup {[generation |-> generation + 1, began |-> to]}
    /\ UNCHANGED spent

(* A completion borrows its handle: the holder keeps it.                   *)
accept(h) == spent' = spent \cup {h} /\ UNCHANGED handles

NoReference == UNCHANGED <<recovery_reference, purge_reference, retired>>

complete_provisioning(h, passed, at) ==
    /\ gate_handle(h, at)
    /\ state = "Provisioning"
    /\ commit(at, IF passed THEN "Closed" ELSE "Failed", None, None)
    /\ accept(h)
    /\ NoReference
    /\ UNCHANGED <<work, evidence>>

begin_open(expected, mode, at) ==
    /\ gate_cas(expected, at)
    /\ state = "Closed"
    /\ commit(at, "Opening", mode, None)
    /\ issue("Opening")
    /\ NoReference
    /\ UNCHANGED <<work, evidence>>

complete_open(h, passed, at) ==
    /\ gate_handle(h, at)
    /\ state = "Opening"
    /\ pending_open # None
    /\ commit(at,
              CASE ~passed -> "Failed"
                [] passed /\ pending_open = "ReadWrite" -> "ReadyReadWrite"
                [] passed /\ pending_open = "ReadOnly" -> "ReadyReadOnly",
              None, None)
    /\ accept(h)
    /\ NoReference
    /\ UNCHANGED <<work, evidence>>

begin_quiesce(expected, at) ==
    /\ gate_cas(expected, at)
    /\ state \in {"Closed", "ReadyReadWrite", "ReadyReadOnly"}
    /\ commit(at, "Quiescing", None, None)
    /\ issue("Quiescing")
    /\ evidence' = "Unread"
    /\ NoReference
    /\ UNCHANGED work

complete_quiesce(h, target, at) ==
    /\ gate_handle(h, at)
    /\ state = "Quiescing"
    /\ evidence = "Drained"
    /\ \/ target = "Close" /\ commit(at, "Closed", None, None)
       \/ /\ target = "Tombstone"
          /\ at + retention <= MaxTime
          /\ commit(at, "Tombstoned", None, at + retention)
    /\ accept(h)
    /\ NoReference
    /\ UNCHANGED <<work, evidence>>

restore(expected, at) ==
    /\ gate_cas(expected, at)
    /\ state = "Tombstoned"
    /\ tombstone_deadline # None
    /\ at < tombstone_deadline
    /\ commit(at, "Closed", None, None)
    /\ recovery_reference' = TRUE
    /\ UNCHANGED <<purge_reference, retired, handles, spent, work,
                   evidence>>

(* Mutant: a purge does not wait for the end of the retention. *)
BeginPurgeEarly(expected, at) ==
    /\ gate_cas(expected, at)
    /\ state \in {"Failed", "Tombstoned"}
    /\ commit(at, "Deleting", None, None)
    /\ issue("Deleting")
    /\ purge_reference' = TRUE
    /\ UNCHANGED <<recovery_reference, retired, work, evidence>>

begin_purge(expected, at) ==
    /\ gate_cas(expected, at)
    /\ \/ state = "Failed"
       \/ /\ state = "Tombstoned"
          /\ tombstone_deadline # None
          /\ at >= tombstone_deadline
    /\ commit(at, "Deleting", None, None)
    /\ issue("Deleting")
    /\ purge_reference' = TRUE
    /\ UNCHANGED <<recovery_reference, retired, work, evidence>>

complete_purge(h, deleted, at) ==
    /\ gate_handle(h, at)
    /\ state = "Deleting"
    /\ \/ /\ deleted
          /\ commit(at, "Deleting", None, None)
          /\ retired' = TRUE
       \/ /\ ~deleted
          /\ commit(at, "Failed", None, None)
          /\ UNCHANGED retired
    /\ accept(h)
    /\ UNCHANGED <<recovery_reference, purge_reference, work, evidence>>

(* Mutant: work is still admitted while the repository quiesces. *)
AdmitWhileQuiescing(at, kind) ==
    /\ gate_time(at)
    /\ gate_live
    /\ work[kind] < MaxWork
    /\ \/ state \in {"ReadyReadWrite", "Quiescing"}
       \/ state = "ReadyReadOnly" /\ kind = "Read"
    /\ last_seen' = at
    /\ work' = [work EXCEPT ![kind] = @ + 1]
    /\ NoReference
    /\ UNCHANGED <<state, generation, pending_open, tombstone_deadline, handles,
                   spent, evidence>>

admit(at, kind) ==
    /\ gate_time(at)
    /\ gate_live
    /\ work[kind] < MaxWork
    /\ \/ state = "ReadyReadWrite"
       \/ state = "ReadyReadOnly" /\ kind = "Read"
    /\ last_seen' = at
    /\ work' = [work EXCEPT ![kind] = @ + 1]
    /\ NoReference
    /\ UNCHANGED <<state, generation, pending_open, tombstone_deadline, handles,
                   spent, evidence>>

(* The caller's side: work finishes, and the holder of a quiesce handle    *)
(* looks whether all of it has.                                            *)
FinishWork(kind) ==
    /\ work[kind] > 0
    /\ work' = [work EXCEPT ![kind] = @ - 1]
    /\ NoReference
    /\ UNCHANGED <<state, generation, last_seen, pending_open,
                   tombstone_deadline, handles, spent, evidence>>

ReadDrain ==
    /\ state = "Quiescing"
    /\ evidence' = IF \A kind \in WorkKinds : work[kind] = 0
                   THEN "Drained" ELSE "InFlight"
    /\ NoReference
    /\ UNCHANGED <<state, generation, last_seen, pending_open,
                   tombstone_deadline, handles, spent, work>>

Next ==
    \/ \E at \in Time :
         \/ \E h \in handles, ok \in BOOLEAN :
              \/ complete_provisioning(h, ok, at)
              \/ complete_open(h, ok, at)
              \/ complete_purge(h, ok, at)
         \/ \E h \in handles, target \in {"Close", "Tombstone"} :
              complete_quiesce(h, target, at)
         \/ \E expected \in 1..generation :
              \/ \E mode \in OpenModes : begin_open(expected, mode, at)
              \/ begin_quiesce(expected, at)
              \/ restore(expected, at)
              \/ begin_purge(expected, at)
         \/ \E kind \in WorkKinds : admit(at, kind)
    \/ \E kind \in WorkKinds : FinishWork(kind)
    \/ ReadDrain

Spec == Init /\ [][Next]_vars

-----------------------------------------------------------------------------
TypeOK ==
    /\ state \in States
    /\ generation \in 1..max_generation
    /\ last_seen \in Time
    /\ pending_open \in OpenModes \cup {None}
    /\ tombstone_deadline \in Time \cup {None}
    /\ retired \in BOOLEAN
    /\ recovery_reference \in BOOLEAN
    /\ purge_reference \in BOOLEAN
    /\ handles \subseteq Handles
    /\ spent \subseteq handles
    /\ work \in [WorkKinds -> 0..MaxWork]
    /\ evidence \in Evidence

(* Every transition is completed by the handle its begin issued and by no  *)
(* other: the handles still unspent are the one of the transition in       *)
(* progress, none in a settled or retired repository.  A replayed handle   *)
(* of an earlier transition of the same kind completes nothing.            *)
OwnHandleCompletes ==
    handles \ spent
      = IF state \in Transitional /\ ~retired
        THEN {[generation |-> generation, began |-> state]} ELSE {}

(* Work runs only in a repository that is ready or draining: once it is    *)
(* closed, tombstoned or deleting nothing it admitted is still in flight,  *)
(* although the drain evidence may be old when complete_quiesce gets it.   *)
WorkOnlyInService ==
    (\E kind \in WorkKinds : work[kind] > 0)
      => state \in {"ReadyReadWrite", "ReadyReadOnly", "Quiescing"}

(* The state-tied fields follow the state, through every commit.           *)
FieldsFollowState ==
    /\ (pending_open # None) <=> (state = "Opening")
    /\ (tombstone_deadline # None) <=> (state = "Tombstoned")
    /\ state = "Deleting" => purge_reference
    /\ retired => state = "Deleting"

(* A tombstone is either restorable or purgeable, never both, and it stays *)
(* restorable for the whole retention: it is left for Deleting only        *)
(* `retention` units after it was made.  Its deadline never moves.         *)
RetentionIsHonoured ==
    [][/\ state = "Tombstoned" =>
            \/ UNCHANGED <<state, tombstone_deadline>>
            \/ state' = "Closed" /\ last_seen' < tombstone_deadline
            \/ state' = "Deleting" /\ last_seen' >= tombstone_deadline
       /\ state # "Tombstoned" /\ state' = "Tombstoned" =>
            tombstone_deadline' = last_seen' + retention]_vars
=============================================================================
