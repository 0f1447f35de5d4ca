-------------------------- MODULE RepositoryProofs --------------------------
(***************************************************************************)
(* Proofs about the repository lifecycle, for every retention, clock,      *)
(* number of generations and amount of work.                               *)
(***************************************************************************)
EXTENDS Repository, TLAPS

(* No unit of work is in flight.                                           *)
Idle == \A kind \in WorkKinds : work[kind] = 0

(* The inductive invariant.  The three invariants the runs check need two  *)
(* more facts: a drain confirmation read while quiescing stays true,       *)
(* because nothing is admitted any more, and a spent handle belongs to an  *)
(* earlier generation, so that only an unspent one passes gate_handle.     *)
RepositoryInv ==
    /\ TypeOK
    /\ OwnHandleCompletes
    /\ WorkOnlyInService
    /\ FieldsFollowState
    /\ state = "Quiescing" /\ evidence = "Drained" => Idle
    /\ \A h \in handles : h.generation <= generation
    /\ \A h \in spent : h.generation < generation

USE DEF Time, WorkKinds, OpenModes

(* A newly provisioned repository satisfies the invariant.                 *)
LEMMA InitInv == Init => RepositoryInv
<1> SUFFICES ASSUME Init PROVE RepositoryInv
  OBVIOUS
<1> USE RepositoryAssumption DEF Init
<1>1. TypeOK
  <2>1. [generation |-> 1, began |-> "Provisioning"] \in Handles
    BY DEF Handles, Transitional
  <2>2. work \in [WorkKinds -> 0..MaxWork]
    OBVIOUS
  <2>3. handles \subseteq Handles /\ spent \subseteq handles
    BY <2>1
  <2>4. /\ state \in States /\ generation \in 1..max_generation
        /\ evidence \in Evidence
    BY DEF States, Evidence
  <2>5. retired \in BOOLEAN /\ recovery_reference \in BOOLEAN
    BY Zenon
  <2>6. purge_reference \in BOOLEAN
    BY Zenon
  <2>7. /\ last_seen \in Time /\ pending_open \in OpenModes \cup {None}
        /\ tombstone_deadline \in Time \cup {None}
    OBVIOUS
  <2> QED BY <2>2, <2>3, <2>4, <2>5, <2>6, <2>7, Zenon DEF TypeOK
<1>2. OwnHandleCompletes
  BY DEF OwnHandleCompletes, Transitional
<1>3. WorkOnlyInService /\ FieldsFollowState
  BY DEF WorkOnlyInService, FieldsFollowState
<1>4. /\ \A h \in handles : h.generation <= generation
      /\ \A h \in spent : h.generation < generation
  OBVIOUS
<1> QED BY <1>1, <1>2, <1>3, <1>4 DEF RepositoryInv

(* The handle that gate_handle lets pass is the one of the transition in   *)
(* progress.                                                               *)
LEMMA PassingHandle ==
    ASSUME RepositoryInv, NEW h \in handles, NEW at, gate_handle(h, at)
    PROVE  /\ h = [generation |-> generation, began |-> state]
           /\ handles \ spent = {h}
           /\ state \in Transitional /\ ~retired
<1>1. h \in handles \ spent
  BY DEF RepositoryInv, TypeOK, gate_handle, Handles
<1> QED
  BY <1>1 DEF RepositoryInv, OwnHandleCompletes

(* A transition whose handle is accepted leaves no unspent handle, and one *)
(* that issues a handle leaves exactly that.                               *)
LEMMA HandlesFollow ==
    ASSUME RepositoryInv, generation' = generation + 1
    PROVE  /\ \A h \in handles :
                 handles \ spent = {h} /\ h.generation = generation /\ accept(h)
                 => /\ handles' \ spent' = {} /\ spent' \subseteq handles'
                    /\ handles' \subseteq Handles
                    /\ \A g \in handles' : g.generation <= generation'
                    /\ \A g \in spent' : g.generation < generation'
           /\ \A to \in Transitional :
                 handles \ spent = {} /\ issue(to)
                 => /\ handles' \ spent'
                         = {[generation |-> generation', began |-> to]}
                    /\ spent' \subseteq handles' /\ handles' \subseteq Handles
                    /\ \A g \in handles' : g.generation <= generation'
                    /\ \A g \in spent' : g.generation < generation'
<1>0. /\ generation \in Nat /\ handles \subseteq Handles /\ spent \subseteq handles
      /\ \A g \in handles : g.generation \in Nat /\ g.generation <= generation
      /\ \A g \in spent : g.generation < generation
  BY RepositoryAssumption DEF RepositoryInv, TypeOK, Handles
<1>1. ASSUME NEW h \in handles, handles \ spent = {h}, h.generation = generation,
             accept(h)
      PROVE  /\ handles' \ spent' = {} /\ spent' \subseteq handles'
             /\ handles' \subseteq Handles
             /\ \A g \in handles' : g.generation <= generation'
             /\ \A g \in spent' : g.generation < generation'
  BY <1>0, <1>1 DEF accept
<1>2. ASSUME NEW to \in Transitional, handles \ spent = {}, issue(to)
      PROVE  /\ handles' \ spent'
                  = {[generation |-> generation', began |-> to]}
             /\ spent' \subseteq handles' /\ handles' \subseteq Handles
             /\ \A g \in handles' : g.generation <= generation'
             /\ \A g \in spent' : g.generation < generation'
  <2> DEFINE n == [generation |-> generation + 1, began |-> to]
  <2>1. n \in Handles /\ n.generation = generation + 1
    BY <1>0 DEF Handles
  <2>2. handles' = handles \cup {n} /\ spent' = spent
    BY <1>2 DEF issue
  <2>3. n \notin spent
    BY <1>0, <2>1
  <2> HIDE DEF n
  <2>4. handles' \ spent' = {n}
    BY <1>2, <2>2, <2>3
  <2> QED BY <1>0, <2>1, <2>2, <2>4 DEF n
<1> QED BY <1>1, <1>2

(* Every call and every step of the caller keeps the invariant.            *)
LEMMA NextInv == RepositoryInv /\ [Next]_vars => RepositoryInv'
<1> SUFFICES ASSUME RepositoryInv, [Next]_vars PROVE RepositoryInv'
  OBVIOUS
<1> USE RepositoryAssumption
<1>0. /\ TypeOK /\ OwnHandleCompletes /\ WorkOnlyInService /\ FieldsFollowState
      /\ generation \in Nat
  BY DEF RepositoryInv, TypeOK
<1>1. CASE UNCHANGED vars
  BY <1>1 DEF vars, RepositoryInv, TypeOK, OwnHandleCompletes, WorkOnlyInService,
              FieldsFollowState, Idle
<1>2. ASSUME NEW at \in Time, NEW h \in handles, NEW ok \in BOOLEAN,
             \/ complete_provisioning(h, ok, at)
             \/ complete_open(h, ok, at)
             \/ complete_purge(h, ok, at)
      PROVE  RepositoryInv'
  <2>1. gate_handle(h, at) /\ accept(h) /\ generation' = generation + 1
    BY <1>2 DEF complete_provisioning, complete_open, complete_purge, commit
  <2>2. /\ handles' \ spent' = {} /\ spent' \subseteq handles'
        /\ handles' \subseteq Handles
        /\ \A g \in handles' : g.generation <= generation'
        /\ \A g \in spent' : g.generation < generation'
    BY <2>1, PassingHandle, HandlesFollow DEF gate_handle
  <2> USE DEF commit, next_generation, NoReference
  <2>3. /\ generation' \in 1..max_generation /\ last_seen' = at
        /\ state' \in States /\ pending_open' = None /\ tombstone_deadline' = None
        /\ UNCHANGED <<recovery_reference, purge_reference, work, evidence>>
        /\ retired' \in BOOLEAN
        /\ state \notin {"ReadyReadWrite", "ReadyReadOnly", "Quiescing"}
        /\ state' \notin {"Opening", "Tombstoned"}
        /\ state' = "Deleting" => purge_reference
        /\ retired' => state' = "Deleting"
    <3> USE <1>0 DEF TypeOK, FieldsFollowState, States
    <3>1. CASE complete_provisioning(h, ok, at)
      BY <3>1 DEF complete_provisioning
    <3>2. CASE complete_open(h, ok, at)
      <4>1. pending_open \in OpenModes
        BY <3>2 DEF complete_open
      <4> QED BY <3>2, <4>1 DEF complete_open
    <3>3. CASE complete_purge(h, ok, at)
      <4>1. retired = FALSE
        BY <2>1 DEF gate_handle, gate_live
      <4>2. CASE ok
        BY <3>3, <4>2 DEF complete_purge
      <4>3. CASE ~ok
        BY <3>3, <4>1, <4>3 DEF complete_purge
      <4> QED BY <4>2, <4>3
    <3> QED BY <1>2, <3>1, <3>2, <3>3
  <2>4. TypeOK' /\ WorkOnlyInService' /\ FieldsFollowState'
    BY <1>0, <2>2, <2>3 DEF TypeOK, WorkOnlyInService, FieldsFollowState
  <2>5. (state' \in Transitional /\ ~retired') = FALSE /\ state' # "Quiescing"
    BY <1>0, <1>2
    DEF complete_provisioning, complete_open, complete_purge, commit, NoReference,
        TypeOK, Transitional
  <2> QED
    BY <2>2, <2>4, <2>5 DEF RepositoryInv, OwnHandleCompletes
<1>3. ASSUME NEW at \in Time, NEW h \in handles,
             NEW target \in {"Close", "Tombstone"}, complete_quiesce(h, target, at)
      PROVE  RepositoryInv'
  <2>1. gate_handle(h, at) /\ accept(h) /\ generation' = generation + 1
    BY <1>3 DEF complete_quiesce, commit
  <2>2. /\ handles' \ spent' = {} /\ spent' \subseteq handles'
        /\ handles' \subseteq Handles
        /\ \A g \in handles' : g.generation <= generation'
        /\ \A g \in spent' : g.generation < generation'
    BY <2>1, PassingHandle, HandlesFollow DEF gate_handle
  <2>3. TypeOK'
    BY <1>0, <1>3, <2>2
    DEF complete_quiesce, commit, next_generation, NoReference, TypeOK, States
  <2>4. Idle /\ work' = work
    BY <1>3 DEF complete_quiesce, RepositoryInv
  <2>5. WorkOnlyInService' /\ FieldsFollowState'
    BY <1>0, <1>3, <2>4
    DEF complete_quiesce, commit, NoReference, TypeOK, WorkOnlyInService,
        FieldsFollowState, Idle
  <2>6. state' \notin Transitional /\ state' # "Quiescing"
    BY <1>3 DEF complete_quiesce, commit, Transitional
  <2> QED
    BY <2>2, <2>3, <2>5, <2>6 DEF RepositoryInv, OwnHandleCompletes
<1>4. ASSUME NEW at \in Time, NEW expected \in 1..generation, NEW mode \in OpenModes,
             \/ begin_open(expected, mode, at)
             \/ begin_quiesce(expected, at)
             \/ begin_purge(expected, at)
      PROVE  RepositoryInv'
  <2>1. /\ issue(state') /\ generation' = generation + 1
        /\ state' \in Transitional /\ retired' = FALSE /\ work' = work
    BY <1>0, <1>4
    DEF begin_open, begin_quiesce, begin_purge, commit, Transitional, NoReference,
        gate_cas, gate_live, TypeOK
  <2>2. state \notin Transitional
    BY <1>4 DEF begin_open, begin_quiesce, begin_purge, Transitional
  <2>3. handles \ spent = {}
    BY <1>0, <2>2 DEF OwnHandleCompletes
  <2>4. /\ handles' \ spent' = {[generation |-> generation', began |-> state']}
        /\ spent' \subseteq handles' /\ handles' \subseteq Handles
        /\ \A g \in handles' : g.generation <= generation'
        /\ \A g \in spent' : g.generation < generation'
    BY <2>1, <2>3, HandlesFollow
  <2>5. TypeOK'
    <3> USE <1>0, <2>4 DEF commit, next_generation, NoReference, TypeOK, States,
                           Evidence
    <3>1. CASE begin_open(expected, mode, at)
      BY <3>1 DEF begin_open
    <3>2. CASE begin_quiesce(expected, at)
      BY <3>2 DEF begin_quiesce
    <3>3. CASE begin_purge(expected, at)
      BY <3>3 DEF begin_purge
    <3> QED BY <1>4, <3>1, <3>2, <3>3
  <2>6. WorkOnlyInService' /\ FieldsFollowState'
    BY <1>0, <1>4
    DEF begin_open, begin_quiesce, begin_purge, commit, NoReference, TypeOK,
        WorkOnlyInService, FieldsFollowState, gate_cas, gate_live
  <2>7. state' = "Quiescing" => evidence' # "Drained"
    BY <1>4 DEF begin_open, begin_quiesce, begin_purge, commit
  <2> QED
    BY <2>1, <2>4, <2>5, <2>6, <2>7 DEF RepositoryInv, OwnHandleCompletes
<1>5. ASSUME NEW at \in Time, NEW expected \in 1..generation, restore(expected, at)
      PROVE  RepositoryInv'
  <2>1. /\ handles' = handles /\ spent' = spent /\ generation' = generation + 1
        /\ state = "Tombstoned" /\ state' = "Closed" /\ retired' = retired
    BY <1>5 DEF restore, commit
  <2>2. handles \ spent = {}
    BY <1>0, <2>1 DEF OwnHandleCompletes, Transitional
  <2>3. TypeOK'
    BY <1>0, <1>5 DEF restore, commit, next_generation, TypeOK, States
  <2>4. WorkOnlyInService' /\ FieldsFollowState'
    BY <1>0, <1>5
    DEF restore, commit, TypeOK, WorkOnlyInService, FieldsFollowState
  <2>5. /\ \A g \in handles' : g.generation <= generation'
        /\ \A g \in spent' : g.generation < generation'
    BY <1>0, <2>1 DEF RepositoryInv, TypeOK, Handles
  <2> QED
    BY <2>1, <2>2, <2>3, <2>4, <2>5
    DEF RepositoryInv, OwnHandleCompletes, Transitional
<1>6. ASSUME NEW at \in Time, NEW kind \in WorkKinds, admit(at, kind)
      PROVE  RepositoryInv'
  <2>1. /\ UNCHANGED <<state, generation, handles, spent, retired, evidence>>
        /\ state \in {"ReadyReadWrite", "ReadyReadOnly"}
    BY <1>6 DEF admit, NoReference
  <2>2. TypeOK'
    BY <1>0, <1>6 DEF admit, TypeOK, NoReference
  <2>3. WorkOnlyInService' /\ FieldsFollowState'
    BY <1>0, <1>6, <2>1 DEF admit, NoReference, WorkOnlyInService, FieldsFollowState
  <2> QED
    BY <2>1, <2>2, <2>3 DEF RepositoryInv, OwnHandleCompletes
<1>7. ASSUME NEW kind \in WorkKinds, FinishWork(kind)
      PROVE  RepositoryInv'
  <2>1. UNCHANGED <<state, generation, handles, spent, retired, evidence>>
    BY <1>7 DEF FinishWork, NoReference
  <2>2. TypeOK'
    BY <1>0, <1>7 DEF FinishWork, TypeOK, NoReference
  <2>3. WorkOnlyInService' /\ FieldsFollowState' /\ ~Idle
    BY <1>0, <1>7, <2>1
    DEF FinishWork, NoReference, WorkOnlyInService, FieldsFollowState, Idle, TypeOK
  <2> QED
    BY <2>1, <2>2, <2>3 DEF RepositoryInv, OwnHandleCompletes
<1>8. CASE ReadDrain
  <2>1. UNCHANGED <<state, generation, handles, spent, retired, work>>
    BY <1>8 DEF ReadDrain, NoReference
  <2>2. TypeOK' /\ WorkOnlyInService' /\ FieldsFollowState'
    BY <1>0, <1>8
    DEF ReadDrain, TypeOK, NoReference, WorkOnlyInService, FieldsFollowState, Evidence
  <2>3. evidence' = "Drained" => Idle
    BY <1>8 DEF ReadDrain, Idle
  <2> QED
    BY <2>1, <2>2, <2>3 DEF RepositoryInv, OwnHandleCompletes, Idle
<1> QED
  BY <1>1, <1>2, <1>3, <1>4, <1>5, <1>6, <1>7, <1>8 DEF Next

(* The invariant holds in every reachable state.                           *)
LEMMA RepositoryInvariance == Spec => []RepositoryInv
BY InitInv, NextInv, PTL DEF Spec

(* The fields of a repository keep their types, its generation its limit.  *)
THEOREM RepositoryTypes == Spec => []TypeOK
BY RepositoryInvariance, PTL DEF RepositoryInv

(* Only the handle that a begin issued completes the transition it began,  *)
(* whatever handles are replayed.                                          *)
THEOREM HandleAuthority == Spec => []OwnHandleCompletes
BY RepositoryInvariance, PTL DEF RepositoryInv

(* No work that `admit` let in runs in a closed, tombstoned, deleting or   *)
(* failed repository.                                                      *)
THEOREM NoWorkOutsideService == Spec => []WorkOnlyInService
BY RepositoryInvariance, PTL DEF RepositoryInv

(* The pending open mode and the tombstone deadline exist in the states    *)
(* they belong to and in no other, and nothing is deleted without a purge  *)
(* assertion.                                                              *)
THEOREM FieldsAreStateTied == Spec => []FieldsFollowState
BY RepositoryInvariance, PTL DEF RepositoryInv

(* A tombstone is restored before its deadline or purged after it, and the *)
(* deadline is the full retention away.                                    *)
THEOREM RetentionHolds == Spec => RetentionIsHonoured
<1>1. RepositoryInv /\ [Next]_vars =>
        [/\ state = "Tombstoned" =>
              \/ UNCHANGED <<state, tombstone_deadline>>
              \/ state' = "Closed" /\ last_seen' < tombstone_deadline
              \/ state' = "Deleting" /\ last_seen' >= tombstone_deadline
         /\ state # "Tombstoned" /\ state' = "Tombstoned" =>
              tombstone_deadline' = last_seen' + retention]_vars
  <2> SUFFICES ASSUME RepositoryInv, Next
               PROVE  /\ state = "Tombstoned" =>
                           \/ UNCHANGED <<state, tombstone_deadline>>
                           \/ state' = "Closed" /\ last_seen' < tombstone_deadline
                           \/ state' = "Deleting" /\ last_seen' >= tombstone_deadline
                      /\ state # "Tombstoned" /\ state' = "Tombstoned" =>
                           tombstone_deadline' = last_seen' + retention
    OBVIOUS
  <2>1. ASSUME NEW at \in Time, NEW h \in handles, NEW ok \in BOOLEAN,
               \/ complete_provisioning(h, ok, at)
               \/ complete_open(h, ok, at)
               \/ complete_purge(h, ok, at)
        PROVE  state # "Tombstoned" /\ state' # "Tombstoned"
    BY <2>1 DEF complete_provisioning, complete_open, complete_purge, commit,
                RepositoryInv, TypeOK
  <2>2. ASSUME NEW at \in Time, NEW h \in handles,
               NEW target \in {"Close", "Tombstone"},
               complete_quiesce(h, target, at)
        PROVE  /\ state # "Tombstoned"
               /\ state' = "Tombstoned" =>
                    tombstone_deadline' = last_seen' + retention
    BY <2>2 DEF complete_quiesce, commit
  <2>3. ASSUME NEW at \in Time, NEW expected \in 1..generation,
               NEW mode \in OpenModes,
               begin_open(expected, mode, at) \/ begin_quiesce(expected, at)
        PROVE  state # "Tombstoned" /\ state' # "Tombstoned"
    BY <2>3 DEF begin_open, begin_quiesce, commit
  <2>4. ASSUME NEW at \in Time, NEW expected \in 1..generation,
               restore(expected, at) \/ begin_purge(expected, at)
        PROVE  /\ state' # "Tombstoned"
               /\ state = "Tombstoned" =>
                    \/ state' = "Closed" /\ last_seen' < tombstone_deadline
                    \/ state' = "Deleting" /\ last_seen' >= tombstone_deadline
    BY <2>4 DEF restore, begin_purge, commit
  <2>5. ASSUME NEW at \in Time, NEW kind \in WorkKinds,
               admit(at, kind) \/ FinishWork(kind) \/ ReadDrain
        PROVE  UNCHANGED <<state, tombstone_deadline>>
    BY <2>5 DEF admit, FinishWork, ReadDrain
  <2> QED
    BY <2>1, <2>2, <2>3, <2>4, <2>5, RepositoryAssumption DEF Next
<1> QED BY <1>1, RepositoryInvariance, PTL DEF Spec, RetentionIsHonoured
=============================================================================
