-------------------------------- MODULE Lease --------------------------------
(***************************************************************************)
(* One lease slot of cli/src/lease.rs over process restarts.  A call may   *)
(* carry any logical time: the caller asserts it.  Operation handles and   *)
(* commit attempts are kept by their holders for ever and may be presented *)
(* again at any time, also to the lease that a later process begins under  *)
(* the same id.  A call with another binding is rejected before it changes *)
(* anything and is therefore a stuttering step.                            *)
(***************************************************************************)
EXTENDS LeaseModel

CONSTANTS
    MaxInstances,   \* bound: lease instances begun one after the other
    MaxOps,         \* bound: operations begun on one instance
    Extensions      \* the extensions a caller may request

VARIABLES
    lease,      \* the lease, meaningful while `live`
    live,       \* a lease exists: begun, not consumed by restart
    instance,   \* identity of the lease, never reused
    record,     \* the restart record of the previous instance
    ops,        \* every OperationHandle issued so far
    attempts,   \* every CommitAttempt issued so far
    ended,      \* history: handles this instance's finish_operation accepted
    results     \* history: attempts and results its finish_commit recorded

vars == <<lease, live, instance, record, ops, attempts, ended, results>>

Instances == 1..MaxInstances

ASSUME BoundsAssumption ==
    /\ MaxInstances \in Nat \ {0}
    /\ MaxOps \in Nat
    /\ Extensions \subseteq Nat \ {0}

Handles == [instance : Nat, generation : Nat, seq : Nat]

Attempts == [instance : Nat, generation : Nat]

Issued(h) == h.instance = instance /\ h.generation = lease.generation

Init ==
    /\ \E at \in Time : BeginFits(at) /\ lease = BeginLease(at)
    /\ live = TRUE
    /\ instance = 1
    /\ record = "None"
    /\ ops = {} /\ attempts = {} /\ ended = {} /\ results = {}

(* A call that only moves the lease.                                       *)
Keep(reply) ==
    /\ live
    /\ lease' = reply.l
    /\ UNCHANGED <<live, instance, record, ops, attempts, ended, results>>

Observe(at) == Keep(observe(lease, at))

Renew(at, expected, requested) == Keep(renew(lease, at, expected, requested))

RequestCancel(at) == Keep(request_cancel(lease, at))

Rollback(at) == Keep(rollback(lease, at))

Dropped(at) == Keep(dropped(lease, at))

ResponseLost(at) == Keep(response_lost(lease, at))

ResolveIndeterminate(at, external) ==
    Keep(resolve_indeterminate(lease, at, external))

BeginOperation(at) ==
    LET reply == begin_operation(lease, at) IN
    /\ live
    /\ lease.op_seq < MaxOps
    /\ lease' = reply.l
    /\ ops' = IF reply.r = "Ok"
              THEN ops \cup {[instance |-> instance,
                              generation |-> reply.l.generation,
                              seq |-> reply.l.op_seq]}
              ELSE ops
    /\ UNCHANGED <<live, instance, record, attempts, ended, results>>

FinishOperation(at, h) ==
    LET reply == finish_operation(lease, at, Issued(h), h.seq) IN
    /\ live
    /\ lease' = reply.l
    /\ ended' = IF reply.r \in {"Completed", "CancelledAcknowledged"}
                THEN ended \cup {h} ELSE ended
    /\ UNCHANGED <<live, instance, record, ops, attempts, results>>

BeginCommit(at) ==
    LET reply == begin_commit(lease, at) IN
    /\ live
    /\ lease' = reply.l
    /\ attempts' = IF reply.r = "Ok"
                   THEN attempts \cup {[instance |-> instance,
                                        generation |-> reply.l.generation]}
                   ELSE attempts
    /\ UNCHANGED <<live, instance, record, ops, ended, results>>

FinishCommit(at, a, result) ==
    LET reply == finish_commit(lease, at, Issued(a), result) IN
    /\ live
    /\ lease' = reply.l
    /\ results' = IF reply.r = "Ok" THEN results \cup {<<a, result>>} ELSE results
    /\ UNCHANGED <<live, instance, record, ops, attempts, ended>>

(* Process restart consumes the lease.                                     *)
Restart ==
    /\ live
    /\ live' = FALSE
    /\ record' = restart(lease)
    /\ UNCHANGED <<lease, instance, ops, attempts, ended, results>>

(* The next process begins a lease of its own, with its own instance.      *)
Begin(at) ==
    /\ ~live
    /\ instance < MaxInstances
    /\ BeginFits(at)
    /\ lease' = BeginLease(at)
    /\ live' = TRUE
    /\ instance' = instance + 1
    /\ ended' = {} /\ results' = {}
    /\ UNCHANGED <<record, ops, attempts>>

Next ==
    \/ \E at \in Time :
         \/ Observe(at) \/ RequestCancel(at) \/ Rollback(at) \/ Dropped(at)
         \/ ResponseLost(at) \/ BeginOperation(at) \/ BeginCommit(at) \/ Begin(at)
         \/ \E expected \in 1..lease.generation, requested \in Extensions :
              Renew(at, expected, requested)
         \/ \E external \in ExternalOutcomes : ResolveIndeterminate(at, external)
         \/ \E h \in ops : FinishOperation(at, h)
         \/ \E a \in attempts, result \in CommitResults :
              FinishCommit(at, a, result)
    \/ Restart

Spec == Init /\ [][Next]_vars

-----------------------------------------------------------------------------
TypeOK ==
    /\ lease \in Leases
    /\ live \in BOOLEAN
    /\ instance \in Nat
    /\ record \in RestartRecords
    /\ ops \subseteq Handles
    /\ attempts \subseteq Attempts
    /\ ended \subseteq ops
    /\ results \subseteq attempts \X CommitResults

(* "The whole chain ... is overflow-checked here, so no later transition   *)
(* can overflow" (Lease::begin): whatever time a later call carries, no    *)
(* method of a begun lease answers TimeOverflow.                           *)
NoLaterOverflow ==
    \A at \in Time :
        /\ observe(lease, at).r # "TimeOverflow"
        /\ request_cancel(lease, at).r # "TimeOverflow"
        /\ begin_commit(lease, at).r # "TimeOverflow"

(* The deadlines of every phase lie within the chain `begin` checked.      *)
Fits(l) ==
    LET p == l.phase
        end == l.absolute_deadline
        tail == Greatest(cancel_grace, commit_wait)
    IN /\ l.deadline <= end
       /\ end + tail + retention <= MaxTime
       /\ p.tag = "Cancelling" => p.cleanup_deadline <= end + tail
       /\ p.tag = "CommitAttempted" => p.decide_by <= end + tail
       /\ p.tag = "Terminal" => p.at <= end + tail

(* No deadline the lease ever sets, by expiry, cancellation, commit or     *)
(* renewal, lies beyond the chain that Lease::begin checked.               *)
TimersFit == Fits(lease)

(* The phase is one that only a commit attempt leads to.                   *)
CommitPhase(p) ==
    \/ p.tag = "CommitAttempted"
    \/ p.tag = "Terminal" /\ is_commit_attempt(p.outcome)
    \/ p.tag = "Expired" /\ p.attempted

(* A commit attempt decides what the lease can still become: once          *)
(* begin_commit succeeded the lease is never idle, operating or rolled     *)
(* back again, and without it no commit outcome ever appears.              *)
AttemptIsNeverRolledBack == lease.commit_attempted <=> CommitPhase(lease.phase)

(* Handles of this instance.                                               *)
Mine(hs) == {h \in hs : h.instance = instance}

(* finish_operation ends an operation by the handle it was begun with, and *)
(* by no other: an idle or committing lease has no operation left open, a  *)
(* running one exactly the latest.  Stale handles, of an earlier operation,*)
(* generation or instance, complete nothing.                               *)
OwnHandleEnds ==
    LET open == Mine(ops) \ ended IN
    live =>
      /\ lease.phase.tag \in {"Idle", "CommitAttempted"} => open = {}
      /\ lease.phase.tag = "Operating" =>
           \E h \in Mine(ops) : h.seq = lease.op_seq /\ open = {h}

(* A definite outcome never changes: a terminal lease only ever becomes    *)
(* expired, or has its indeterminate commit resolved.  An expired lease    *)
(* stays expired with what it says of the attempt.  A cancelling lease     *)
(* keeps the cleanup deadline it got first, however often cancellation is  *)
(* requested again, until it ends.                                         *)
OutcomeIsFinal ==
    [][/\ live /\ live' /\ instance' = instance
       => /\ lease.phase.tag = "Terminal" =>
               \/ lease'.phase = lease.phase
               \/ lease'.phase = Expired(is_commit_attempt(lease.phase.outcome))
               \/ /\ lease.phase.outcome = CommitIndeterminate
                  /\ \E o \in {Committed, CommitProvenAbsent} :
                        lease'.phase = Terminal(o, lease.phase.at)
          /\ lease.phase.tag = "Expired" => lease'.phase = lease.phase
          /\ lease.phase.tag = "Cancelling" =>
               lease'.phase = lease.phase \/ lease'.phase.tag \in {"Terminal", "Expired"}]_vars

(* Without a lookup an attempted commit is never classified as discarded   *)
(* after a restart, and the class agrees with the result recorded for it.  *)
RestartClassIsSound ==
    ~live =>
      /\ (classify(record, "None") = "StagedDiscarded") <=> (Mine(attempts) = {})
      /\ \A x \in results : x[1].instance = instance =>
           classify(record, "None") \in
             (CASE x[2] = "Committed" -> {"Committed", "Indeterminate"}
                [] x[2] = "NotCommitted" -> {"ProvenAbsent", "Indeterminate"}
                [] x[2] = "Indeterminate" -> ExternalOutcomes)
=============================================================================
