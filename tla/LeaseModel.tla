----------------------------- MODULE LeaseModel -----------------------------
(***************************************************************************)
(* The remote-transaction lease of cli/src/lease.rs as operators on lease  *)
(* records.  Every method of `Lease` takes the lease, the logical time of  *)
(* the call and its arguments, and yields [l |-> the lease afterwards,     *)
(* r |-> the reply].  The module has no variables: Lease.tla drives one    *)
(* lease with it, Registry.tla a whole registry.                           *)
(***************************************************************************)
EXTENDS Naturals, FiniteSets

CONSTANTS
    idle, absolute, max_extension,          \* LimitsSpec, in logical time units
    cancel_grace, commit_wait, retention,
    MaxTime                                 \* the largest u64

Time == 0..MaxTime

Least(a, b) == IF a <= b THEN a ELSE b

Greatest(a, b) == IF a >= b THEN a ELSE b

(* LeaseLimits::new: every limit is nonzero and fits the clock, the idle    *)
(* time and the largest extension stay within the absolute lifetime.       *)
ASSUME LimitsAssumption ==
    /\ MaxTime \in Nat
    /\ {idle, absolute, max_extension, cancel_grace, commit_wait, retention}
          \subseteq Time \ {0}
    /\ idle <= absolute
    /\ max_extension <= absolute

CancelCauses == {"Requested", "Expiry"}

RollbackReasons == {"Explicit", "Dropped", "Expired", "Cancelled"}

RolledBackOutcomes == [tag : {"RolledBack"}, reason : RollbackReasons]

Outcomes ==
    RolledBackOutcomes
      \cup [tag : {"CleanupOverdue"}, cause : CancelCauses]
      \cup [tag : {"Committed", "CommitProvenAbsent", "CommitIndeterminate"}]

RolledBack(why) == [tag |-> "RolledBack", reason |-> why]
CleanupOverdue(why) == [tag |-> "CleanupOverdue", cause |-> why]
Committed == [tag |-> "Committed"]
CommitProvenAbsent == [tag |-> "CommitProvenAbsent"]
CommitIndeterminate == [tag |-> "CommitIndeterminate"]

is_commit_attempt(outcome) ==
    outcome.tag \in {"Committed", "CommitProvenAbsent", "CommitIndeterminate"}

CommitResults == {"Committed", "NotCommitted", "Indeterminate"}

ExternalOutcomes == {"Committed", "ProvenAbsent", "Indeterminate"}

Phases ==
    [tag : {"Idle", "Operating"}]
      \cup [tag : {"Cancelling"}, cleanup_deadline : Nat, cause : CancelCauses]
      \cup [tag : {"CommitAttempted"}, decide_by : Nat]
      \cup [tag : {"Terminal"}, outcome : Outcomes, at : Nat]
      \cup [tag : {"Expired"}, attempted : BOOLEAN]

Idle == [tag |-> "Idle"]
Operating == [tag |-> "Operating"]
Cancelling(by, why) ==
    [tag |-> "Cancelling", cleanup_deadline |-> by, cause |-> why]
CommitAttempted(by) == [tag |-> "CommitAttempted", decide_by |-> by]
Terminal(what, when) == [tag |-> "Terminal", outcome |-> what, at |-> when]
Expired(tried) == [tag |-> "Expired", attempted |-> tried]

(* The phase is a proven rollback: repeating a rollback or a cancellation  *)
(* is then a no-op.                                                        *)
IsRolledBack(phase) ==
    phase.tag = "Terminal" /\ phase.outcome.tag = "RolledBack"

Leases ==
    [generation : Nat \ {0}, last_seen : Nat, absolute_deadline : Nat,
     deadline : Nat, op_seq : Nat, phase : Phases,
     commit_attempted : BOOLEAN, response_lost : BOOLEAN]

-----------------------------------------------------------------------------
(* Mutant: the chain without its tail. *)
BeginFitsWithoutTail(at) == at + absolute + retention <= MaxTime

(* Lease::begin rejects a start whose whole chain, absolute deadline, then *)
(* the longer of cleanup and commit wait, then the retention of the        *)
(* tombstone, does not fit the clock.                                      *)
BeginFits(at) ==
    at + absolute + Greatest(cancel_grace, commit_wait) + retention <= MaxTime

BeginLease(at) ==
    [generation |-> 1, last_seen |-> at, absolute_deadline |-> at + absolute,
     deadline |-> Least(at + idle, at + absolute), op_seq |-> 0,
     phase |-> Idle, commit_attempted |-> FALSE, response_lost |-> FALSE]

(* A due step of `settle` whose checked_add runs past the end of the clock *)
(* stops the loop with TimeOverflow.                                       *)
SettleOverflows(l, now) ==
    \/ /\ l.phase.tag = "Operating"
       /\ now >= l.deadline
       /\ l.deadline + cancel_grace > MaxTime
    \/ /\ l.phase.tag = "Terminal"
       /\ l.phase.at + retention > MaxTime

(* The phase after the transition that is due at `now`, the same phase     *)
(* when none is.                                                           *)
SettledPhase(l, now) ==
    LET p == l.phase IN
    CASE p.tag = "Idle" /\ now >= l.deadline ->
            Terminal(RolledBack("Expired"), l.deadline)
      [] p.tag = "Operating" /\ now >= l.deadline ->
            Cancelling(l.deadline + cancel_grace, "Expiry")
      [] p.tag = "Cancelling" /\ now >= p.cleanup_deadline ->
            Terminal(CleanupOverdue(p.cause), p.cleanup_deadline)
      [] p.tag = "CommitAttempted" /\ now >= p.decide_by ->
            Terminal(CommitIndeterminate, p.decide_by)
      [] p.tag = "Terminal" /\ now >= p.at + retention ->
            Expired(is_commit_attempt(p.outcome))
      [] OTHER -> p

(* One pass of the loop of `settle`.                                       *)
SettleStep(l, now) ==
    IF SettleOverflows(l, now) THEN l
    ELSE [l EXCEPT !.phase = SettledPhase(l, now)]

(* The loop passes at most three transitions: Operating, Cancelling,       *)
(* Terminal, Expired is its longest path.                                  *)
settle(l, now) == SettleStep(SettleStep(SettleStep(l, now), now), now)

Reply(l, r) == [l |-> l, r |-> r]

(* A time that moves backward is rejected and changes nothing.  Any other  *)
(* call is recorded and settled, whatever becomes of the method after it.  *)
enter(l, at) ==
    IF at < l.last_seen THEN Reply(l, "TimeRegression")
    ELSE LET e == settle([l EXCEPT !.last_seen = at], at)
         IN Reply(e, IF SettleOverflows(e, at) THEN "TimeOverflow" ELSE "Ok")

blocked(l) ==
    CASE l.phase.tag = "CommitAttempted" -> "CommitAttempted"
      [] l.phase.tag = "Terminal" -> "AlreadyTerminal"
      [] l.phase.tag = "Expired" -> "Expired"
      [] OTHER -> "Busy"

(* require_idle, then the rest of the method.                              *)
IfIdle(l, reply) == IF l.phase.tag = "Idle" THEN reply ELSE Reply(l, blocked(l))

-----------------------------------------------------------------------------
observe(l, at) == enter(l, at)

begin_operation(l, at) ==
    LET e == enter(l, at) IN
    IF e.r # "Ok" THEN e
    ELSE IfIdle(e.l, Reply([e.l EXCEPT !.op_seq = @ + 1, !.phase = Operating],
                           "Ok"))

(* Mutant: the sequence number of the handle is not compared. *)
FinishAnyOperation(l, at, issued, seq) ==
    LET e == enter(l, at)
        p == e.l.phase
        End(phase, r) == Reply([e.l EXCEPT !.phase = phase], r)
    IN CASE e.r # "Ok" -> e
         [] e.r = "Ok" /\ issued /\ p.tag = "Operating" -> End(Idle, "Completed")
         [] e.r = "Ok" /\ issued /\ p.tag = "Cancelling" ->
              End(Terminal(RolledBack("Cancelled"), at), "CancelledAcknowledged")
         [] OTHER -> Reply(e.l, "StaleHandle")

(* `issued` says whether the handle is of this very instance and of the    *)
(* current generation, `seq` is the operation it stands for.               *)
finish_operation(l, at, issued, seq) ==
    LET e == enter(l, at)
        p == e.l.phase
        End(phase, r) == Reply([e.l EXCEPT !.phase = phase], r)
    IN CASE e.r # "Ok" -> e
         [] e.r = "Ok" /\ (~issued \/ seq # e.l.op_seq) ->
              Reply(e.l, "StaleHandle")
         [] e.r = "Ok" /\ issued /\ seq = e.l.op_seq ->
              CASE p.tag = "Operating" -> End(Idle, "Completed")
                [] p.tag = "Cancelling" ->
                     End(Terminal(RolledBack(IF p.cause = "Requested"
                                             THEN "Cancelled" ELSE "Expired"),
                                  at),
                         "CancelledAcknowledged")
                [] p.tag \in {"Terminal", "Expired"} -> Reply(e.l, blocked(e.l))
                [] p.tag \in {"Idle", "CommitAttempted"} ->
                     Reply(e.l, "StaleHandle")

(* A compare-and-swap on the generation.  The grant is clamped to the      *)
(* largest extension and to the absolute deadline and must gain something. *)
renew(l, at, expected, requested) ==
    LET e == enter(l, at)
        until == Least(Least(at + Least(requested, max_extension), MaxTime),
                       e.l.absolute_deadline)
    IN IF e.r # "Ok" THEN e
       ELSE IfIdle(e.l,
              CASE expected # e.l.generation -> Reply(e.l, "StaleGeneration")
                [] expected = e.l.generation /\ until <= e.l.deadline ->
                     Reply(e.l, "NoExtension")
                [] expected = e.l.generation /\ until > e.l.deadline ->
                     Reply([e.l EXCEPT !.generation = @ + 1, !.deadline = until],
                           "Ok"))

request_cancel(l, at) ==
    LET e == enter(l, at)
        p == e.l.phase
        To(phase) == Reply([e.l EXCEPT !.phase = phase], "Ok")
    IN CASE e.r # "Ok" -> e
         [] e.r = "Ok" /\ p.tag = "Idle" ->
              To(Terminal(RolledBack("Cancelled"), at))
         [] e.r = "Ok" /\ p.tag = "Operating" ->
              IF at + cancel_grace > MaxTime THEN Reply(e.l, "TimeOverflow")
              ELSE To(Cancelling(at + cancel_grace, "Requested"))
         [] e.r = "Ok" /\ (p.tag = "Cancelling" \/ IsRolledBack(p)) -> e
         [] OTHER -> Reply(e.l, blocked(e.l))

(* Mutant: rollback does not require an idle lease. *)
RollBackAnyPhase(l, at, why) ==
    LET e == enter(l, at) IN
    IF e.r # "Ok" \/ IsRolledBack(e.l.phase) THEN e
    ELSE Reply([e.l EXCEPT !.phase = Terminal(RolledBack(why), at)], "Ok")

roll_back(l, at, why) ==
    LET e == enter(l, at) IN
    IF e.r # "Ok" \/ IsRolledBack(e.l.phase) THEN e
    ELSE IfIdle(e.l,
           Reply([e.l EXCEPT !.phase = Terminal(RolledBack(why), at)], "Ok"))

rollback(l, at) == roll_back(l, at, "Explicit")

dropped(l, at) == roll_back(l, at, "Dropped")

begin_commit(l, at) ==
    LET e == enter(l, at) IN
    IF e.r # "Ok" THEN e
    ELSE IfIdle(e.l,
           IF at + commit_wait > MaxTime THEN Reply(e.l, "TimeOverflow")
           ELSE Reply([e.l EXCEPT !.phase = CommitAttempted(at + commit_wait),
                                  !.commit_attempted = TRUE], "Ok"))

finish_commit(l, at, issued, result) ==
    LET e == enter(l, at)
        p == e.l.phase
        outcome == CASE result = "Committed" -> Committed
                     [] result = "NotCommitted" -> CommitProvenAbsent
                     [] result = "Indeterminate" -> CommitIndeterminate
    IN CASE e.r # "Ok" -> e
         [] e.r = "Ok" /\ issued /\ p.tag = "CommitAttempted" ->
              Reply([e.l EXCEPT !.phase = Terminal(outcome, at)], "Ok")
         [] e.r = "Ok" /\ issued /\ p.tag \in {"Terminal", "Expired"} ->
              Reply(e.l, blocked(e.l))
         [] OTHER -> Reply(e.l, "StaleHandle")

response_lost(l, at) ==
    LET e == enter(l, at) IN
    IF e.r # "Ok" THEN e ELSE Reply([e.l EXCEPT !.response_lost = TRUE], "Ok")

(* What a durable lookup makes of an outcome: it settles an indeterminate  *)
(* commit, agrees with a definite one, or conflicts with it.               *)
Resolved(outcome, external) ==
    CASE outcome.tag = "CommitIndeterminate" /\ external = "Committed" ->
            Committed
      [] outcome.tag = "CommitIndeterminate" /\ external = "ProvenAbsent" ->
            CommitProvenAbsent
      [] OTHER -> outcome

Conflicts(outcome, external) ==
    \/ outcome.tag = "Committed" /\ external = "ProvenAbsent"
    \/ outcome.tag = "CommitProvenAbsent" /\ external = "Committed"

(* Mutant: the latest lookup wins over a definite outcome. *)
ResolveAgain(l, at, external) ==
    LET e == enter(l, at) IN
    IF /\ e.r = "Ok" /\ e.l.phase.tag = "Terminal"
       /\ is_commit_attempt(e.l.phase.outcome)
       /\ external # "Indeterminate"
    THEN Reply([e.l EXCEPT !.phase.outcome =
                  Resolved(CommitIndeterminate, external)], "Ok")
    ELSE e

resolve_indeterminate(l, at, external) ==
    LET e == enter(l, at)
        p == e.l.phase
    IN CASE e.r # "Ok" -> e
         [] e.r = "Ok" /\ p.tag = "Expired" -> Reply(e.l, "Expired")
         [] e.r = "Ok" /\ p.tag = "Terminal" ->
              CASE ~is_commit_attempt(p.outcome) -> Reply(e.l, "NotIndeterminate")
                [] Conflicts(p.outcome, external) ->
                     Reply(e.l, "ConflictingResolution")
                [] OTHER ->
                     Reply([e.l EXCEPT !.phase.outcome =
                                          Resolved(p.outcome, external)], "Ok")
         [] OTHER -> Reply(e.l, "NotIndeterminate")

-----------------------------------------------------------------------------
(* Lease::restart: what is known of the commit attempt, no deadline is     *)
(* settled any more.  "None": no commit was attempted.                     *)
RestartRecords == {"None"} \cup ExternalOutcomes

(* Mutant: an attempt still in flight counts as staged state. *)
RestartForgetsAttempt(l) ==
    LET p == l.phase IN
    CASE p.tag = "Terminal" /\ p.outcome.tag = "Committed" -> "Committed"
      [] p.tag = "Terminal" /\ p.outcome.tag = "CommitProvenAbsent" ->
            "ProvenAbsent"
      [] p.tag = "Terminal" /\ p.outcome.tag = "CommitIndeterminate" ->
            "Indeterminate"
      [] OTHER -> "None"

restart(l) ==
    LET p == l.phase IN
    CASE p.tag = "Terminal" /\ p.outcome.tag = "Committed" -> "Committed"
      [] p.tag = "Terminal" /\ p.outcome.tag = "CommitProvenAbsent" ->
            "ProvenAbsent"
      [] p.tag = "Terminal" /\ p.outcome.tag = "CommitIndeterminate" ->
            "Indeterminate"
      [] p.tag = "CommitAttempted" -> "Indeterminate"
      [] p.tag = "Expired" /\ p.attempted -> "Indeterminate"
      [] OTHER -> "None"

(* RestartRecord::classify, `lookup` being "None" or an external outcome.  *)
classify(attempted, lookup) ==
    CASE attempted = "None" ->
            IF lookup = "None" THEN "StagedDiscarded" ELSE "RestartContradiction"
      [] attempted # "None" /\ lookup \in {"None", "Indeterminate"} -> attempted
      [] attempted = "Indeterminate" /\ lookup \in {"Committed", "ProvenAbsent"} ->
            lookup
      [] attempted # "None" /\ attempted = lookup -> attempted
      [] OTHER -> "RestartContradiction"
=============================================================================
