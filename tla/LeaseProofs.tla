----------------------------- MODULE LeaseProofs -----------------------------
(***************************************************************************)
(* Proofs about the lease, for all limits, clocks and numbers of           *)
(* operations.  `enter` is the heart of every method: the lemmas say that  *)
(* one pass of `settle` keeps a good lease good, that three passes leave   *)
(* nothing due, and hence that no method overflows.                        *)
(***************************************************************************)
EXTENDS Lease, TLAPS

(* A lease as every method finds it.                                       *)
Good(l) ==
    /\ l \in Leases
    /\ Fits(l)
    /\ l.commit_attempted <=> CommitPhase(l.phase)

(* Nothing is due at `now`.                                                *)
Quiet(l, now) ==
    LET p == l.phase IN
    /\ p.tag \in {"Idle", "Operating"} => now < l.deadline
    /\ p.tag = "Cancelling" => now < p.cleanup_deadline
    /\ p.tag = "CommitAttempted" => now < p.decide_by
    /\ p.tag = "Terminal" => now < p.at + retention

(* How many passes of `settle` a phase may still need.                     *)
Rank(p) ==
    CASE p.tag = "Operating" -> 3
      [] p.tag \in {"Idle", "Cancelling", "CommitAttempted"} -> 2
      [] p.tag = "Terminal" -> 1
      [] p.tag = "Expired" -> 0

USE DEF Time

(* The limits are natural numbers.                                         *)
LEMMA LimitsAreNat ==
    /\ MaxTime \in Nat
    /\ idle \in Nat /\ absolute \in Nat /\ max_extension \in Nat
    /\ cancel_grace \in Nat /\ commit_wait \in Nat /\ retention \in Nat
    /\ cancel_grace <= Greatest(cancel_grace, commit_wait)
    /\ commit_wait <= Greatest(cancel_grace, commit_wait)
    /\ Greatest(cancel_grace, commit_wait) \in Nat
    /\ retention > 0
BY LimitsAssumption DEF Greatest

(* A phase is one of the six shapes, told apart by its tag.                *)
LEMMA PhaseShapes ==
    ASSUME NEW p \in Phases
    PROVE  /\ p.tag \in {"Idle", "Operating", "Cancelling", "CommitAttempted",
                         "Terminal", "Expired"}
           /\ p.tag = "Cancelling" =>
                p.cleanup_deadline \in Nat /\ p.cause \in CancelCauses
           /\ p.tag = "CommitAttempted" => p.decide_by \in Nat
           /\ p.tag = "Terminal" => p.outcome \in Outcomes /\ p.at \in Nat
           /\ p.tag = "Expired" => p.attempted \in BOOLEAN
BY DEF Phases

(* The phase constructors build phases.                                    *)
LEMMA PhaseConstructors ==
    /\ Idle \in Phases /\ Operating \in Phases
    /\ \A by \in Nat, why \in CancelCauses : Cancelling(by, why) \in Phases
    /\ \A by \in Nat : CommitAttempted(by) \in Phases
    /\ \A o \in Outcomes, at \in Nat : Terminal(o, at) \in Phases
    /\ \A b \in BOOLEAN : Expired(b) \in Phases
    /\ \A why \in RollbackReasons : RolledBack(why) \in Outcomes
    /\ \A why \in CancelCauses : CleanupOverdue(why) \in Outcomes
    /\ Committed \in Outcomes /\ CommitProvenAbsent \in Outcomes
    /\ CommitIndeterminate \in Outcomes
BY DEF Phases, Idle, Operating, Cancelling, CommitAttempted, Terminal, Expired,
       Outcomes, RolledBackOutcomes, RolledBack, CleanupOverdue, Committed,
       CommitProvenAbsent, CommitIndeterminate

(* One pass of `settle` keeps a good lease good, touches nothing but the   *)
(* phase, and never meets the overflow.                                    *)
LEMMA SettleStepKeepsGood ==
    ASSUME NEW l, Good(l), NEW now \in Nat
    PROVE  LET s == SettleStep(l, now) IN
           /\ Good(s)
           /\ s = [l EXCEPT !.phase = s.phase]
           /\ ~SettleOverflows(l, now)
<1> DEFINE p == l.phase
           s == SettleStep(l, now)
<1>1. /\ l \in Leases /\ Fits(l) /\ p \in Phases
      /\ l.deadline \in Nat /\ l.absolute_deadline \in Nat
      /\ l.commit_attempted <=> CommitPhase(p)
  BY DEF Good, Leases
<1>2. ~SettleOverflows(l, now)
  BY <1>1, LimitsAreNat, PhaseShapes DEF SettleOverflows, Fits
<1>3. s = [l EXCEPT !.phase = SettledPhase(l, now)]
  BY <1>2, SMTT(30) DEF SettleStep
<1>4. /\ SettledPhase(l, now) \in Phases
      /\ SettledPhase(l, now).tag = "Cancelling" =>
           SettledPhase(l, now).cleanup_deadline
             <= l.absolute_deadline + Greatest(cancel_grace, commit_wait)
      /\ SettledPhase(l, now).tag = "CommitAttempted" =>
           SettledPhase(l, now).decide_by
             <= l.absolute_deadline + Greatest(cancel_grace, commit_wait)
      /\ SettledPhase(l, now).tag = "Terminal" =>
           SettledPhase(l, now).at
             <= l.absolute_deadline + Greatest(cancel_grace, commit_wait)
      /\ CommitPhase(SettledPhase(l, now)) <=> CommitPhase(p)
  <2>a. Cancelling(l.deadline + cancel_grace, "Expiry") \in Phases
    BY <1>1, LimitsAreNat DEF Cancelling, Phases, CancelCauses
  <2>b. Expired(is_commit_attempt(p.outcome)) \in Phases
    <3>1. is_commit_attempt(p.outcome) \in BOOLEAN
      BY DEF is_commit_attempt
    <3> QED BY <3>1, PhaseConstructors, Zenon
  <2> USE <1>1, LimitsAreNat, PhaseShapes, PhaseConstructors
  <2> USE DEF SettledPhase, CommitPhase, is_commit_attempt, Fits, Terminal,
              Cancelling, Expired, RolledBack, CleanupOverdue,
              CommitIndeterminate, RollbackReasons, CancelCauses
  <2>1. CASE p.tag = "Idle" BY <2>1
  <2>2. CASE p.tag = "Operating"
    <3>1. CASE now >= l.deadline
      <4>1. SettledPhase(l, now) = Cancelling(l.deadline + cancel_grace, "Expiry")
        BY <2>2, <3>1
      <4> QED BY <2>2, <4>1, <2>a
    <3>2. CASE ~(now >= l.deadline)
      BY <2>2, <3>2
    <3> QED BY <3>1, <3>2, Zenon
  <2>3. CASE p.tag = "Cancelling" BY <2>3
  <2>4. CASE p.tag = "CommitAttempted" BY <2>4, SMTT(30)
  <2>5. CASE p.tag = "Terminal"
    <3>1. CASE now >= p.at + retention
      <4>1. SettledPhase(l, now) = Expired(is_commit_attempt(p.outcome))
        BY <2>5, <3>1
      <4> QED BY <2>5, <4>1, <2>b
    <3>2. CASE ~(now >= p.at + retention)
      BY <2>5, <3>2
    <3> QED BY <3>1, <3>2, Zenon
  <2>6. CASE p.tag = "Expired" BY <2>6
  <2> QED BY <2>1, <2>2, <2>3, <2>4, <2>5, <2>6, ZenonT(60)
<1> QED
  BY <1>1, <1>2, <1>3, <1>4 DEF Good, Fits, Leases

(* A pass either finds nothing due or lowers the rank of the phase.        *)
LEMMA SettleStepRank ==
    ASSUME NEW l, Good(l), NEW now \in Nat
    PROVE  LET s == SettleStep(l, now) IN
           /\ Rank(l.phase) \in 0..3
           /\ \/ Quiet(l, now) /\ s = l
              \/ Rank(s.phase) < Rank(l.phase)
<1> DEFINE p == l.phase
           q == SettledPhase(l, now)
<1>1. /\ p \in Phases /\ l \in Leases
      /\ l.deadline \in Nat
  BY DEF Good, Leases
<1>2. SettleStep(l, now) = [l EXCEPT !.phase = q]
  BY SettleStepKeepsGood, Zenon DEF SettleStep
<1>3. SettleStep(l, now).phase = q
  BY <1>1, <1>2 DEF Leases
<1>4. q = p => SettleStep(l, now) = l
  BY <1>1, <1>2 DEF Leases
<1>5. /\ Rank(p) \in 0..3
      /\ \/ Quiet(l, now) /\ q = p
         \/ Rank(q) < Rank(p)
  <2> USE <1>1, LimitsAreNat, PhaseShapes
  <2> USE DEF SettledPhase, Quiet, Rank, Terminal, Cancelling, Expired
  <2>1. CASE p.tag = "Idle" BY <2>1
  <2>2. CASE p.tag = "Operating" BY <2>2
  <2>3. CASE p.tag = "Cancelling" BY <2>3
  <2>4. CASE p.tag = "CommitAttempted" BY <2>4
  <2>5. CASE p.tag = "Terminal" BY <2>5
  <2>6. CASE p.tag = "Expired" BY <2>6
  <2> QED BY <2>1, <2>2, <2>3, <2>4, <2>5, <2>6, Zenon
<1> QED BY <1>3, <1>4, <1>5

(* Three passes suffice: `settle` leaves nothing due, as the loop of the   *)
(* code does.                                                              *)
LEMMA SettleReachesQuiet ==
    ASSUME NEW l, Good(l), NEW now \in Nat
    PROVE  LET s == settle(l, now) IN
           /\ Good(s)
           /\ s = [l EXCEPT !.phase = s.phase]
           /\ Quiet(s, now)
<1> DEFINE s1 == SettleStep(l, now)
           s2 == SettleStep(s1, now)
           s3 == SettleStep(s2, now)
<1>0. settle(l, now) = s3
  BY DEF settle
<1>1. Good(s1) /\ s1 = [l EXCEPT !.phase = s1.phase]
  BY SettleStepKeepsGood
<1> HIDE DEF s1
<1>2. Good(s2) /\ s2 = [s1 EXCEPT !.phase = s2.phase]
  BY <1>1, SettleStepKeepsGood
<1> HIDE DEF s2
<1>3. Good(s3) /\ s3 = [s2 EXCEPT !.phase = s3.phase]
  BY <1>2, SettleStepKeepsGood
<1>4. s3 = [l EXCEPT !.phase = s3.phase]
  BY <1>1, <1>2, <1>3 DEF Good, Leases
<1>5. Quiet(s3, now)
  <2>1. /\ Rank(l.phase) \in 0..3
        /\ \/ Quiet(l, now) /\ s1 = l
           \/ Rank(s1.phase) < Rank(l.phase)
    BY SettleStepRank DEF s1
  <2>2. /\ Rank(s1.phase) \in 0..3
        /\ \/ Quiet(s1, now) /\ s2 = s1
           \/ Rank(s2.phase) < Rank(s1.phase)
    BY <1>1, SettleStepRank DEF s2
  <2>3. /\ Rank(s2.phase) \in 0..3
        /\ \/ Quiet(s2, now) /\ s3 = s2
           \/ Rank(s3.phase) < Rank(s2.phase)
    BY <1>2, SettleStepRank
  <2>4. Rank(s3.phase) \in 0..3
    BY <1>3, SettleStepRank
  <2>5. Rank(s3.phase) = 0 => Quiet(s3, now)
    <3>1. s3.phase \in Phases
      BY <1>3 DEF Good, Leases
    <3> HIDE DEF s3
    <3> QED BY <3>1, PhaseShapes DEF Rank, Quiet
  <2> HIDE DEF s3
  <2>6. CASE Quiet(s2, now) /\ s3 = s2
    BY <2>6
  <2>7. CASE Rank(s3.phase) < Rank(s2.phase)
    <3>1. CASE Quiet(s1, now) /\ s2 = s1
      <4>1. SettleStep(s1, now) = s1
        BY <3>1 DEF s2
      <4> QED BY <2>7, <3>1, <4>1, <2>3, <2>4 DEF s3
    <3>2. CASE Rank(s2.phase) < Rank(s1.phase)
      <4>1. CASE Quiet(l, now) /\ s1 = l
        BY <2>7, <3>2, <4>1, <2>2, <2>3, <2>4, <2>5 DEF s1, s2
      <4>2. CASE Rank(s1.phase) < Rank(l.phase)
        BY <2>1, <2>2, <2>3, <2>4, <2>5, <2>7, <3>2, <4>2
      <4> QED BY <2>1, <4>1, <4>2
    <3> QED BY <2>2, <3>1, <3>2
  <2> QED BY <2>3, <2>6, <2>7
<1> QED BY <1>0, <1>3, <1>4, <1>5

(* What every method finds after `enter`: a good lease with nothing due,   *)
(* or the untouched lease and a rejection.  Never an overflow.             *)
LEMMA EnterIsGood ==
    ASSUME NEW l, Good(l), NEW at \in Nat
    PROVE  LET e == enter(l, at) IN
           /\ Good(e.l)
           /\ e.r \in {"Ok", "TimeRegression"}
           /\ e.r = "Ok" => Quiet(e.l, at)
           /\ e.l.generation = l.generation
<1> DEFINE e == enter(l, at)
           m == [l EXCEPT !.last_seen = at]
           t == settle(m, at)
<1>1. CASE at < l.last_seen
  <2>1. e = [l |-> l, r |-> "TimeRegression"]
    BY <1>1 DEF enter, Reply
  <2> QED BY <2>1
<1>2. CASE ~(at < l.last_seen)
  <2>1. Good(m) /\ m.generation = l.generation
    BY DEF Good, Fits, Leases
  <2>2. Good(t) /\ t = [m EXCEPT !.phase = t.phase] /\ Quiet(t, at)
    BY <2>1, SettleReachesQuiet, Zenon
  <2>3. ~SettleOverflows(t, at)
    BY <2>2, SettleStepKeepsGood
  <2>4. e = [l |-> t, r |-> "Ok"]
    BY <1>2, <2>3 DEF enter, Reply
  <2>5. t.generation = l.generation
    BY <2>1, <2>2, Zenon DEF Good, Leases
  <2> QED BY <2>2, <2>4, <2>5
<1> QED BY <1>1, <1>2

(* Moving a good lease into a phase whose deadline fits keeps it good.     *)
LEMMA MoveKeepsGood ==
    ASSUME NEW l, Good(l), NEW p \in Phases,
           LET last == l.absolute_deadline + Greatest(cancel_grace, commit_wait)
           IN /\ p.tag = "Cancelling" => p.cleanup_deadline <= last
              /\ p.tag = "CommitAttempted" => p.decide_by <= last
              /\ p.tag = "Terminal" => p.at <= last,
           CommitPhase(p) <=> CommitPhase(l.phase)
    PROVE  Good([l EXCEPT !.phase = p])
BY DEF Good, Fits, Leases

(* The phases a good, quiet lease may be moved to.                         *)
LEMMA Moves ==
    ASSUME NEW l, Good(l), NEW at \in Nat, Quiet(l, at)
    PROVE  /\ l.phase.tag = "Operating" =>
                /\ Good([l EXCEPT !.phase = Idle])
                /\ Good([l EXCEPT !.phase = Cancelling(at + cancel_grace, "Requested")])
                /\ at + cancel_grace <= MaxTime
           /\ l.phase.tag \in {"Idle", "Cancelling"} =>
                \A why \in RollbackReasons :
                   Good([l EXCEPT !.phase = Terminal(RolledBack(why), at)])
           /\ l.phase.tag = "CommitAttempted" =>
                \A o \in {Committed, CommitProvenAbsent, CommitIndeterminate} :
                   Good([l EXCEPT !.phase = Terminal(o, at)])
           /\ l.phase.tag = "Idle" => at + commit_wait <= MaxTime
<1>1. /\ l.phase \in Phases /\ l.deadline \in Nat
      /\ l.absolute_deadline \in Nat /\ Fits(l)
  BY DEF Good, Leases
<1> USE <1>1, LimitsAreNat, PhaseShapes DEF Quiet, Fits
<1>2. ASSUME l.phase.tag = "Operating"
      PROVE  /\ Good([l EXCEPT !.phase = Idle])
             /\ Good([l EXCEPT !.phase = Cancelling(at + cancel_grace, "Requested")])
             /\ at + cancel_grace <= MaxTime
  <2>1. /\ Idle \in Phases /\ Idle.tag = "Idle"
        /\ ~CommitPhase(Idle) /\ ~CommitPhase(l.phase)
    BY <1>2 DEF Idle, Phases, CommitPhase
  <2> DEFINE c == Cancelling(at + cancel_grace, "Requested")
  <2>2. /\ c \in Phases /\ ~CommitPhase(c) /\ c.tag = "Cancelling"
        /\ c.cleanup_deadline = at + cancel_grace
    BY DEF Cancelling, Phases, CommitPhase, CancelCauses
  <2>3. at + cancel_grace
          <= l.absolute_deadline + Greatest(cancel_grace, commit_wait)
    BY <1>2
  <2>4. at + cancel_grace <= MaxTime
    BY <2>3
  <2>5. Good([l EXCEPT !.phase = Idle])
    BY <2>1, MoveKeepsGood
  <2> HIDE DEF c
  <2>6. Good([l EXCEPT !.phase = c])
    BY <2>1, <2>2, <2>3, MoveKeepsGood
  <2> QED BY <2>4, <2>5, <2>6 DEF c
<1>3. ASSUME l.phase.tag \in {"Idle", "Cancelling"}, NEW why \in RollbackReasons
      PROVE  Good([l EXCEPT !.phase = Terminal(RolledBack(why), at)])
  <2> DEFINE t == Terminal(RolledBack(why), at)
  <2>1. /\ t \in Phases /\ t.tag = "Terminal" /\ t.at = at
        /\ ~CommitPhase(t) /\ ~CommitPhase(l.phase)
    BY <1>3 DEF Terminal, RolledBack, Phases, Outcomes, RolledBackOutcomes,
                CommitPhase, is_commit_attempt
  <2>2. at <= l.absolute_deadline + Greatest(cancel_grace, commit_wait)
    BY <1>3
  <2> HIDE DEF t
  <2> QED BY <2>1, <2>2, MoveKeepsGood DEF t
<1>4. ASSUME l.phase.tag = "CommitAttempted",
             NEW o \in {Committed, CommitProvenAbsent, CommitIndeterminate}
      PROVE  Good([l EXCEPT !.phase = Terminal(o, at)])
  <2> DEFINE t == Terminal(o, at)
  <2>1. /\ t \in Phases /\ t.tag = "Terminal" /\ t.at = at
        /\ CommitPhase(t) /\ CommitPhase(l.phase)
    BY <1>4 DEF Terminal, Committed, CommitProvenAbsent, CommitIndeterminate,
                Phases, Outcomes, CommitPhase, is_commit_attempt
  <2>2. at <= l.absolute_deadline + Greatest(cancel_grace, commit_wait)
    BY <1>4
  <2> HIDE DEF t
  <2> QED BY <2>1, <2>2, MoveKeepsGood DEF t
<1>5. l.phase.tag = "Idle" => at + commit_wait <= MaxTime
  OBVIOUS
<1> QED BY <1>2, <1>3, <1>4, <1>5

(* Every method maps a good lease to a good lease and never answers        *)
(* TimeOverflow.                                                           *)
GoodReply(reply) == Good(reply.l) /\ reply.r # "TimeOverflow"

(* A lease that Lease::begin accepts is good.                               *)
LEMMA BeginLeaseIsGood ==
    ASSUME NEW at \in Time, BeginFits(at)
    PROVE  Good(BeginLease(at))
BY LimitsAssumption, LimitsAreNat
DEF Good, Fits, Leases, BeginLease, BeginFits, Least, Idle, Phases, CommitPhase

(* Starting an operation on an idle lease.                                 *)
LEMMA OperateKeepsGood ==
    ASSUME NEW m, Good(m), m.phase.tag = "Idle"
    PROVE  Good([m EXCEPT !.op_seq = @ + 1, !.phase = Operating])
<1>1. /\ Operating \in Phases /\ Operating.tag = "Operating"
      /\ ~CommitPhase(Operating) /\ ~CommitPhase(m.phase)
  BY DEF Operating, Phases, CommitPhase
<1> DEFINE b == [m EXCEPT !.op_seq = @ + 1, !.phase = Operating]
           n == [m EXCEPT !.op_seq = @ + 1]
<1>2. /\ b \in Leases /\ b.phase = Operating
      /\ b.deadline = m.deadline /\ b.absolute_deadline = m.absolute_deadline
      /\ b.commit_attempted = m.commit_attempted
  <2>1. m \in Leases /\ m.op_seq \in Nat
    BY DEF Good, Leases
  <2>2. /\ n \in Leases /\ n.deadline = m.deadline
        /\ n.absolute_deadline = m.absolute_deadline
        /\ n.commit_attempted = m.commit_attempted
    BY <2>1 DEF Leases
  <2>3. b = [n EXCEPT !.phase = Operating]
    BY <2>1 DEF Leases
  <2> HIDE DEF n, b
  <2> QED BY <1>1, <2>2, <2>3 DEF Leases
<1> HIDE DEF b
<1>3. Good(b)
  BY <1>1, <1>2 DEF Good, Fits
<1> QED BY <1>3 DEF b

(* begin_operation keeps a lease good and issues a well-typed handle.       *)
LEMMA BeginOperationIsGood ==
    ASSUME NEW l, Good(l), NEW at \in Nat
    PROVE  /\ GoodReply(begin_operation(l, at))
           /\ begin_operation(l, at).l.op_seq \in Nat
           /\ begin_operation(l, at).l.generation \in Nat
<1> DEFINE e == enter(l, at)
           b == [e.l EXCEPT !.op_seq = @ + 1, !.phase = Operating]
<1>1. Good(e.l) /\ e.r \in {"Ok", "TimeRegression"}
  BY EnterIsGood, SMTT(30)
<1> HIDE DEF e
<1>2. e.l.phase.tag = "Idle" => Good(b)
  BY <1>1, OperateKeepsGood, Zenon
<1>3. begin_operation(l, at) \in {e, Reply(b, "Ok"), Reply(e.l, blocked(e.l))}
  BY DEF begin_operation, IfIdle, e
<1>4. begin_operation(l, at) = Reply(b, "Ok") => Good(b)
  BY <1>1, <1>2 DEF begin_operation, IfIdle, e, Reply, blocked
<1>5. GoodReply(begin_operation(l, at))
  BY <1>1, <1>3, <1>4 DEF GoodReply, Reply, blocked
<1> QED BY <1>5 DEF GoodReply, Good, Leases

(* finish_operation keeps a lease good, whatever handle it is given.        *)
LEMMA FinishOperationIsGood ==
    ASSUME NEW l, Good(l), NEW at \in Nat, NEW issued \in BOOLEAN, NEW seq \in Nat
    PROVE  GoodReply(finish_operation(l, at, issued, seq))
<1> DEFINE e == enter(l, at)
           reply == finish_operation(l, at, issued, seq)
           Back(why) == [e.l EXCEPT !.phase = Terminal(RolledBack(why), at)]
<1>1. /\ Good(e.l) /\ e.r \in {"Ok", "TimeRegression"}
      /\ e.r = "Ok" => Quiet(e.l, at)
  BY EnterIsGood
<1>2. e.l.phase \in Phases
  BY <1>1, Zenon DEF Good, Leases
<1>3. /\ e.r # "Ok" => reply = e
      /\ e.r = "Ok" /\ ~(issued /\ seq = e.l.op_seq) =>
           reply = Reply(e.l, "StaleHandle")
  BY Zenon DEF finish_operation
<1>4. ASSUME e.r = "Ok", issued, seq = e.l.op_seq
      PROVE  /\ e.l.phase.tag = "Operating" =>
                  reply = Reply([e.l EXCEPT !.phase = Idle], "Completed")
             /\ e.l.phase.tag = "Cancelling" =>
                  \E why \in {"Cancelled", "Expired"} :
                     reply = Reply(Back(why), "CancelledAcknowledged")
             /\ e.l.phase.tag \in {"Terminal", "Expired"} =>
                  reply = Reply(e.l, blocked(e.l))
             /\ e.l.phase.tag \in {"Idle", "CommitAttempted"} =>
                  reply = Reply(e.l, "StaleHandle")
  BY <1>4, Zenon DEF finish_operation
<1> HIDE DEF e, reply
<1>5. ASSUME e.r = "Ok", issued, seq = e.l.op_seq
      PROVE  GoodReply(reply)
  <2>1. CASE e.l.phase.tag = "Operating"
    <3>1. Good(e.l) /\ Quiet(e.l, at)
      BY <1>1, <1>5
    <3>2. Good([e.l EXCEPT !.phase = Idle])
      BY <3>1, <2>1, Moves, Zenon
    <3> QED BY <1>4, <1>5, <2>1, <3>2 DEF GoodReply, Reply
  <2>2. CASE e.l.phase.tag = "Cancelling"
    <3>1. PICK why \in {"Cancelled", "Expired"} :
             reply = Reply(Back(why), "CancelledAcknowledged")
      BY <1>4, <1>5, <2>2
    <3>2. \A y \in RollbackReasons : Good(Back(y))
      <4>1. Good(e.l) /\ Quiet(e.l, at)
        BY <1>1, <1>5
      <4>2. e.l.phase.tag \in {"Idle", "Cancelling"}
        BY <2>2
      <4> QED BY <4>1, <4>2, Moves, Zenon
    <3>3. Good(Back(why))
      BY <3>2 DEF RollbackReasons
    <3> HIDE DEF Back
    <3> QED BY <3>1, <3>3 DEF GoodReply, Reply
  <2>3. CASE e.l.phase.tag \in {"Terminal", "Expired", "Idle", "CommitAttempted"}
    BY <1>1, <1>4, <1>5, <2>3 DEF GoodReply, Reply, blocked
  <2> QED BY <1>2, <2>1, <2>2, <2>3, PhaseShapes
<1> QED BY <1>1, <1>3, <1>5 DEF GoodReply, Reply, reply

(* renew keeps a lease good: its grant is clamped.                          *)
LEMMA RenewIsGood ==
    ASSUME NEW l, Good(l), NEW at \in Nat, NEW expected \in Nat, NEW requested \in Nat
    PROVE  GoodReply(renew(l, at, expected, requested))
<1> DEFINE e == enter(l, at)
           until == Least(Least(at + Least(requested, max_extension), MaxTime),
                          e.l.absolute_deadline)
           n == [e.l EXCEPT !.generation = @ + 1, !.deadline = until]
           reply == renew(l, at, expected, requested)
<1>1. Good(e.l) /\ e.r \in {"Ok", "TimeRegression"}
  BY EnterIsGood
<1>2. \/ reply \in {e, Reply(e.l, blocked(e.l)), Reply(e.l, "StaleGeneration"),
                    Reply(e.l, "NoExtension")}
      \/ reply = Reply(n, "Ok")
  <2>1. until \in Nat /\ e.l.deadline \in Nat
    BY <1>1, LimitsAreNat DEF Least, Good, Leases
  <2>2. CASE e.r # "Ok" \/ e.l.phase.tag # "Idle"
    BY <2>2 DEF renew, IfIdle
  <2>3. CASE e.r = "Ok" /\ e.l.phase.tag = "Idle" /\ expected # e.l.generation
    BY <2>3 DEF renew, IfIdle
  <2>4. CASE /\ e.r = "Ok" /\ e.l.phase.tag = "Idle"
             /\ expected = e.l.generation /\ until <= e.l.deadline
    BY <2>1, <2>4 DEF renew, IfIdle
  <2>5. CASE /\ e.r = "Ok" /\ e.l.phase.tag = "Idle"
             /\ expected = e.l.generation /\ until > e.l.deadline
    BY <2>1, <2>5 DEF renew, IfIdle
  <2> HIDE DEF until, e, reply, n
  <2> QED BY <2>1, <2>2, <2>3, <2>4, <2>5
<1> HIDE DEF e
<1>3. Good(n)
  <2> DEFINE m == [e.l EXCEPT !.generation = @ + 1]
  <2>1. /\ e.l \in Leases /\ Fits(e.l) /\ e.l.generation \in Nat
        /\ e.l.absolute_deadline \in Nat
        /\ e.l.commit_attempted <=> CommitPhase(e.l.phase)
    BY <1>1 DEF Good, Leases
  <2>2. until \in Nat /\ until <= e.l.absolute_deadline
    BY <2>1, LimitsAreNat DEF Least
  <2> HIDE DEF until
  <2>3. m \in Leases /\ m = [e.l EXCEPT !.generation = m.generation]
    BY <2>1 DEF Leases
  <2>4. n = [m EXCEPT !.deadline = until]
    BY <2>1 DEF Leases
  <2>5. /\ n \in Leases /\ n.deadline = until /\ n.phase = e.l.phase
        /\ n.absolute_deadline = e.l.absolute_deadline
        /\ n.commit_attempted = e.l.commit_attempted
    <3> HIDE DEF m
    <3> QED BY <2>1, <2>2, <2>3, <2>4 DEF Leases
  <2> HIDE DEF n
  <2> QED BY <2>1, <2>2, <2>5 DEF Good, Fits
<1> HIDE DEF n, reply
<1> QED BY <1>1, <1>2, <1>3 DEF GoodReply, Reply, blocked, reply

(* request_cancel keeps a lease good in every phase.                        *)
LEMMA RequestCancelIsGood ==
    ASSUME NEW l, Good(l), NEW at \in Nat
    PROVE  GoodReply(request_cancel(l, at))
<1> DEFINE e == enter(l, at)
           reply == request_cancel(l, at)
           t == [e.l EXCEPT !.phase = Terminal(RolledBack("Cancelled"), at)]
           c == [e.l EXCEPT !.phase = Cancelling(at + cancel_grace, "Requested")]
<1>1. /\ Good(e.l) /\ e.r \in {"Ok", "TimeRegression"}
      /\ e.r = "Ok" => Quiet(e.l, at)
  BY EnterIsGood
<1>2. /\ e.r = "Ok" /\ e.l.phase.tag = "Idle" => Good(t)
      /\ e.r = "Ok" /\ e.l.phase.tag = "Operating" =>
           Good(c) /\ at + cancel_grace <= MaxTime
  <2>1. "Cancelled" \in RollbackReasons
    BY DEF RollbackReasons
  <2> QED BY <1>1, <2>1, Moves, Zenon
<1>3. reply =
        CASE e.r # "Ok" -> e
          [] e.r = "Ok" /\ e.l.phase.tag = "Idle" -> Reply(t, "Ok")
          [] e.r = "Ok" /\ e.l.phase.tag = "Operating" ->
               IF at + cancel_grace > MaxTime THEN Reply(e.l, "TimeOverflow")
               ELSE Reply(c, "Ok")
          [] e.r = "Ok" /\ (e.l.phase.tag = "Cancelling" \/ IsRolledBack(e.l.phase)) -> e
          [] OTHER -> Reply(e.l, blocked(e.l))
  BY Zenon DEF request_cancel
<1> HIDE DEF e, reply, t, c
<1>4. e.r # "Ok" => reply = e
  BY <1>3
<1>5. e.r = "Ok" /\ e.l.phase.tag = "Idle" => reply = Reply(t, "Ok")
  BY <1>3 DEF IsRolledBack
<1>6. /\ e.r = "Ok" /\ e.l.phase.tag = "Operating"
      /\ at + cancel_grace <= MaxTime
      => reply = Reply(c, "Ok")
  BY <1>3, LimitsAreNat DEF IsRolledBack
<1>7. e.r = "Ok" /\ e.l.phase.tag \notin {"Idle", "Operating"} =>
        reply \in {e, Reply(e.l, blocked(e.l))}
  BY <1>3 DEF IsRolledBack
<1> QED BY <1>1, <1>2, <1>4, <1>5, <1>6, <1>7 DEF GoodReply, Reply, blocked, reply

(* rollback and dropped keep a lease good.                                  *)
LEMMA RollBackIsGood ==
    ASSUME NEW l, Good(l), NEW at \in Nat, NEW why \in RollbackReasons
    PROVE  GoodReply(roll_back(l, at, why))
<1> DEFINE e == enter(l, at)
           reply == roll_back(l, at, why)
           t == [e.l EXCEPT !.phase = Terminal(RolledBack(why), at)]
<1>1. /\ Good(e.l) /\ e.r \in {"Ok", "TimeRegression"}
      /\ e.r = "Ok" => Quiet(e.l, at)
  BY EnterIsGood
<1>2. e.r = "Ok" /\ e.l.phase.tag = "Idle" => Good(t)
  BY <1>1, Moves, Zenon
<1>3. \/ reply \in {e, Reply(e.l, blocked(e.l))}
      \/ e.r = "Ok" /\ e.l.phase.tag = "Idle" /\ reply = Reply(t, "Ok")
  BY DEF roll_back, IfIdle
<1> HIDE DEF e, reply, t
<1> QED BY <1>1, <1>2, <1>3 DEF GoodReply, Reply, blocked, reply

(* Recording the commit attempt on an idle lease.                          *)
LEMMA AttemptKeepsGood ==
    ASSUME NEW m, Good(m), NEW at \in Nat, Quiet(m, at), m.phase.tag = "Idle"
    PROVE  Good([m EXCEPT !.phase = CommitAttempted(at + commit_wait),
                          !.commit_attempted = TRUE])
<1> DEFINE p == CommitAttempted(at + commit_wait)
           n == [m EXCEPT !.phase = p]
           b == [m EXCEPT !.phase = p, !.commit_attempted = TRUE]
<1>1. m \in Leases /\ Fits(m) /\ m.deadline \in Nat /\ m.absolute_deadline \in Nat
  BY DEF Good, Leases
<1>2. /\ p \in Phases /\ p.tag = "CommitAttempted" /\ CommitPhase(p)
      /\ p.decide_by <= m.absolute_deadline + Greatest(cancel_grace, commit_wait)
  BY <1>1, LimitsAreNat DEF CommitAttempted, Phases, CommitPhase, Fits, Quiet
<1> HIDE DEF p
<1>3. /\ n \in Leases /\ n.phase = p /\ n.deadline = m.deadline
      /\ n.absolute_deadline = m.absolute_deadline
  BY <1>1, <1>2 DEF Leases
<1>4. b = [n EXCEPT !.commit_attempted = TRUE]
  BY <1>1 DEF Leases
<1>5. /\ b \in Leases /\ b.phase = p /\ b.deadline = m.deadline
      /\ b.absolute_deadline = m.absolute_deadline /\ b.commit_attempted = TRUE
  <2> HIDE DEF n, b
  <2> QED BY <1>3, <1>4, Zenon DEF Leases
<1> HIDE DEF b
<1>6. Good(b)
  BY <1>1, <1>2, <1>5 DEF Good, Fits
<1> QED BY <1>6 DEF b, p

(* begin_commit keeps a lease good and its wait fits the clock.             *)
LEMMA BeginCommitIsGood ==
    ASSUME NEW l, Good(l), NEW at \in Nat
    PROVE  /\ GoodReply(begin_commit(l, at))
           /\ begin_commit(l, at).l.generation \in Nat
<1> DEFINE e == enter(l, at)
           reply == begin_commit(l, at)
           b == [e.l EXCEPT !.phase = CommitAttempted(at + commit_wait),
                            !.commit_attempted = TRUE]
<1>1. /\ Good(e.l) /\ e.r \in {"Ok", "TimeRegression"}
      /\ e.r = "Ok" => Quiet(e.l, at)
  BY EnterIsGood
<1>2. e.r = "Ok" /\ e.l.phase.tag = "Idle" =>
        Good(b) /\ at + commit_wait <= MaxTime
  BY <1>1, AttemptKeepsGood, Moves, Zenon
<1>3. \/ reply \in {e, Reply(e.l, blocked(e.l))}
      \/ /\ e.r = "Ok" /\ e.l.phase.tag = "Idle"
         /\ at + commit_wait <= MaxTime => reply = Reply(b, "Ok")
  BY LimitsAreNat DEF begin_commit, IfIdle
<1> HIDE DEF e, reply, b
<1>4. GoodReply(reply)
  BY <1>1, <1>2, <1>3 DEF GoodReply, Reply, blocked
<1> QED BY <1>4 DEF GoodReply, Good, Leases, reply
(* finish_commit keeps a lease good, whatever attempt and result it is given. *)
LEMMA FinishCommitIsGood ==
    ASSUME NEW l, Good(l), NEW at \in Nat, NEW issued \in BOOLEAN,
           NEW result \in CommitResults
    PROVE  GoodReply(finish_commit(l, at, issued, result))
<1> DEFINE e == enter(l, at)
           reply == finish_commit(l, at, issued, result)
           os == {Committed, CommitProvenAbsent, CommitIndeterminate}
           Ended(o) == [e.l EXCEPT !.phase = Terminal(o, at)]
<1>1. /\ Good(e.l) /\ e.r \in {"Ok", "TimeRegression"}
      /\ e.r = "Ok" => Quiet(e.l, at)
  BY EnterIsGood
<1>2. \/ reply \in {e, Reply(e.l, blocked(e.l)), Reply(e.l, "StaleHandle")}
      \/ /\ e.r = "Ok" /\ e.l.phase.tag = "CommitAttempted"
         /\ \E o \in os : reply = Reply(Ended(o), "Ok")
  <2>1. CASE e.r # "Ok"
    BY <2>1 DEF finish_commit
  <2>2. CASE e.r = "Ok" /\ issued /\ e.l.phase.tag = "CommitAttempted"
    BY <2>2 DEF finish_commit, CommitResults
  <2>3. CASE e.r = "Ok" /\ ~(issued /\ e.l.phase.tag = "CommitAttempted")
    BY <2>3 DEF finish_commit
  <2> QED BY <2>1, <2>2, <2>3
<1> HIDE DEF e, reply
<1>3. CASE reply \in {e, Reply(e.l, blocked(e.l)), Reply(e.l, "StaleHandle")}
  BY <1>1, <1>3 DEF GoodReply, Reply, blocked, reply
<1>4. CASE /\ e.r = "Ok" /\ e.l.phase.tag = "CommitAttempted"
           /\ \E o \in os : reply = Reply(Ended(o), "Ok")
  <2>1. \A o \in os : Good(Ended(o))
    BY <1>1, <1>4, Moves, Zenon
  <2> HIDE DEF Ended, os
  <2> QED BY <1>4, <2>1 DEF GoodReply, Reply, reply
<1> QED BY <1>2, <1>3, <1>4

(* response_lost only marks the lease.                                      *)
LEMMA ResponseLostIsGood ==
    ASSUME NEW l, Good(l), NEW at \in Nat
    PROVE  GoodReply(response_lost(l, at))
<1> DEFINE e == enter(l, at)
           n == [e.l EXCEPT !.response_lost = TRUE]
<1>1. Good(e.l) /\ e.r \in {"Ok", "TimeRegression"}
  BY EnterIsGood
<1>2. response_lost(l, at) \in {e, Reply(n, "Ok")}
  BY DEF response_lost
<1> HIDE DEF e
<1>3. Good(n)
  <2>1. e.l \in Leases
    BY <1>1 DEF Good
  <2>2. /\ n \in Leases /\ n.phase = e.l.phase /\ n.deadline = e.l.deadline
        /\ n.absolute_deadline = e.l.absolute_deadline
        /\ n.commit_attempted = e.l.commit_attempted
    BY <2>1, Zenon DEF Leases
  <2> HIDE DEF n
  <2> QED BY <1>1, <2>2 DEF Good, Fits
<1> HIDE DEF n
<1> QED BY <1>1, <1>2, <1>3 DEF GoodReply, Reply
(* Settling what is known of a terminal commit attempt.                    *)
LEMMA ResolveKeepsGood ==
    ASSUME NEW m, Good(m), m.phase.tag = "Terminal",
           is_commit_attempt(m.phase.outcome),
           NEW o \in {Committed, CommitProvenAbsent, m.phase.outcome}
    PROVE  Good([m EXCEPT !.phase.outcome = o])
<1> DEFINE q == Terminal(o, m.phase.at)
<1>1. m \in Leases /\ m.phase \in Phases /\ Fits(m)
  BY DEF Good, Leases
<1>2. m.phase \in [tag : {"Terminal"}, outcome : Outcomes, at : Nat]
  BY <1>1 DEF Phases
<1>3. o \in Outcomes /\ is_commit_attempt(o)
  BY <1>2 DEF Outcomes, Committed, CommitProvenAbsent, is_commit_attempt
<1>4. [m.phase EXCEPT !.outcome = o] = q
  BY <1>2, <1>3 DEF Terminal
<1>5. [m EXCEPT !.phase.outcome = o] = [m EXCEPT !.phase = q]
  <2> HIDE DEF q
  <2> QED BY <1>1, <1>4, Zenon DEF Leases
<1>6. /\ q \in Phases /\ q.tag = "Terminal" /\ q.at = m.phase.at
      /\ CommitPhase(q) /\ CommitPhase(m.phase)
  <2>1. q \in Phases
    BY <1>2, <1>3 DEF Terminal, Phases
  <2> QED BY <2>1, <1>3 DEF Terminal, CommitPhase
<1>7. m.phase.at <= m.absolute_deadline + Greatest(cancel_grace, commit_wait)
  BY <1>1 DEF Fits
<1> HIDE DEF q
<1>8. Good([m EXCEPT !.phase = q])
  BY <1>6, <1>7, MoveKeepsGood
<1> QED BY <1>5, <1>8

(* resolve_indeterminate keeps a lease good, whatever the lookup says.      *)
LEMMA ResolveIndeterminateIsGood ==
    ASSUME NEW l, Good(l), NEW at \in Nat, NEW external \in ExternalOutcomes
    PROVE  GoodReply(resolve_indeterminate(l, at, external))
<1> DEFINE e == enter(l, at)
           reply == resolve_indeterminate(l, at, external)
           o == Resolved(e.l.phase.outcome, external)
           n == [e.l EXCEPT !.phase.outcome = o]
<1>1. Good(e.l) /\ e.r \in {"Ok", "TimeRegression"}
  BY EnterIsGood
<1>2. \/ reply \in {e, Reply(e.l, "Expired"), Reply(e.l, "NotIndeterminate"),
                    Reply(e.l, "ConflictingResolution")}
      \/ /\ e.r = "Ok" /\ e.l.phase.tag = "Terminal"
         /\ is_commit_attempt(e.l.phase.outcome)
         /\ reply = Reply(n, "Ok")
  <2>1. CASE e.r # "Ok" \/ e.l.phase.tag # "Terminal"
    BY <2>1 DEF resolve_indeterminate
  <2>2. CASE e.r = "Ok" /\ e.l.phase.tag = "Terminal"
    <3>1. CASE ~is_commit_attempt(e.l.phase.outcome)
      <4>1. ~Conflicts(e.l.phase.outcome, external)
        BY <3>1 DEF is_commit_attempt, Conflicts
      <4> QED BY <2>2, <3>1, <4>1, <1>1 DEF resolve_indeterminate
    <3>2. CASE is_commit_attempt(e.l.phase.outcome)
      BY <2>2, <3>2 DEF resolve_indeterminate
    <3> QED BY <3>1, <3>2
  <2> QED BY <1>1, <2>1, <2>2
<1>3. o \in {Committed, CommitProvenAbsent, e.l.phase.outcome}
  BY DEF Resolved
<1> HIDE DEF e, reply, o
<1>4. CASE reply \in {e, Reply(e.l, "Expired"), Reply(e.l, "NotIndeterminate"),
                      Reply(e.l, "ConflictingResolution")}
  BY <1>1, <1>4 DEF GoodReply, Reply, reply
<1>5. CASE /\ e.l.phase.tag = "Terminal"
           /\ is_commit_attempt(e.l.phase.outcome)
           /\ reply = Reply(n, "Ok")
  <2>1. Good(n)
    BY <1>1, <1>3, <1>5, ResolveKeepsGood, Zenon
  <2> HIDE DEF n
  <2> QED BY <1>5, <2>1 DEF GoodReply, Reply, reply
<1> QED BY <1>2, <1>4, <1>5
-----------------------------------------------------------------------------
(* The inductive invariant: the types, and a good lease.  TypeOK alone is   *)
(* not inductive, for the deadlines a method sets would be unbounded.       *)
LeaseInv == TypeOK /\ Good(lease)

(* The invariant holds of the first lease.                                 *)
LEMMA InitIsGood == Init => LeaseInv
<1> SUFFICES ASSUME Init PROVE LeaseInv
  OBVIOUS
<1>1. Good(lease)
  BY BeginLeaseIsGood DEF Init
<1>2. TypeOK
  BY <1>1, Zenon DEF Init, TypeOK, Good, RestartRecords
<1> QED BY <1>1, <1>2 DEF LeaseInv

(* A call that only moves the lease keeps the invariant.                   *)
LEMMA KeepIsGood ==
    ASSUME NEW reply, LeaseInv, Keep(reply), GoodReply(reply)
    PROVE  LeaseInv'
<1>1. Good(lease')
  BY DEF Keep, GoodReply
<1>2. TypeOK'
  BY <1>1 DEF LeaseInv, TypeOK, Keep, Good
<1> QED BY <1>1, <1>2 DEF LeaseInv, Good, Fits

(* Every call, whatever time and handle it carries, keeps the invariant.   *)
LEMMA NextIsGood == LeaseInv /\ [Next]_vars => LeaseInv'
<1> SUFFICES ASSUME LeaseInv, [Next]_vars PROVE LeaseInv'
  OBVIOUS
<1>0. TypeOK /\ Good(lease)
  BY DEF LeaseInv
<1>t. \A at \in Time : at \in Nat
  BY LimitsAreNat
<1>1. CASE UNCHANGED vars
  BY <1>0, <1>1 DEF vars, LeaseInv, TypeOK, Good, Fits
<1>2. ASSUME NEW at \in Time,
             \/ Observe(at) \/ RequestCancel(at) \/ Rollback(at)
             \/ Dropped(at) \/ ResponseLost(at)
      PROVE  LeaseInv'
  <2>1. GoodReply(observe(lease, at))
    <3>1. at \in Nat
      BY <1>t
    <3>2. Good(enter(lease, at).l) /\ enter(lease, at).r \in {"Ok", "TimeRegression"}
      BY <1>0, <3>1, EnterIsGood, Zenon
    <3> QED BY <3>2 DEF observe, GoodReply
  <2>2. /\ GoodReply(request_cancel(lease, at))
        /\ GoodReply(rollback(lease, at))
        /\ GoodReply(dropped(lease, at))
        /\ GoodReply(response_lost(lease, at))
    BY <1>0, RequestCancelIsGood, RollBackIsGood, ResponseLostIsGood, LimitsAreNat
    DEF rollback, dropped, RollbackReasons
  <2> QED
    BY <1>2, <2>1, <2>2, KeepIsGood
    DEF Observe, RequestCancel, Rollback, Dropped, ResponseLost
<1>3. ASSUME NEW at \in Time, NEW expected \in 1..lease.generation,
             NEW requested \in Extensions, Renew(at, expected, requested)
      PROVE  LeaseInv'
  <2>1. lease.generation \in Nat
    BY <1>0 DEF Good, Leases
  <2>2. GoodReply(renew(lease, at, expected, requested))
    BY <1>0, <2>1, RenewIsGood, LimitsAreNat, BoundsAssumption
  <2> QED BY <1>3, <2>2, KeepIsGood DEF Renew
<1>4. ASSUME NEW at \in Time, NEW external \in ExternalOutcomes,
             ResolveIndeterminate(at, external)
      PROVE  LeaseInv'
  BY <1>0, <1>4, ResolveIndeterminateIsGood, KeepIsGood, LimitsAreNat
  DEF ResolveIndeterminate
<1>5. ASSUME NEW at \in Time, BeginOperation(at)
      PROVE  LeaseInv'
  <2>1. /\ Good(begin_operation(lease, at).l)
        /\ begin_operation(lease, at).l.op_seq \in Nat
        /\ begin_operation(lease, at).l.generation \in Nat
    <3>1. at \in Nat
      BY <1>t, Zenon
    <3> QED BY <1>0, <3>1, BeginOperationIsGood, Zenon DEF GoodReply
  <2>2. Good(lease')
    BY <1>5, <2>1 DEF BeginOperation
  <2>3. ops' \subseteq Handles /\ ops \subseteq ops'
    <3>1. ops \subseteq Handles /\ instance \in Nat
      BY <1>0 DEF TypeOK
    <3> QED BY <1>5, <2>1, <3>1 DEF BeginOperation, Handles
  <2>4. TypeOK'
    BY <1>0, <1>5, <2>2, <2>3, Zenon DEF BeginOperation, TypeOK, Good
  <2> QED BY <2>2, <2>4 DEF LeaseInv, Good, Fits
<1>6. ASSUME NEW at \in Time, NEW h \in ops, FinishOperation(at, h)
      PROVE  LeaseInv'
  <2>1. Issued(h) \in BOOLEAN /\ h.seq \in Nat
    BY <1>0 DEF Issued, TypeOK, Handles
  <2>2. Good(finish_operation(lease, at, Issued(h), h.seq).l)
    <3>1. at \in Nat
      BY <1>t
    <3> QED BY <1>0, <2>1, <3>1, FinishOperationIsGood, Zenon DEF GoodReply
  <2>3. Good(lease')
    BY <1>6, <2>2 DEF FinishOperation
  <2>4. TypeOK'
    BY <1>0, <1>6, <2>3 DEF FinishOperation, TypeOK, Good
  <2> QED BY <2>3, <2>4 DEF LeaseInv, Good, Fits
<1>7. ASSUME NEW at \in Time, BeginCommit(at)
      PROVE  LeaseInv'
  <2>1. /\ Good(begin_commit(lease, at).l)
        /\ begin_commit(lease, at).l.generation \in Nat
    <3>1. at \in Nat
      BY <1>t
    <3> QED BY <1>0, <3>1, BeginCommitIsGood, Zenon DEF GoodReply
  <2>2. Good(lease')
    BY <1>7, <2>1 DEF BeginCommit
  <2>3. attempts' \subseteq Attempts /\ attempts \subseteq attempts'
    <3>1. attempts \subseteq Attempts /\ instance \in Nat
      BY <1>0 DEF TypeOK
    <3> QED BY <1>7, <2>1, <3>1 DEF BeginCommit, Attempts
  <2>4. TypeOK'
    BY <1>0, <1>7, <2>2, <2>3, Zenon DEF BeginCommit, TypeOK, Good
  <2> QED BY <2>2, <2>4 DEF LeaseInv, Good, Fits
<1>8. ASSUME NEW at \in Time, NEW a \in attempts, NEW result \in CommitResults,
             FinishCommit(at, a, result)
      PROVE  LeaseInv'
  <2>1. Issued(a) \in BOOLEAN
    BY DEF Issued
  <2>2. Good(finish_commit(lease, at, Issued(a), result).l)
    BY <1>0, <2>1, FinishCommitIsGood, LimitsAreNat DEF GoodReply
  <2>3. Good(lease')
    BY <1>8, <2>2 DEF FinishCommit
  <2>4. results' \subseteq attempts \X CommitResults
    BY <1>0, <1>8 DEF FinishCommit, TypeOK
  <2>5. TypeOK'
    BY <1>0, <1>8, <2>3, <2>4 DEF FinishCommit, TypeOK, Good
  <2> QED BY <2>3, <2>5 DEF LeaseInv, Good, Fits
<1>9. CASE Restart
  <2>1. restart(lease) \in RestartRecords
    BY Zenon DEF restart, RestartRecords, ExternalOutcomes
  <2> QED BY <1>0, <1>9, <2>1, Zenon DEF Restart, LeaseInv, TypeOK, Good, Fits
<1>10. ASSUME NEW at \in Time, Begin(at)
       PROVE  LeaseInv'
  <2>1. Good(lease')
    BY <1>10, BeginLeaseIsGood DEF Begin
  <2>2. TypeOK'
    BY <1>0, <1>10, <2>1 DEF Begin, TypeOK, Good
  <2> QED BY <2>1, <2>2 DEF LeaseInv, Good, Fits
<1> QED
  BY <1>1, <1>2, <1>3, <1>4, <1>5, <1>6, <1>7, <1>8, <1>9, <1>10 DEF Next

(* In every reachable state the invariant holds.                           *)
LEMMA Invariance == Spec => []LeaseInv
BY InitIsGood, NextIsGood, PTL DEF Spec

(* The lease, its handles and its restart record keep their types through  *)
(* every sequence of calls and restarts.                                   *)
THEOREM TypesAreKept == Spec => []TypeOK
BY Invariance, PTL DEF LeaseInv

(* No deadline a lease sets ever leaves the chain that Lease::begin        *)
(* checked against the clock.                                              *)
THEOREM TimersAlwaysFit == Spec => []TimersFit
<1>1. LeaseInv => TimersFit
  BY DEF LeaseInv, Good, TimersFit
<1> QED BY <1>1, Invariance, PTL

(* The overflow check of Lease::begin covers the life of the lease: no     *)
(* later call answers TimeOverflow, whatever the limits and the clock.     *)
THEOREM BeginCoversOverflow == Spec => []NoLaterOverflow
<1>1. LeaseInv => NoLaterOverflow
  <2> SUFFICES ASSUME LeaseInv, NEW at \in Time
               PROVE  /\ observe(lease, at).r # "TimeOverflow"
                      /\ request_cancel(lease, at).r # "TimeOverflow"
                      /\ begin_commit(lease, at).r # "TimeOverflow"
    BY DEF NoLaterOverflow
  <2>1. Good(lease) /\ at \in Nat
    BY LimitsAreNat DEF LeaseInv
  <2> QED
    BY <2>1, EnterIsGood, RequestCancelIsGood, BeginCommitIsGood, Zenon
    DEF observe, GoodReply
<1> QED BY <1>1, Invariance, PTL

(* Once begin_commit succeeded the lease is never rolled back, and without *)
(* it no commit outcome appears.                                           *)
THEOREM AttemptDecides == Spec => []AttemptIsNeverRolledBack
<1>1. LeaseInv => AttemptIsNeverRolledBack
  BY DEF LeaseInv, Good, AttemptIsNeverRolledBack
<1> QED BY <1>1, Invariance, PTL

-----------------------------------------------------------------------------
(* What the passing of time alone makes of a phase.                        *)
Ages(p, q) ==
    \/ q = p
    \/ p.tag = "Operating" /\ q.tag = "Cancelling"
    \/ /\ p.tag \in {"Idle", "Operating", "Cancelling"}
       /\ \/ q.tag = "Terminal" /\ ~is_commit_attempt(q.outcome)
          \/ q = Expired(FALSE)
    \/ /\ p.tag = "CommitAttempted"
       /\ \/ q.tag = "Terminal" /\ q.outcome = CommitIndeterminate
          \/ q = Expired(TRUE)
    \/ p.tag = "Terminal" /\ q = Expired(is_commit_attempt(p.outcome))

(* What a definite outcome, an expired lease and a cancelling one may      *)
(* still become: the matrix of OutcomeIsFinal.                             *)
Final(p, q) ==
    /\ p.tag = "Terminal" =>
         \/ q = p
         \/ q = Expired(is_commit_attempt(p.outcome))
         \/ /\ p.outcome = CommitIndeterminate
            /\ \E o \in {Committed, CommitProvenAbsent} : q = Terminal(o, p.at)
    /\ p.tag = "Expired" => q = p
    /\ p.tag = "Cancelling" => q = p \/ q.tag \in {"Terminal", "Expired"}

(* A call that begins and ends nothing on behalf of a handle.              *)
Calm(l, m) ==
    /\ m.op_seq = l.op_seq /\ m.commit_attempted = l.commit_attempted
    /\ m.phase.tag \in {"Idle", "Operating", "CommitAttempted"} => m.phase.tag = l.phase.tag
    /\ Final(l.phase, m.phase)

(* The tags of the phases, and which outcomes are of a commit.             *)
LEMMA PhaseTags ==
    /\ Idle.tag = "Idle" /\ Operating.tag = "Operating"
    /\ \A by, why : Cancelling(by, why).tag = "Cancelling"
    /\ \A by : CommitAttempted(by).tag = "CommitAttempted"
    /\ \A o, at : /\ Terminal(o, at).tag = "Terminal"
                  /\ Terminal(o, at).outcome = o /\ Terminal(o, at).at = at
    /\ \A b : Expired(b).tag = "Expired" /\ Expired(b).attempted = b
    /\ \A why : ~is_commit_attempt(RolledBack(why)) /\ ~is_commit_attempt(CleanupOverdue(why))
    /\ is_commit_attempt(Committed) /\ is_commit_attempt(CommitProvenAbsent)
    /\ is_commit_attempt(CommitIndeterminate)
    /\ CommitIndeterminate # Committed /\ CommitIndeterminate # CommitProvenAbsent
    /\ Committed # CommitProvenAbsent
BY DEF Idle, Operating, Cancelling, CommitAttempted, Terminal, Expired, RolledBack,
       CleanupOverdue, Committed, CommitProvenAbsent, CommitIndeterminate, is_commit_attempt

(* Ageing and ageing on is ageing.                                         *)
LEMMA AgesOn ==
    ASSUME NEW p \in Phases, NEW q \in Phases, NEW r \in Phases, Ages(p, q), Ages(q, r)
    PROVE  Ages(p, r)
<1>1. /\ \A b : Expired(b).tag = "Expired"
      /\ is_commit_attempt(CommitIndeterminate)
      /\ \A o : is_commit_attempt(o) \in BOOLEAN
  BY PhaseTags DEF is_commit_attempt
<1>2. CASE q = p
  BY <1>2
<1>3. CASE q.tag = "Cancelling" /\ p.tag = "Operating"
  BY <1>3, Zenon DEF Ages
<1>4. CASE q.tag = "Expired"
  BY <1>4, Zenon DEF Ages
<1>5. CASE q.tag = "Terminal" /\ q # p
  <2>1. r = q \/ r = Expired(is_commit_attempt(q.outcome))
    BY <1>5 DEF Ages
  <2>2. CASE p.tag = "CommitAttempted"
    BY <1>1, <1>5, <2>1, <2>2, Zenon DEF Ages
  <2>3. CASE p.tag # "CommitAttempted"
    <3>1. p.tag \in {"Idle", "Operating", "Cancelling"} /\ ~is_commit_attempt(q.outcome)
      BY <1>1, <1>5, <2>3, Zenon DEF Ages
    <3>2. is_commit_attempt(q.outcome) = FALSE
      BY <1>1, <3>1
    <3> QED BY <2>1, <3>1, <3>2, Zenon DEF Ages
  <2> QED BY <2>2, <2>3
<1> QED BY <1>1, <1>2, <1>3, <1>4, <1>5, Zenon DEF Ages

(* One pass of `settle` ages the phase.                                    *)
LEMMA SettleStepAges ==
    ASSUME NEW l, Good(l), NEW now \in Nat
    PROVE  Ages(l.phase, SettleStep(l, now).phase)
<1> DEFINE p == l.phase
           q == SettledPhase(l, now)
<1>1. l \in Leases /\ p \in Phases
  BY DEF Good, Leases
<1>2. SettleStep(l, now).phase = q
  BY <1>1, SettleStepKeepsGood, Zenon DEF SettleStep, Leases
<1> HIDE DEF q
<1>3. Ages(p, q)
  <2>1. CASE p.tag = "Idle"
    <3>1. q = p \/ q = Terminal(RolledBack("Expired"), l.deadline)
      BY <2>1 DEF SettledPhase, q
    <3>2. q = p \/ (q.tag = "Terminal" /\ ~is_commit_attempt(q.outcome))
      BY <3>1 DEF Terminal, RolledBack, is_commit_attempt
    <3> QED BY <2>1, <3>2, Zenon DEF Ages
  <2>2. CASE p.tag = "Operating"
    <3>1. q = p \/ q = Cancelling(l.deadline + cancel_grace, "Expiry")
      BY <2>2 DEF SettledPhase, q
    <3>2. q = p \/ q.tag = "Cancelling"
      BY <3>1 DEF Cancelling
    <3> QED BY <2>2, <3>2, Zenon DEF Ages
  <2>3. CASE p.tag = "Cancelling"
    <3>1. q = p \/ q = Terminal(CleanupOverdue(p.cause), p.cleanup_deadline)
      BY <2>3 DEF SettledPhase, q
    <3>2. q = p \/ (q.tag = "Terminal" /\ ~is_commit_attempt(q.outcome))
      BY <3>1 DEF Terminal, CleanupOverdue, is_commit_attempt
    <3> QED BY <2>3, <3>2, Zenon DEF Ages
  <2>4. CASE p.tag = "CommitAttempted"
    <3>1. q = p \/ q = Terminal(CommitIndeterminate, p.decide_by)
      BY <2>4 DEF SettledPhase, q
    <3>2. q = p \/ (q.tag = "Terminal" /\ q.outcome = CommitIndeterminate)
      BY <3>1 DEF Terminal
    <3> QED BY <2>4, <3>2, Zenon DEF Ages
  <2>5. CASE p.tag = "Terminal"
    BY <2>5 DEF SettledPhase, q, Ages
  <2>6. CASE p.tag = "Expired"
    BY <2>6 DEF SettledPhase, q, Ages
  <2> QED BY <1>1, <2>1, <2>2, <2>3, <2>4, <2>5, <2>6, PhaseShapes
<1> QED BY <1>2, <1>3 DEF q

(* So does the entry of every method, which touches nothing else that the  *)
(* handles depend on.                                                      *)
LEMMA EnterAges ==
    ASSUME NEW l, Good(l), NEW at \in Nat
    PROVE  /\ Ages(l.phase, enter(l, at).l.phase)
           /\ enter(l, at).l.op_seq = l.op_seq
           /\ enter(l, at).l.commit_attempted = l.commit_attempted
<1> DEFINE m == [l EXCEPT !.last_seen = at]
           a == SettleStep(m, at)
           b == SettleStep(a, at)
           c == SettleStep(b, at)
<1>1. Good(m) /\ m \in Leases /\ m.phase = l.phase /\ m.op_seq = l.op_seq
      /\ m.commit_attempted = l.commit_attempted
  BY DEF Good, Fits, Leases
<1> HIDE DEF m
<1>2. Good(a) /\ a = [m EXCEPT !.phase = a.phase] /\ Ages(m.phase, a.phase)
  BY <1>1, SettleStepKeepsGood, SettleStepAges
<1> HIDE DEF a
<1>3. Good(b) /\ b = [a EXCEPT !.phase = b.phase] /\ Ages(a.phase, b.phase)
  BY <1>2, SettleStepKeepsGood, SettleStepAges
<1> HIDE DEF b
<1>4. Good(c) /\ c = [b EXCEPT !.phase = c.phase] /\ Ages(b.phase, c.phase)
  BY <1>3, SettleStepKeepsGood, SettleStepAges
<1> HIDE DEF c
<1>5. /\ m \in Leases /\ a \in Leases /\ b \in Leases /\ c \in Leases
      /\ m.phase \in Phases /\ a.phase \in Phases /\ b.phase \in Phases /\ c.phase \in Phases
  BY <1>1, <1>2, <1>3, <1>4 DEF Good, Leases
<1>6. Ages(l.phase, c.phase)
  BY <1>1, <1>2, <1>3, <1>4, <1>5, AgesOn
<1>7. c.op_seq = l.op_seq /\ c.commit_attempted = l.commit_attempted
  BY <1>1, <1>2, <1>3, <1>4, <1>5 DEF Leases
<1>8. CASE at < l.last_seen
  <2>1. enter(l, at).l = l
    BY <1>8 DEF enter, Reply
  <2> QED BY <2>1 DEF Ages
<1>9. CASE ~(at < l.last_seen)
  <2>1. enter(l, at).l = c
    BY <1>9 DEF enter, Reply, settle, a, b, c, m
  <2> QED BY <1>6, <1>7, <2>1
<1> QED BY <1>8, <1>9


(* Ageing is calm, and so is one calm change after another.                *)
LEMMA AgesIsCalm ==
    ASSUME NEW l, Good(l), NEW m, Good(m), Ages(l.phase, m.phase),
           m.op_seq = l.op_seq, m.commit_attempted = l.commit_attempted
    PROVE  Calm(l, m)
<1> DEFINE p == l.phase
           q == m.phase
<1>1. p \in Phases /\ q \in Phases
  BY DEF Good, Leases
<1>2. \A b : Expired(b).tag = "Expired"
  BY DEF Expired
<1> HIDE DEF p, q
<1>3. Final(p, q)
  BY <1>1, <1>2, PhaseShapes, Zenon DEF Ages, Final, p, q
<1>4. q.tag \in {"Idle", "Operating", "CommitAttempted"} => q.tag = p.tag
  BY <1>1, <1>2, PhaseShapes, Zenon DEF Ages, p, q
<1> QED BY <1>3, <1>4 DEF Calm, p, q

(* What one step may do to an outcome, two steps in a row may do as well.  *)
LEMMA FinalOn ==
    ASSUME NEW p \in Phases, NEW q \in Phases, NEW r \in Phases, Final(p, q), Final(q, r)
    PROVE  Final(p, r)
<1>1. /\ \A b : Expired(b).tag = "Expired"
      /\ \A o, at : Terminal(o, at).tag = "Terminal" /\ Terminal(o, at).outcome = o
  BY DEF Expired, Terminal
<1>2. /\ is_commit_attempt(CommitIndeterminate) = TRUE
      /\ is_commit_attempt(Committed) = TRUE /\ is_commit_attempt(CommitProvenAbsent) = TRUE
      /\ CommitIndeterminate # Committed /\ CommitIndeterminate # CommitProvenAbsent
  BY DEF is_commit_attempt, CommitIndeterminate, Committed, CommitProvenAbsent
<1>3. CASE p.tag = "Terminal"
  <2>1. CASE q = p
    BY <2>1
  <2>2. CASE q = Expired(is_commit_attempt(p.outcome))
    BY <1>1, <1>3, <2>2 DEF Final
  <2>3. ASSUME p.outcome = CommitIndeterminate, NEW o \in {Committed, CommitProvenAbsent},
               q = Terminal(o, p.at)
        PROVE  Final(p, r)
    <3>1. q.tag = "Terminal" /\ q.outcome = o
      BY <1>1, <2>3
    <3>2. r = q \/ r = Expired(TRUE)
      BY <1>2, <3>1, Zenon DEF Final
    <3> QED BY <1>2, <1>3, <2>3, <3>2, Zenon DEF Final
  <2> QED BY <1>3, <2>1, <2>2, <2>3 DEF Final
<1>4. CASE p.tag = "Expired"
  BY <1>4 DEF Final
<1>5. CASE p.tag = "Cancelling"
  <2>1. q = p \/ q.tag \in {"Terminal", "Expired"}
    BY <1>5 DEF Final
  <2>2. q.tag \in {"Terminal", "Expired"} => r.tag \in {"Terminal", "Expired"}
    BY <1>1 DEF Final
  <2> QED BY <1>5, <2>1, <2>2 DEF Final
<1> QED BY <1>3, <1>4, <1>5 DEF Final

(* Two calm steps in a row are a calm step.                                *)
LEMMA CalmOn ==
    ASSUME NEW l, Good(l), NEW m, Good(m), NEW n, Good(n), Calm(l, m), Calm(m, n)
    PROVE  Calm(l, n)
<1>1. l.phase \in Phases /\ m.phase \in Phases /\ n.phase \in Phases
  BY DEF Good, Leases
<1>2. Final(l.phase, n.phase)
  BY <1>1, FinalOn, Zenon DEF Calm
<1> QED BY <1>2 DEF Calm

(* What every method finds after `enter`.                                  *)
LEMMA EntersCalmly ==
    ASSUME NEW l, Good(l), NEW at \in Nat
    PROVE  LET e == enter(l, at) IN
           /\ Good(e.l) /\ e.l \in Leases /\ e.l.phase \in Phases
           /\ e.r \in {"Ok", "TimeRegression"}
           /\ Calm(l, e.l)
<1> DEFINE e == enter(l, at)
<1>1. Good(e.l) /\ e.r \in {"Ok", "TimeRegression"}
  BY EnterIsGood
<1>2. /\ Ages(l.phase, e.l.phase) /\ e.l.op_seq = l.op_seq
      /\ e.l.commit_attempted = l.commit_attempted
  BY EnterAges
<1> HIDE DEF e
<1>3. Calm(l, e.l)
  BY <1>1, <1>2, AgesIsCalm
<1> QED BY <1>1, <1>3 DEF Good, Leases, e

(* Moving the phase moves nothing else.                                    *)
LEMMA MoveIsCalm ==
    ASSUME NEW l, Good(l), NEW m, Good(m), Calm(l, m), NEW p \in Phases,
           p.tag \in {"Idle", "Operating", "CommitAttempted"} => p.tag = m.phase.tag,
           Final(m.phase, p)
    PROVE  Calm(l, [m EXCEPT !.phase = p])
<1> DEFINE n == [m EXCEPT !.phase = p]
<1>1. m \in Leases /\ m.phase \in Phases /\ l.phase \in Phases
  BY DEF Good, Leases
<1>2. n.phase = p /\ n.op_seq = m.op_seq /\ n.commit_attempted = m.commit_attempted
  BY <1>1, Zenon DEF Leases
<1> HIDE DEF n
<1>3. Final(l.phase, m.phase)
  BY DEF Calm
<1>4. Final(l.phase, n.phase)
  BY <1>1, <1>2, <1>3, FinalOn
<1> QED BY <1>2, <1>4 DEF Calm, n


-----------------------------------------------------------------------------
(* What each method makes of the lease, as far as handles depend on it.    *)

(* begin_operation opens an operation on an idle lease, or nothing.        *)
LEMMA BeginOperationMoves ==
    ASSUME NEW l, Good(l), NEW at \in Nat
    PROVE  LET reply == begin_operation(l, at) IN
           \/ reply.r # "Ok" /\ Calm(l, reply.l)
           \/ /\ reply.r = "Ok" /\ l.phase.tag = "Idle"
              /\ reply.l.phase.tag = "Operating"
              /\ reply.l.op_seq = l.op_seq + 1
              /\ reply.l.commit_attempted = l.commit_attempted
<1> DEFINE e == enter(l, at)
           b == [e.l EXCEPT !.op_seq = @ + 1, !.phase = Operating]
<1>1. /\ Good(e.l) /\ e.l \in Leases /\ e.l.phase \in Phases
      /\ e.r \in {"Ok", "TimeRegression"} /\ Calm(l, e.l)
  BY EntersCalmly
<1>2. \/ begin_operation(l, at) = e /\ e.r # "Ok"
      \/ begin_operation(l, at) = Reply(e.l, blocked(e.l))
      \/ begin_operation(l, at) = Reply(b, "Ok") /\ e.l.phase.tag = "Idle"
  BY DEF begin_operation, IfIdle
<1> HIDE DEF e
<1>3. CASE begin_operation(l, at) = e /\ e.r # "Ok"
  BY <1>1, <1>3
<1>4. CASE begin_operation(l, at) = Reply(e.l, blocked(e.l))
  BY <1>1, <1>4 DEF Reply, blocked
<1>5. CASE begin_operation(l, at) = Reply(b, "Ok") /\ e.l.phase.tag = "Idle"
  <2>1. /\ b.phase = Operating /\ b.op_seq = e.l.op_seq + 1
        /\ b.commit_attempted = e.l.commit_attempted
    BY <1>1 DEF Leases
  <2> HIDE DEF b
  <2>2. /\ begin_operation(l, at).r = "Ok" /\ begin_operation(l, at).l = b
    BY <1>5 DEF Reply
  <2>3. Operating.tag = "Operating"
    BY DEF Operating
  <2>4. /\ l.phase.tag = "Idle" /\ e.l.op_seq = l.op_seq
        /\ e.l.commit_attempted = l.commit_attempted
    BY <1>1, <1>5, Zenon DEF Calm
  <2> QED BY <2>1, <2>2, <2>3, <2>4
<1> QED BY <1>2, <1>3, <1>4, <1>5

(* finish_operation ends the running operation by its own handle, or a     *)
(* cancelled one, which ends the lease, or nothing.                        *)
LEMMA FinishOperationMoves ==
    ASSUME NEW l, Good(l), NEW at \in Nat, NEW issued \in BOOLEAN, NEW seq \in Nat
    PROVE  LET reply == finish_operation(l, at, issued, seq) IN
           \/ /\ reply.r \notin {"Completed", "CancelledAcknowledged"}
              /\ Calm(l, reply.l)
           \/ Calm(l, reply.l) /\ reply.l.phase.tag = "Terminal"
           \/ /\ reply.r = "Completed" /\ issued /\ seq = l.op_seq
              /\ l.phase.tag = "Operating" /\ reply.l.phase.tag = "Idle"
              /\ reply.l.op_seq = l.op_seq
              /\ reply.l.commit_attempted = l.commit_attempted
<1> DEFINE e == enter(l, at)
           reply == finish_operation(l, at, issued, seq)
           Back(why) == [e.l EXCEPT !.phase = Terminal(RolledBack(why), at)]
<1>1. /\ Good(e.l) /\ e.l \in Leases /\ e.l.phase \in Phases
      /\ e.r \in {"Ok", "TimeRegression"} /\ Calm(l, e.l)
  BY EntersCalmly, SMTT(30)
<1>2. /\ e.r # "Ok" => reply = e
      /\ e.r = "Ok" /\ ~(issued /\ seq = e.l.op_seq) =>
           reply = Reply(e.l, "StaleHandle")
  BY Zenon DEF finish_operation
<1>3. ASSUME e.r = "Ok", issued, seq = e.l.op_seq
      PROVE  /\ e.l.phase.tag = "Operating" =>
                  reply = Reply([e.l EXCEPT !.phase = Idle], "Completed")
             /\ e.l.phase.tag = "Cancelling" =>
                  \E why \in {"Cancelled", "Expired"} :
                     reply = Reply(Back(why), "CancelledAcknowledged")
             /\ e.l.phase.tag \in {"Terminal", "Expired"} =>
                  reply = Reply(e.l, blocked(e.l))
             /\ e.l.phase.tag \in {"Idle", "CommitAttempted"} =>
                  reply = Reply(e.l, "StaleHandle")
  BY <1>3, Zenon DEF finish_operation
<1> HIDE DEF e, reply
<1>4. CASE e.r # "Ok" \/ ~(issued /\ seq = e.l.op_seq)
  BY <1>1, <1>2, <1>4, SMTT(30) DEF Reply, reply
<1>5. CASE e.r = "Ok" /\ issued /\ seq = e.l.op_seq
  <2>1. CASE e.l.phase.tag = "Operating"
    <3> DEFINE n == [e.l EXCEPT !.phase = Idle]
    <3>1. n.phase = Idle /\ n.op_seq = e.l.op_seq /\ n.commit_attempted = e.l.commit_attempted
      BY <1>1, Zenon DEF Leases
    <3>2. reply = Reply(n, "Completed")
      BY <1>3, <1>5, <2>1
    <3> HIDE DEF n
    <3>3. reply.l = n /\ reply.r = "Completed" /\ Idle.tag = "Idle"
      BY <3>2 DEF Reply, Idle
    <3>4. l.phase.tag = "Operating" /\ e.l.op_seq = l.op_seq
          /\ e.l.commit_attempted = l.commit_attempted
      BY <1>1, <2>1 DEF Calm
    <3> QED BY <1>5, <3>1, <3>3, <3>4, Zenon DEF reply
  <2>2. CASE e.l.phase.tag = "Cancelling"
    <3>1. PICK why \in {"Cancelled", "Expired"} :
             reply = Reply(Back(why), "CancelledAcknowledged")
      BY <1>3, <1>5, <2>2, Zenon
    <3> DEFINE t == Terminal(RolledBack(why), at)
    <3>2. t \in Phases /\ t.tag = "Terminal"
      BY Zenon DEF Terminal, RolledBack, Phases, Outcomes, RolledBackOutcomes, RollbackReasons
    <3>3. Back(why) = [e.l EXCEPT !.phase = t]
      BY Zenon
    <3> HIDE DEF t, Back
    <3>4. Final(e.l.phase, t)
      BY <2>2, <3>2 DEF Final
    <3>5. Calm(l, [e.l EXCEPT !.phase = t])
      BY <1>1, <3>2, <3>4, MoveIsCalm
    <3>6. [e.l EXCEPT !.phase = t].phase = t
      BY <1>1, Zenon DEF Leases
    <3>7. reply.l = [e.l EXCEPT !.phase = t]
      BY <3>1, <3>3, ZenonT(30) DEF Reply
    <3> QED BY <3>2, <3>5, <3>6, <3>7 DEF reply
  <2>3. CASE e.l.phase.tag \in {"Terminal", "Expired", "Idle", "CommitAttempted"}
    <3>1. reply.l = e.l /\ reply.r \in {blocked(e.l), "StaleHandle"}
      BY <1>3, <1>5, <2>3 DEF Reply
    <3>2. blocked(e.l) \notin {"Completed", "CancelledAcknowledged"}
      BY DEF blocked
    <3> QED BY <1>1, <3>1, <3>2 DEF reply
  <2> QED BY <1>1, <2>1, <2>2, <2>3, PhaseShapes, Zenon
<1> QED BY <1>4, <1>5, Zenon


(* begin_commit records the one attempt of an idle lease, or nothing.      *)
LEMMA BeginCommitMoves ==
    ASSUME NEW l, Good(l), NEW at \in Nat
    PROVE  LET reply == begin_commit(l, at) IN
           \/ reply.r # "Ok" /\ Calm(l, reply.l)
           \/ /\ reply.r = "Ok" /\ l.phase.tag = "Idle"
              /\ reply.l.phase.tag = "CommitAttempted"
              /\ reply.l.op_seq = l.op_seq /\ reply.l.commit_attempted = TRUE
<1> DEFINE e == enter(l, at)
           reply == begin_commit(l, at)
           p == CommitAttempted(at + commit_wait)
           b == [e.l EXCEPT !.phase = p, !.commit_attempted = TRUE]
<1>1. /\ Good(e.l) /\ e.l \in Leases /\ e.l.phase \in Phases
      /\ e.r \in {"Ok", "TimeRegression"} /\ Calm(l, e.l)
  BY EntersCalmly
<1>2. \/ reply = e /\ e.r # "Ok"
      \/ reply = Reply(e.l, blocked(e.l))
      \/ reply = Reply(e.l, "TimeOverflow")
      \/ reply = Reply(b, "Ok") /\ e.l.phase.tag = "Idle"
  BY DEF begin_commit, IfIdle
<1> HIDE DEF e, reply
<1>3. CASE reply = e /\ e.r # "Ok"
  BY <1>1, <1>3 DEF reply
<1>4. CASE reply = Reply(e.l, blocked(e.l)) \/ reply = Reply(e.l, "TimeOverflow")
  BY <1>1, <1>4 DEF Reply, blocked, reply
<1>5. CASE reply = Reply(b, "Ok") /\ e.l.phase.tag = "Idle"
  <2>0. p.tag = "CommitAttempted"
    BY DEF CommitAttempted
  <2> HIDE DEF p
  <2>1. b.phase = p /\ b.op_seq = e.l.op_seq /\ b.commit_attempted = TRUE
    BY <1>1 DEF Leases
  <2> HIDE DEF b
  <2>2. reply.r = "Ok" /\ reply.l = b
    BY <1>5, Zenon DEF Reply
  <2>3. l.phase.tag = "Idle" /\ e.l.op_seq = l.op_seq
    BY <1>1, <1>5 DEF Calm
  <2> QED BY <2>0, <2>1, <2>2, <2>3 DEF reply
<1> QED BY <1>2, <1>3, <1>4, <1>5, Zenon

(* The outcome finish_commit records for a result.                         *)
OutcomeFor(result) ==
    CASE result = "Committed" -> Committed
      [] result = "NotCommitted" -> CommitProvenAbsent
      [] result = "Indeterminate" -> CommitIndeterminate

(* finish_commit ends the attempt with the outcome of the result, or       *)
(* nothing.                                                                *)
LEMMA FinishCommitMoves ==
    ASSUME NEW l, Good(l), NEW at \in Nat, NEW issued \in BOOLEAN,
           NEW result \in CommitResults
    PROVE  LET reply == finish_commit(l, at, issued, result) IN
           \/ reply.r # "Ok" /\ Calm(l, reply.l)
           \/ /\ reply.r = "Ok" /\ issued
              /\ reply.l.phase.tag = "Terminal"
              /\ reply.l.phase.outcome = OutcomeFor(result)
              /\ Calm(l, reply.l) /\ l.phase.tag = "CommitAttempted"
<1> DEFINE e == enter(l, at)
           reply == finish_commit(l, at, issued, result)
           t == Terminal(OutcomeFor(result), at)
           n == [e.l EXCEPT !.phase = t]
<1>1. /\ Good(e.l) /\ e.l \in Leases /\ e.l.phase \in Phases
      /\ e.r \in {"Ok", "TimeRegression"} /\ Calm(l, e.l)
  BY EntersCalmly
<1>2. \/ reply = e /\ e.r # "Ok"
      \/ reply \in {Reply(e.l, blocked(e.l)), Reply(e.l, "StaleHandle")}
      \/ /\ e.r = "Ok" /\ issued /\ e.l.phase.tag = "CommitAttempted"
         /\ reply = Reply(n, "Ok")
  <2>1. CASE e.r # "Ok"
    BY <2>1 DEF finish_commit
  <2>2. CASE e.r = "Ok" /\ issued /\ e.l.phase.tag = "CommitAttempted"
    BY <2>2, Zenon DEF finish_commit, OutcomeFor
  <2>3. CASE e.r = "Ok" /\ ~(issued /\ e.l.phase.tag = "CommitAttempted")
    BY <2>3 DEF finish_commit
  <2> QED BY <2>1, <2>2, <2>3
<1> HIDE DEF e, reply
<1>3. CASE reply = e /\ e.r # "Ok"
  BY <1>1, <1>3 DEF reply
<1>4. CASE reply \in {Reply(e.l, blocked(e.l)), Reply(e.l, "StaleHandle")}
  BY <1>1, <1>4 DEF Reply, blocked, reply
<1>5. CASE /\ e.r = "Ok" /\ issued /\ e.l.phase.tag = "CommitAttempted"
           /\ reply = Reply(n, "Ok")
  <2>0. t \in Phases /\ t.tag = "Terminal" /\ t.outcome = OutcomeFor(result)
    BY DEF Terminal, Phases, Outcomes, OutcomeFor, CommitResults, Committed,
           CommitProvenAbsent, CommitIndeterminate
  <2> HIDE DEF t
  <2>1. n.phase = t
    BY <1>1, Zenon DEF Leases
  <2>2. Calm(l, n)
    <3>1. Final(e.l.phase, t)
      BY <1>5, Zenon DEF Final
    <3> QED BY <1>1, <2>0, <3>1, MoveIsCalm
  <2> HIDE DEF n
  <2>3. reply.r = "Ok" /\ reply.l = n
    BY <1>5 DEF Reply
  <2>4. l.phase.tag = "CommitAttempted"
    BY <1>1, <1>5 DEF Calm
  <2> QED BY <1>5, <2>0, <2>1, <2>2, <2>3, <2>4, Zenon DEF reply
<1> QED BY <1>2, <1>3, <1>4, <1>5

(* A reply that leaves the lease as `enter` left it, but for what no       *)
(* handle depends on, is calm.                                             *)
LEMMA SamePhaseIsCalm ==
    ASSUME NEW l, NEW m, Calm(l, m), NEW n, n.phase = m.phase,
           n.op_seq = m.op_seq, n.commit_attempted = m.commit_attempted
    PROVE  Calm(l, n)
BY DEF Calm

(* observe and response_lost leave the phase to time.                      *)
LEMMA ObserveMoves ==
    ASSUME NEW l, Good(l), NEW at \in Nat
    PROVE  Calm(l, observe(l, at).l) /\ Calm(l, response_lost(l, at).l)
<1> DEFINE e == enter(l, at)
           n == [e.l EXCEPT !.response_lost = TRUE]
<1>1. e.l \in Leases /\ Calm(l, e.l)
  BY EntersCalmly
<1>2. response_lost(l, at) \in {e, Reply(n, "Ok")}
  BY DEF response_lost
<1>3. observe(l, at) = e
  BY DEF observe
<1> HIDE DEF e
<1>4. n.phase = e.l.phase /\ n.op_seq = e.l.op_seq
      /\ n.commit_attempted = e.l.commit_attempted
  BY <1>1, Zenon DEF Leases
<1> HIDE DEF n
<1>5. Calm(l, n)
  BY <1>1, <1>4, SamePhaseIsCalm
<1> QED BY <1>1, <1>2, <1>3, <1>5 DEF Reply

(* So does renew.                                                          *)
LEMMA RenewMoves ==
    ASSUME NEW l, Good(l), NEW at \in Nat, NEW expected \in Nat, NEW requested \in Nat
    PROVE  Calm(l, renew(l, at, expected, requested).l)
<1> DEFINE e == enter(l, at)
           until == Least(Least(at + Least(requested, max_extension), MaxTime),
                          e.l.absolute_deadline)
           n == [e.l EXCEPT !.generation = @ + 1, !.deadline = until]
           reply == renew(l, at, expected, requested)
<1>1. Good(e.l) /\ e.l \in Leases /\ Calm(l, e.l)
  BY EntersCalmly, Zenon
<1>2. \/ reply \in {e, Reply(e.l, blocked(e.l)), Reply(e.l, "StaleGeneration"),
                    Reply(e.l, "NoExtension")}
      \/ reply = Reply(n, "Ok")
  <2>1. until \in Nat /\ e.l.deadline \in Nat
    BY <1>1, LimitsAreNat DEF Least, Good, Leases
  <2>2. CASE e.r # "Ok" \/ e.l.phase.tag # "Idle"
    BY <2>2 DEF renew, IfIdle
  <2>3. CASE e.r = "Ok" /\ e.l.phase.tag = "Idle" /\ expected # e.l.generation
    BY <2>3 DEF renew, IfIdle
  <2>4. CASE /\ e.r = "Ok" /\ e.l.phase.tag = "Idle"
             /\ expected = e.l.generation /\ until <= e.l.deadline
    BY <2>1, <2>4 DEF renew, IfIdle
  <2>5. CASE /\ e.r = "Ok" /\ e.l.phase.tag = "Idle"
             /\ expected = e.l.generation /\ until > e.l.deadline
    BY <2>1, <2>5 DEF renew, IfIdle
  <2> HIDE DEF until, e, reply, n
  <2> QED BY <2>1, <2>2, <2>3, <2>4, <2>5, SMTT(30)
<1> HIDE DEF e, until
<1>3. n.phase = e.l.phase /\ n.op_seq = e.l.op_seq
      /\ n.commit_attempted = e.l.commit_attempted
  BY <1>1, Zenon DEF Leases
<1> HIDE DEF n
<1>4. Calm(l, n)
  BY <1>1, <1>3, SamePhaseIsCalm
<1> HIDE DEF reply
<1>5. reply.l \in {e.l, n}
  BY <1>2 DEF Reply
<1> QED BY <1>1, <1>4, <1>5 DEF reply

(* A rollback ends an idle lease, or nothing.                              *)
LEMMA RollBackMoves ==
    ASSUME NEW l, Good(l), NEW at \in Nat, NEW why \in RollbackReasons
    PROVE  Calm(l, roll_back(l, at, why).l)
<1> DEFINE e == enter(l, at)
           reply == roll_back(l, at, why)
           p == Terminal(RolledBack(why), at)
           t == [e.l EXCEPT !.phase = p]
<1>1. Good(e.l) /\ e.l \in Leases /\ Calm(l, e.l)
  BY EntersCalmly
<1>2. \/ reply \in {e, Reply(e.l, blocked(e.l))}
      \/ e.r = "Ok" /\ e.l.phase.tag = "Idle" /\ reply = Reply(t, "Ok")
  BY Zenon DEF roll_back, IfIdle
<1>3. p \in Phases /\ p.tag = "Terminal"
  BY DEF Terminal, RolledBack, Phases, Outcomes, RolledBackOutcomes
<1> HIDE DEF e, reply, p
<1>4. e.l.phase.tag = "Idle" => Calm(l, t)
  <2>1. e.l.phase.tag = "Idle" => Final(e.l.phase, p)
    BY Zenon DEF Final
  <2> QED BY <1>1, <1>3, <2>1, MoveIsCalm, Zenon
<1> HIDE DEF t
<1> QED BY <1>1, <1>2, <1>4 DEF Reply, reply

(* A cancellation ends an idle lease, puts a running one in cleanup, or    *)
(* changes nothing: a cancelling lease keeps the deadline it has.          *)
LEMMA RequestCancelMoves ==
    ASSUME NEW l, Good(l), NEW at \in Nat
    PROVE  Calm(l, request_cancel(l, at).l)
<1> DEFINE e == enter(l, at)
           reply == request_cancel(l, at)
           p == Terminal(RolledBack("Cancelled"), at)
           q == Cancelling(at + cancel_grace, "Requested")
           t == [e.l EXCEPT !.phase = p]
           c == [e.l EXCEPT !.phase = q]
<1>1. Good(e.l) /\ e.l \in Leases /\ Calm(l, e.l)
  BY EntersCalmly
<1>2. reply =
        CASE e.r # "Ok" -> e
          [] e.r = "Ok" /\ e.l.phase.tag = "Idle" -> Reply(t, "Ok")
          [] e.r = "Ok" /\ e.l.phase.tag = "Operating" ->
               IF at + cancel_grace > MaxTime THEN Reply(e.l, "TimeOverflow")
               ELSE Reply(c, "Ok")
          [] e.r = "Ok" /\ (e.l.phase.tag = "Cancelling" \/ IsRolledBack(e.l.phase)) -> e
          [] OTHER -> Reply(e.l, blocked(e.l))
  BY Zenon DEF request_cancel
<1>3. p \in Phases /\ p.tag = "Terminal" /\ q \in Phases /\ q.tag = "Cancelling"
  BY LimitsAreNat
  DEF Terminal, RolledBack, Cancelling, Phases, Outcomes, RolledBackOutcomes,
      RollbackReasons, CancelCauses
<1> HIDE DEF e, reply, p, q, t, c
<1>4. e.r # "Ok" => reply = e
  BY <1>2
<1>5. e.r = "Ok" /\ e.l.phase.tag = "Idle" => reply = Reply(t, "Ok")
  BY <1>2 DEF IsRolledBack
<1>6. e.r = "Ok" /\ e.l.phase.tag = "Operating" =>
        reply \in {Reply(c, "Ok"), Reply(e.l, "TimeOverflow")}
  BY <1>2 DEF IsRolledBack
<1>7. e.r = "Ok" /\ e.l.phase.tag \notin {"Idle", "Operating"} =>
        reply \in {e, Reply(e.l, blocked(e.l))}
  BY <1>2 DEF IsRolledBack
<1>8. e.l.phase.tag = "Idle" => Calm(l, t)
  <2>1. e.l.phase.tag = "Idle" => Final(e.l.phase, p)
    BY DEF Final
  <2> QED BY <1>1, <1>3, <2>1, MoveIsCalm, Zenon DEF t
<1>9. e.l.phase.tag = "Operating" => Calm(l, c)
  <2>1. e.l.phase.tag = "Operating" => Final(e.l.phase, q)
    BY DEF Final
  <2> QED BY <1>1, <1>3, <2>1, MoveIsCalm, Zenon DEF c
<1> QED BY <1>1, <1>4, <1>5, <1>6, <1>7, <1>8, <1>9 DEF Reply, reply

(* A lookup settles an indeterminate commit and overrides no other outcome. *)
LEMMA ResolveMoves ==
    ASSUME NEW l, Good(l), NEW at \in Nat, NEW external \in ExternalOutcomes
    PROVE  Calm(l, resolve_indeterminate(l, at, external).l)
<1> DEFINE e == enter(l, at)
           reply == resolve_indeterminate(l, at, external)
           o == Resolved(e.l.phase.outcome, external)
           n == [e.l EXCEPT !.phase.outcome = o]
           q == Terminal(o, e.l.phase.at)
<1>1. /\ Good(e.l) /\ e.l \in Leases /\ e.l.phase \in Phases
      /\ Calm(l, e.l) /\ e.r \in {"Ok", "TimeRegression"}
  BY EntersCalmly
<1>2. \/ reply \in {e, Reply(e.l, "Expired"), Reply(e.l, "NotIndeterminate"),
                    Reply(e.l, "ConflictingResolution")}
      \/ e.l.phase.tag = "Terminal" /\ reply = Reply(n, "Ok")
  <2>1. CASE e.r # "Ok" \/ e.l.phase.tag # "Terminal"
    BY <2>1 DEF resolve_indeterminate
  <2>2. CASE e.r = "Ok" /\ e.l.phase.tag = "Terminal"
    <3>1. CASE ~is_commit_attempt(e.l.phase.outcome)
      <4>1. ~Conflicts(e.l.phase.outcome, external)
        BY <3>1 DEF is_commit_attempt, Conflicts
      <4> QED BY <2>2, <3>1, <4>1, <1>1 DEF resolve_indeterminate
    <3>2. CASE is_commit_attempt(e.l.phase.outcome)
      BY <2>2, <3>2 DEF resolve_indeterminate
    <3> QED BY <3>1, <3>2
  <2> QED BY <1>1, <2>1, <2>2
<1>3. /\ o \in {Committed, CommitProvenAbsent, e.l.phase.outcome}
      /\ o # e.l.phase.outcome =>
           /\ e.l.phase.outcome.tag = "CommitIndeterminate"
           /\ o \in {Committed, CommitProvenAbsent}
  BY DEF Resolved
<1> HIDE DEF e, reply, o
<1>4. CASE reply \in {e, Reply(e.l, "Expired"), Reply(e.l, "NotIndeterminate"),
                      Reply(e.l, "ConflictingResolution")}
  BY <1>1, <1>4, SMTT(30) DEF Reply, reply
<1>5. CASE e.l.phase.tag = "Terminal" /\ reply = Reply(n, "Ok")
  <2>1. e.l.phase \in [tag : {"Terminal"}, outcome : Outcomes, at : Nat]
    BY <1>1, <1>5, Zenon DEF Phases
  <2>2. o \in Outcomes
    BY <1>3, <2>1 DEF Outcomes, Committed, CommitProvenAbsent
  <2>3. [e.l.phase EXCEPT !.outcome = o] = q /\ q \in Phases /\ q.tag = "Terminal"
    BY <2>1, <2>2 DEF Terminal, Phases
  <2>4. n = [e.l EXCEPT !.phase = q]
    <3> HIDE DEF q
    <3> QED BY <1>1, <2>3, Zenon DEF Leases
  <2>5. Final(e.l.phase, q)
    <3>1. CASE o = e.l.phase.outcome
      <4>1. q = e.l.phase
        BY <2>1, <3>1 DEF Terminal
      <4> QED BY <1>5, <4>1 DEF Final
    <3>2. CASE o # e.l.phase.outcome
      <4>1. e.l.phase.outcome = CommitIndeterminate
        BY <1>3, <2>1, <3>2 DEF CommitIndeterminate, Outcomes, RolledBackOutcomes
      <4> QED BY <1>3, <1>5, <3>2, <4>1, Zenon DEF Final
    <3> QED BY <3>1, <3>2
  <2> HIDE DEF q, n
  <2>6. Calm(l, n)
    BY <1>1, <2>3, <2>4, <2>5, MoveIsCalm, Zenon
  <2> QED BY <1>5, <2>6 DEF Reply, reply
<1> QED BY <1>2, <1>4, <1>5


-----------------------------------------------------------------------------
(* The handles out there against the lease: those of this instance carry   *)
(* distinct sequence numbers up to the current one, and an operation is    *)
(* open only while the lease is operating (or was cut off by a deadline).  *)
HandlesFit(l, i, hs, done) ==
    LET mine == {h \in hs : h.instance = i} IN
    /\ \A h \in hs : h.instance <= i
    /\ \A h \in mine : h.seq <= l.op_seq
    /\ \A h, g \in mine : h.seq = g.seq => h = g
    /\ l.phase.tag \in {"Idle", "CommitAttempted"} => mine \ done = {}
    /\ l.phase.tag = "Operating" =>
         \E h \in mine : h.seq = l.op_seq /\ mine \ done = {h}

(* The lease remembers exactly whether this instance issued an attempt.    *)
AttemptsFit(l, i, as) ==
    /\ \A a \in as : a.instance <= i
    /\ l.commit_attempted <=> {a \in as : a.instance = i} # {}

(* A result the lease recorded stands, or is resolved, or is no more known *)
(* than that a commit was attempted.                                       *)
Stands(p, result) ==
    \/ p = Expired(TRUE)
    \/ p.tag = "Terminal" /\ (p.outcome = OutcomeFor(result)
                              \/ (result = "Indeterminate"
                                  /\ p.outcome \in {Committed, CommitProvenAbsent}))

ResultsFit(l, rs) == \A x \in rs : Stands(l.phase, x[2])

(* The inductive invariant behind the handle and restart properties.       *)
HistoryInv ==
    /\ HandlesFit(lease, instance, ops, ended)
    /\ AttemptsFit(lease, instance, attempts)
    /\ ResultsFit(lease, results)
    /\ ~live => record = restart(lease)

(* A calm call leaves every handle, attempt and result where it was.       *)
LEMMA CalmFits ==
    ASSUME NEW l, Good(l), NEW m, Good(m), Calm(l, m), NEW i, NEW hs, NEW done
    PROVE  /\ HandlesFit(l, i, hs, done) => HandlesFit(m, i, hs, done)
           /\ HandlesFit(l, i, hs, done) /\ m.phase.tag = "Terminal" =>
                \A more : HandlesFit(m, i, hs, more)
           /\ \A as : AttemptsFit(l, i, as) => AttemptsFit(m, i, as)
<1>1. /\ m.op_seq = l.op_seq /\ m.commit_attempted = l.commit_attempted
      /\ m.phase.tag \in {"Idle", "Operating", "CommitAttempted"} => m.phase.tag = l.phase.tag
  BY Zenon DEF Calm
<1>2. HandlesFit(l, i, hs, done) => HandlesFit(m, i, hs, done)
  BY <1>1, Zenon DEF HandlesFit
<1>3. ASSUME HandlesFit(l, i, hs, done), m.phase.tag = "Terminal", NEW more
      PROVE  HandlesFit(m, i, hs, more)
  BY <1>1, <1>3 DEF HandlesFit
<1>4. \A as : AttemptsFit(l, i, as) => AttemptsFit(m, i, as)
  BY <1>1, Zenon DEF AttemptsFit
<1> QED BY <1>2, <1>3, <1>4, Zenon

(* A recorded result outlives every further call.                          *)
LEMMA CalmStands ==
    ASSUME NEW l, Good(l), NEW m, Good(m), Calm(l, m), NEW result \in CommitResults,
           Stands(l.phase, result)
    PROVE  Stands(m.phase, result)
<1> DEFINE p == l.phase
           q == m.phase
<1>1. Final(p, q)
  BY DEF Calm
<1>2. /\ \A b : Expired(b).tag = "Expired"
      /\ \A o, at : Terminal(o, at).tag = "Terminal" /\ Terminal(o, at).outcome = o
  BY DEF Expired, Terminal
<1>3. /\ is_commit_attempt(CommitIndeterminate) = TRUE
      /\ is_commit_attempt(Committed) = TRUE /\ is_commit_attempt(CommitProvenAbsent) = TRUE
      /\ CommitIndeterminate # Committed /\ CommitIndeterminate # CommitProvenAbsent
  BY DEF is_commit_attempt, CommitIndeterminate, Committed, CommitProvenAbsent
<1>4. /\ OutcomeFor("Committed") = Committed
      /\ OutcomeFor("NotCommitted") = CommitProvenAbsent
      /\ OutcomeFor("Indeterminate") = CommitIndeterminate
  BY DEF OutcomeFor
<1>5. OutcomeFor(result) = CommitIndeterminate => result = "Indeterminate"
  BY <1>3, <1>4 DEF CommitResults
<1>6. is_commit_attempt(OutcomeFor(result)) = TRUE
  BY <1>3, <1>4 DEF CommitResults
<1> HIDE DEF p, q
<1>7. CASE p = Expired(TRUE)
  <2>1. q = p
    BY <1>1, <1>2, <1>7, Zenon DEF Final
  <2> QED BY <2>1 DEF p, q
<1>8. CASE p.tag = "Terminal" /\ p.outcome = OutcomeFor(result)
  <2>1. q = p \/ q = Expired(TRUE)
        \/ (result = "Indeterminate"
            /\ \E o \in {Committed, CommitProvenAbsent} : q = Terminal(o, p.at))
    BY <1>1, <1>5, <1>6, <1>8, Zenon DEF Final
  <2>2. ASSUME result = "Indeterminate", NEW o \in {Committed, CommitProvenAbsent},
               q = Terminal(o, p.at)
        PROVE  Stands(q, result)
    <3>1. q.tag = "Terminal" /\ q.outcome = o
      BY <1>2, <2>2
    <3> QED BY <2>2, <3>1, Zenon DEF Stands
  <2>3. q = p => Stands(q, result)
    BY <1>8, Zenon DEF Stands
  <2>4. q = Expired(TRUE) => Stands(q, result)
    BY DEF Stands
  <2> QED BY <2>1, <2>2, <2>3, <2>4, Zenon DEF q
<1>9. CASE /\ p.tag = "Terminal" /\ result = "Indeterminate"
           /\ p.outcome \in {Committed, CommitProvenAbsent}
  <2>1. q = p \/ q = Expired(TRUE)
    BY <1>1, <1>3, <1>9, Zenon DEF Final
  <2> QED BY <1>9, <2>1, Zenon DEF Stands, p, q
<1> QED BY <1>7, <1>8, <1>9, Zenon DEF Stands, p

(* A call that only moves the lease keeps the history.                     *)
LEMMA KeepFits ==
    ASSUME LeaseInv, LeaseInv', HistoryInv, NEW reply, Keep(reply), Calm(lease, reply.l)
    PROVE  HistoryInv'
<1>1. /\ lease' = reply.l /\ live /\ live' = live /\ instance' = instance /\ ops' = ops
      /\ attempts' = attempts /\ ended' = ended /\ results' = results
  BY DEF Keep
<1>2. Good(lease) /\ Good(lease') /\ Calm(lease, lease') /\ results \subseteq attempts \X CommitResults
  BY <1>1, Zenon DEF LeaseInv, TypeOK
<1>3. /\ HandlesFit(lease', instance, ops, ended)
      /\ AttemptsFit(lease', instance, attempts)
  BY <1>2, CalmFits, Zenon DEF HistoryInv
<1>4. ResultsFit(lease', results)
  BY <1>2, CalmStands, SMTT(30) DEF HistoryInv, ResultsFit
<1> QED BY <1>1, <1>3, <1>4, Zenon DEF HistoryInv, ResultsFit


(* The history of the first lease, and of the lease a later process        *)
(* begins: every handle and attempt out there is of an earlier instance.   *)
LEMMA BeginFitsHistory ==
    ASSUME NEW at, NEW i \in Nat, NEW hs, NEW as,
           \A h \in hs : h.instance \in Nat /\ h.instance < i,
           \A a \in as : a.instance \in Nat /\ a.instance < i
    PROVE  /\ HandlesFit(BeginLease(at), i, hs, {})
           /\ AttemptsFit(BeginLease(at), i, as)
<1>1. /\ BeginLease(at).phase.tag = "Idle" /\ BeginLease(at).commit_attempted = FALSE
  BY DEF BeginLease, Idle
<1>0. \A n \in Nat : n < i => n <= i /\ n # i
  OBVIOUS
<1>2. /\ \A h \in hs : h.instance <= i /\ h.instance # i
      /\ \A a \in as : a.instance <= i /\ a.instance # i
  BY <1>0, Zenon
<1>3. {h \in hs : h.instance = i} = {} /\ {a \in as : a.instance = i} = {}
  BY <1>2, Zenon
<1>4. HandlesFit(BeginLease(at), i, hs, {})
  BY <1>1, <1>2, <1>3, Zenon DEF HandlesFit
<1> QED BY <1>1, <1>2, <1>3, <1>4, Zenon DEF AttemptsFit

(* A new handle takes the next sequence number.                            *)
LEMMA OpenFits ==
    ASSUME NEW l, NEW m, NEW i \in Nat, NEW hs, hs \subseteq Handles, NEW done,
           HandlesFit(l, i, hs, done), l.phase.tag = "Idle", l.op_seq \in Nat,
           m.phase.tag = "Operating", m.op_seq = l.op_seq + 1, done \subseteq hs,
           NEW g \in Handles, g.instance = i, g.seq = m.op_seq
    PROVE  HandlesFit(m, i, hs \cup {g}, done)
<1> DEFINE mine == {h \in hs : h.instance = i}
           both == {h \in hs \cup {g} : h.instance = i}
<1>1. both = mine \cup {g}
  BY Zenon
<1>2. \A h \in mine : h.seq <= l.op_seq /\ h.seq \in Nat
  BY DEF HandlesFit, Handles
<1>3. \A h \in mine : h.seq # g.seq /\ h # g
  BY <1>2
<1>4. mine \ done = {} /\ \A h \in hs : h.instance <= i
  BY DEF HandlesFit
<1>5. g \notin done
  BY <1>3, SMTT(30)
<1>6. both \ done = {g}
  BY <1>1, <1>4, <1>5, Zenon
<1>7. \A h, k \in mine : h.seq = k.seq => h = k
  BY Zenon DEF HandlesFit
<1>8. \A h, k \in both : h.seq = k.seq => h = k
  BY <1>1, <1>3, <1>7, SMTT(30)
<1>9. \A h \in both : h.seq <= m.op_seq
  BY <1>1, <1>2, SMTT(30) DEF Handles
<1>10. \A h \in hs \cup {g} : h.instance <= i
  BY <1>4
<1> HIDE DEF both, mine
<1>11. g \in both
  BY <1>1, Zenon
<1> QED BY <1>6, <1>8, <1>9, <1>10, <1>11, Zenon DEF HandlesFit, both

(* Only the handle of the running operation is accepted as its end.        *)
LEMMA CloseFits ==
    ASSUME NEW l, NEW m, NEW i \in Nat, NEW hs, hs \subseteq Handles, NEW done,
           HandlesFit(l, i, hs, done), l.phase.tag = "Operating",
           m.phase.tag = "Idle", m.op_seq = l.op_seq,
           NEW g \in hs, g.instance = i, g.seq = l.op_seq
    PROVE  HandlesFit(m, i, hs, done \cup {g})
<1> DEFINE mine == {h \in hs : h.instance = i}
<1>1. PICK h \in mine : h.seq = l.op_seq /\ mine \ done = {h}
  BY DEF HandlesFit
<1>2. g \in mine /\ h = g
  BY <1>1 DEF HandlesFit
<1>3. mine \ (done \cup {g}) = {}
  BY <1>1, <1>2
<1> QED BY <1>3 DEF HandlesFit

(* A lease that was just begun has no handles, attempts and results.       *)
LEMMA HistoryInit == Init => HistoryInv
<1> SUFFICES ASSUME Init PROVE HistoryInv
  OBVIOUS
<1>1. PICK at \in Time : lease = BeginLease(at)
  BY DEF Init
<1>2. instance = 1 /\ ops = {} /\ attempts = {} /\ ended = {} /\ results = {} /\ live = TRUE
  BY DEF Init
<1>3. HandlesFit(BeginLease(at), 1, {}, {}) /\ AttemptsFit(BeginLease(at), 1, {})
  BY BeginFitsHistory
<1> QED BY <1>1, <1>2, <1>3 DEF HistoryInv, ResultsFit


(* Every call, restart and new beginning keeps the history.                *)
LEMMA HistoryNext == LeaseInv /\ LeaseInv' /\ HistoryInv /\ [Next]_vars => HistoryInv'
<1> SUFFICES ASSUME LeaseInv, LeaseInv', HistoryInv, [Next]_vars PROVE HistoryInv'
  BY Zenon
<1>0. /\ Good(lease) /\ Good(lease') /\ lease.op_seq \in Nat /\ lease.generation \in Nat
      /\ instance \in Nat /\ ops \subseteq Handles /\ attempts \subseteq Attempts
      /\ ended \subseteq ops /\ results \subseteq attempts \X CommitResults
  BY DEF LeaseInv, TypeOK, Good, Leases
<1>t. \A at \in Time : at \in Nat
  BY LimitsAreNat, SMTT(30)
<1>c. Calm(lease, lease') =>
        /\ HandlesFit(lease', instance, ops, ended)
        /\ lease'.phase.tag = "Terminal" => \A done : HandlesFit(lease', instance, ops, done)
        /\ AttemptsFit(lease', instance, attempts)
        /\ ResultsFit(lease', results)
  <2> SUFFICES ASSUME Calm(lease, lease')
               PROVE  /\ HandlesFit(lease', instance, ops, ended)
                      /\ lease'.phase.tag = "Terminal" =>
                           \A done : HandlesFit(lease', instance, ops, done)
                      /\ AttemptsFit(lease', instance, attempts)
                      /\ ResultsFit(lease', results)
    BY Zenon
  <2>1. HandlesFit(lease, instance, ops, ended) /\ AttemptsFit(lease, instance, attempts)
    BY DEF HistoryInv
  <2>2. ResultsFit(lease', results)
    BY <1>0, CalmStands, ZenonT(30) DEF HistoryInv, ResultsFit
  <2>3. /\ HandlesFit(lease', instance, ops, ended)
        /\ lease'.phase.tag = "Terminal" => \A done : HandlesFit(lease', instance, ops, done)
        /\ AttemptsFit(lease', instance, attempts)
    BY <1>0, <2>1, CalmFits, Zenon
  <2> QED BY <2>2, <2>3, Zenon
<1>1. CASE UNCHANGED vars
  BY <1>1, Zenon DEF vars, HistoryInv
<1>2. ASSUME NEW at \in Time,
             \/ Observe(at) \/ RequestCancel(at) \/ Rollback(at)
             \/ Dropped(at) \/ ResponseLost(at)
      PROVE  HistoryInv'
  <2>1. at \in Nat /\ {"Explicit", "Dropped"} \subseteq RollbackReasons
    BY <1>t, Zenon DEF RollbackReasons
  <2>2. /\ Calm(lease, observe(lease, at).l) /\ Calm(lease, request_cancel(lease, at).l)
        /\ Calm(lease, rollback(lease, at).l) /\ Calm(lease, dropped(lease, at).l)
        /\ Calm(lease, response_lost(lease, at).l)
    BY <1>0, <2>1, ObserveMoves, RequestCancelMoves, RollBackMoves, Zenon DEF rollback, dropped
  <2> QED BY <1>2, <2>2, KeepFits
          DEF Observe, RequestCancel, Rollback, Dropped, ResponseLost
<1>3. ASSUME NEW at \in Time, NEW expected \in 1..lease.generation,
             NEW requested \in Extensions, Renew(at, expected, requested)
      PROVE  HistoryInv'
  <2>1. at \in Nat /\ expected \in Nat /\ requested \in Nat
    BY <1>0, <1>t, BoundsAssumption
  <2>2. Calm(lease, renew(lease, at, expected, requested).l)
    BY <1>0, <2>1, RenewMoves
  <2> QED BY <1>3, <2>2, KeepFits DEF Renew
<1>4. ASSUME NEW at \in Time, NEW external \in ExternalOutcomes,
             ResolveIndeterminate(at, external)
      PROVE  HistoryInv'
  <2>1. Calm(lease, resolve_indeterminate(lease, at, external).l)
    BY <1>0, <1>t, ResolveMoves, Zenon
  <2> QED BY <1>4, <2>1, KeepFits DEF ResolveIndeterminate
<1>5. ASSUME NEW at \in Time, BeginOperation(at)
      PROVE  HistoryInv'
  <2> DEFINE reply == begin_operation(lease, at)
             g == [instance |-> instance, generation |-> reply.l.generation,
                   seq |-> reply.l.op_seq]
  <2>1. \/ reply.r # "Ok" /\ Calm(lease, reply.l)
        \/ /\ reply.r = "Ok" /\ lease.phase.tag = "Idle"
           /\ reply.l.phase.tag = "Operating"
           /\ reply.l.op_seq = lease.op_seq + 1
           /\ reply.l.commit_attempted = lease.commit_attempted
    BY <1>0, <1>t, BeginOperationMoves, Zenon
  <2>2. /\ live /\ lease' = reply.l /\ ops' = IF reply.r = "Ok" THEN ops \cup {g} ELSE ops
        /\ UNCHANGED <<live, instance, record, attempts, ended, results>>
    BY <1>5, Zenon DEF BeginOperation
  <2> HIDE DEF reply
  <2>3. CASE reply.r # "Ok" /\ Calm(lease, reply.l)
    BY <1>c, <2>2, <2>3, Zenon DEF HistoryInv
  <2>4. CASE /\ reply.r = "Ok" /\ lease.phase.tag = "Idle"
             /\ reply.l.phase.tag = "Operating"
             /\ reply.l.op_seq = lease.op_seq + 1
             /\ reply.l.commit_attempted = lease.commit_attempted
    <3>1. g \in Handles /\ g.instance = instance /\ g.seq = reply.l.op_seq
      BY <1>0, <2>2, Zenon DEF Good, Leases, Handles
    <3> HIDE DEF g
    <3>2. HandlesFit(lease', instance, ops \cup {g}, ended)
      <4>1. HandlesFit(lease, instance, ops, ended)
        BY Zenon DEF HistoryInv
      <4> QED BY <1>0, <2>2, <2>4, <3>1, <4>1, OpenFits, Zenon
    <3>3. AttemptsFit(lease', instance, attempts)
      BY <2>2, <2>4, Zenon DEF HistoryInv, AttemptsFit
    <3>4. results = {}
      <4>1. \A x \in results : Stands(lease.phase, x[2])
        BY Zenon DEF HistoryInv, ResultsFit
      <4>2. \A r : ~Stands(lease.phase, r)
        BY <2>4, SMTT(30) DEF Stands, Expired
      <4> QED BY <4>1, <4>2
    <3> QED BY <2>2, <2>4, <3>2, <3>3, <3>4, Zenon DEF HistoryInv, ResultsFit
  <2> QED BY <2>1, <2>3, <2>4, Zenon
<1>6. ASSUME NEW at \in Time, NEW h \in ops, FinishOperation(at, h)
      PROVE  HistoryInv'
  <2> DEFINE reply == finish_operation(lease, at, Issued(h), h.seq)
  <2>0. Issued(h) \in BOOLEAN /\ h.seq \in Nat /\ at \in Nat
    BY <1>0, <1>t, Zenon DEF Issued, Handles
  <2>1. \/ /\ reply.r \notin {"Completed", "CancelledAcknowledged"}
           /\ Calm(lease, reply.l)
        \/ Calm(lease, reply.l) /\ reply.l.phase.tag = "Terminal"
        \/ /\ reply.r = "Completed" /\ Issued(h) /\ h.seq = lease.op_seq
           /\ lease.phase.tag = "Operating" /\ reply.l.phase.tag = "Idle"
           /\ reply.l.op_seq = lease.op_seq
           /\ reply.l.commit_attempted = lease.commit_attempted
    <3>1. PICK b \in BOOLEAN : b = Issued(h)
      BY <2>0
    <3> HIDE DEF reply
    <3>2. reply = finish_operation(lease, at, b, h.seq)
      BY <3>1, ZenonT(30) DEF reply
    <3>3. \/ /\ reply.r \notin {"Completed", "CancelledAcknowledged"}
             /\ Calm(lease, reply.l)
          \/ Calm(lease, reply.l) /\ reply.l.phase.tag = "Terminal"
          \/ /\ reply.r = "Completed" /\ b /\ h.seq = lease.op_seq
             /\ lease.phase.tag = "Operating" /\ reply.l.phase.tag = "Idle"
             /\ reply.l.op_seq = lease.op_seq
             /\ reply.l.commit_attempted = lease.commit_attempted
      BY <1>0, <2>0, <3>2, FinishOperationMoves, SMTT(30)
    <3> QED BY <3>1, <3>3, Zenon
  <2>2. /\ live /\ lease' = reply.l
        /\ ended' = IF reply.r \in {"Completed", "CancelledAcknowledged"}
                    THEN ended \cup {h} ELSE ended
        /\ UNCHANGED <<live, instance, record, ops, attempts, results>>
    BY <1>6, Zenon DEF FinishOperation
  <2> HIDE DEF reply
  <2>3. CASE /\ reply.r \notin {"Completed", "CancelledAcknowledged"}
             /\ Calm(lease, reply.l)
    BY <1>c, <2>2, <2>3, Zenon DEF HistoryInv
  <2>4. CASE Calm(lease, reply.l) /\ reply.l.phase.tag = "Terminal"
    <3>1. HandlesFit(lease', instance, ops, ended')
      BY <1>c, <2>2, <2>4, Zenon
    <3> QED BY <1>c, <2>2, <2>4, <3>1, Zenon DEF HistoryInv
  <2>5. CASE /\ reply.r = "Completed" /\ Issued(h) /\ h.seq = lease.op_seq
             /\ lease.phase.tag = "Operating" /\ reply.l.phase.tag = "Idle"
             /\ reply.l.op_seq = lease.op_seq
             /\ reply.l.commit_attempted = lease.commit_attempted
    <3>1. HandlesFit(lease', instance, ops, ended \cup {h})
      <4>1. HandlesFit(lease, instance, ops, ended)
        BY DEF HistoryInv
      <4>2. h.instance = instance
        BY <2>5, Zenon DEF Issued
      <4> QED BY <1>0, <2>2, <2>5, <4>1, <4>2, CloseFits, Zenon
    <3>2. AttemptsFit(lease', instance, attempts)
      BY <2>2, <2>5, ZenonT(30) DEF HistoryInv, AttemptsFit
    <3>3. results = {}
      <4>1. \A x \in results : Stands(lease.phase, x[2])
        BY Zenon DEF HistoryInv, ResultsFit
      <4>2. \A r : ~Stands(lease.phase, r)
        BY <2>5, SMTT(30) DEF Stands, Expired
      <4> QED BY <4>1, <4>2
    <3> QED BY <2>2, <2>5, <3>1, <3>2, <3>3, Zenon DEF HistoryInv, ResultsFit
  <2> QED BY <2>1, <2>3, <2>4, <2>5, Zenon
<1>7. ASSUME NEW at \in Time, BeginCommit(at)
      PROVE  HistoryInv'
  <2> DEFINE reply == begin_commit(lease, at)
             a == [instance |-> instance, generation |-> reply.l.generation]
  <2>1. \/ reply.r # "Ok" /\ Calm(lease, reply.l)
        \/ /\ reply.r = "Ok" /\ lease.phase.tag = "Idle"
           /\ reply.l.phase.tag = "CommitAttempted"
           /\ reply.l.op_seq = lease.op_seq /\ reply.l.commit_attempted = TRUE
    BY <1>0, <1>t, BeginCommitMoves, ZenonT(60)
  <2>2. /\ live /\ lease' = reply.l
        /\ attempts' = IF reply.r = "Ok" THEN attempts \cup {a} ELSE attempts
        /\ UNCHANGED <<live, instance, record, ops, ended, results>>
    BY <1>7 DEF BeginCommit
  <2> HIDE DEF reply
  <2>3. CASE reply.r # "Ok" /\ Calm(lease, reply.l)
    BY <1>c, <2>2, <2>3, Zenon DEF HistoryInv
  <2>4. CASE /\ reply.r = "Ok" /\ lease.phase.tag = "Idle"
             /\ reply.l.phase.tag = "CommitAttempted"
             /\ reply.l.op_seq = lease.op_seq /\ reply.l.commit_attempted = TRUE
    <3>1. a.instance = instance
      BY Zenon
    <3> HIDE DEF a
    <3>2. HandlesFit(lease', instance, ops, ended)
      BY <2>2, <2>4, Zenon DEF HistoryInv, HandlesFit
    <3>3. AttemptsFit(lease', instance, attempts \cup {a})
      <4>1. \A b \in attempts \cup {a} : b.instance <= instance
        BY <1>0, <3>1 DEF HistoryInv, AttemptsFit
      <4>2. a \in {b \in attempts \cup {a} : b.instance = instance}
        BY <3>1
      <4> QED BY <2>2, <2>4, <4>1, <4>2, Zenon DEF AttemptsFit
    <3>4. results = {}
      <4>1. \A x \in results : Stands(lease.phase, x[2])
        BY Zenon DEF HistoryInv, ResultsFit
      <4>2. \A r : ~Stands(lease.phase, r)
        BY <2>4, SMTT(30) DEF Stands, Expired
      <4> QED BY <4>1, <4>2
    <3> QED BY <2>2, <2>4, <3>2, <3>3, <3>4, Zenon DEF HistoryInv, ResultsFit
  <2> QED BY <2>1, <2>3, <2>4, Zenon
<1>8. ASSUME NEW at \in Time, NEW a \in attempts, NEW result \in CommitResults,
             FinishCommit(at, a, result)
      PROVE  HistoryInv'
  <2> DEFINE reply == finish_commit(lease, at, Issued(a), result)
  <2>0. Issued(a) \in BOOLEAN /\ at \in Nat
    BY <1>t, ZenonT(30) DEF Issued
  <2>1. /\ Calm(lease, reply.l)
        /\ reply.r = "Ok" =>
             reply.l.phase.tag = "Terminal" /\ reply.l.phase.outcome = OutcomeFor(result)
    <3>1. \/ reply.r # "Ok" /\ Calm(lease, reply.l)
          \/ /\ reply.r = "Ok" /\ Issued(a)
             /\ reply.l.phase.tag = "Terminal"
             /\ reply.l.phase.outcome = OutcomeFor(result)
             /\ Calm(lease, reply.l) /\ lease.phase.tag = "CommitAttempted"
      BY <1>0, <2>0, FinishCommitMoves, SMTT(30)
    <3> HIDE DEF reply
    <3> QED BY <3>1, Zenon
  <2>2. /\ live /\ lease' = reply.l
        /\ results' = IF reply.r = "Ok" THEN results \cup {<<a, result>>} ELSE results
        /\ UNCHANGED <<live, instance, record, ops, attempts, ended>>
    BY <1>8 DEF FinishCommit
  <2> HIDE DEF reply
  <2>3. ResultsFit(lease', results')
    <3>1. ResultsFit(lease', results)
      BY <1>c, <2>1, <2>2, Zenon
    <3>2. reply.r = "Ok" => Stands(lease'.phase, result)
      BY <2>1, <2>2, Zenon DEF Stands
    <3> QED BY <2>2, <3>1, <3>2, SMTT(30) DEF ResultsFit
  <2> QED BY <1>c, <2>1, <2>2, <2>3, Zenon DEF HistoryInv
<1>9. CASE Restart
  BY <1>9 DEF Restart, HistoryInv
<1>10. ASSUME NEW at \in Time, Begin(at)
       PROVE  HistoryInv'
  <2>1. /\ live' = TRUE /\ lease' = BeginLease(at) /\ instance' = instance + 1
        /\ ended' = {} /\ results' = {} /\ ops' = ops /\ attempts' = attempts
    BY <1>10, ZenonT(30) DEF Begin
  <2>2. /\ \A h \in ops : h.instance \in Nat /\ h.instance < instance + 1
        /\ \A a \in attempts : a.instance \in Nat /\ a.instance < instance + 1
    BY <1>0 DEF HistoryInv, HandlesFit, AttemptsFit, Handles, Attempts
  <2>3. /\ HandlesFit(BeginLease(at), instance + 1, ops, {})
        /\ AttemptsFit(BeginLease(at), instance + 1, attempts)
    BY <1>0, <2>2, BeginFitsHistory
  <2> QED BY <2>1, <2>3, Zenon DEF HistoryInv, ResultsFit
<1> QED
  BY <1>1, <1>2, <1>3, <1>4, <1>5, <1>6, <1>7, <1>8, <1>9, <1>10, Zenon DEF Next

(* Handles, attempts and results fit the lease in every reachable state.   *)
LEMMA HistoryInvariance == Spec => []HistoryInv
BY InitIsGood, NextIsGood, HistoryInit, HistoryNext, Invariance, PTL DEF Spec

(* finish_operation ends an operation by its own handle and by no other,   *)
(* for any number of operations, generations, instances and restarts.      *)
THEOREM OperationsEndByTheirHandle == Spec => []OwnHandleEnds
<1>1. HistoryInv => OwnHandleEnds
  BY Zenon DEF HistoryInv, HandlesFit, OwnHandleEnds, Mine
<1> QED BY <1>1, HistoryInvariance, PTL

(* After a restart the record says a commit was attempted exactly if this  *)
(* instance issued an attempt, and it never contradicts a recorded result. *)
THEOREM RestartsAreClassified == Spec => []RestartClassIsSound
<1>1. LeaseInv /\ HistoryInv => RestartClassIsSound
  <2> SUFFICES ASSUME LeaseInv, HistoryInv, ~live
               PROVE  /\ (classify(record, "None") = "StagedDiscarded") <=> (Mine(attempts) = {})
                      /\ \A x \in results : x[1].instance = instance =>
                           classify(record, "None") \in
                             (CASE x[2] = "Committed" -> {"Committed", "Indeterminate"}
                                [] x[2] = "NotCommitted" -> {"ProvenAbsent", "Indeterminate"}
                                [] x[2] = "Indeterminate" -> ExternalOutcomes)
    BY Zenon DEF RestartClassIsSound
  <2>1. /\ record = restart(lease) /\ lease.phase \in Phases
        /\ lease.commit_attempted <=> CommitPhase(lease.phase)
        /\ lease.commit_attempted <=> Mine(attempts) # {}
    BY Zenon DEF HistoryInv, LeaseInv, Good, Leases, AttemptsFit, Mine
  <2>2. record = "None" <=> ~CommitPhase(lease.phase)
    <3> DEFINE p == lease.phase
    <3>1. CASE p.tag = "Terminal"
      BY <2>1, <3>1 DEF restart, CommitPhase, is_commit_attempt
    <3>2. CASE p.tag = "CommitAttempted"
      BY <2>1, <3>2 DEF restart, CommitPhase
    <3>3. CASE p.tag = "Expired"
      BY <2>1, <3>3, PhaseShapes, Zenon DEF restart, CommitPhase
    <3>4. CASE p.tag \in {"Idle", "Operating", "Cancelling"}
      BY <2>1, <3>4 DEF restart, CommitPhase
    <3> QED BY <2>1, <3>1, <3>2, <3>3, <3>4, PhaseShapes, Zenon
  <2>3. record \in RestartRecords
    BY DEF LeaseInv, TypeOK
  <2>4. classify(record, "None") = (IF record = "None" THEN "StagedDiscarded" ELSE record)
    BY <2>3 DEF classify, RestartRecords, ExternalOutcomes
  <2>5. (classify(record, "None") = "StagedDiscarded") <=> (Mine(attempts) = {})
    BY <2>1, <2>2, <2>3, <2>4 DEF RestartRecords, ExternalOutcomes
  <2>6. ASSUME NEW x \in results
        PROVE  record \in (CASE x[2] = "Committed" -> {"Committed", "Indeterminate"}
                             [] x[2] = "NotCommitted" -> {"ProvenAbsent", "Indeterminate"}
                             [] x[2] = "Indeterminate" -> ExternalOutcomes)
    <3>1. x[2] \in CommitResults
      BY DEF LeaseInv, TypeOK
    <3>2. Stands(lease.phase, x[2])
      BY DEF HistoryInv, ResultsFit
    <3>3. lease.phase = Expired(TRUE) => record = "Indeterminate"
      BY <2>1 DEF restart, Expired
    <3>4. lease.phase.tag = "Terminal" =>
            /\ lease.phase.outcome = Committed => record = "Committed"
            /\ lease.phase.outcome = CommitProvenAbsent => record = "ProvenAbsent"
            /\ lease.phase.outcome = CommitIndeterminate => record = "Indeterminate"
      BY <2>1 DEF restart, Committed, CommitProvenAbsent, CommitIndeterminate
    <3>5. /\ OutcomeFor("Committed") = Committed
          /\ OutcomeFor("NotCommitted") = CommitProvenAbsent
          /\ OutcomeFor("Indeterminate") = CommitIndeterminate
      BY DEF OutcomeFor
    <3>6. CASE x[2] = "Committed"
      BY <3>2, <3>3, <3>4, <3>5, <3>6, Zenon DEF Stands
    <3>7. CASE x[2] = "NotCommitted"
      BY <3>2, <3>3, <3>4, <3>5, <3>7, Zenon DEF Stands
    <3>8. CASE x[2] = "Indeterminate"
      BY <3>2, <3>3, <3>4, <3>5, <3>8, Zenon DEF Stands, ExternalOutcomes
    <3> QED BY <3>1, <3>6, <3>7, <3>8, Zenon DEF CommitResults
  <2>7. results = {} \/ record # "None"
    <3>1. ASSUME NEW x \in results PROVE record # "None"
      <4>1. x[2] \in CommitResults
        BY Zenon DEF LeaseInv, TypeOK
      <4> QED BY <2>6, <4>1 DEF CommitResults, ExternalOutcomes
    <3> QED BY <3>1
  <2> QED BY <2>4, <2>5, <2>6, <2>7, Zenon
<1> QED BY <1>1, Invariance, HistoryInvariance, PTL


(* No step of a living lease overrides an outcome.                         *)
LEMMA StepIsFinal ==
    ASSUME LeaseInv, Next, live, live'
    PROVE  Final(lease.phase, lease'.phase)
<1>0. Good(lease) /\ lease.generation \in Nat /\ ops \subseteq Handles
  BY DEF LeaseInv, TypeOK, Good, Leases
<1>t. \A at \in Time : at \in Nat
  BY LimitsAreNat
<1>c. ASSUME NEW m, Calm(lease, m), lease' = m PROVE Final(lease.phase, lease'.phase)
  BY <1>c, Zenon DEF Calm
<1>i. lease.phase.tag \in {"Idle", "Operating", "CommitAttempted"} =>
        Final(lease.phase, lease'.phase)
  BY SMTT(30) DEF Final
<1>2. ASSUME NEW at \in Time,
             \/ Observe(at) \/ RequestCancel(at) \/ Rollback(at)
             \/ Dropped(at) \/ ResponseLost(at)
      PROVE  Final(lease.phase, lease'.phase)
  <2>1. at \in Nat /\ {"Explicit", "Dropped"} \subseteq RollbackReasons
    BY <1>t, Zenon DEF RollbackReasons
  <2>2. /\ Calm(lease, observe(lease, at).l) /\ Calm(lease, request_cancel(lease, at).l)
        /\ Calm(lease, rollback(lease, at).l) /\ Calm(lease, dropped(lease, at).l)
        /\ Calm(lease, response_lost(lease, at).l)
    BY <1>0, <2>1, ObserveMoves, RequestCancelMoves, RollBackMoves, ZenonT(30) DEF rollback, dropped
  <2> QED BY <1>2, <1>c, <2>2, Zenon
          DEF Observe, RequestCancel, Rollback, Dropped, ResponseLost, Keep
<1>3. ASSUME NEW at \in Time, NEW expected \in 1..lease.generation,
             NEW requested \in Extensions, Renew(at, expected, requested)
      PROVE  Final(lease.phase, lease'.phase)
  <2>1. at \in Nat /\ expected \in Nat /\ requested \in Nat
    BY <1>0, <1>t, BoundsAssumption
  <2>2. Calm(lease, renew(lease, at, expected, requested).l)
    BY <1>0, <2>1, RenewMoves
  <2> QED BY <1>3, <1>c, <2>2 DEF Renew, Keep
<1>4. ASSUME NEW at \in Time, NEW external \in ExternalOutcomes,
             ResolveIndeterminate(at, external)
      PROVE  Final(lease.phase, lease'.phase)
  <2>1. Calm(lease, resolve_indeterminate(lease, at, external).l)
    BY <1>0, <1>t, ResolveMoves, Zenon
  <2> QED BY <1>4, <1>c, <2>1, Zenon DEF ResolveIndeterminate, Keep
<1>5. ASSUME NEW at \in Time, BeginOperation(at)
      PROVE  Final(lease.phase, lease'.phase)
  <2>1. Calm(lease, begin_operation(lease, at).l) \/ lease.phase.tag = "Idle"
    BY <1>0, <1>t, BeginOperationMoves, Zenon
  <2> QED BY <1>5, <1>c, <1>i, <2>1, Zenon DEF BeginOperation
<1>6. ASSUME NEW at \in Time, NEW h \in ops, FinishOperation(at, h)
      PROVE  Final(lease.phase, lease'.phase)
  <2>1. Issued(h) \in BOOLEAN /\ h.seq \in Nat /\ at \in Nat
    BY <1>0, <1>t DEF Issued, Handles
  <2>2. \/ Calm(lease, finish_operation(lease, at, Issued(h), h.seq).l)
        \/ lease.phase.tag = "Operating"
    BY <1>0, <2>1, FinishOperationMoves, Zenon
  <2> QED BY <1>6, <1>c, <1>i, <2>2, Zenon DEF FinishOperation
<1>7. ASSUME NEW at \in Time, BeginCommit(at)
      PROVE  Final(lease.phase, lease'.phase)
  <2>1. Calm(lease, begin_commit(lease, at).l) \/ lease.phase.tag = "Idle"
    BY <1>0, <1>t, BeginCommitMoves, Zenon
  <2> QED BY <1>7, <1>c, <1>i, <2>1, Zenon DEF BeginCommit
<1>8. ASSUME NEW at \in Time, NEW a \in attempts, NEW result \in CommitResults,
             FinishCommit(at, a, result)
      PROVE  Final(lease.phase, lease'.phase)
  <2>1. Issued(a) \in BOOLEAN /\ at \in Nat
    BY <1>t, Zenon DEF Issued
  <2>2. Calm(lease, finish_commit(lease, at, Issued(a), result).l)
    BY <1>0, <2>1, FinishCommitMoves, Zenon
  <2> QED BY <1>8, <1>c, <2>2, Zenon DEF FinishCommit
<1>9. ~Restart /\ \A at : ~Begin(at)
  BY DEF Restart, Begin
<1> QED BY <1>2, <1>3, <1>4, <1>5, <1>6, <1>7, <1>8, <1>9, Zenon DEF Next

(* A definite outcome of a lease never changes, an expired lease stays     *)
(* expired, and a cancelling one keeps its first cleanup deadline.         *)
THEOREM OutcomesAreFinal == Spec => OutcomeIsFinal
<1> DEFINE Step == /\ live /\ live' /\ instance' = instance
                   => Final(lease.phase, lease'.phase)
<1>1. LeaseInv /\ [Next]_vars => [Step]_vars
  BY StepIsFinal, Zenon DEF vars
<1>2. [Step]_vars =>
        [/\ live /\ live' /\ instance' = instance
         => /\ lease.phase.tag = "Terminal" =>
                 \/ lease'.phase = lease.phase
                 \/ lease'.phase = Expired(is_commit_attempt(lease.phase.outcome))
                 \/ /\ lease.phase.outcome = CommitIndeterminate
                    /\ \E o \in {Committed, CommitProvenAbsent} :
                          lease'.phase = Terminal(o, lease.phase.at)
            /\ lease.phase.tag = "Expired" => lease'.phase = lease.phase
            /\ lease.phase.tag = "Cancelling" =>
                 lease'.phase = lease.phase \/ lease'.phase.tag \in {"Terminal", "Expired"}]_vars
  BY Zenon DEF Final
<1> HIDE DEF Step
<1> QED BY <1>1, <1>2, Invariance, PTL DEF Spec, OutcomeIsFinal
=============================================================================
