------------------------------- MODULE Outbox --------------------------------
(***************************************************************************)
(* The governed outbox and its retention: lib/oxigraph/src/store/outbox.rs,*)
(* store/retention.rs, and the backends' commit_with_receipt, govern_outbox*)
(* and receipt lookup.  A governed commit appends a header and one record  *)
(* per effect; consumers page through the records by cursor and pin them   *)
(* with persistent, fenced leases; maintenance expires whole commits and   *)
(* removes their records in bounded steps.                                 *)
(*                                                                         *)
(* Every step below is one batch under the writer permit: it is applied    *)
(* whole or not at all, also when its acknowledgement is lost, so that a   *)
(* crash adds no step.  A cursor is its position, 0 for no cursor.         *)
(***************************************************************************)
EXTENDS Naturals, FiniteSets

CONSTANTS
    Keys,           \* transaction keys
    LeaseIds,       \* caller-chosen lease identifiers
    Policies,       \* [max_records, max_leases]
    MaxEvents,      \* bound: effects of one commit
    MaxTime,        \* bound: clock observations and deadlines
    MaxNonce,       \* bound: leases acquired
    Limits          \* page and cleanup limits

ASSUME OutboxAssumption ==
    /\ IsFiniteSet(Keys)
    /\ MaxEvents \in Nat /\ MaxTime \in Nat /\ MaxNonce \in Nat
    /\ Limits \subseteq Nat \ {0}
    /\ Policies \subseteq [max_records : Nat \ {0}, max_leases : Nat \ {0}]

VARIABLES
    sequence,       \* GovernanceState: the latest receipt sequence
    outbox,         \*   OutboxState, once active
    retention,      \*   RetentionState, once configured
    records,        \* position -> outbox record
    outcome,        \* key -> governed outcome record
    acked           \* history: nonce -> where the owner of the token stands

vars == <<sequence, outbox, retention, records, outcome, acked>>

Time == 0..MaxTime

Least(a, b) == IF a <= b THEN a ELSE b

(* CommitReceipt; header 0 of a receipt from before the outbox.            *)
Receipts == [key : Keys, sequence : Nat, header : Nat, count : Nat]

End(receipt) == receipt.header + receipt.count

NoReceipt == [sequence |-> 0]

None == [tag |-> "None"]

Committed(receipt) == [tag |-> "Committed", receipt |-> receipt]

Expired(receipt) == [tag |-> "Expired", sequence |-> receipt.sequence]

(* A record of the outbox, the header or an event of a commit.             *)
HeaderRecord(receipt) == [tag |-> "Commit", receipt |-> receipt]

EventRecord(receipt, index) ==
    [tag |-> "Event", header |-> receipt.header, index |-> index,
     count |-> receipt.count, sequence |-> receipt.sequence]

(* A new store, or one with a receipt from before the outbox.              *)
Init ==
    /\ \E old \in {S \in SUBSET Keys : Cardinality(S) <= 1} :
         /\ sequence = Cardinality(old)
         /\ outcome = [k \in Keys |->
              IF k \in old
              THEN Committed([key |-> k, sequence |-> 1, header |-> 0, count |-> 0])
              ELSE None]
    /\ outbox = [active |-> FALSE, high_water |-> 0, after |-> 0]
    /\ retention = [configured |-> FALSE]
    /\ records = [p \in {} |-> None]
    /\ acked = [n \in 1..MaxNonce |-> 0]

floor == IF retention.configured THEN retention.floor ELSE 0

physical_gc == IF retention.configured THEN retention.physical_gc ELSE 0

anchor == IF retention.configured THEN retention.anchor ELSE NoReceipt

-----------------------------------------------------------------------------
(* Governed transactions.                                                  *)

(* Mutant: records that are expired but not yet removed are not counted. *)
CapacityAboveFloor(added) ==
    retention.configured =>
        outbox.high_water - floor + added <= retention.policy.max_records

check_capacity(added) ==
    retention.configured =>
        outbox.high_water - physical_gc + added <= retention.policy.max_records

(* outbox::prepare and the final batch of commit_with_receipt, for a       *)
(* transaction with n effects.                                             *)
Commit(k, n) ==
    LET header == outbox.high_water + 1
        receipt == [key |-> k, sequence |-> sequence + 1, header |-> header, count |-> n]
    IN /\ outcome[k] = None
       /\ check_capacity(n + 1)
       /\ records' = [p \in DOMAIN records \cup header..(header + n) |->
            IF p < header THEN records[p]
            ELSE IF p = header THEN HeaderRecord(receipt)
            ELSE EventRecord(receipt, p - header - 1)]
       /\ sequence' = receipt.sequence
       /\ outbox' = [active |-> TRUE, high_water |-> header + n,
                     after |-> IF outbox.active THEN outbox.after ELSE sequence]
       /\ outcome' = [outcome EXCEPT ![k] = Committed(receipt)]
       /\ UNCHANGED <<retention, acked>>

(* A governed transaction that is rolled back, or refused for capacity,    *)
(* leaves only its key.                                                    *)
Rollback(k) ==
    /\ outcome[k] = None
    /\ outcome' = [outcome EXCEPT ![k] = [tag |-> "RolledBack"]]
    /\ UNCHANGED <<sequence, outbox, retention, records, acked>>

-----------------------------------------------------------------------------
(* govern_outbox and retention::prepare.  Nothing changes on an error.     *)

(* No lineage is invented where governed keys already exist.               *)
LineageAvailable ==
    sequence > 0 \/ retention.configured \/ \A k \in Keys : outcome[k] = None

(* The cursor is neither ahead of the store nor expired.                   *)
CursorAccepted(after) == after <= outbox.high_water /\ (after = 0 \/ after >= floor)

Live(leases, now) ==
    [id \in {i \in DOMAIN leases : leases[i].expires > now} |-> leases[id]]

(* The clock does not regress; expired leases go with every action.        *)
Prepared(now) ==
    /\ LineageAvailable
    /\ retention.configured
    /\ now >= retention.clock

Observed(now) ==
    [retention EXCEPT !.clock = now, !.leases = Live(retention.leases, now)]

Configure(policy, now) ==
    /\ LineageAvailable
    /\ retention.configured =>
         /\ now >= retention.clock
         /\ Cardinality(DOMAIN Live(retention.leases, now)) <= policy.max_leases
    /\ retention' =
         IF retention.configured THEN [Observed(now) EXCEPT !.policy = policy]
         ELSE [configured |-> TRUE, policy |-> policy, clock |-> now, floor |-> 0,
               physical_gc |-> 0, anchor |-> NoReceipt, leases |-> [i \in {} |-> 0],
               nonce |-> 0]
    /\ UNCHANGED <<sequence, outbox, records, outcome, acked>>

(* A lease starts at the cursor, or at the floor.  `nonce` numbers the     *)
(* random nonces, which never repeat.                                      *)
Acquire(id, after, expires, now) ==
    /\ Prepared(now)
    /\ CursorAccepted(after)
    /\ expires > now
    /\ retention.nonce < MaxNonce
    /\ LET seen == Observed(now)
           lease == [nonce |-> seen.nonce + 1, expires |-> expires,
                     position |-> IF after = 0 THEN floor ELSE after]
       IN /\ id \notin DOMAIN seen.leases
          /\ Cardinality(DOMAIN seen.leases) < seen.policy.max_leases
          /\ acked' = [acked EXCEPT ![lease.nonce] = lease.position]
          /\ retention' = [seen EXCEPT
               !.nonce = @ + 1,
               !.leases = [i \in DOMAIN @ \cup {id} |-> IF i = id THEN lease ELSE @[i]]]
    /\ UNCHANGED <<sequence, outbox, records, outcome>>

(* Mutant: the token's nonce is not compared. *)
OwnedById(leases, id, nonce) == id \in DOMAIN leases

(* The token names a live lease and is not fenced by a newer owner.        *)
Owned(leases, id, nonce) == id \in DOMAIN leases /\ leases[id].nonce = nonce

Checkpoint(id, nonce, after, expires, now) ==
    /\ Prepared(now)
    /\ after > 0 /\ CursorAccepted(after)
    /\ expires > now
    /\ LET seen == Observed(now)
       IN /\ Owned(seen.leases, id, nonce)
          /\ after >= seen.leases[id].position
          /\ retention' = [seen EXCEPT !.leases[id].position = after,
                                       !.leases[id].expires = expires]
          /\ acked' = [acked EXCEPT ![nonce] = after]
    /\ UNCHANGED <<sequence, outbox, records, outcome>>

Release(id, nonce, now) ==
    /\ Prepared(now)
    /\ LET seen == Observed(now)
       IN /\ Owned(seen.leases, id, nonce)
          /\ retention' = [seen EXCEPT
               !.leases = [i \in DOMAIN @ \ {id} |-> @[i]]]
    /\ UNCHANGED <<sequence, outbox, records, outcome, acked>>

(* `end <= pin`: no live lease still needs a record up to `end`.           *)
BelowPin(leases, end) ==
    IF DOMAIN leases = {} THEN end <= outbox.high_water
    ELSE \A i \in DOMAIN leases : end <= leases[i].position

(* Mutant: a commit is expired when it only begins before cursor and pin. *)
ExpiresByHeader(seen, through) ==
    /\ seen.physical_gc = seen.floor
    /\ seen.floor < through
    /\ BelowPin(seen.leases, seen.floor + 1)

(* Mutant: a commit that ends at the pin is kept. *)
ExpiresBeforePin(seen, through) ==
    /\ seen.physical_gc = seen.floor
    /\ seen.floor < through
    /\ End(records[seen.floor + 1].receipt) <= through
    /\ BelowPin(seen.leases, End(records[seen.floor + 1].receipt) + 1)

(* The next commit is expired once the last one is removed, if it ends at  *)
(* or before the cursor and the pin.                                       *)
Expires(seen, through) ==
    /\ seen.physical_gc = seen.floor
    /\ seen.floor < through
    /\ End(records[seen.floor + 1].receipt) <= through
    /\ BelowPin(seen.leases, End(records[seen.floor + 1].receipt))

ExpireReceipt(receipt) == [outcome EXCEPT ![receipt.key] = Expired(receipt)]

(* One bounded step of maintenance: expire at most one commit, keeping its *)
(* receipt as the anchor, and remove at most `limit` expired records.      *)
Maintain(through, limit, now) ==
    /\ Prepared(now)
    /\ through > 0 /\ CursorAccepted(through)
    /\ LET seen == Observed(now)
           receipt == records[seen.floor + 1].receipt
           next == IF Expires(seen, through)
                   THEN [seen EXCEPT !.floor = End(receipt), !.anchor = receipt]
                   ELSE seen
           gc == Least(next.floor, next.physical_gc + limit)
       IN /\ retention' = [next EXCEPT !.physical_gc = gc]
          /\ records' = [p \in {q \in DOMAIN records : q > gc} |-> records[p]]
          /\ outcome' = IF next.floor = seen.floor THEN outcome
                        ELSE ExpireReceipt(receipt)
    /\ UNCHANGED <<sequence, outbox, acked>>

Cursors == 0..outbox.high_water

Next ==
    \/ \E k \in Keys : Rollback(k) \/ \E n \in 0..MaxEvents : Commit(k, n)
    \/ \E now \in Time :
         \/ \E policy \in Policies : Configure(policy, now)
         \/ \E id \in LeaseIds :
              \/ \E after \in Cursors, expires \in Time : Acquire(id, after, expires, now)
              \/ \E nonce \in 1..MaxNonce :
                   \/ Release(id, nonce, now)
                   \/ \E after \in Cursors, expires \in Time :
                        Checkpoint(id, nonce, after, expires, now)
         \/ \E through \in Cursors, limit \in Limits : Maintain(through, limit, now)

Spec == Init /\ [][Next]_vars

(* Maintenance is called again and again up to the high-water mark, at a   *)
(* clock that passes every deadline.                                       *)
MaintainedSpec ==
    Spec /\ WF_vars(\E limit \in Limits : Maintain(outbox.high_water, limit, MaxTime))

-----------------------------------------------------------------------------
(* The checks the code makes of what it reads, which report corruption.    *)

(* retention::validate.                                                    *)
StateValid ==
    retention.configured =>
      /\ Cardinality(DOMAIN retention.leases) <= retention.policy.max_leases
      /\ physical_gc <= floor /\ floor <= outbox.high_water
      /\ IF anchor = NoReceipt THEN floor = 0
         ELSE /\ anchor.sequence <= sequence /\ anchor.sequence > outbox.after
              /\ outbox.active /\ End(anchor) = floor
      /\ \A i \in DOMAIN retention.leases :
           LET lease == retention.leases[i]
           IN /\ lease.position <= outbox.high_water
              /\ lease.expires > retention.clock => lease.position >= floor

(* The receipt a reader finds for a key: of an expired one, the anchor.    *)
ReceiptFor(k) ==
    CASE outcome[k].tag = "Committed" -> outcome[k].receipt
      [] outcome[k].tag = "Expired" /\ outcome[k].sequence = anchor.sequence -> anchor
      [] OTHER -> NoReceipt

(* validate_header and validate_event.                                     *)
HeaderValid(receipt) ==
    /\ receipt.sequence > outbox.after /\ receipt.sequence <= sequence
    /\ receipt.header = 1 => receipt.sequence = outbox.after + 1
    /\ End(receipt) <= outbox.high_water
    /\ ReceiptFor(receipt.key) = receipt

EventOf(record, receipt) ==
    record.tag = "Event" =>
      /\ record.header = receipt.header /\ record.count = receipt.count
      /\ record.sequence = receipt.sequence

(* The header record that a record belongs to, as the reader finds it.     *)
HeaderAt(p) ==
    IF records[p].tag = "Commit" THEN records[p].receipt
    ELSE records[records[p].header].receipt

(* validate_cleanup_head and the origin of the records.                    *)
OriginValid ==
    /\ DOMAIN records = (physical_gc + 1)..outbox.high_water
    /\ physical_gc < floor =>
         LET head == records[physical_gc + 1]
         IN IF head.tag = "Commit" THEN head.receipt = anchor ELSE EventOf(head, anchor)

(* The latest commit, found from the high-water mark or the anchor.        *)
Latest ==
    IF outbox.high_water = floor THEN anchor ELSE HeaderAt(outbox.high_water)

LatestValid ==
    outbox.active =>
      /\ anchor # NoReceipt => HeaderValid(anchor)
      /\ Latest # NoReceipt
      /\ Latest.sequence = sequence /\ End(Latest) = outbox.high_water
      /\ HeaderValid(Latest)

(* The header before position p, from which read_page goes on.             *)
Before(p) == IF p > floor THEN HeaderAt(p) ELSE anchor

(* A page that reaches the record at p continues the one before it.        *)
SuccessorValid(p) ==
    LET previous == Before(p - 1)
    IN IF records[p].tag = "Event" THEN previous # NoReceipt /\ EventOf(records[p], previous)
       ELSE LET receipt == records[p].receipt
            IN /\ HeaderValid(receipt)
               /\ IF previous = NoReceipt
                  THEN p = 1 /\ receipt.sequence = outbox.after + 1
                  ELSE End(previous) + 1 = p /\ previous.sequence + 1 = receipt.sequence

(* lookup_commit_receipt of a key.                                         *)
LookupValid(k) ==
    CASE outcome[k].tag = "Committed" ->
           LET receipt == outcome[k].receipt
           IN /\ receipt.sequence <= sequence
              /\ IF receipt.header = 0
                 THEN outbox.active => receipt.sequence <= outbox.after
                 ELSE /\ outbox.active /\ receipt.sequence > outbox.after
                      /\ End(receipt) <= outbox.high_water /\ receipt.header > floor
      [] outcome[k].tag = "Expired" ->
           /\ outbox.active /\ outcome[k].sequence > outbox.after
           /\ outcome[k].sequence <= anchor.sequence
      [] OTHER -> TRUE

-----------------------------------------------------------------------------
OutcomeRecords ==
    {None, [tag |-> "RolledBack"]} \cup [tag : {"Committed"}, receipt : Receipts]
      \cup [tag : {"Expired"}, sequence : Nat]

TypeOK ==
    /\ sequence \in 0..Cardinality(Keys)
    /\ outbox \in [active : BOOLEAN, high_water : Nat, after : Nat]
    /\ retention.configured =>
         /\ retention.policy \in Policies /\ retention.clock \in Time
         /\ retention.anchor \in Receipts \cup {NoReceipt}
         /\ \A i \in DOMAIN retention.leases :
              retention.leases[i] \in [nonce : 1..MaxNonce, position : Nat, expires : Time]
    /\ \A k \in Keys : outcome[k] \in OutcomeRecords

(* Whatever commits, leases and maintenance came first, no read of the     *)
(* outbox with any cursor it accepts, and no receipt lookup, reports       *)
(* corruption: the anchor, floor, cleanup mark, records, receipts and      *)
(* leases always agree.  And a consumer whose lease has not expired by the *)
(* durable clock finds every record after the position it acknowledged     *)
(* itself, however the others commit and maintain, and whatever the        *)
(* holders of older tokens of the same lease id send.                      *)
NeverCorrupt ==
    /\ TypeOK /\ StateValid /\ OriginValid /\ LatestValid
    /\ \A p \in (floor + 1)..outbox.high_water : SuccessorValid(p)
    /\ \A k \in Keys : LookupValid(k)
    /\ retention.configured =>
         \A i \in DOMAIN retention.leases :
           LET lease == retention.leases[i]
           IN lease.expires > retention.clock =>
                (acked[lease.nonce] + 1)..outbox.high_water \subseteq DOMAIN records

(* Outside a change of policy the records on disk never exceed the         *)
(* configured capacity, expired ones that wait for removal included.       *)
CapacityHolds ==
    [][retention.configured /\ outbox'.high_water > outbox.high_water
         => Cardinality(DOMAIN records') <= retention.policy.max_records]_vars

(* Called often enough, maintenance removes every record: once the leases  *)
(* are over no commit is left, so that backpressure ends.                  *)
OutboxDrains == <>[](retention.configured => physical_gc = outbox.high_water)
=============================================================================
