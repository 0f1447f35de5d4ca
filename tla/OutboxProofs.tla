---------------------------- MODULE OutboxProofs -----------------------------
(***************************************************************************)
(* Proofs about Outbox: the live receipts tile the retained positions one  *)
(* after the other, from the anchor to the high-water mark.                *)
(***************************************************************************)
EXTENDS Outbox, FiniteSetTheorems, TLAPS

(* The key has a receipt whose records are retained.                       *)
IsLive(out, k) == out[k].tag = "Committed" /\ out[k].receipt.header > 0

(* What the commit of receipt r wrote at position q.                       *)
RecordOf(r, q) ==
    IF q = r.header THEN HeaderRecord(r) ELSE EventRecord(r, q - r.header - 1)

(* The commit that ends at position e with sequence s is the latest, or    *)
(* its successor begins right after it.                                    *)
Follows(seq, high, out, e, s) ==
    \/ e = high /\ s = seq
    \/ /\ e < high
       /\ \E k \in Keys : /\ IsLive(out, k)
                          /\ out[k].receipt.header = e + 1
                          /\ out[k].receipt.sequence = s + 1

LiveFits(seq, ob, fl, rs, out, k) ==
    LET r == out[k].receipt
    IN /\ r.key = k /\ fl < r.header /\ End(r) <= ob.high_water
       /\ ob.active /\ ob.after < r.sequence /\ r.sequence <= seq
       /\ r.header = 1 => r.sequence = ob.after + 1
       /\ \A q \in r.header..End(r) : rs[q] = RecordOf(r, q)
       /\ Follows(seq, ob.high_water, out, End(r), r.sequence)

OutcomeFits(seq, ob, fl, an, rs, out, k) ==
    /\ IsLive(out, k) => LiveFits(seq, ob, fl, rs, out, k)
    /\ out[k].tag = "Committed" /\ out[k].receipt.header = 0 =>
         out[k].receipt.sequence <= IF ob.active THEN ob.after ELSE seq
    /\ out[k].tag = "Expired" =>
         an # NoReceipt /\ ob.after < out[k].sequence /\ out[k].sequence <= an.sequence

AnchorFits(seq, ob, fl, gc, an, rs, out) ==
    IF an = NoReceipt
    THEN fl = 0 /\ Follows(seq, ob.high_water, out, 0, IF ob.active THEN ob.after ELSE seq)
    ELSE /\ ob.active /\ an.header > 0 /\ End(an) = fl /\ an.key \in Keys
         /\ ob.after < an.sequence /\ an.sequence <= seq
         /\ an.header = 1 => an.sequence = ob.after + 1
         /\ out[an.key] = Expired(an)
         /\ \A q \in (gc + 1)..fl : an.header <= q /\ rs[q] = RecordOf(an, q)
         /\ Follows(seq, ob.high_water, out, fl, an.sequence)

(* The anchor and the live receipts tile the records.                      *)
Chain(seq, ob, fl, gc, an, rs, out) ==
    /\ seq \in Nat /\ ob \in [active : BOOLEAN, high_water : Nat, after : Nat]
    /\ fl \in Nat /\ gc \in Nat /\ an \in Receipts \cup {NoReceipt}
    /\ out \in [Keys -> OutcomeRecords]
    /\ gc <= fl /\ fl <= ob.high_water /\ DOMAIN rs = (gc + 1)..ob.high_water
    /\ ob.active <=> ob.high_water > 0
    /\ \A k \in Keys : OutcomeFits(seq, ob, fl, an, rs, out, k)
    /\ AnchorFits(seq, ob, fl, gc, an, rs, out)
    /\ \A p \in (fl + 1)..ob.high_water :
         \E k \in Keys : IsLive(out, k) /\ p \in out[k].receipt.header..End(out[k].receipt)

(* Every sequence number was given to one key.                             *)
Counted(seq, out) ==
    seq = Cardinality({k \in Keys : out[k].tag \in {"Committed", "Expired"}})

LeaseRecords == [nonce : 1..MaxNonce, position : Nat, expires : Time]

LeaseMaps == UNION {[S -> LeaseRecords] : S \in SUBSET LeaseIds}

Retentions ==
    [configured : {TRUE}, policy : Policies, clock : Time, floor : Nat,
     physical_gc : Nat, anchor : Receipts \cup {NoReceipt}, leases : LeaseMaps,
     nonce : 0..MaxNonce]

(* Every lease on record is live, pins positions that are retained, and is *)
(* the one lease of its nonce.                                             *)
LeasesFit(ret, high, acks) ==
    /\ IsFiniteSet(DOMAIN ret.leases)
    /\ Cardinality(DOMAIN ret.leases) <= ret.policy.max_leases
    /\ \A i \in DOMAIN ret.leases :
         LET lease == ret.leases[i]
         IN /\ lease.nonce <= ret.nonce /\ lease.expires > ret.clock
            /\ lease.position >= ret.floor /\ lease.position <= high
            /\ acks[lease.nonce] = lease.position
    /\ \A i, j \in DOMAIN ret.leases : ret.leases[i].nonce = ret.leases[j].nonce => i = j

(* The inductive invariant.                                                *)
OutboxInv ==
    /\ Chain(sequence, outbox, floor, physical_gc, anchor, records, outcome)
    /\ Counted(sequence, outcome)
    /\ acked \in [1..MaxNonce -> Nat]
    /\ retention.configured \in BOOLEAN
    /\ retention.configured =>
         retention \in Retentions /\ LeasesFit(retention, outbox.high_water, acked)


-----------------------------------------------------------------------------
(* The shapes of the outcome of a key.                                     *)
LEMMA OutcomeShapes ==
    ASSUME NEW o \in OutcomeRecords
    PROVE  /\ o.tag \in {"None", "RolledBack", "Committed", "Expired"}
           /\ o.tag = "Committed" =>
                /\ o.receipt \in Receipts
                /\ o.receipt.key \in Keys /\ o.receipt.sequence \in Nat
                /\ o.receipt.header \in Nat /\ o.receipt.count \in Nat
                /\ End(o.receipt) \in Nat /\ o.receipt.header <= End(o.receipt)
                /\ o = Committed(o.receipt)
           /\ o.tag = "Expired" => o.sequence \in Nat
<1>1. o.tag = "Committed" => o \in [tag : {"Committed"}, receipt : Receipts]
  BY DEF OutcomeRecords, None
<1>2. o.tag = "Committed" =>
        /\ o.receipt \in Receipts
        /\ o.receipt.key \in Keys /\ o.receipt.sequence \in Nat
        /\ o.receipt.header \in Nat /\ o.receipt.count \in Nat
        /\ o = Committed(o.receipt)
  BY <1>1, Zenon DEF Receipts, Committed
<1>3. o.tag = "Committed" => End(o.receipt) \in Nat /\ o.receipt.header <= End(o.receipt)
  BY <1>2 DEF End
<1>4. /\ o.tag \in {"None", "RolledBack", "Committed", "Expired"}
      /\ o.tag = "Expired" => o.sequence \in Nat
  BY DEF OutcomeRecords, None
<1> QED BY <1>2, <1>3, <1>4, Zenon

(* The outcomes of a chain are of these shapes.                            *)
LEMMA ChainShapes ==
    ASSUME NEW seq, NEW ob, NEW fl, NEW gc, NEW an, NEW rs, NEW out,
           Chain(seq, ob, fl, gc, an, rs, out), NEW k \in Keys
    PROVE  /\ out[k] \in OutcomeRecords
           /\ out[k].tag \in {"None", "RolledBack", "Committed", "Expired"}
           /\ out[k].tag = "Committed" =>
                /\ out[k].receipt \in Receipts
                /\ out[k].receipt.key \in Keys /\ out[k].receipt.sequence \in Nat
                /\ out[k].receipt.header \in Nat /\ out[k].receipt.count \in Nat
                /\ End(out[k].receipt) \in Nat
                /\ out[k].receipt.header <= End(out[k].receipt)
                /\ out[k] = Committed(out[k].receipt)
           /\ out[k].tag = "Expired" => out[k].sequence \in Nat
<1>1. out[k] \in OutcomeRecords
  BY Zenon DEF Chain
<1> QED BY <1>1, OutcomeShapes, Zenon

(* The receipts from before the outbox are not after the latest one.       *)
LEMMA AfterBound ==
    ASSUME NEW seq, NEW ob, NEW fl, NEW gc, NEW an, NEW rs, NEW out,
           Chain(seq, ob, fl, gc, an, rs, out), ob.active
    PROVE  ob.after <= seq
<1>1. /\ seq \in Nat /\ ob.high_water \in Nat /\ ob.after \in Nat
      /\ an \in Receipts \cup {NoReceipt} /\ ob.high_water > 0
  BY Zenon DEF Chain
<1>2. CASE an = NoReceipt
  <2>1. Follows(seq, ob.high_water, out, 0, ob.after)
    BY <1>2, Zenon DEF Chain, AnchorFits
  <2>2. PICK i \in Keys : IsLive(out, i) /\ out[i].receipt.sequence = ob.after + 1
    BY <1>1, <2>1 DEF Follows
  <2>3. out[i].receipt.sequence <= seq
    BY <2>2, Zenon DEF Chain, OutcomeFits, LiveFits
  <2> QED BY <1>1, <2>2, <2>3
<1>3. CASE an # NoReceipt
  <2>1. an \in Receipts /\ an.sequence \in Nat
    BY <1>1, <1>3, Zenon DEF Receipts
  <2>2. ob.after < an.sequence /\ an.sequence <= seq
    BY <1>3, Zenon DEF Chain, AnchorFits
  <2> QED BY <1>1, <2>1, <2>2
<1> QED BY <1>2, <1>3, Zenon

(* A chain goes on when a commit takes the positions after the mark.       *)
LEMMA FollowsCommit ==
    ASSUME NEW seq \in Nat, NEW high \in Nat, NEW out, NEW out2, NEW e \in Nat, NEW s \in Nat,
           Follows(seq, high, out, e, s), NEW k \in Keys, ~IsLive(out, k),
           \A j \in Keys \ {k} : out2[j] = out[j], IsLive(out2, k),
           out2[k].receipt.header = high + 1, out2[k].receipt.sequence = seq + 1,
           NEW high2 \in Nat, high < high2
    PROVE  Follows(seq + 1, high2, out2, e, s)
<1>1. CASE e = high /\ s = seq
  BY <1>1, Zenon DEF Follows
<1>2. CASE e < high
  <2>1. PICK j \in Keys : /\ IsLive(out, j)
                          /\ out[j].receipt.header = e + 1
                          /\ out[j].receipt.sequence = s + 1
    BY <1>2 DEF Follows
  <2>2. j # k /\ out2[j] = out[j]
    BY <2>1, Zenon
  <2>3. IsLive(out2, j)
    BY <2>1, <2>2, Zenon DEF IsLive
  <2>4. e < high2
    BY <1>2
  <2> QED BY <2>1, <2>2, <2>3, <2>4, Zenon DEF Follows
<1> QED BY <1>1, <1>2, Zenon DEF Follows


(* What the commit of receipt r makes of outbox, records and outcomes.     *)
Commits(seq, ob, rs, out, k, n, r, ob2, rs2, out2) ==
    /\ k \in Keys /\ n \in Nat /\ out[k] = None
    /\ r = [key |-> k, sequence |-> seq + 1, header |-> ob.high_water + 1, count |-> n]
    /\ ob2 = [active |-> TRUE, high_water |-> ob.high_water + 1 + n,
              after |-> IF ob.active THEN ob.after ELSE seq]
    /\ out2 = [out EXCEPT ![k] = Committed(r)]
    /\ DOMAIN rs2 = DOMAIN rs \cup r.header..(r.header + n)
    /\ \A p \in DOMAIN rs2 : rs2[p] = (IF p < r.header THEN rs[p] ELSE RecordOf(r, p))

(* commit_with_receipt extends the chain by one receipt.                   *)
LEMMA CommitChain ==
    ASSUME NEW seq, NEW ob, NEW fl, NEW gc, NEW an, NEW rs, NEW out,
           Chain(seq, ob, fl, gc, an, rs, out),
           NEW k, NEW n, NEW r, NEW ob2, NEW rs2, NEW out2,
           Commits(seq, ob, rs, out, k, n, r, ob2, rs2, out2)
    PROVE  Chain(seq + 1, ob2, fl, gc, an, rs2, out2)
<1>0. /\ k \in Keys /\ n \in Nat /\ out[k] = None
      /\ r = [key |-> k, sequence |-> seq + 1, header |-> ob.high_water + 1, count |-> n]
      /\ ob2 = [active |-> TRUE, high_water |-> ob.high_water + 1 + n,
                after |-> IF ob.active THEN ob.after ELSE seq]
      /\ out2 = [out EXCEPT ![k] = Committed(r)]
      /\ DOMAIN rs2 = DOMAIN rs \cup r.header..(r.header + n)
      /\ \A p \in DOMAIN rs2 : rs2[p] = (IF p < r.header THEN rs[p] ELSE RecordOf(r, p))
  BY Zenon DEF Commits
<1> DEFINE high == ob.high_water
           high2 == ob2.high_water
<1>1. /\ seq \in Nat /\ ob \in [active : BOOLEAN, high_water : Nat, after : Nat]
      /\ fl \in Nat /\ gc \in Nat /\ an \in Receipts \cup {NoReceipt}
      /\ out \in [Keys -> OutcomeRecords]
      /\ gc <= fl /\ fl <= high /\ DOMAIN rs = (gc + 1)..high
      /\ ob.active <=> high > 0
      /\ high \in Nat /\ ob.after \in Nat /\ ob.active \in BOOLEAN
  BY Zenon DEF Chain
<1>2. /\ ob2 \in [active : BOOLEAN, high_water : Nat, after : Nat]
      /\ high2 = high + 1 + n /\ high2 \in Nat /\ ob2.active = TRUE
      /\ ob2.after = (IF ob.active THEN ob.after ELSE seq) /\ ob2.after \in Nat
  BY <1>0, <1>1
<1>3. /\ r \in Receipts /\ r.key = k /\ r.sequence = seq + 1 /\ r.header = high + 1
      /\ r.count = n /\ End(r) = high2
  BY <1>0, <1>1, <1>2 DEF Receipts, End
<1>4. /\ out2 \in [Keys -> OutcomeRecords]
      /\ out2[k].tag = "Committed" /\ out2[k].receipt = r
      /\ \A j \in Keys \ {k} : out2[j] = out[j]
  BY <1>0, <1>1, <1>3, Zenon DEF Committed, OutcomeRecords
<1>5. ~IsLive(out, k) /\ out[k].tag = "None"
  BY <1>0 DEF IsLive, None
<1>6. IsLive(out2, k) /\ \A j \in Keys \ {k} : IsLive(out2, j) <=> IsLive(out, j)
  BY <1>0, <1>1, <1>3, <1>4 DEF IsLive
<1>7. /\ DOMAIN rs2 = (gc + 1)..high2
      /\ \A p \in (gc + 1)..high : rs2[p] = rs[p]
      /\ \A p \in (high + 1)..high2 : rs2[p] = RecordOf(r, p)
  <2>1. DOMAIN rs2 = (gc + 1)..high \cup (high + 1)..(high + 1 + n)
    BY <1>0, <1>1, <1>3, Zenon
  <2>2. DOMAIN rs2 = (gc + 1)..high2
    BY <1>0, <1>1, <1>2, <2>1, SMTT(30)
  <2>3. ASSUME NEW p \in (gc + 1)..high PROVE rs2[p] = rs[p]
    <3>1. p \in DOMAIN rs2 /\ p < r.header
      BY <1>0, <1>1, <1>2, <1>3, <2>2
    <3> QED BY <1>0, <3>1, Zenon
  <2>4. ASSUME NEW p \in (high + 1)..high2 PROVE rs2[p] = RecordOf(r, p)
    <3>1. p \in DOMAIN rs2 /\ ~(p < r.header)
      BY <1>0, <1>1, <1>2, <1>3, <2>2
    <3> QED BY <1>0, <3>1, Zenon
  <2> QED BY <2>2, <2>3, <2>4, Zenon
<1> HIDE DEF high, high2
<1>8. \A e, s \in Nat : Follows(seq, high, out, e, s) => Follows(seq + 1, high2, out2, e, s)
  <2>1. high < high2
    BY <1>0, <1>1, <1>2, SMTT(30)
  <2>2. out2[k].receipt.header = high + 1 /\ out2[k].receipt.sequence = seq + 1
    BY <1>3, <1>4, Zenon
  <2> SUFFICES ASSUME NEW e \in Nat, NEW s \in Nat, Follows(seq, high, out, e, s)
               PROVE  Follows(seq + 1, high2, out2, e, s)
    BY Zenon
  <2> QED BY <1>0, <1>1, <1>2, <1>4, <1>5, <1>6, <2>1, <2>2, FollowsCommit, ZenonT(60)
<1>9. \A j \in Keys : OutcomeFits(seq + 1, ob2, fl, an, rs2, out2, j)
  <2> SUFFICES ASSUME NEW j \in Keys PROVE OutcomeFits(seq + 1, ob2, fl, an, rs2, out2, j)
    BY Zenon
  <2>1. CASE j = k
    <3>1. \A q \in r.header..End(r) : rs2[q] = RecordOf(r, q)
      BY <1>3, <1>7, Zenon
    <3>2. Follows(seq + 1, high2, out2, End(r), r.sequence)
      BY <1>3, Zenon DEF Follows
    <3>3. r.header = 1 => r.sequence = ob2.after + 1
      BY <1>1, <1>2, <1>3, SMTT(30)
    <3>4. fl < r.header /\ ob2.after < r.sequence /\ r.sequence <= seq + 1
      <4>1. ob.active => ob.after <= seq
        BY AfterBound, Zenon
      <4> QED BY <1>1, <1>2, <1>3, <4>1
    <3>5. LiveFits(seq + 1, ob2, fl, rs2, out2, j)
      <4>1. End(r) <= ob2.high_water
        BY <1>2, <1>3 DEF high2
      <4> QED BY <1>2, <1>3, <1>4, <2>1, <3>1, <3>2, <3>3, <3>4, <4>1, Zenon DEF LiveFits, high2
    <3>6. out2[j].tag = "Committed" /\ out2[j].receipt.header # 0
      BY <1>1, <1>3, <1>4, <2>1
    <3> QED BY <3>5, <3>6, Zenon DEF OutcomeFits
  <2>2. CASE j # k
    <3>1. OutcomeFits(seq, ob, fl, an, rs, out, j) /\ out2[j] = out[j]
          /\ (IsLive(out2, j) <=> IsLive(out, j))
      BY <1>4, <1>6, <2>2, Zenon DEF Chain
    <3> DEFINE x == out[j].receipt
    <3>2. out[j].tag = "Committed" =>
            x.sequence \in Nat /\ x.header \in Nat /\ End(x) \in Nat /\ x.header <= End(x)
      BY ChainShapes, Zenon
    <3>3. IsLive(out, j) => LiveFits(seq + 1, ob2, fl, rs2, out2, j)
      <4> SUFFICES ASSUME IsLive(out, j) PROVE LiveFits(seq + 1, ob2, fl, rs2, out2, j)
        BY Zenon
      <4>1. /\ x.key = j /\ fl < x.header /\ End(x) <= high
            /\ ob.active /\ ob.after < x.sequence /\ x.sequence <= seq
            /\ x.header = 1 => x.sequence = ob.after + 1
            /\ \A q \in x.header..End(x) : rs[q] = RecordOf(x, q)
            /\ Follows(seq, high, out, End(x), x.sequence)
        BY <3>1, Zenon DEF OutcomeFits, LiveFits, high
      <4>2. x.sequence \in Nat /\ x.header \in Nat /\ End(x) \in Nat /\ x.header <= End(x)
        BY <3>2, Zenon DEF IsLive
      <4> HIDE DEF x
      <4>3. Follows(seq + 1, high2, out2, End(x), x.sequence)
        BY <1>8, <4>1, <4>2, Zenon
      <4>4. \A q \in x.header..End(x) : rs2[q] = RecordOf(x, q)
        <5>1. \A q \in x.header..End(x) : q \in (gc + 1)..high
          BY <1>1, <4>1, <4>2, SMTT(30)
        <5> QED BY <1>7, <4>1, <5>1, Zenon
      <4>5. ob2.after = ob.after
        BY <1>2, <4>1, Zenon
      <4>6. End(x) <= ob2.high_water /\ x.sequence <= seq + 1
        <5>1. PICK e, s : e = End(x) /\ s = x.sequence
          BY Zenon
        <5>2. e \in Nat /\ e <= high /\ s \in Nat /\ s <= seq
          BY <4>1, <4>2, <5>1, Zenon
        <5>3. e <= ob2.high_water /\ s <= seq + 1
          BY <1>0, <1>1, <1>2, <5>2, SMTT(30) DEF high2
        <5> QED BY <5>1, <5>3, Zenon
      <4>7. out2[j].receipt = x
        BY <3>1, Zenon DEF x
      <4> QED BY <1>2, <4>1, <4>3, <4>4, <4>5, <4>6, <4>7, Zenon DEF LiveFits, high2
    <3>4. out[j].tag = "Committed" /\ x.header = 0 => x.sequence <= ob2.after
      BY <1>2, <3>1, Zenon DEF OutcomeFits
    <3>5. out[j].tag = "Expired" => ob2.after < out[j].sequence
      <4> SUFFICES ASSUME out[j].tag = "Expired" PROVE ob2.after < out[j].sequence
        BY Zenon
      <4>1. an # NoReceipt /\ ob.after < out[j].sequence
        BY <3>1, Zenon DEF OutcomeFits
      <4>2. ob.active
        BY <4>1, Zenon DEF Chain, AnchorFits
      <4> QED BY <1>2, <4>1, <4>2, Zenon
    <3> QED BY <1>2, <3>1, <3>3, <3>4, <3>5, Zenon DEF OutcomeFits
  <2> QED BY <2>1, <2>2, Zenon
<1>10. AnchorFits(seq + 1, ob2, fl, gc, an, rs2, out2)
  <2>0. AnchorFits(seq, ob, fl, gc, an, rs, out)
    BY Zenon DEF Chain
  <2>1. CASE an = NoReceipt
    <3>1. fl = 0 /\ Follows(seq, high, out, 0, ob2.after)
      BY <1>2, <2>0, <2>1, Zenon DEF AnchorFits, high
    <3>2. Follows(seq + 1, high2, out2, 0, ob2.after)
      BY <1>2, <1>8, <3>1, Zenon
    <3> QED BY <1>2, <2>1, <3>1, <3>2, Zenon DEF AnchorFits, high2
  <2>2. CASE an # NoReceipt
    <3>0. an \in Receipts /\ an.sequence \in Nat /\ an.key \in Keys /\ an.header \in Nat
      BY <1>1, <2>2, Zenon DEF Receipts
    <3>1. /\ ob.active /\ an.header > 0 /\ End(an) = fl
          /\ ob.after < an.sequence /\ an.sequence <= seq
          /\ an.header = 1 => an.sequence = ob.after + 1
          /\ out[an.key] = Expired(an)
          /\ \A q \in (gc + 1)..fl : an.header <= q /\ rs[q] = RecordOf(an, q)
          /\ Follows(seq, high, out, fl, an.sequence)
      BY <2>0, <2>2, Zenon DEF AnchorFits, high
    <3>2. ob2.after = ob.after
      BY <1>2, <3>1, Zenon
    <3>3. an.key # k
      BY <1>0, <3>1 DEF Expired, None
    <3>4. out2[an.key] = Expired(an)
      BY <1>4, <3>0, <3>1, <3>3, Zenon
    <3>5. \A q \in (gc + 1)..fl : rs2[q] = rs[q]
      BY <1>1, <1>7
    <3>6. Follows(seq + 1, high2, out2, fl, an.sequence)
      BY <1>1, <1>8, <3>0, <3>1, Zenon
    <3>7. an.sequence <= seq + 1
      BY <1>1, <3>0, <3>1
    <3> QED BY <1>2, <2>2, <3>0, <3>1, <3>2, <3>4, <3>5, <3>6, <3>7, Zenon DEF AnchorFits, high2
  <2> QED BY <2>1, <2>2, Zenon
<1>11. ASSUME NEW p \in (fl + 1)..high2
       PROVE  \E j \in Keys : IsLive(out2, j) /\ p \in out2[j].receipt.header..End(out2[j].receipt)
  <2>1. CASE p <= high
    <3>1. PICK j \in Keys : IsLive(out, j) /\ p \in out[j].receipt.header..End(out[j].receipt)
      <4>1. p \in (fl + 1)..ob.high_water
        BY <1>1, <1>2, <2>1 DEF high
      <4> QED BY <4>1, Zenon DEF Chain
    <3> QED BY <1>4, <1>5, <1>6, <3>1, Zenon
  <2>2. CASE ~(p <= high)
    <3>1. p \in r.header..End(r)
      BY <1>0, <1>1, <1>2, <1>3, <2>2
    <3>2. k \in Keys /\ IsLive(out2, k) /\ out2[k].receipt = r
      BY <1>0, <1>4, <1>6, Zenon
    <3> QED BY <3>1, <3>2, Zenon
  <2> QED BY <2>1, <2>2, Zenon
<1>12. /\ ob2.active <=> ob2.high_water > 0
       /\ fl <= ob2.high_water /\ seq + 1 \in Nat
  <2>1. high \in Nat /\ n \in Nat /\ fl \in Nat /\ fl <= high /\ seq \in Nat
    BY <1>0, <1>1, Zenon DEF high
  <2>2. high2 = high + 1 + n /\ ob2.active = TRUE /\ high2 = ob2.high_water
    BY <1>2, Zenon DEF high2
  <2>3. high2 > 0 /\ fl <= high2 /\ seq + 1 \in Nat
    BY <2>1, <2>2
  <2> QED BY <2>2, <2>3, Zenon
<1> QED BY <1>1, <1>2, <1>4, <1>7, <1>9, <1>10, <1>11, <1>12, Zenon DEF Chain, high2


(* The chain past e goes on where its next receipt keeps its outcome.      *)
LEMMA FollowsKeeps ==
    ASSUME NEW seq, NEW high, NEW out, NEW out2, NEW e, NEW s, Follows(seq, high, out, e, s),
           \A j \in Keys : IsLive(out, j) /\ out[j].receipt.header = e + 1 => out2[j] = out[j]
    PROVE  Follows(seq, high, out2, e, s)
<1>1. CASE e = high /\ s = seq
  BY <1>1, Zenon DEF Follows
<1>2. CASE e < high /\ ~(e = high /\ s = seq)
  <2>1. PICK j \in Keys : /\ IsLive(out, j)
                          /\ out[j].receipt.header = e + 1
                          /\ out[j].receipt.sequence = s + 1
    BY <1>2, Zenon DEF Follows
  <2>2. out2[j] = out[j]
    BY <2>1, Zenon
  <2>3. IsLive(out2, j)
    BY <2>1, <2>2, Zenon DEF IsLive
  <2> QED BY <1>2, <2>1, <2>2, <2>3, Zenon DEF Follows
<1> QED BY <1>1, <1>2, Zenon DEF Follows

(* A key that is rolled back leaves the chain alone.                       *)
LEMMA RollbackChain ==
    ASSUME NEW seq, NEW ob, NEW fl, NEW gc, NEW an, NEW rs, NEW out,
           Chain(seq, ob, fl, gc, an, rs, out),
           NEW k \in Keys, out[k] = None,
           NEW out2, out2 = [out EXCEPT ![k] = [tag |-> "RolledBack"]]
    PROVE  Chain(seq, ob, fl, gc, an, rs, out2)
<1>1. /\ out2 \in [Keys -> OutcomeRecords] /\ out2[k].tag = "RolledBack"
      /\ \A j \in Keys \ {k} : out2[j] = out[j]
  BY Zenon DEF Chain, OutcomeRecords
<1>2. ~IsLive(out, k) /\ ~IsLive(out2, k) /\ out[k].tag = "None"
  BY <1>1 DEF IsLive, None
<1>3. \A j \in Keys : IsLive(out2, j) <=> IsLive(out, j)
  BY <1>1, <1>2, Zenon DEF IsLive
<1>4. \A e, s : Follows(seq, ob.high_water, out, e, s) => Follows(seq, ob.high_water, out2, e, s)
  BY <1>1, <1>2, FollowsKeeps, Zenon
<1>5. ASSUME NEW j \in Keys PROVE OutcomeFits(seq, ob, fl, an, rs, out2, j)
  <2>1. CASE j = k
    BY <1>1, <1>2, <2>1, Zenon DEF OutcomeFits
  <2>2. CASE j # k
    <3>1. OutcomeFits(seq, ob, fl, an, rs, out, j) /\ out2[j] = out[j]
          /\ (IsLive(out2, j) <=> IsLive(out, j))
      BY <1>1, <1>3, <2>2, Zenon DEF Chain
    <3>2. IsLive(out, j) => LiveFits(seq, ob, fl, rs, out2, j)
      BY <1>4, <3>1, Zenon DEF OutcomeFits, LiveFits
    <3> QED BY <3>1, <3>2, Zenon DEF OutcomeFits
  <2> QED BY <2>1, <2>2, Zenon
<1>6. AnchorFits(seq, ob, fl, gc, an, rs, out2)
  <2>1. AnchorFits(seq, ob, fl, gc, an, rs, out)
    BY Zenon DEF Chain
  <2>2. an # NoReceipt => out2[an.key] = out[an.key]
    BY <1>1, <2>1 DEF AnchorFits, Expired, None
  <2> QED BY <1>4, <2>1, <2>2, Zenon DEF AnchorFits
<1>7. \A p \in (fl + 1)..ob.high_water : \E j \in Keys :
        IsLive(out2, j) /\ p \in out2[j].receipt.header..End(out2[j].receipt)
  <2> SUFFICES ASSUME NEW p \in (fl + 1)..ob.high_water
               PROVE  \E j \in Keys : /\ IsLive(out2, j)
                                      /\ p \in out2[j].receipt.header..End(out2[j].receipt)
    BY ZenonT(60)
  <2>1. PICK j \in Keys : IsLive(out, j) /\ p \in out[j].receipt.header..End(out[j].receipt)
    BY Zenon DEF Chain
  <2>2. out2[j] = out[j] /\ IsLive(out2, j)
    BY <1>1, <1>2, <1>3, <2>1, Zenon
  <2> QED BY <2>1, <2>2, Zenon
<1> QED BY <1>1, <1>5, <1>6, <1>7, Zenon DEF Chain

(* Removing expired records leaves the chain alone.                        *)
LEMMA CleanChain ==
    ASSUME NEW seq, NEW ob, NEW fl, NEW gc, NEW an, NEW rs, NEW out,
           Chain(seq, ob, fl, gc, an, rs, out),
           NEW gc2 \in Nat, gc <= gc2, gc2 <= fl,
           NEW rs2, rs2 = [p \in {q \in DOMAIN rs : q > gc2} |-> rs[p]]
    PROVE  Chain(seq, ob, fl, gc2, an, rs2, out)
<1>1. /\ fl \in Nat /\ gc \in Nat /\ ob.high_water \in Nat
      /\ fl <= ob.high_water /\ DOMAIN rs = (gc + 1)..ob.high_water
  BY Zenon DEF Chain
<1>2. /\ DOMAIN rs2 = (gc2 + 1)..ob.high_water
      /\ \A p \in (gc2 + 1)..ob.high_water : rs2[p] = rs[p]
  BY <1>1
<1>3. ASSUME NEW j \in Keys PROVE OutcomeFits(seq, ob, fl, an, rs2, out, j)
  <2>1. OutcomeFits(seq, ob, fl, an, rs, out, j)
    BY Zenon DEF Chain
  <2>2. ASSUME IsLive(out, j) PROVE LiveFits(seq, ob, fl, rs2, out, j)
    <3> DEFINE r == out[j].receipt
    <3>1. r.header \in Nat /\ End(r) \in Nat
      BY <2>2, ChainShapes, Zenon DEF IsLive
    <3>2. LiveFits(seq, ob, fl, rs, out, j)
      BY <2>1, <2>2, Zenon DEF OutcomeFits
    <3>3. fl < r.header /\ End(r) <= ob.high_water
      BY <3>2, Zenon DEF LiveFits
    <3> HIDE DEF r
    <3>4. \A q \in r.header..End(r) : rs2[q] = rs[q]
      BY <1>1, <1>2, <3>1, <3>3
    <3> QED BY <3>2, <3>4, ZenonT(60) DEF LiveFits, r
  <2> QED BY <2>1, <2>2, Zenon DEF OutcomeFits
<1>4. AnchorFits(seq, ob, fl, gc2, an, rs2, out)
  <2>1. AnchorFits(seq, ob, fl, gc, an, rs, out)
    BY Zenon DEF Chain
  <2>2. \A q \in (gc2 + 1)..fl : q \in (gc + 1)..fl /\ rs2[q] = rs[q]
    BY <1>1, <1>2
  <2> QED BY <2>1, <2>2, Zenon DEF AnchorFits
<1> QED BY <1>2, <1>3, <1>4, ZenonT(60) DEF Chain


(* No two live receipts share a position.                                  *)
LEMMA LiveApart ==
    ASSUME NEW seq, NEW ob, NEW fl, NEW gc, NEW an, NEW rs, NEW out,
           Chain(seq, ob, fl, gc, an, rs, out),
           NEW k \in Keys, IsLive(out, k), NEW j \in Keys, IsLive(out, j), j # k,
           out[k].receipt.header <= out[j].receipt.header
    PROVE  End(out[k].receipt) < out[j].receipt.header
<1> DEFINE x == out[k].receipt
           y == out[j].receipt
<1>1. /\ x.header \in Nat /\ x.count \in Nat /\ End(x) \in Nat
      /\ y.header \in Nat /\ y.count \in Nat /\ End(y) \in Nat /\ y.header <= End(y)
  BY ChainShapes, Zenon DEF IsLive
<1>2. /\ x.key = k /\ \A q \in x.header..End(x) : rs[q] = RecordOf(x, q)
      /\ y.key = j /\ \A q \in y.header..End(y) : rs[q] = RecordOf(y, q)
  BY Zenon DEF Chain, OutcomeFits, LiveFits
<1>3. x.header <= y.header
  BY Zenon
<1> SUFFICES ASSUME ~(End(x) < y.header) PROVE FALSE
  BY Zenon
<1> HIDE DEF x, y
<1>4. y.header \in x.header..End(x) /\ y.header \in y.header..End(y)
  BY <1>1, <1>3
<1>5. rs[y.header] = RecordOf(x, y.header) /\ rs[y.header] = HeaderRecord(y)
  BY <1>2, <1>4, Zenon DEF RecordOf
<1>6. RecordOf(x, y.header) = HeaderRecord(x)
  BY <1>5 DEF RecordOf, HeaderRecord, EventRecord
<1>7. x = y
  <2>1. HeaderRecord(x) = HeaderRecord(y)
    BY <1>5, <1>6, Zenon
  <2>2. HeaderRecord(x).receipt = x /\ HeaderRecord(y).receipt = y
    BY Zenon DEF HeaderRecord
  <2> QED BY <2>1, <2>2, Zenon
<1> QED BY <1>2, <1>7, Zenon

(* The record after the floor is the header of the oldest live receipt.    *)
LEMMA OldestReceipt ==
    ASSUME NEW seq, NEW ob, NEW fl, NEW gc, NEW an, NEW rs, NEW out,
           Chain(seq, ob, fl, gc, an, rs, out), fl < ob.high_water
    PROVE  \E k \in Keys : /\ IsLive(out, k) /\ out[k].receipt.header = fl + 1
                           /\ rs[fl + 1] = HeaderRecord(out[k].receipt)
<1>1. fl \in Nat /\ ob.high_water \in Nat
  BY Zenon DEF Chain
<1>2. fl + 1 \in (fl + 1)..ob.high_water
  BY <1>1
<1>3. PICK k \in Keys : IsLive(out, k) /\ fl + 1 \in out[k].receipt.header..End(out[k].receipt)
  BY <1>2, Zenon DEF Chain
<1> DEFINE x == out[k].receipt
<1>4. x.header \in Nat /\ End(x) \in Nat
  BY <1>3, ChainShapes, ZenonT(60) DEF IsLive
<1>5. fl < x.header /\ \A q \in x.header..End(x) : rs[q] = RecordOf(x, q)
  BY <1>3, Zenon DEF Chain, OutcomeFits, LiveFits
<1>6. x.header = fl + 1
  <2> HIDE DEF x
  <2>1. fl + 1 \in x.header..End(x)
    BY <1>3, Zenon DEF x
  <2> QED BY <1>1, <1>4, <1>5, <2>1
<1>7. rs[fl + 1] = HeaderRecord(x)
  BY <1>3, <1>5, <1>6, Zenon DEF RecordOf
<1> QED BY <1>3, <1>6, <1>7, Zenon

(* The oldest live receipt becomes the anchor.                             *)
LEMMA ExpireChain ==
    ASSUME NEW seq, NEW ob, NEW fl, NEW gc, NEW an, NEW rs, NEW out,
           Chain(seq, ob, fl, gc, an, rs, out), gc = fl,
           NEW k \in Keys, IsLive(out, k), NEW r, r = out[k].receipt, r.header = fl + 1,
           NEW out2, out2 = [out EXCEPT ![k] = Expired(r)]
    PROVE  Chain(seq, ob, End(r), gc, r, rs, out2)
<1>1. /\ seq \in Nat /\ ob \in [active : BOOLEAN, high_water : Nat, after : Nat]
      /\ fl \in Nat /\ gc \in Nat /\ out \in [Keys -> OutcomeRecords]
      /\ fl <= ob.high_water /\ DOMAIN rs = (gc + 1)..ob.high_water
      /\ ob.active <=> ob.high_water > 0
      /\ ob.high_water \in Nat /\ ob.after \in Nat
  BY Zenon  DEF Chain
<1>2. /\ r \in Receipts /\ r.key \in Keys /\ r.sequence \in Nat /\ r.header \in Nat
      /\ r.count \in Nat /\ End(r) \in Nat /\ r.header <= End(r)
  BY ChainShapes, Zenon DEF IsLive
<1>3. LiveFits(seq, ob, fl, rs, out, k)
  BY Zenon DEF Chain, OutcomeFits
<1>4. /\ r.key = k /\ End(r) <= ob.high_water /\ ob.active
      /\ ob.after < r.sequence /\ r.sequence <= seq
      /\ r.header = 1 => r.sequence = ob.after + 1
      /\ \A q \in r.header..End(r) : rs[q] = RecordOf(r, q)
      /\ Follows(seq, ob.high_water, out, End(r), r.sequence)
  BY <1>3, ZenonT(60) DEF LiveFits
<1>5. r # NoReceipt
  BY <1>1, <1>2, <1>4 DEF NoReceipt
<1>6. /\ out2 \in [Keys -> OutcomeRecords] /\ out2[k] = Expired(r)
      /\ out2[k].tag = "Expired" /\ out2[k].sequence = r.sequence
      /\ \A j \in Keys \ {k} : out2[j] = out[j]
  BY <1>1, <1>2, Zenon DEF Expired, OutcomeRecords
<1>7. ~IsLive(out2, k) /\ \A j \in Keys \ {k} : IsLive(out2, j) <=> IsLive(out, j)
  BY <1>6, Zenon DEF IsLive
<1>8. \A j \in Keys \ {k} : IsLive(out, j) => End(r) < out[j].receipt.header
  <2> SUFFICES ASSUME NEW j \in Keys \ {k}, IsLive(out, j)
               PROVE  End(r) < out[j].receipt.header
    BY Zenon
  <2>1. fl < out[j].receipt.header
    BY Zenon DEF Chain, OutcomeFits, LiveFits
  <2>2. out[j].receipt.header \in Nat
    BY ChainShapes, Zenon DEF IsLive
  <2>3. r.header <= out[j].receipt.header
    BY <1>1, <2>1, <2>2
  <2> QED BY <2>3, LiveApart, Zenon
<1>9. ASSUME NEW e \in Nat, NEW s, fl < e, Follows(seq, ob.high_water, out, e, s)
      PROVE  Follows(seq, ob.high_water, out2, e, s)
  <2>1. r.header # e + 1
    BY <1>1, <1>9
  <2>2. \A j \in Keys : IsLive(out, j) /\ out[j].receipt.header = e + 1 => out2[j] = out[j]
    BY <1>6, <2>1, Zenon
  <2> QED BY <1>9, <2>2, FollowsKeeps, Zenon
<1>10. an # NoReceipt => an.sequence < r.sequence
  <2> SUFFICES ASSUME an # NoReceipt PROVE an.sequence < r.sequence
    BY Zenon
  <2>1. an \in Receipts /\ an.sequence \in Nat
    BY Zenon DEF Chain, Receipts
  <2>2. Follows(seq, ob.high_water, out, fl, an.sequence)
    BY Zenon DEF Chain, AnchorFits
  <2>3. fl < ob.high_water
    BY <1>1, <1>2, <1>4, SMTT(30)
  <2>4. PICK j \in Keys : /\ IsLive(out, j) /\ out[j].receipt.header = fl + 1
                          /\ out[j].receipt.sequence = an.sequence + 1
    BY <1>1, <2>2, <2>3 DEF Follows
  <2>5. j = k
    <3>1. ~(End(r) < out[j].receipt.header)
      BY <1>1, <1>2, <2>4
    <3> QED BY <1>8, <2>4, <3>1, Zenon
  <2> QED BY <2>1, <2>4, <2>5
<1>11. ASSUME NEW j \in Keys PROVE OutcomeFits(seq, ob, End(r), r, rs, out2, j)
  <2>1. CASE j = k
    BY <1>2, <1>4, <1>5, <1>6, <1>7, <2>1 DEF OutcomeFits
  <2>2. CASE j # k
    <3>1. OutcomeFits(seq, ob, fl, an, rs, out, j) /\ out2[j] = out[j]
          /\ (IsLive(out2, j) <=> IsLive(out, j))
      BY <1>6, <1>7, <2>2, ZenonT(60) DEF Chain
    <3>2. ASSUME IsLive(out, j) PROVE LiveFits(seq, ob, End(r), rs, out2, j)
      <4> DEFINE y == out[j].receipt
      <4>1. End(y) \in Nat /\ y.header \in Nat /\ y.header <= End(y)
        BY <3>2, ChainShapes, Zenon DEF IsLive
      <4>2. LiveFits(seq, ob, fl, rs, out, j)
        BY <3>1, <3>2, Zenon DEF OutcomeFits
      <4>3. fl < y.header /\ End(r) < y.header
        BY <1>8, <2>2, <3>2, <4>2, Zenon DEF LiveFits
      <4>4. Follows(seq, ob.high_water, out, End(y), y.sequence)
        BY <4>2, Zenon DEF LiveFits
      <4>5. fl < End(y)
        <5> HIDE DEF y
        <5> QED BY <1>1, <4>1, <4>3
      <4>6. Follows(seq, ob.high_water, out2, End(y), y.sequence)
        BY <1>9, <4>1, <4>4, <4>5, Zenon
      <4> QED BY <3>1, <4>2, <4>3, <4>6, Zenon DEF LiveFits
    <3>3. out[j].tag = "Expired" => out[j].sequence <= r.sequence /\ ob.after < out[j].sequence
      <4> SUFFICES ASSUME out[j].tag = "Expired"
                   PROVE  out[j].sequence <= r.sequence /\ ob.after < out[j].sequence
        BY Zenon
      <4>1. an # NoReceipt /\ out[j].sequence <= an.sequence /\ ob.after < out[j].sequence
        BY <3>1, Zenon DEF OutcomeFits
      <4>2. an.sequence \in Nat /\ out[j].sequence \in Nat
        BY <4>1, ChainShapes, Zenon DEF Chain, Receipts
      <4> QED BY <1>2, <1>10, <4>1, <4>2
    <3> QED BY <1>5, <3>1, <3>2, <3>3, Zenon DEF OutcomeFits
  <2> QED BY <2>1, <2>2, ZenonT(60)
<1>12. AnchorFits(seq, ob, End(r), gc, r, rs, out2)
  <2>1. Follows(seq, ob.high_water, out2, End(r), r.sequence)
    <3>1. fl < End(r)
      BY <1>1, <1>2
    <3> QED BY <1>2, <1>4, <1>9, <3>1, Zenon
  <2>2. \A q \in (gc + 1)..End(r) : r.header <= q /\ rs[q] = RecordOf(r, q)
    <3>1. \A q \in (gc + 1)..End(r) : r.header <= q /\ q \in r.header..End(r)
      BY <1>1, <1>2
    <3> QED BY <1>4, <3>1, Zenon
  <2>3. r.header > 0
    BY <1>1
  <2> QED BY <1>2, <1>4, <1>5, <1>6, <2>1, <2>2, <2>3, Zenon DEF AnchorFits
<1>13. ASSUME NEW p \in (End(r) + 1)..ob.high_water
       PROVE  \E j \in Keys : IsLive(out2, j) /\ p \in out2[j].receipt.header..End(out2[j].receipt)
  <2>1. p \in (fl + 1)..ob.high_water /\ p \notin r.header..End(r)
    BY <1>1, <1>2, SMTT(30)
  <2>2. PICK j \in Keys : IsLive(out, j) /\ p \in out[j].receipt.header..End(out[j].receipt)
    BY <2>1, Zenon DEF Chain
  <2>3. j # k
    BY <2>1, <2>2, Zenon
  <2> QED BY <1>6, <1>7, <2>2, <2>3, ZenonT(60)
<1>14. gc <= End(r)
  BY <1>1, <1>2
<1> QED BY <1>1, <1>2, <1>4, <1>6, <1>11, <1>12, <1>13, <1>14, ZenonT(60) DEF Chain


-----------------------------------------------------------------------------
(* A commit gives the next sequence number to one more key.                *)
LEMMA CountedCommit ==
    ASSUME NEW seq, NEW out, out \in [Keys -> OutcomeRecords], Counted(seq, out),
           NEW k \in Keys, out[k].tag = "None", NEW r, NEW out2,
           out2 = [out EXCEPT ![k] = Committed(r)]
    PROVE  Counted(seq + 1, out2)
<1> DEFINE S == {j \in Keys : out[j].tag \in {"Committed", "Expired"}}
           S2 == {j \in Keys : out2[j].tag \in {"Committed", "Expired"}}
<1>1. IsFiniteSet(S)
  BY OutboxAssumption, FS_Subset, Zenon
<1>2. k \notin S
  BY Zenon
<1>3. out2[k].tag = "Committed" /\ \A j \in Keys \ {k} : out2[j] = out[j]
  BY Zenon DEF Committed
<1>4. S2 = S \cup {k}
  BY <1>3, Zenon
<1>5. Cardinality(S2) = Cardinality(S) + 1
  <2> HIDE DEF S, S2
  <2> QED BY <1>1, <1>2, <1>4, FS_AddElement, Zenon
<1> QED BY <1>5, Zenon DEF Counted

(* Rolling back a key, or expiring its receipt, gives no number away.      *)
LEMMA CountedKeeps ==
    ASSUME NEW seq, NEW out, Counted(seq, out), NEW out2,
           \A j \in Keys : out2[j].tag \in {"Committed", "Expired"}
                             <=> out[j].tag \in {"Committed", "Expired"}
    PROVE  Counted(seq, out2)
<1>1. {j \in Keys : out2[j].tag \in {"Committed", "Expired"}}
        = {j \in Keys : out[j].tag \in {"Committed", "Expired"}}
  BY Zenon
<1> QED BY <1>1, Zenon DEF Counted

(* A lease map is a function of the lease ids that are taken.              *)
LEMMA LeaseMapShape ==
    ASSUME NEW f
    PROVE  f \in LeaseMaps <=> DOMAIN f \in SUBSET LeaseIds /\ f \in [DOMAIN f -> LeaseRecords]
<1>1. ASSUME f \in LeaseMaps
      PROVE  DOMAIN f \in SUBSET LeaseIds /\ f \in [DOMAIN f -> LeaseRecords]
  <2>1. PICK S \in SUBSET LeaseIds : f \in [S -> LeaseRecords]
    BY <1>1, Zenon DEF LeaseMaps
  <2> QED BY <2>1, Zenon
<1>2. ASSUME DOMAIN f \in SUBSET LeaseIds, f \in [DOMAIN f -> LeaseRecords]
      PROVE  f \in LeaseMaps
  BY <1>2, Zenon DEF LeaseMaps
<1> QED BY <1>1, <1>2, Zenon

(* What the retention state holds once it is configured.                   *)
LEMMA RetentionShape ==
    ASSUME NEW ret \in Retentions
    PROVE  /\ ret.configured = TRUE /\ ret.policy \in Policies /\ ret.clock \in Time
           /\ ret.floor \in Nat /\ ret.physical_gc \in Nat
           /\ ret.anchor \in Receipts \cup {NoReceipt} /\ ret.leases \in LeaseMaps
           /\ ret.nonce \in 0..MaxNonce /\ ret.policy.max_leases \in Nat
           /\ ret.policy.max_records \in Nat
           /\ DOMAIN ret.leases \in SUBSET LeaseIds
           /\ ret.leases \in [DOMAIN ret.leases -> LeaseRecords]
           /\ \A i \in DOMAIN ret.leases :
                /\ ret.leases[i] \in LeaseRecords /\ ret.leases[i].nonce \in 1..MaxNonce
                /\ ret.leases[i].position \in Nat /\ ret.leases[i].expires \in Time
<1>1. /\ ret.configured = TRUE /\ ret.policy \in Policies /\ ret.clock \in Time
      /\ ret.floor \in Nat /\ ret.physical_gc \in Nat
      /\ ret.anchor \in Receipts \cup {NoReceipt} /\ ret.leases \in LeaseMaps
      /\ ret.nonce \in 0..MaxNonce
  BY Zenon DEF Retentions
<1>2. ret.policy.max_leases \in Nat /\ ret.policy.max_records \in Nat
  BY <1>1, OutboxAssumption, Zenon
<1>3. DOMAIN ret.leases \in SUBSET LeaseIds /\ ret.leases \in [DOMAIN ret.leases -> LeaseRecords]
  BY <1>1, LeaseMapShape, Zenon
<1>4. \A i \in DOMAIN ret.leases :
        /\ ret.leases[i] \in LeaseRecords /\ ret.leases[i].nonce \in 1..MaxNonce
        /\ ret.leases[i].position \in Nat /\ ret.leases[i].expires \in Time
  BY <1>3, Zenon DEF LeaseRecords
<1> QED BY <1>1, <1>2, <1>3, <1>4, Zenon

(* What the retention operators say of the invariant's state.              *)
LEMMA RetentionReads ==
    ASSUME OutboxInv, retention.configured
    PROVE  /\ retention \in Retentions /\ LeasesFit(retention, outbox.high_water, acked)
           /\ floor = retention.floor /\ physical_gc = retention.physical_gc
           /\ anchor = retention.anchor
BY Zenon DEF OutboxInv, floor, physical_gc, anchor

(* Observing the clock drops the expired leases and keeps the others.      *)
LEMMA ObservedFits ==
    ASSUME OutboxInv, retention.configured, NEW now \in Time, now >= retention.clock,
           NEW seen, seen = Observed(now)
    PROVE  /\ seen \in Retentions /\ LeasesFit(seen, outbox.high_water, acked)
           /\ seen.policy = retention.policy /\ seen.floor = floor
           /\ seen.physical_gc = physical_gc /\ seen.anchor = anchor
           /\ seen.nonce = retention.nonce /\ seen.clock = now
           /\ seen.leases = Live(retention.leases, now)
<1>1. /\ retention \in Retentions /\ LeasesFit(retention, outbox.high_water, acked)
      /\ floor = retention.floor /\ physical_gc = retention.physical_gc
      /\ anchor = retention.anchor
  BY RetentionReads, Zenon
<1> DEFINE L == retention.leases
           M == Live(L, now)
<1>2. /\ L \in [DOMAIN L -> LeaseRecords] /\ DOMAIN L \in SUBSET LeaseIds
      /\ \A i \in DOMAIN L : L[i].expires \in Time
  BY <1>1, RetentionShape, Zenon
<1>3. /\ DOMAIN M = {i \in DOMAIN L : L[i].expires > now}
      /\ \A i \in DOMAIN M : i \in DOMAIN L /\ M[i] = L[i] /\ M[i].expires > now
      /\ M \in [DOMAIN M -> LeaseRecords]
  BY <1>2, Zenon DEF Live
<1>4. M \in LeaseMaps
  BY <1>2, <1>3, LeaseMapShape, Zenon
<1> HIDE DEF M
<1>5. seen = [retention EXCEPT !.clock = now, !.leases = M]
  BY Zenon DEF Observed, M
<1>6. seen \in Retentions
  BY <1>1, <1>4, <1>5, Zenon DEF Retentions
<1>7. /\ seen.policy = retention.policy /\ seen.floor = floor
      /\ seen.physical_gc = physical_gc /\ seen.anchor = anchor
      /\ seen.nonce = retention.nonce /\ seen.clock = now /\ seen.leases = M
  BY <1>1, <1>5, Zenon DEF Retentions
<1>8. IsFiniteSet(DOMAIN M) /\ Cardinality(DOMAIN M) <= retention.policy.max_leases
  <2>1. IsFiniteSet(DOMAIN L) /\ Cardinality(DOMAIN L) <= retention.policy.max_leases
    BY <1>1, Zenon DEF LeasesFit
  <2>2. DOMAIN M \subseteq DOMAIN L
    BY <1>3, Zenon
  <2>3. /\ IsFiniteSet(DOMAIN M) /\ Cardinality(DOMAIN M) <= Cardinality(DOMAIN L)
        /\ Cardinality(DOMAIN M) \in Nat /\ Cardinality(DOMAIN L) \in Nat
    BY <2>1, <2>2, FS_Subset, FS_CardinalityType, Zenon
  <2>4. retention.policy.max_leases \in Nat
    BY <1>1, RetentionShape, ZenonT(60)
  <2> QED BY <2>1, <2>3, <2>4
<1>9. \A i \in DOMAIN M :
        /\ M[i].nonce <= retention.nonce /\ M[i].expires > now
        /\ M[i].position >= retention.floor /\ M[i].position <= outbox.high_water
        /\ acked[M[i].nonce] = M[i].position
  BY <1>1, <1>3, Zenon DEF LeasesFit
<1>10. \A i, j \in DOMAIN M : M[i].nonce = M[j].nonce => i = j
  BY <1>1, <1>3, Zenon DEF LeasesFit
<1>11. LeasesFit(seen, outbox.high_water, acked)
  BY <1>1, <1>7, <1>8, <1>9, <1>10 DEF LeasesFit
<1> QED BY <1>6, <1>7, <1>11, Zenon DEF M

(* A step that changes only leases, clock and policy keeps the invariant   *)
(* if the leases still fit.                                                *)
LEMMA LeaseStep ==
    ASSUME OutboxInv, UNCHANGED <<sequence, outbox, records, outcome>>,
           retention' \in Retentions, LeasesFit(retention', outbox.high_water, acked'),
           acked' \in [1..MaxNonce -> Nat], retention'.floor = floor,
           retention'.physical_gc = physical_gc, retention'.anchor = anchor
    PROVE  OutboxInv'
<1>1. retention'.configured = TRUE
  BY RetentionShape, Zenon
<1>2. floor' = floor /\ physical_gc' = physical_gc /\ anchor' = anchor
  BY <1>1, Zenon DEF floor, physical_gc, anchor
<1>3. Chain(sequence, outbox, floor, physical_gc, anchor, records, outcome)'
  BY <1>2, Zenon DEF OutboxInv
<1>4. Counted(sequence, outcome)'
  BY Zenon DEF OutboxInv
<1> QED BY <1>1, <1>3, <1>4, Zenon DEF OutboxInv


-----------------------------------------------------------------------------
(* Every step keeps the invariant, action by action.                       *)

(* A governed commit.                                                      *)
LEMMA CommitInv ==
    ASSUME OutboxInv, NEW k \in Keys, NEW n \in Nat, Commit(k, n)
    PROVE  OutboxInv'
<1> DEFINE r == [key |-> k, sequence |-> sequence + 1, header |-> outbox.high_water + 1,
                 count |-> n]
<1>1. /\ outcome[k] = None
      /\ records' = [p \in DOMAIN records \cup r.header..(r.header + n) |->
                       IF p < r.header THEN records[p]
                       ELSE IF p = r.header THEN HeaderRecord(r)
                       ELSE EventRecord(r, p - r.header - 1)]
      /\ sequence' = sequence + 1
      /\ outbox' = [active |-> TRUE, high_water |-> outbox.high_water + 1 + n,
                    after |-> IF outbox.active THEN outbox.after ELSE sequence]
      /\ outcome' = [outcome EXCEPT ![k] = Committed(r)]
      /\ retention' = retention /\ acked' = acked
  BY Zenon DEF Commit
<1>2. Chain(sequence, outbox, floor, physical_gc, anchor, records, outcome)
  BY Zenon DEF OutboxInv
<1>3. /\ DOMAIN records' = DOMAIN records \cup r.header..(r.header + n)
      /\ \A p \in DOMAIN records' :
           records'[p] = (IF p < r.header THEN records[p] ELSE RecordOf(r, p))
  BY <1>1, Zenon DEF RecordOf
<1>4. Chain(sequence + 1, outbox', floor, physical_gc, anchor, records', outcome')
  <2> HIDE DEF r
  <2>1. r = [key |-> k, sequence |-> sequence + 1, header |-> outbox.high_water + 1, count |-> n]
    BY Zenon DEF r
  <2>2. Commits(sequence, outbox, records, outcome, k, n, r, outbox', records', outcome')
    BY <1>1, <1>3, <2>1, ZenonT(60) DEF Commits
  <2> QED BY <1>2, <2>2, CommitChain, Zenon
<1>5. floor' = floor /\ physical_gc' = physical_gc /\ anchor' = anchor
  BY <1>1, Zenon DEF floor, physical_gc, anchor
<1>6. Counted(sequence', outcome')
  <2>1. Counted(sequence, outcome) /\ outcome \in [Keys -> OutcomeRecords]
    BY <1>2, Zenon DEF OutboxInv, Chain
  <2>2. outcome[k].tag = "None"
    BY <1>1, SMTT(30) DEF None
  <2> HIDE DEF r
  <2> QED BY <1>1, <2>1, <2>2, CountedCommit, ZenonT(60)
<1>7. ASSUME retention.configured PROVE LeasesFit(retention, outbox'.high_water, acked)
  <2>1. retention \in Retentions /\ LeasesFit(retention, outbox.high_water, acked)
    BY <1>7, Zenon DEF OutboxInv
  <2>2. outbox'.high_water = outbox.high_water + 1 + n /\ outbox.high_water \in Nat
    BY <1>1, <1>2, Zenon DEF Chain
  <2>3. \A i \in DOMAIN retention.leases : retention.leases[i].position \in Nat
    BY <2>1, RetentionShape, ZenonT(60)
  <2>4. \A i \in DOMAIN retention.leases : retention.leases[i].position <= outbox.high_water
    BY <2>1, Zenon DEF LeasesFit
  <2>5. \A i \in DOMAIN retention.leases : retention.leases[i].position <= outbox'.high_water
    BY <2>2, <2>3, <2>4
  <2> QED BY <2>1, <2>5, Zenon DEF LeasesFit
<1> HIDE DEF r
<1>8. Chain(sequence, outbox, floor, physical_gc, anchor, records, outcome)'
  BY <1>1, <1>4, <1>5, Zenon
<1> QED BY <1>1, <1>6, <1>7, <1>8, ZenonT(60) DEF OutboxInv

(* A rollback.                                                             *)
LEMMA RollbackInv ==
    ASSUME OutboxInv, NEW k \in Keys, Rollback(k)
    PROVE  OutboxInv'
<1>1. /\ outcome[k] = None /\ outcome' = [outcome EXCEPT ![k] = [tag |-> "RolledBack"]]
      /\ UNCHANGED <<sequence, outbox, retention, records, acked>>
  BY Zenon DEF Rollback
<1>2. Chain(sequence, outbox, floor, physical_gc, anchor, records, outcome)
  BY Zenon DEF OutboxInv
<1>3. Chain(sequence, outbox, floor, physical_gc, anchor, records, outcome')
  BY <1>1, <1>2, RollbackChain, Zenon
<1>4. floor' = floor /\ physical_gc' = physical_gc /\ anchor' = anchor
  BY <1>1, Zenon DEF floor, physical_gc, anchor
<1>5. Counted(sequence, outcome')
  <2>1. outcome \in [Keys -> OutcomeRecords] /\ Counted(sequence, outcome)
    BY <1>2, Zenon DEF Chain, OutboxInv
  <2>2. \A j \in Keys : outcome'[j].tag \in {"Committed", "Expired"}
                          <=> outcome[j].tag \in {"Committed", "Expired"}
    BY <1>1, <2>1 DEF None
  <2> QED BY <2>1, <2>2, CountedKeeps, Zenon
<1>6. Chain(sequence, outbox, floor, physical_gc, anchor, records, outcome)'
  BY <1>1, <1>3, <1>4, Zenon
<1> QED BY <1>1, <1>5, <1>6, Zenon DEF OutboxInv

(* The first configuration, or a new policy.                               *)
LEMMA ConfigureInv ==
    ASSUME OutboxInv, NEW policy \in Policies, NEW now \in Time, Configure(policy, now)
    PROVE  OutboxInv'
<1>1. UNCHANGED <<sequence, outbox, records, outcome, acked>>
  BY Zenon DEF Configure
<1>2. CASE retention.configured
  <2> DEFINE seen == Observed(now)
  <2>1. now >= retention.clock /\ Cardinality(DOMAIN Live(retention.leases, now)) <= policy.max_leases
        /\ retention' = [seen EXCEPT !.policy = policy]
    BY <1>2, Zenon DEF Configure
  <2>2. /\ seen \in Retentions /\ LeasesFit(seen, outbox.high_water, acked)
        /\ seen.floor = floor /\ seen.physical_gc = physical_gc /\ seen.anchor = anchor
        /\ seen.leases = Live(retention.leases, now)
    BY <1>2, <2>1, ObservedFits
  <2> HIDE DEF seen
  <2>3. /\ retention' \in Retentions /\ retention'.policy = policy
        /\ retention'.floor = floor /\ retention'.physical_gc = physical_gc
        /\ retention'.anchor = anchor /\ retention'.leases = seen.leases
        /\ retention'.nonce = seen.nonce /\ retention'.clock = seen.clock
    BY <2>1, <2>2, Zenon DEF Retentions
  <2>4. retention'.floor = seen.floor /\ Cardinality(DOMAIN seen.leases) <= policy.max_leases
    BY <2>1, <2>2, <2>3, Zenon
  <2>5. LeasesFit(retention', outbox.high_water, acked)
    BY <2>2, <2>3, <2>4, Zenon DEF LeasesFit
  <2>6. acked' \in [1..MaxNonce -> Nat] /\ acked' = acked
    BY <1>1, Zenon DEF OutboxInv
  <2> QED BY <1>1, <2>3, <2>5, <2>6, LeaseStep, Zenon
<1>3. CASE ~retention.configured
  <2>1. retention' = [configured |-> TRUE, policy |-> policy, clock |-> now, floor |-> 0,
                      physical_gc |-> 0, anchor |-> NoReceipt, leases |-> [i \in {} |-> 0],
                      nonce |-> 0]
    BY <1>3, Zenon DEF Configure
  <2>2. floor = 0 /\ physical_gc = 0 /\ anchor = NoReceipt
    BY <1>3, Zenon DEF floor, physical_gc, anchor
  <2>3. [i \in {} |-> 0] \in LeaseMaps
    <3>1. [i \in {} |-> 0] \in [{} -> LeaseRecords]
      BY ZenonT(60)
    <3> QED BY <3>1, Zenon DEF LeaseMaps
  <2>4. retention' \in Retentions
    BY <2>1, <2>3, OutboxAssumption DEF Retentions
  <2>5. DOMAIN retention'.leases = {} /\ retention'.policy = policy
    BY <2>1, Zenon
  <2>6. IsFiniteSet({}) /\ Cardinality({}) = 0 /\ policy.max_leases \in Nat
    BY FS_EmptySet, OutboxAssumption, Zenon
  <2>7. LeasesFit(retention', outbox.high_water, acked)
    BY <2>5, <2>6 DEF LeasesFit
  <2>8. acked' \in [1..MaxNonce -> Nat] /\ acked' = acked
    BY <1>1, Zenon DEF OutboxInv
  <2> QED BY <1>1, <2>1, <2>2, <2>4, <2>7, <2>8, LeaseStep, Zenon
<1> QED BY <1>2, <1>3, Zenon


(* A new lease at a cursor that is not expired, with a fresh nonce.        *)
LEMMA AcquireInv ==
    ASSUME OutboxInv, NEW id \in LeaseIds, NEW after \in Cursors, NEW expires \in Time,
           NEW now \in Time, Acquire(id, after, expires, now)
    PROVE  OutboxInv'
<1> DEFINE seen == Observed(now)
           lease == [nonce |-> seen.nonce + 1, expires |-> expires,
                     position |-> IF after = 0 THEN floor ELSE after]
           L == seen.leases
           M == [i \in DOMAIN L \cup {id} |-> IF i = id THEN lease ELSE L[i]]
<1>1. /\ retention.configured /\ now >= retention.clock
      /\ after <= outbox.high_water /\ (after = 0 \/ after >= floor) /\ expires > now
      /\ retention.nonce < MaxNonce /\ id \notin DOMAIN L
      /\ Cardinality(DOMAIN L) < seen.policy.max_leases
      /\ acked' = [acked EXCEPT ![lease.nonce] = lease.position]
      /\ UNCHANGED <<sequence, outbox, records, outcome>>
  BY Zenon DEF Acquire, Prepared, CursorAccepted
<1>2. retention' = [seen EXCEPT !.nonce = seen.nonce + 1, !.leases = M]
  BY ZenonT(60) DEF Acquire
<1>3. /\ seen \in Retentions /\ LeasesFit(seen, outbox.high_water, acked)
      /\ seen.policy = retention.policy /\ seen.floor = floor
      /\ seen.physical_gc = physical_gc /\ seen.anchor = anchor
      /\ seen.nonce = retention.nonce /\ seen.clock = now
  BY <1>1, ObservedFits
<1> HIDE DEF seen
<1>4. /\ floor \in Nat /\ outbox.high_water \in Nat /\ floor <= outbox.high_water
      /\ acked \in [1..MaxNonce -> Nat] /\ MaxNonce \in Nat /\ MaxTime \in Nat
  BY OutboxAssumption, Zenon DEF OutboxInv, Chain
<1>5. /\ seen.nonce \in 0..MaxNonce /\ L \in [DOMAIN L -> LeaseRecords]
      /\ DOMAIN L \in SUBSET LeaseIds /\ seen.policy.max_leases \in Nat
      /\ \A i \in DOMAIN L : L[i].nonce \in 1..MaxNonce
  BY <1>3, RetentionShape, ZenonT(60)
<1>6. /\ lease.nonce = seen.nonce + 1 /\ lease.expires = expires
      /\ lease.nonce \in 1..MaxNonce /\ lease.position \in Nat
      /\ lease.position >= floor /\ lease.position <= outbox.high_water
  BY <1>1, <1>3, <1>4, <1>5 DEF Cursors
<1>7. lease \in LeaseRecords
  BY <1>6, Zenon DEF LeaseRecords
<1> HIDE DEF lease
<1>8. /\ DOMAIN M = DOMAIN L \cup {id} /\ M[id] = lease
      /\ \A i \in DOMAIN L : i # id /\ M[i] = L[i]
      /\ M \in [DOMAIN M -> LeaseRecords] /\ DOMAIN M \in SUBSET LeaseIds
  BY <1>1, <1>5, <1>7, Zenon
<1>9. M \in LeaseMaps
  BY <1>8, LeaseMapShape, Zenon
<1> HIDE DEF M
<1>10. /\ retention' \in Retentions /\ retention'.policy = seen.policy
       /\ retention'.floor = floor /\ retention'.physical_gc = physical_gc
       /\ retention'.anchor = anchor /\ retention'.leases = M
       /\ retention'.nonce = seen.nonce + 1 /\ retention'.clock = now
  <2>1. seen.nonce + 1 \in 0..MaxNonce
    BY <1>4, <1>6
  <2> QED BY <1>2, <1>3, <1>9, <2>1, Zenon DEF Retentions
<1>11. /\ acked' \in [1..MaxNonce -> Nat] /\ acked'[lease.nonce] = lease.position
       /\ \A m \in 1..MaxNonce : m # lease.nonce => acked'[m] = acked[m]
  BY <1>1, <1>4, <1>6, Zenon
<1>12. /\ \A i \in DOMAIN L : /\ L[i].nonce <= seen.nonce /\ L[i].expires > now
                              /\ L[i].position >= floor /\ L[i].position <= outbox.high_water
                              /\ acked[L[i].nonce] = L[i].position
       /\ \A i, j \in DOMAIN L : L[i].nonce = L[j].nonce => i = j
       /\ IsFiniteSet(DOMAIN L)
  BY <1>3, ZenonT(60) DEF LeasesFit
<1>13. \A i \in DOMAIN L : L[i].nonce <= seen.nonce + 1 /\ L[i].nonce # lease.nonce
  BY <1>5, <1>6, <1>12
<1>14. \A i \in DOMAIN M :
         /\ M[i].nonce <= seen.nonce + 1 /\ M[i].expires > now
         /\ M[i].position >= floor /\ M[i].position <= outbox.high_water
         /\ acked'[M[i].nonce] = M[i].position
  <2> SUFFICES ASSUME NEW i \in DOMAIN M
               PROVE  /\ M[i].nonce <= seen.nonce + 1 /\ M[i].expires > now
                      /\ M[i].position >= floor /\ M[i].position <= outbox.high_water
                      /\ acked'[M[i].nonce] = M[i].position
    BY Zenon
  <2>1. CASE i = id
    <3>1. seen.nonce + 1 <= seen.nonce + 1
      BY <1>5, SMTT(30)
    <3> QED BY <1>1, <1>6, <1>8, <1>11, <2>1, <3>1, ZenonT(60)
  <2>2. CASE i \in DOMAIN L
    BY <1>5, <1>8, <1>11, <1>12, <1>13, <2>2
  <2> QED BY <1>8, <2>1, <2>2, Zenon
<1>15. \A i, j \in DOMAIN M : M[i].nonce = M[j].nonce => i = j
  BY <1>8, <1>12, <1>13, ZenonT(60)
<1>16. IsFiniteSet(DOMAIN M) /\ Cardinality(DOMAIN M) <= seen.policy.max_leases
  <2>1. IsFiniteSet(DOMAIN M) /\ Cardinality(DOMAIN M) = Cardinality(DOMAIN L) + 1
    BY <1>1, <1>8, <1>12, FS_AddElement
  <2>2. Cardinality(DOMAIN L) \in Nat
    BY <1>12, FS_CardinalityType, Zenon
  <2> QED BY <1>1, <1>5, <2>1, <2>2, SMTT(30)
<1>17. LeasesFit(retention', outbox.high_water, acked')
  BY <1>10, <1>14, <1>15, <1>16, Zenon DEF LeasesFit
<1> QED BY <1>1, <1>10, <1>11, <1>17, LeaseStep, Zenon

(* The owner of a live lease moves it forward.                             *)
LEMMA CheckpointInv ==
    ASSUME OutboxInv, NEW id \in LeaseIds, NEW nonce \in 1..MaxNonce, NEW after \in Cursors,
           NEW expires \in Time, NEW now \in Time, Checkpoint(id, nonce, after, expires, now)
    PROVE  OutboxInv'
<1> DEFINE seen == Observed(now)
           L == seen.leases
           M == [L EXCEPT ![id].position = after, ![id].expires = expires]
<1>1. /\ retention.configured /\ now >= retention.clock
      /\ after <= outbox.high_water /\ after > 0 /\ (after = 0 \/ after >= floor)
      /\ expires > now /\ id \in DOMAIN L /\ L[id].nonce = nonce
      /\ acked' = [acked EXCEPT ![nonce] = after]
      /\ UNCHANGED <<sequence, outbox, records, outcome>>
  BY Zenon DEF Checkpoint, Prepared, CursorAccepted, Owned
<1>2. retention' = [seen EXCEPT !.leases[id].position = after, !.leases[id].expires = expires]
  BY Zenon DEF Checkpoint
<1>3. /\ seen \in Retentions /\ LeasesFit(seen, outbox.high_water, acked)
      /\ seen.policy = retention.policy /\ seen.floor = floor
      /\ seen.physical_gc = physical_gc /\ seen.anchor = anchor
      /\ seen.nonce = retention.nonce /\ seen.clock = now
  BY <1>1, ObservedFits, ZenonT(60)
<1> HIDE DEF seen
<1>4. /\ floor \in Nat /\ outbox.high_water \in Nat
      /\ acked \in [1..MaxNonce -> Nat] /\ after \in Nat /\ after >= floor
  BY <1>1 DEF OutboxInv, Chain, Cursors
<1>5. /\ L \in [DOMAIN L -> LeaseRecords] /\ DOMAIN L \in SUBSET LeaseIds
      /\ L \in LeaseMaps /\ \A i \in DOMAIN L : L[i].nonce \in 1..MaxNonce
  BY <1>3, RetentionShape, Zenon
<1>6. /\ M \in [DOMAIN L -> LeaseRecords] /\ DOMAIN M = DOMAIN L
      /\ M[id].nonce = nonce /\ M[id].position = after /\ M[id].expires = expires
      /\ \A i \in DOMAIN L : i # id => M[i] = L[i]
  BY <1>1, <1>4, <1>5, Zenon DEF LeaseRecords
<1>7. M \in LeaseMaps
  BY <1>5, <1>6, LeaseMapShape, Zenon
<1>8. retention' = [seen EXCEPT !.leases = M]
  BY <1>2, <1>3, Zenon DEF Retentions
<1> HIDE DEF M
<1>9. /\ retention' \in Retentions /\ retention'.policy = seen.policy
      /\ retention'.floor = floor /\ retention'.physical_gc = physical_gc
      /\ retention'.anchor = anchor /\ retention'.leases = M
      /\ retention'.nonce = seen.nonce /\ retention'.clock = now
  BY <1>3, <1>7, <1>8, Zenon DEF Retentions
<1>10. /\ acked' \in [1..MaxNonce -> Nat] /\ acked'[nonce] = after
       /\ \A m \in 1..MaxNonce : m # nonce => acked'[m] = acked[m]
  BY <1>1, <1>4, Zenon
<1>11. /\ \A i \in DOMAIN L : /\ L[i].nonce <= seen.nonce /\ L[i].expires > now
                              /\ L[i].position >= floor /\ L[i].position <= outbox.high_water
                              /\ acked[L[i].nonce] = L[i].position
       /\ \A i, j \in DOMAIN L : L[i].nonce = L[j].nonce => i = j
       /\ IsFiniteSet(DOMAIN L) /\ Cardinality(DOMAIN L) <= seen.policy.max_leases
  BY <1>3, Zenon DEF LeasesFit
<1>12. \A i \in DOMAIN M :
         /\ M[i].nonce <= seen.nonce /\ M[i].expires > now
         /\ M[i].position >= floor /\ M[i].position <= outbox.high_water
         /\ acked'[M[i].nonce] = M[i].position
  <2> SUFFICES ASSUME NEW i \in DOMAIN M
               PROVE  /\ M[i].nonce <= seen.nonce /\ M[i].expires > now
                      /\ M[i].position >= floor /\ M[i].position <= outbox.high_water
                      /\ acked'[M[i].nonce] = M[i].position
    BY Zenon
  <2>1. CASE i = id
    BY <1>1, <1>4, <1>6, <1>10, <1>11, <2>1, ZenonT(60)
  <2>2. CASE i # id
    <3>1. M[i] = L[i] /\ L[i].nonce # nonce /\ L[i].nonce \in 1..MaxNonce
      BY <1>1, <1>5, <1>6, <1>11, <2>2, Zenon
    <3> QED BY <1>6, <1>10, <1>11, <3>1
  <2> QED BY <2>1, <2>2, Zenon
<1>13. \A i, j \in DOMAIN M : M[i].nonce = M[j].nonce => i = j
  <2>1. \A i \in DOMAIN M : M[i].nonce = L[i].nonce
    BY <1>1, <1>6, Zenon
  <2> QED BY <1>6, <1>11, <2>1, Zenon
<1>14. LeasesFit(retention', outbox.high_water, acked')
  BY <1>6, <1>9, <1>11, <1>12, <1>13, Zenon DEF LeasesFit
<1> QED BY <1>1, <1>9, <1>10, <1>14, LeaseStep, Zenon


(* The owner of a live lease gives it up.                                  *)
LEMMA ReleaseInv ==
    ASSUME OutboxInv, NEW id \in LeaseIds, NEW nonce \in 1..MaxNonce, NEW now \in Time,
           Release(id, nonce, now)
    PROVE  OutboxInv'
<1> DEFINE seen == Observed(now)
           L == seen.leases
           M == [i \in DOMAIN L \ {id} |-> L[i]]
<1>1. /\ retention.configured /\ now >= retention.clock /\ acked' = acked
      /\ UNCHANGED <<sequence, outbox, records, outcome>>
  BY Zenon DEF Release, Prepared
<1>2. retention' = [seen EXCEPT !.leases = M]
  BY Zenon DEF Release
<1>3. /\ seen \in Retentions /\ LeasesFit(seen, outbox.high_water, acked)
      /\ seen.policy = retention.policy /\ seen.floor = floor
      /\ seen.physical_gc = physical_gc /\ seen.anchor = anchor /\ seen.clock = now
  BY <1>1, ObservedFits, ZenonT(60)
<1> HIDE DEF seen
<1>4. /\ L \in [DOMAIN L -> LeaseRecords] /\ DOMAIN L \in SUBSET LeaseIds
      /\ seen.policy.max_leases \in Nat
  BY <1>3, RetentionShape, Zenon
<1>5. /\ DOMAIN M \subseteq DOMAIN L /\ M \in [DOMAIN M -> LeaseRecords]
      /\ \A i \in DOMAIN M : i \in DOMAIN L /\ M[i] = L[i]
  BY <1>4, Zenon
<1>6. M \in LeaseMaps
  BY <1>4, <1>5, LeaseMapShape, Zenon
<1> HIDE DEF M
<1>7. /\ retention' \in Retentions /\ retention'.policy = seen.policy
      /\ retention'.floor = floor /\ retention'.physical_gc = physical_gc
      /\ retention'.anchor = anchor /\ retention'.leases = M
      /\ retention'.nonce = seen.nonce /\ retention'.clock = now
  BY <1>2, <1>3, <1>6, Zenon DEF Retentions
<1>8. IsFiniteSet(DOMAIN M) /\ Cardinality(DOMAIN M) <= seen.policy.max_leases
  <2>1. IsFiniteSet(DOMAIN L) /\ Cardinality(DOMAIN L) <= seen.policy.max_leases
    BY <1>3, Zenon DEF LeasesFit
  <2>2. /\ IsFiniteSet(DOMAIN M) /\ Cardinality(DOMAIN M) <= Cardinality(DOMAIN L)
        /\ Cardinality(DOMAIN M) \in Nat /\ Cardinality(DOMAIN L) \in Nat
    BY <1>5, <2>1, FS_Subset, FS_CardinalityType, Zenon
  <2> QED BY <1>4, <2>1, <2>2
<1>9. /\ \A i \in DOMAIN M : /\ M[i].nonce <= seen.nonce /\ M[i].expires > now
                             /\ M[i].position >= floor /\ M[i].position <= outbox.high_water
                             /\ acked[M[i].nonce] = M[i].position
      /\ \A i, j \in DOMAIN M : M[i].nonce = M[j].nonce => i = j
  BY <1>3, <1>5, Zenon DEF LeasesFit
<1>10. LeasesFit(retention', outbox.high_water, acked')
  BY <1>1, <1>7, <1>8, <1>9, Zenon DEF LeasesFit
<1>11. acked' \in [1..MaxNonce -> Nat]
  BY <1>1, Zenon DEF OutboxInv
<1> QED BY <1>1, <1>7, <1>10, <1>11, LeaseStep, Zenon

(* A bounded step of maintenance.                                          *)
LEMMA MaintainInv ==
    ASSUME OutboxInv, NEW through \in Cursors, NEW limit \in Limits, NEW now \in Time,
           Maintain(through, limit, now)
    PROVE  OutboxInv'
<1> DEFINE seen == Observed(now)
           r == records[seen.floor + 1].receipt
           next == IF Expires(seen, through)
                   THEN [seen EXCEPT !.floor = End(r), !.anchor = r] ELSE seen
           gc == Least(next.floor, next.physical_gc + limit)
<1>1. /\ retention.configured /\ now >= retention.clock /\ through <= outbox.high_water
      /\ retention' = [next EXCEPT !.physical_gc = gc]
      /\ records' = [p \in {q \in DOMAIN records : q > gc} |-> records[p]]
      /\ outcome' = (IF next.floor = seen.floor THEN outcome ELSE ExpireReceipt(r))
      /\ UNCHANGED <<sequence, outbox, acked>>
  BY Zenon DEF Maintain, Prepared, CursorAccepted
<1>2. /\ seen \in Retentions /\ LeasesFit(seen, outbox.high_water, acked)
      /\ seen.policy = retention.policy /\ seen.floor = floor
      /\ seen.physical_gc = physical_gc /\ seen.anchor = anchor
      /\ seen.nonce = retention.nonce /\ seen.clock = now
  BY <1>1, ObservedFits
<1> HIDE DEF seen
<1>3. /\ Chain(sequence, outbox, floor, physical_gc, anchor, records, outcome)
      /\ Counted(sequence, outcome) /\ acked \in [1..MaxNonce -> Nat]
  BY Zenon  DEF OutboxInv
<1>4. /\ floor \in Nat /\ physical_gc \in Nat /\ physical_gc <= floor
      /\ outbox.high_water \in Nat /\ floor <= outbox.high_water
      /\ outcome \in [Keys -> OutcomeRecords] /\ limit \in Nat /\ through \in Nat
  BY <1>3, OutboxAssumption DEF Chain, Cursors
<1> HIDE DEF next, gc, r
<1>5. /\ next \in Retentions /\ LeasesFit(next, outbox.high_water, acked)
      /\ next.physical_gc = physical_gc /\ Counted(sequence, outcome')
      /\ Chain(sequence, outbox, next.floor, physical_gc, next.anchor, records, outcome')
  <2>1. CASE ~Expires(seen, through)
    <3>1. next = seen
      BY <2>1, Zenon DEF next
    <3>2. outcome' = outcome
      BY <1>1, <3>1, Zenon
    <3> QED BY <1>2, <1>3, <3>1, <3>2, Zenon
  <2>2. CASE Expires(seen, through)
    <3>1. /\ physical_gc = floor /\ floor < through /\ End(r) <= through
          /\ BelowPin(seen.leases, End(r))
      BY <1>2, <2>2, Zenon DEF Expires, r
    <3>2. floor < outbox.high_water
      BY <1>1, <1>4, <3>1, SMTT(30)
    <3>3. PICK k \in Keys : /\ IsLive(outcome, k) /\ outcome[k].receipt.header = floor + 1
                            /\ records[floor + 1] = HeaderRecord(outcome[k].receipt)
      BY <1>3, <3>2, OldestReceipt, SMTT(30)
    <3>4. r = outcome[k].receipt
      BY <1>2, <3>3 DEF r, HeaderRecord
    <3>5. r \in Receipts /\ End(r) \in Nat /\ r.header = floor + 1 /\ r.header <= End(r)
      BY <1>3, <3>3, <3>4, ChainShapes, Zenon DEF IsLive
    <3>6. r.key = k
      BY <1>3, <3>3, <3>4, Zenon DEF Chain, OutcomeFits, LiveFits
    <3>7. next = [seen EXCEPT !.floor = End(r), !.anchor = r]
      BY <2>2, Zenon DEF next
    <3>8. /\ next \in Retentions /\ next.floor = End(r) /\ next.anchor = r
          /\ next.physical_gc = physical_gc /\ next.policy = seen.policy
          /\ next.leases = seen.leases /\ next.nonce = seen.nonce /\ next.clock = now
      BY <1>2, <3>5, <3>7, Zenon DEF Retentions
    <3>9. outcome' = [outcome EXCEPT ![k] = Expired(r)]
      <4>1. next.floor # seen.floor
        BY <1>2, <1>4, <3>5, <3>8
      <4> QED BY <1>1, <3>6, <4>1, Zenon DEF ExpireReceipt
    <3>10. Chain(sequence, outbox, End(r), physical_gc, r, records, outcome')
      BY <1>3, <3>1, <3>3, <3>4, <3>5, <3>9, ExpireChain, ZenonT(60)
    <3>11. Counted(sequence, outcome')
      <4>1. outcome[k].tag = "Committed" /\ outcome'[k].tag = "Expired"
            /\ \A j \in Keys \ {k} : outcome'[j] = outcome[j]
        BY <1>4, <3>3, <3>9, Zenon DEF IsLive, Expired
      <4>2. \A j \in Keys : outcome'[j].tag \in {"Committed", "Expired"}
                              <=> outcome[j].tag \in {"Committed", "Expired"}
        BY <4>1, Zenon
      <4> QED BY <1>3, <4>2, CountedKeeps, Zenon
    <3>12. \A i \in DOMAIN seen.leases : seen.leases[i].position >= End(r)
      <4>1. \A i \in DOMAIN seen.leases : End(r) <= seen.leases[i].position
        BY <3>1, Zenon DEF BelowPin
      <4>2. \A i \in DOMAIN seen.leases : seen.leases[i].position \in Nat
        BY <1>2, RetentionShape, Zenon
      <4> QED BY <3>5, <4>1, <4>2, Zenon
    <3>13. LeasesFit(next, outbox.high_water, acked)
      BY <1>2, <3>8, <3>12, ZenonT(60) DEF LeasesFit
    <3> QED BY <3>8, <3>10, <3>11, <3>13, ZenonT(60)
  <2> QED BY <2>1, <2>2, ZenonT(60)
<1>6. /\ gc \in Nat /\ physical_gc <= gc /\ gc <= next.floor
  <2>1. next.floor \in Nat /\ physical_gc <= next.floor
    BY <1>5, Zenon DEF Chain
  <2> QED BY <1>4, <1>5, <2>1 DEF gc, Least
<1>7. Chain(sequence, outbox, next.floor, gc, next.anchor, records', outcome')
  BY <1>1, <1>5, <1>6, CleanChain, Zenon
<1>8. /\ retention' \in Retentions /\ retention'.floor = next.floor
      /\ retention'.anchor = next.anchor /\ retention'.physical_gc = gc
      /\ retention'.policy = next.policy /\ retention'.leases = next.leases
      /\ retention'.nonce = next.nonce /\ retention'.clock = next.clock
      /\ retention'.configured = TRUE
  BY <1>1, <1>5, <1>6, Zenon DEF Retentions
<1>9. LeasesFit(retention', outbox.high_water, acked)
  BY <1>5, <1>8, Zenon DEF LeasesFit
<1>10. floor' = next.floor /\ physical_gc' = gc /\ anchor' = next.anchor
  BY <1>8, Zenon DEF floor, physical_gc, anchor
<1>11. Chain(sequence, outbox, floor, physical_gc, anchor, records, outcome)'
  BY <1>1, <1>7, <1>10, Zenon
<1>12. acked' = acked /\ outbox' = outbox /\ sequence' = sequence
  BY <1>1, Zenon
<1> QED BY <1>3, <1>5, <1>8, <1>9, <1>11, <1>12, Zenon DEF OutboxInv


-----------------------------------------------------------------------------
(* A new store satisfies the invariant.                                    *)
LEMMA OutboxInit == Init => OutboxInv
<1> SUFFICES ASSUME Init PROVE OutboxInv
  BY Zenon
<1>1. PICK old \in {S \in SUBSET Keys : Cardinality(S) <= 1} :
        /\ sequence = Cardinality(old)
        /\ outcome = [k \in Keys |->
             IF k \in old
             THEN Committed([key |-> k, sequence |-> 1, header |-> 0, count |-> 0])
             ELSE None]
  BY Zenon DEF Init
<1>2. /\ outbox = [active |-> FALSE, high_water |-> 0, after |-> 0]
      /\ retention = [configured |-> FALSE] /\ records = [p \in {} |-> None]
      /\ acked = [n \in 1..MaxNonce |-> 0]
  BY Zenon DEF Init
<1>3. floor = 0 /\ physical_gc = 0 /\ anchor = NoReceipt
  BY <1>2, Zenon DEF floor, physical_gc, anchor
<1>4. /\ IsFiniteSet(old) /\ Cardinality(old) \in Nat
      /\ old # {} => Cardinality(old) > 0
  <2>1. IsFiniteSet(old)
    BY <1>1, OutboxAssumption, FS_Subset, Zenon
  <2>2. Cardinality(old) \in Nat /\ (Cardinality(old) = 0 <=> old = {})
    BY <2>1, FS_CardinalityType, FS_EmptySet, Zenon
  <2> QED BY <2>1, <2>2
<1>5. /\ outcome \in [Keys -> OutcomeRecords]
      /\ \A k \in Keys : /\ k \in old => /\ outcome[k].tag = "Committed"
                                         /\ outcome[k].receipt.header = 0
                                         /\ outcome[k].receipt.sequence = 1
                         /\ k \notin old => outcome[k].tag = "None"
  <2>1. \A k \in Keys : [key |-> k, sequence |-> 1, header |-> 0, count |-> 0] \in Receipts
    BY Zenon DEF Receipts
  <2> QED BY <1>1, <2>1, Zenon DEF OutcomeRecords, Committed, None
<1>6. \A k \in Keys : ~IsLive(outcome, k) /\ outcome[k].tag # "Expired"
  BY <1>5 DEF IsLive
<1>7. ASSUME NEW k \in Keys
      PROVE  OutcomeFits(sequence, outbox, 0, NoReceipt, records, outcome, k)
  <2>1. k \in old => 1 <= sequence
    BY <1>1, <1>4
  <2> QED BY <1>2, <1>5, <1>6, <2>1, ZenonT(60) DEF OutcomeFits
<1>8. AnchorFits(sequence, outbox, 0, 0, NoReceipt, records, outcome)
  BY <1>2, ZenonT(60) DEF AnchorFits, Follows
<1>9. Chain(sequence, outbox, 0, 0, NoReceipt, records, outcome)
  BY <1>1, <1>2, <1>4, <1>5, <1>7, <1>8 DEF Chain
<1>10. Counted(sequence, outcome)
  <2>1. {k \in Keys : outcome[k].tag \in {"Committed", "Expired"}} = old
    BY <1>1, <1>5, Zenon
  <2> QED BY <1>1, <2>1, ZenonT(60) DEF Counted
<1> QED BY <1>2, <1>3, <1>9, <1>10, Zenon DEF OutboxInv

(* Every step keeps it.                                                    *)
LEMMA OutboxNext == OutboxInv /\ [Next]_vars => OutboxInv'
<1> SUFFICES ASSUME OutboxInv, [Next]_vars PROVE OutboxInv'
  BY Zenon
<1>1. ASSUME NEW k \in Keys, Rollback(k) PROVE OutboxInv'
  BY <1>1, RollbackInv, Zenon
<1>2. ASSUME NEW k \in Keys, NEW n \in 0..MaxEvents, Commit(k, n) PROVE OutboxInv'
  <2>1. n \in Nat
    BY <1>2, OutboxAssumption
  <2> QED BY <1>2, <2>1, CommitInv, Zenon
<1>3. ASSUME NEW now \in Time, NEW policy \in Policies, Configure(policy, now) PROVE OutboxInv'
  BY <1>3, ConfigureInv, Zenon
<1>4. ASSUME NEW now \in Time, NEW id \in LeaseIds, NEW after \in Cursors, NEW expires \in Time,
             Acquire(id, after, expires, now)
      PROVE  OutboxInv'
  BY <1>4, AcquireInv, Zenon
<1>5. ASSUME NEW now \in Time, NEW id \in LeaseIds, NEW nonce \in 1..MaxNonce,
             Release(id, nonce, now)
      PROVE  OutboxInv'
  BY <1>5, ReleaseInv, Zenon
<1>6. ASSUME NEW now \in Time, NEW id \in LeaseIds, NEW nonce \in 1..MaxNonce,
             NEW after \in Cursors, NEW expires \in Time,
             Checkpoint(id, nonce, after, expires, now)
      PROVE  OutboxInv'
  BY <1>6, CheckpointInv, Zenon
<1>7. ASSUME NEW now \in Time, NEW through \in Cursors, NEW limit \in Limits,
             Maintain(through, limit, now)
      PROVE  OutboxInv'
  BY <1>7, MaintainInv, Zenon
<1>8. ASSUME UNCHANGED vars PROVE OutboxInv'
  BY <1>8, Zenon DEF OutboxInv, vars, floor, physical_gc, anchor
<1> QED BY <1>1, <1>2, <1>3, <1>4, <1>5, <1>6, <1>7, <1>8, Zenon DEF Next

(* The invariant holds throughout.                                         *)
LEMMA OutboxInvariance == Spec => []OutboxInv
BY OutboxInit, OutboxNext, PTL DEF Spec


-----------------------------------------------------------------------------
(* What the invariant says of every read.                                  *)

(* The chain of the current state, and its types.                          *)
LEMMA ChainNow ==
    ASSUME OutboxInv
    PROVE  /\ Chain(sequence, outbox, floor, physical_gc, anchor, records, outcome)
           /\ sequence \in Nat /\ outbox \in [active : BOOLEAN, high_water : Nat, after : Nat]
           /\ outbox.high_water \in Nat /\ outbox.after \in Nat
           /\ floor \in Nat /\ physical_gc \in Nat /\ anchor \in Receipts \cup {NoReceipt}
           /\ outcome \in [Keys -> OutcomeRecords]
           /\ physical_gc <= floor /\ floor <= outbox.high_water
           /\ DOMAIN records = (physical_gc + 1)..outbox.high_water
           /\ outbox.active <=> outbox.high_water > 0
BY Zenon DEF OutboxInv, Chain

(* What a reader finds of the receipt r of a live commit under k.          *)
Reads(k, r) ==
    /\ r.key = k /\ r # NoReceipt /\ HeaderValid(r)
    /\ r.sequence \in Nat /\ r.header \in Nat /\ r.count \in Nat /\ End(r) \in Nat
    /\ r.header <= End(r) /\ floor < r.header /\ End(r) <= outbox.high_water
    /\ Follows(sequence, outbox.high_water, outcome, End(r), r.sequence)
    /\ \A p \in r.header..End(r) : HeaderAt(p) = r /\ records[p] = RecordOf(r, p)

(* A reader finds the receipt of every live commit, and it passes the      *)
(* checks of a header.                                                     *)
LEMMA LiveIsValid ==
    ASSUME OutboxInv, NEW k \in Keys, IsLive(outcome, k), NEW r, r = outcome[k].receipt
    PROVE  Reads(k, r)
<1>1. /\ r.sequence \in Nat /\ r.header \in Nat /\ r.count \in Nat /\ End(r) \in Nat
      /\ r.header <= End(r) /\ outcome[k].tag = "Committed"
  BY ChainNow, ChainShapes, Zenon DEF IsLive
<1>2. LiveFits(sequence, outbox, floor, records, outcome, k)
  BY ChainNow, Zenon DEF Chain, OutcomeFits
<1>3. /\ r.key = k /\ floor < r.header /\ End(r) <= outbox.high_water
      /\ outbox.active /\ outbox.after < r.sequence /\ r.sequence <= sequence
      /\ r.header = 1 => r.sequence = outbox.after + 1
      /\ \A q \in r.header..End(r) : records[q] = RecordOf(r, q)
      /\ Follows(sequence, outbox.high_water, outcome, End(r), r.sequence)
  BY <1>2, Zenon DEF LiveFits
<1>4. r # NoReceipt
  BY <1>1, <1>3, ChainNow DEF NoReceipt
<1>5. ReceiptFor(k) = r
  BY <1>1, Zenon DEF ReceiptFor
<1>6. HeaderValid(r)
  BY <1>1, <1>3, <1>5, ChainNow, Zenon DEF HeaderValid
<1>7. ASSUME NEW p \in r.header..End(r) PROVE HeaderAt(p) = r
  <2>1. CASE p = r.header
    <3>1. records[p] = HeaderRecord(r)
      BY <1>3, <2>1, Zenon DEF RecordOf
    <3>2. HeaderRecord(r).tag = "Commit" /\ HeaderRecord(r).receipt = r
      BY Zenon DEF HeaderRecord
    <3> QED BY <3>1, <3>2, Zenon DEF HeaderAt
  <2>2. CASE p # r.header
    <3>1. records[p].tag = "Event" /\ records[p].header = r.header
      <4>1. records[p] = EventRecord(r, p - r.header - 1)
        BY <1>3, <2>2, Zenon DEF RecordOf
      <4> QED BY <4>1 DEF EventRecord
    <3>2. r.header \in r.header..End(r)
      BY <1>1
    <3>3. records[r.header] = HeaderRecord(r)
      BY <1>3, <3>2, Zenon DEF RecordOf
    <3>4. records[r.header].receipt = r
      BY <3>3 DEF HeaderRecord
    <3> QED BY <3>1, <3>4, ZenonT(60) DEF HeaderAt
  <2> QED BY <2>1, <2>2, ZenonT(60)
<1> QED BY <1>1, <1>3, <1>4, <1>6, <1>7, Zenon DEF Reads

(* The anchor passes the checks of a header.                               *)
LEMMA AnchorIsValid ==
    ASSUME OutboxInv, anchor # NoReceipt
    PROVE  /\ HeaderValid(anchor) /\ anchor.sequence \in Nat /\ anchor.header \in Nat
           /\ anchor.key \in Keys /\ outbox.active /\ End(anchor) = floor
           /\ outbox.after < anchor.sequence /\ anchor.sequence <= sequence
           /\ Follows(sequence, outbox.high_water, outcome, floor, anchor.sequence)
           /\ \A q \in (physical_gc + 1)..floor :
                anchor.header <= q /\ records[q] = RecordOf(anchor, q)
<1>1. anchor.sequence \in Nat /\ anchor.header \in Nat
  BY ChainNow, Zenon DEF Receipts
<1>2. /\ outbox.active /\ End(anchor) = floor /\ anchor.key \in Keys
      /\ outbox.after < anchor.sequence /\ anchor.sequence <= sequence
      /\ anchor.header = 1 => anchor.sequence = outbox.after + 1
      /\ outcome[anchor.key] = Expired(anchor)
      /\ Follows(sequence, outbox.high_water, outcome, floor, anchor.sequence)
      /\ \A q \in (physical_gc + 1)..floor :
           anchor.header <= q /\ records[q] = RecordOf(anchor, q)
  BY ChainNow, ZenonT(60) DEF Chain, AnchorFits
<1>3. outcome[anchor.key].tag = "Expired" /\ outcome[anchor.key].sequence = anchor.sequence
  BY <1>2 DEF Expired
<1>4. ReceiptFor(anchor.key) = anchor
  BY <1>3, Zenon DEF ReceiptFor
<1>5. HeaderValid(anchor)
  BY <1>1, <1>2, <1>4, ChainNow, Zenon DEF HeaderValid
<1> QED BY <1>1, <1>2, <1>5, Zenon

(* The commit that ends before position p has the sequence before the one  *)
(* of the commit that begins there.                                        *)
LEMMA NextSequence ==
    ASSUME OutboxInv, NEW k \in Keys, IsLive(outcome, k),
           NEW e \in Nat, NEW s \in Nat, outcome[k].receipt.header = e + 1,
           Follows(sequence, outbox.high_water, outcome, e, s)
    PROVE  outcome[k].receipt.sequence = s + 1
<1> DEFINE x == outcome[k].receipt
<1>1. x.header \in Nat /\ End(x) \in Nat /\ x.header <= End(x) /\ End(x) <= outbox.high_water
  <2>1. Reads(k, x)
    BY LiveIsValid, Zenon
  <2> QED BY <2>1, Zenon DEF Reads
<1>2. e < outbox.high_water
  <2> HIDE DEF x
  <2>1. x.header = e + 1
    BY Zenon DEF x
  <2> QED BY <1>1, <2>1, ChainNow
<1>3. PICK j \in Keys : /\ IsLive(outcome, j)
                        /\ outcome[j].receipt.header = e + 1
                        /\ outcome[j].receipt.sequence = s + 1
  BY <1>2, ChainNow, SMTT(30) DEF Follows
<1>4. j = k
  <2> SUFFICES ASSUME j # k PROVE FALSE
    BY Zenon
  <2>1. x.header <= outcome[j].receipt.header
    BY <1>1, <1>3
  <2>2. End(x) < outcome[j].receipt.header
    BY <1>3, <2>1, ChainNow, LiveApart, Zenon
  <2>3. End(x) < x.header
    BY <1>3, <2>2, ZenonT(60)
  <2> HIDE DEF x
  <2> QED BY <1>1, <2>3
<1> QED BY <1>3, <1>4, Zenon


(* The state is of its type.                                               *)
LEMMA InvType == OutboxInv => TypeOK
<1> SUFFICES ASSUME OutboxInv PROVE TypeOK
  BY Zenon
<1>1. sequence \in 0..Cardinality(Keys)
  <2> DEFINE S == {k \in Keys : outcome[k].tag \in {"Committed", "Expired"}}
  <2>1. sequence = Cardinality(S)
    BY Zenon DEF OutboxInv, Counted
  <2>2. S \subseteq Keys
    BY Zenon
  <2> HIDE DEF S
  <2>3. /\ Cardinality(S) <= Cardinality(Keys) /\ Cardinality(Keys) \in Nat
    BY <2>2, OutboxAssumption, FS_Subset, FS_CardinalityType, Zenon
  <2> QED BY <2>1, <2>3, ChainNow
<1>2. ASSUME retention.configured
      PROVE  /\ retention.policy \in Policies /\ retention.clock \in Time
             /\ retention.anchor \in Receipts \cup {NoReceipt}
             /\ \A i \in DOMAIN retention.leases : retention.leases[i] \in LeaseRecords
  BY <1>2, RetentionReads, RetentionShape, Zenon
<1>3. \A k \in Keys : outcome[k] \in OutcomeRecords
  BY ChainNow, Zenon
<1> QED BY <1>1, <1>2, <1>3, ChainNow, Zenon DEF TypeOK, LeaseRecords

(* retention::validate finds nothing wrong.                                *)
LEMMA InvState == OutboxInv => StateValid
<1> SUFFICES ASSUME OutboxInv, retention.configured
             PROVE  /\ Cardinality(DOMAIN retention.leases) <= retention.policy.max_leases
                    /\ physical_gc <= floor /\ floor <= outbox.high_water
                    /\ IF anchor = NoReceipt THEN floor = 0
                       ELSE /\ anchor.sequence <= sequence /\ anchor.sequence > outbox.after
                            /\ outbox.active /\ End(anchor) = floor
                    /\ \A i \in DOMAIN retention.leases :
                         /\ retention.leases[i].position <= outbox.high_water
                         /\ retention.leases[i].position >= floor
  BY Zenon DEF StateValid
<1>1. LeasesFit(retention, outbox.high_water, acked) /\ floor = retention.floor
  BY RetentionReads, Zenon
<1>2. anchor = NoReceipt => floor = 0
  BY ChainNow, Zenon DEF Chain, AnchorFits
<1>3. anchor # NoReceipt => /\ anchor.sequence <= sequence /\ anchor.sequence > outbox.after
                            /\ outbox.active /\ End(anchor) = floor
  BY AnchorIsValid, ChainNow, Zenon
<1>4. \A i \in DOMAIN retention.leases : /\ retention.leases[i].position <= outbox.high_water
                                         /\ retention.leases[i].position >= floor
  BY <1>1, ZenonT(60) DEF LeasesFit
<1> QED BY <1>1, <1>2, <1>3, <1>4, ChainNow, Zenon DEF LeasesFit

(* The records begin with what is left of the anchor's.                    *)
LEMMA InvOrigin == OutboxInv => OriginValid
<1> SUFFICES ASSUME OutboxInv, physical_gc < floor
             PROVE  IF records[physical_gc + 1].tag = "Commit"
                    THEN records[physical_gc + 1].receipt = anchor
                    ELSE EventOf(records[physical_gc + 1], anchor)
  BY ChainNow, ZenonT(60) DEF OriginValid
<1>1. anchor # NoReceipt
  BY ChainNow DEF Chain, AnchorFits
<1>2. physical_gc + 1 \in (physical_gc + 1)..floor
  BY ChainNow
<1>3. records[physical_gc + 1] = RecordOf(anchor, physical_gc + 1)
  BY <1>1, <1>2, AnchorIsValid, Zenon
<1> QED BY <1>3 DEF RecordOf, HeaderRecord, EventRecord, EventOf

(* The latest commit is found at the end of the chain.                     *)
LEMMA InvLatest == OutboxInv => LatestValid
<1> SUFFICES ASSUME OutboxInv, outbox.active
             PROVE  /\ anchor # NoReceipt => HeaderValid(anchor)
                    /\ Latest # NoReceipt
                    /\ Latest.sequence = sequence /\ End(Latest) = outbox.high_water
                    /\ HeaderValid(Latest)
  BY Zenon DEF LatestValid
<1>1. CASE outbox.high_water = floor
  <2>1. anchor # NoReceipt
    BY <1>1, ChainNow, SMTT(30) DEF Chain, AnchorFits
  <2>2. anchor.sequence = sequence
    BY <1>1, <2>1, AnchorIsValid, ChainNow DEF Follows
  <2>3. Latest = anchor
    BY <1>1, Zenon DEF Latest
  <2> QED BY <1>1, <2>1, <2>2, <2>3, AnchorIsValid, ZenonT(60)
<1>2. CASE outbox.high_water # floor
  <2>1. outbox.high_water \in (floor + 1)..outbox.high_water
    BY <1>2, ChainNow
  <2>2. PICK k \in Keys :
          IsLive(outcome, k) /\ outbox.high_water \in outcome[k].receipt.header..End(outcome[k].receipt)
    BY <2>1, ChainNow, ZenonT(60) DEF Chain
  <2> DEFINE r == outcome[k].receipt
  <2>3. /\ r # NoReceipt /\ HeaderValid(r) /\ End(r) \in Nat /\ r.header \in Nat
        /\ End(r) <= outbox.high_water /\ r.sequence \in Nat
        /\ Follows(sequence, outbox.high_water, outcome, End(r), r.sequence)
        /\ \A p \in r.header..End(r) : HeaderAt(p) = r
    <3>1. Reads(k, r)
      BY <2>2, LiveIsValid, Zenon
    <3> QED BY <3>1, Zenon DEF Reads
  <2>4. outbox.high_water \in r.header..End(r)
    BY <2>2, Zenon
  <2> HIDE DEF r
  <2>5. End(r) = outbox.high_water
    BY <2>3, <2>4, ChainNow
  <2>6. Latest = r
    BY <1>2, <2>3, <2>4, Zenon DEF Latest
  <2>7. r.sequence = sequence
    BY <2>3, <2>5, ChainNow DEF Follows
  <2> QED BY <2>3, <2>5, <2>6, <2>7, AnchorIsValid, Zenon
<1> QED BY <1>1, <1>2, Zenon

(* Every record continues the one before it.                               *)
LEMMA InvSuccessor ==
    ASSUME OutboxInv, NEW p \in (floor + 1)..outbox.high_water
    PROVE  SuccessorValid(p)
<1>1. p \in Nat /\ p - 1 \in Nat /\ floor < p /\ p <= outbox.high_water /\ floor \in Nat
  BY ChainNow
<1>2. PICK k \in Keys : IsLive(outcome, k) /\ p \in outcome[k].receipt.header..End(outcome[k].receipt)
  BY ChainNow, Zenon DEF Chain
<1> DEFINE x == outcome[k].receipt
<1>3. /\ x # NoReceipt /\ HeaderValid(x) /\ x.sequence \in Nat /\ x.header \in Nat
      /\ End(x) \in Nat /\ floor < x.header
      /\ \A q \in x.header..End(x) : HeaderAt(q) = x /\ records[q] = RecordOf(x, q)
  <2>1. Reads(k, x)
    BY <1>2, LiveIsValid, Zenon
  <2> QED BY <2>1, Zenon DEF Reads
<1>4. p \in x.header..End(x) /\ records[p] = RecordOf(x, p)
  BY <1>2, <1>3, Zenon
<1>5. CASE p # x.header
  <2> HIDE DEF x
  <2>1. records[p] = EventRecord(x, p - x.header - 1)
    BY <1>4, <1>5, Zenon DEF RecordOf
  <2>2. /\ records[p].tag = "Event" /\ records[p].header = x.header
        /\ records[p].count = x.count /\ records[p].sequence = x.sequence
    BY <2>1 DEF EventRecord
  <2>3. p - 1 \in x.header..End(x) /\ p - 1 > floor
    BY <1>1, <1>3, <1>4, <1>5, SMTT(30)
  <2>4. Before(p - 1) = x
    BY <1>3, <2>3, Zenon DEF Before
  <2> QED BY <1>3, <2>2, <2>4, Zenon DEF SuccessorValid, EventOf
<1>6. CASE p = x.header
  <2>1. records[p] = HeaderRecord(x)
    BY <1>4, <1>6, Zenon DEF RecordOf
  <2>2. records[p].tag = "Commit" /\ records[p].receipt = x
    BY <2>1 DEF HeaderRecord
  <2>3. ASSUME NEW y, Before(p - 1) = y,
               IF y = NoReceipt THEN p = 1 /\ x.sequence = outbox.after + 1
               ELSE End(y) + 1 = p /\ y.sequence + 1 = x.sequence
        PROVE  SuccessorValid(p)
    BY <1>3, <2>2, <2>3, Zenon DEF SuccessorValid
  <2>4. CASE p - 1 > floor
    <3>1. p - 1 \in (floor + 1)..outbox.high_water
      <4>1. outbox.high_water \in Nat
        BY ChainNow, Zenon
      <4> HIDE DEF x
      <4> QED BY <1>1, <2>4, <4>1
    <3>2. PICK j \in Keys :
            IsLive(outcome, j) /\ p - 1 \in outcome[j].receipt.header..End(outcome[j].receipt)
      BY <3>1, ChainNow, Zenon DEF Chain
    <3> DEFINE y == outcome[j].receipt
    <3>3. /\ y # NoReceipt /\ y.sequence \in Nat /\ y.header \in Nat /\ End(y) \in Nat
          /\ Follows(sequence, outbox.high_water, outcome, End(y), y.sequence)
          /\ \A q \in y.header..End(y) : HeaderAt(q) = y
      <4>1. Reads(j, y)
        BY <3>2, LiveIsValid, Zenon
      <4> QED BY <4>1, Zenon DEF Reads
    <3>4. Before(p - 1) = y
      <4>1. HeaderAt(p - 1) = y
        BY <3>2, <3>3, Zenon
      <4> QED BY <2>4, <4>1, Zenon DEF Before
    <3>5. y.header <= p - 1 /\ p - 1 <= End(y) /\ y.header < x.header /\ y.header <= x.header
      <4>1. p - 1 \in y.header..End(y)
        BY <3>2, ZenonT(60)
      <4> HIDE DEF x, y
      <4> QED BY <1>1, <1>6, <3>3, <4>1
    <3>6. j # k
      BY <1>3, <3>3, <3>5
    <3>7. End(y) < x.header
      BY <1>2, <3>2, <3>5, <3>6, ChainNow, LiveApart, ZenonT(60)
    <3>8. End(y) + 1 = p /\ x.header = End(y) + 1
      <4> HIDE DEF x, y
      <4> QED BY <1>1, <1>6, <3>3, <3>5, <3>7
    <3>9. x.sequence = y.sequence + 1
      BY <1>2, <3>3, <3>8, NextSequence, Zenon
    <3> HIDE DEF x, y
    <3> QED BY <2>3, <3>3, <3>4, <3>8, <3>9, ZenonT(60)
  <2>5. CASE ~(p - 1 > floor)
    <3>1. p = floor + 1 /\ Before(p - 1) = anchor
      BY <1>1, <2>5 DEF Before
    <3>2. CASE anchor = NoReceipt
      <4>1. floor = 0
        BY <3>2, ChainNow, Zenon DEF Chain, AnchorFits
      <4>2. p = 1 /\ x.header = 1
        BY <1>6, <3>1, <4>1
      <4>3. x.sequence = outbox.after + 1
        BY <1>3, <4>2, Zenon DEF HeaderValid
      <4> QED BY <2>3, <3>1, <3>2, <4>2, <4>3, Zenon
    <3>3. CASE anchor # NoReceipt
      <4>1. /\ anchor.sequence \in Nat /\ End(anchor) = floor
            /\ Follows(sequence, outbox.high_water, outcome, floor, anchor.sequence)
        BY <3>3, AnchorIsValid, Zenon
      <4>2. x.sequence = anchor.sequence + 1
        BY <1>1, <1>2, <1>6, <3>1, <4>1, NextSequence, ZenonT(60)
      <4> QED BY <2>3, <3>1, <3>3, <4>1, <4>2, Zenon
    <3> QED BY <3>2, <3>3, Zenon
  <2> QED BY <2>4, <2>5, Zenon
<1> QED BY <1>5, <1>6, Zenon


(* lookup_commit_receipt finds nothing wrong for any key.                  *)
LEMMA InvLookup ==
    ASSUME OutboxInv, NEW k \in Keys
    PROVE  LookupValid(k)
<1>1. OutcomeFits(sequence, outbox, floor, anchor, records, outcome, k)
  BY ChainNow, Zenon DEF Chain
<1>2. CASE outcome[k].tag = "Committed"
  <2> DEFINE r == outcome[k].receipt
  <2>1. r.sequence \in Nat /\ r.header \in Nat
    BY <1>2, ChainNow, ChainShapes, Zenon
  <2>2. CASE r.header = 0
    <3>1. r.sequence <= IF outbox.active THEN outbox.after ELSE sequence
      BY <1>1, <1>2, <2>2, Zenon DEF OutcomeFits
    <3>2. outbox.active => outbox.after <= sequence
      BY ChainNow, AfterBound, Zenon
    <3>3. r.sequence <= sequence /\ (outbox.active => r.sequence <= outbox.after)
      <4> HIDE DEF r
      <4> QED BY <2>1, <3>1, <3>2, ChainNow
    <3> QED BY <1>2, <2>2, <3>3, Zenon DEF LookupValid
  <2>3. CASE r.header # 0
    <3>1. r.header > 0
      <4> HIDE DEF r
      <4> QED BY <2>1, <2>3
    <3>2. IsLive(outcome, k)
      BY <1>2, <3>1, Zenon DEF IsLive
    <3>3. /\ floor < r.header /\ End(r) <= outbox.high_water
          /\ outbox.active /\ outbox.after < r.sequence /\ r.sequence <= sequence
      BY <1>1, <3>2, Zenon DEF OutcomeFits, LiveFits
    <3>4. r.header > floor /\ r.sequence > outbox.after
      <4> HIDE DEF r
      <4> QED BY <2>1, <3>3, ChainNow, Zenon
    <3> QED BY <1>2, <2>3, <3>3, <3>4, Zenon DEF LookupValid
  <2> QED BY <2>2, <2>3, Zenon
<1>3. CASE outcome[k].tag = "Expired"
  <2>1. /\ anchor # NoReceipt /\ outbox.after < outcome[k].sequence
        /\ outcome[k].sequence <= anchor.sequence
    BY <1>1, <1>3, Zenon DEF OutcomeFits
  <2>2. outcome[k].sequence \in Nat
    BY <1>3, ChainNow, ChainShapes, Zenon
  <2>3. outcome[k].sequence > outbox.after
    BY <2>1, <2>2, ChainNow, Zenon
  <2>4. outbox.active
    BY <2>1, AnchorIsValid, Zenon
  <2> QED BY <1>3, <2>1, <2>3, <2>4, Zenon DEF LookupValid
<1>4. CASE outcome[k].tag \notin {"Committed", "Expired"}
  BY <1>4, Zenon DEF LookupValid
<1> QED BY <1>2, <1>3, <1>4, Zenon

(* A live lease finds every record after the acknowledged position.        *)
LEMMA InvPinned ==
    ASSUME OutboxInv, retention.configured, NEW i \in DOMAIN retention.leases
    PROVE  (acked[retention.leases[i].nonce] + 1)..outbox.high_water \subseteq DOMAIN records
<1> DEFINE lease == retention.leases[i]
<1>1. /\ acked[lease.nonce] = lease.position /\ lease.position >= floor
      /\ lease.position \in Nat
  BY RetentionReads, RetentionShape, Zenon DEF LeasesFit
<1> HIDE DEF lease
<1>2. (acked[lease.nonce] + 1)..outbox.high_water \subseteq DOMAIN records
  BY <1>1, ChainNow
<1> QED BY <1>2, Zenon DEF lease

-----------------------------------------------------------------------------
(* Whatever commits, leases and maintenance came first, no read of the     *)
(* outbox or of a receipt reports corruption, and every live lease finds   *)
(* the records it has not acknowledged: for every number of keys, leases,  *)
(* policies and limits.                                                    *)
THEOREM ReadsNeverCorrupt == Spec => []NeverCorrupt
<1>1. OutboxInv => NeverCorrupt
  <2> SUFFICES ASSUME OutboxInv PROVE NeverCorrupt
    BY Zenon
  <2>1. \A p \in (floor + 1)..outbox.high_water : SuccessorValid(p)
    BY InvSuccessor, Zenon
  <2>2. \A k \in Keys : LookupValid(k)
    BY InvLookup, Zenon
  <2>3. retention.configured =>
          \A i \in DOMAIN retention.leases :
            (acked[retention.leases[i].nonce] + 1)..outbox.high_water \subseteq DOMAIN records
    BY InvPinned, Zenon
  <2> QED
    BY <2>1, <2>2, <2>3, InvType, InvState, InvOrigin, InvLatest, Zenon DEF NeverCorrupt
<1> QED BY <1>1, OutboxInvariance, PTL

(* A commit that goes through leaves no more records than the policy       *)
(* allows, expired ones that wait for removal included.                    *)
THEOREM CapacityIsKept == Spec => CapacityHolds
<1> DEFINE Kept == retention.configured /\ outbox'.high_water > outbox.high_water
                     => Cardinality(DOMAIN records') <= retention.policy.max_records
<1>1. ASSUME OutboxInv, OutboxInv', [Next]_vars PROVE [Kept]_vars
  <2>1. CASE outbox' = outbox
    BY <1>1, <2>1, ChainNow
  <2>2. ASSUME NEW k \in Keys, NEW n \in 0..MaxEvents, Commit(k, n), retention.configured
        PROVE  Cardinality(DOMAIN records') <= retention.policy.max_records
    <3>1. /\ outbox.high_water \in Nat /\ physical_gc \in Nat /\ n \in Nat
          /\ DOMAIN records = (physical_gc + 1)..outbox.high_water
          /\ physical_gc <= outbox.high_water
      BY <1>1, <2>2, ChainNow, OutboxAssumption
    <3>2. outbox.high_water - physical_gc + (n + 1) <= retention.policy.max_records
      BY <2>2, Zenon DEF Commit, check_capacity
    <3>3. DOMAIN records' = DOMAIN records
            \cup (outbox.high_water + 1)..(outbox.high_water + 1 + n)
      BY <2>2, Zenon DEF Commit
    <3>4. DOMAIN records' = (physical_gc + 1)..(outbox.high_water + 1 + n)
      BY <3>1, <3>3
    <3>5. Cardinality(DOMAIN records') = (outbox.high_water + 1 + n) - (physical_gc + 1) + 1
      <4>1. physical_gc + 1 \in Int /\ outbox.high_water + 1 + n \in Int
            /\ ~(physical_gc + 1 > outbox.high_water + 1 + n)
        BY <3>1
      <4>2. Cardinality((physical_gc + 1)..(outbox.high_water + 1 + n))
              = (outbox.high_water + 1 + n) - (physical_gc + 1) + 1
        <5>1. PICK a \in Int, b \in Int : a = physical_gc + 1 /\ b = outbox.high_water + 1 + n
          BY <4>1, Zenon
        <5>2. Cardinality(a..b) = b - a + 1
          BY <4>1, <5>1, FS_Interval, Zenon
        <5> QED BY <5>1, <5>2, Zenon
      <4> QED BY <3>4, <4>2, Zenon
    <3>6. retention.policy.max_records \in Nat
      BY <1>1, <2>2, RetentionReads, RetentionShape, Zenon
    <3> QED BY <3>1, <3>2, <3>5, <3>6
  <2>3. CASE \E k \in Keys : \E n \in 0..MaxEvents : Commit(k, n)
    BY <2>2, <2>3, Zenon
  <2>4. outbox' = outbox \/ \E k \in Keys : \E n \in 0..MaxEvents : Commit(k, n)
    <3>1. \A k \in Keys : Rollback(k) => outbox' = outbox
      BY Zenon DEF Rollback
    <3>2. \A policy, now : Configure(policy, now) => outbox' = outbox
      BY Zenon DEF Configure
    <3>3. \A id, after, expires, now : Acquire(id, after, expires, now) => outbox' = outbox
      BY DEF Acquire
    <3>4. \A id, nonce, after, expires, now :
            Checkpoint(id, nonce, after, expires, now) => outbox' = outbox
      BY DEF Checkpoint
    <3>5. \A id, nonce, now : Release(id, nonce, now) => outbox' = outbox
      BY Zenon DEF Release
    <3>6. \A through, limit, now : Maintain(through, limit, now) => outbox' = outbox
      BY DEF Maintain
    <3>7. UNCHANGED vars => outbox' = outbox
      BY Zenon DEF vars
    <3> QED BY <1>1, <3>1, <3>2, <3>3, <3>4, <3>5, <3>6, <3>7, ZenonT(60) DEF Next
  <2> QED BY <2>1, <2>3, <2>4, ZenonT(60)
<1> QED BY <1>1, OutboxInvariance, PTL DEF Spec, CapacityHolds
=============================================================================
