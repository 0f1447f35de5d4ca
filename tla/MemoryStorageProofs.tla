------------------------ MODULE MemoryStorageProofs ------------------------
(***************************************************************************)
(* Proofs about the in-memory storage, for any dataset, any number of      *)
(* versions and of transactions.  Two facts carry them.  A bound that a    *)
(* writer puts at the end of a range, its id or the version it publishes,  *)
(* is larger than every published version, so that no reader of one can    *)
(* tell whether it is there.  And whoever is past every bound of a range   *)
(* sees its item if and only if the range has an odd number of bounds.     *)
(***************************************************************************)
EXTENDS MemoryStorage, TLAPS

Ascending(r) == \A n, m \in 1..Len(r) : n < m => r[n] < r[m]

(* A range whose bounds are published versions, up to v.                   *)
Settled(r, v) ==
    r \in Seq(Nat) /\ Ascending(r) /\ \A n \in 1..Len(r) : r[n] \in 1..v

(* A range that may also end with the id of the writer.                    *)
Staged(r, v, id) ==
    /\ r \in Seq(Nat) /\ Ascending(r)
    /\ \A n \in 1..Len(r) : r[n] \in 1..v \/ (n = Len(r) /\ r[n] = id)

(* A range without its last bound.                                         *)
LEMMA FrontOfRange ==
    ASSUME NEW r \in Seq(Nat), r # <<>>
    PROVE  /\ Front(r) \in Seq(Nat)
           /\ Len(r) \in Nat /\ Len(r) > 0
           /\ Len(Front(r)) = Len(r) - 1
           /\ \A n \in 1..Len(Front(r)) :
                n \in 1..Len(r) /\ n < Len(r) /\ Front(r)[n] = r[n] /\ r[n] \in Nat
<1>1. Len(r) \in Nat /\ Len(r) > 0
  OBVIOUS
<1>2. Front(r) \in Seq(Nat)
  BY <1>1 DEF Front
<1>3. Len(Front(r)) = Len(r) - 1
  <2> DEFINE k == Len(r) - 1
  <2>1. k \in Nat /\ k <= Len(r)
    BY <1>1
  <2> HIDE DEF k
  <2>2. Len(SubSeq(r, 1, k)) = k
    BY <2>1
  <2> QED BY <2>2 DEF Front, k
<1>4. ASSUME NEW n \in 1..Len(Front(r))
      PROVE  n \in 1..Len(r) /\ n < Len(r) /\ Front(r)[n] = r[n] /\ r[n] \in Nat
  <2>1. n \in 1..Len(r) /\ n < Len(r)
    BY <1>1, <1>3
  <2>2. Front(r)[n] = r[n]
    BY <1>1, <2>1 DEF Front
  <2> QED BY <2>1, <2>2
<1> QED BY <1>1, <1>2, <1>3, <1>4

(* The number of bounds of a range is even or odd, in turn.                *)
LEMMA Parity ==
    ASSUME NEW n \in Nat
    PROVE  /\ n % 2 \in {0, 1}
           /\ (n + 1) % 2 = 1 <=> n % 2 = 0
           /\ (n + 1) % 2 = 0 <=> n % 2 = 1
OBVIOUS

(* A range with one more bound.                                            *)
LEMMA AppendToRange ==
    ASSUME NEW r \in Seq(Nat), NEW x \in Nat
    PROVE  /\ Append(r, x) \in Seq(Nat)
           /\ Len(r) \in Nat
           /\ Len(Append(r, x)) = Len(r) + 1
           /\ \A n \in 1..Len(r) : Append(r, x)[n] = r[n] /\ r[n] \in Nat
           /\ Append(r, x)[Len(r) + 1] = x
OBVIOUS

(* Past every bound, a reader sees the item if the number of bounds is odd.*)
LEMMA ParityDecides ==
    ASSUME NEW r \in Seq(Nat), NEW v \in Nat, \A n \in 1..Len(r) : r[n] <= v
    PROVE  contains(r, v) <=> Len(r) % 2 = 1
<1>1. Len(r) \in Nat
  OBVIOUS
<1>2. ASSUME Len(r) % 2 = 1 PROVE contains(r, v)
  <2>1. Len(r) \in 1..Len(r)
    BY <1>1, <1>2
  <2> QED BY <1>2, <2>1 DEF contains
<1>3. ASSUME contains(r, v) PROVE Len(r) % 2 = 1
  <2>1. PICK i \in 1..Len(r) : i % 2 = 1 /\ r[i] <= v /\ (i = Len(r) \/ v < r[i + 1])
    BY <1>3 DEF contains
  <2>2. i # Len(r) => i + 1 \in 1..Len(r) /\ r[i + 1] \in Nat
    BY <1>1
  <2> QED BY <2>1, <2>2
<1> QED BY <1>2, <1>3

(* A bound above v at the end of a range is invisible at v.                *)
LEMMA HiddenAppend ==
    ASSUME NEW r \in Seq(Nat), NEW x \in Nat, NEW v \in Nat, v < x
    PROVE  contains(Append(r, x), v) <=> contains(r, v)
<1> DEFINE s == Append(r, x)
<1>1. /\ s \in Seq(Nat) /\ Len(r) \in Nat /\ Len(s) = Len(r) + 1
      /\ \A n \in 1..Len(r) : s[n] = r[n] /\ r[n] \in Nat
      /\ s[Len(r) + 1] = x
  BY AppendToRange
<1> HIDE DEF s
<1>2. ASSUME contains(s, v) PROVE contains(r, v)
  <2>1. PICK i \in 1..Len(s) : i % 2 = 1 /\ s[i] <= v /\ (i = Len(s) \/ v < s[i + 1])
    BY <1>2 DEF contains
  <2>2. i \in 1..Len(r) /\ r[i] <= v
    BY <1>1, <2>1, SMTT(30)
  <2>3. i = Len(r) \/ v < r[i + 1]
    <3>1. CASE i # Len(r)
      <4>1. i + 1 \in 1..Len(r)
        BY <1>1, <2>2, <3>1
      <4>2. s[i + 1] = r[i + 1] /\ i # Len(s)
        BY <1>1, <2>2, <4>1
      <4> QED BY <2>1, <4>2
    <3> QED BY <3>1
  <2> QED BY <2>1, <2>2, <2>3 DEF contains
<1>3. ASSUME contains(r, v) PROVE contains(s, v)
  <2>1. PICK i \in 1..Len(r) : i % 2 = 1 /\ r[i] <= v /\ (i = Len(r) \/ v < r[i + 1])
    BY <1>3 DEF contains
  <2>2. i \in 1..Len(s) /\ s[i] <= v
    BY <1>1, <2>1, SMTT(30)
  <2>3. v < s[i + 1]
    <3>1. CASE i # Len(r)
      <4>1. i + 1 \in 1..Len(r)
        BY <1>1, <3>1
      <4> QED BY <1>1, <2>1, <3>1, <4>1, Zenon
    <3>2. CASE i = Len(r)
      BY <1>1, <3>2
    <3> QED BY <3>1, <3>2
  <2> QED BY <2>1, <2>2, <2>3 DEF contains
<1> QED BY <1>2, <1>3 DEF s

(* So is the removal of such a bound.                                      *)
LEMMA HiddenFront ==
    ASSUME NEW r \in Seq(Nat), NEW x \in Nat, NEW v \in Nat, v < x, EndsWith(r, x)
    PROVE  contains(Front(r), v) <=> contains(r, v)
<1> DEFINE f == Front(r)
<1>1. /\ f \in Seq(Nat) /\ Len(r) \in Nat /\ Len(r) > 0 /\ Len(f) = Len(r) - 1
      /\ \A n \in 1..Len(f) :
           n \in 1..Len(r) /\ n < Len(r) /\ f[n] = r[n] /\ r[n] \in Nat
      /\ r[Len(r)] = x
  BY FrontOfRange DEF EndsWith
<1> HIDE DEF f
<1>2. ASSUME contains(f, v) PROVE contains(r, v)
  <2>1. PICK i \in 1..Len(f) : i % 2 = 1 /\ f[i] <= v /\ (i = Len(f) \/ v < f[i + 1])
    BY <1>2 DEF contains
  <2>2. i \in 1..Len(r) /\ r[i] <= v
    BY <1>1, <2>1, Zenon
  <2>3. v < r[i + 1]
    <3>1. CASE i = Len(f)
      BY <1>1, <3>1
    <3>2. CASE i # Len(f)
      <4>1. i + 1 \in 1..Len(f)
        BY <1>1, <3>2
      <4> QED BY <1>1, <2>1, <3>2, <4>1, Zenon
    <3> QED BY <3>1, <3>2
  <2> QED BY <2>1, <2>2, <2>3 DEF contains
<1>3. ASSUME contains(r, v) PROVE contains(f, v)
  <2>1. PICK i \in 1..Len(r) : i % 2 = 1 /\ r[i] <= v /\ (i = Len(r) \/ v < r[i + 1])
    BY <1>3 DEF contains
  <2>2. i # Len(r)
    BY <1>1, <2>1
  <2>3. i \in 1..Len(f) /\ f[i] <= v
    <3>1. i \in 1..Len(f)
      BY <1>1, <2>2, SMTT(30)
    <3> QED BY <1>1, <2>1, <3>1, Zenon
  <2>4. i = Len(f) \/ v < f[i + 1]
    <3>1. CASE i # Len(f)
      <4>1. i + 1 \in 1..Len(f)
        BY <1>1, <2>3, <3>1
      <4> QED BY <1>1, <2>1, <2>2, <4>1, Zenon
    <3> QED BY <3>1
  <2> QED BY <2>1, <2>3, <2>4 DEF contains
<1> QED BY <1>2, <1>3 DEF f

-----------------------------------------------------------------------------
(* What add and remove make of a range of the writer: it sees the item, or *)
(* does not, and the reader of a published version cannot tell.            *)
LEMMA StagedRange ==
    ASSUME NEW v \in Nat, NEW id \in Nat, v < id, NEW r, Staged(r, v, id)
    PROVE  /\ Staged(add(r, id), v, id) /\ contains(add(r, id), id)
           /\ Staged(remove(r, id), v, id) /\ ~contains(remove(r, id), id)
           /\ contains(r, id) <=> Len(r) % 2 = 1
           /\ \A n \in 0..v : /\ contains(add(r, id), n) <=> contains(r, n)
                              /\ contains(remove(r, id), n) <=> contains(r, n)
<1>1. /\ r \in Seq(Nat) /\ Ascending(r) /\ Len(r) \in Nat
      /\ \A n \in 1..Len(r) : r[n] \in 1..v \/ (n = Len(r) /\ r[n] = id)
  BY DEF Staged
<1>2. ASSUME NEW s, Staged(s, v, id) PROVE contains(s, id) <=> Len(s) % 2 = 1
  <2>1. s \in Seq(Nat) /\ \A n \in 1..Len(s) : s[n] <= id
    BY <1>2 DEF Staged
  <2> QED BY <2>1, ParityDecides
<1>3. ASSUME EndsWith(r, id)
      PROVE  /\ Staged(Front(r), v, id)
             /\ Len(Front(r)) = Len(r) - 1 /\ Len(r) > 0
             /\ \A n \in 0..v : contains(Front(r), n) <=> contains(r, n)
  <2>1. r # <<>>
    BY <1>3 DEF EndsWith
  <2>2. /\ Front(r) \in Seq(Nat) /\ Len(r) > 0 /\ Len(Front(r)) = Len(r) - 1
        /\ \A n \in 1..Len(Front(r)) :
             n \in 1..Len(r) /\ n < Len(r) /\ Front(r)[n] = r[n] /\ r[n] \in Nat
    BY <1>1, <2>1, FrontOfRange
  <2>3. Staged(Front(r), v, id)
    <3>1. Ascending(Front(r))
      BY <1>1, <2>2 DEF Ascending
    <3>2. \A n \in 1..Len(Front(r)) : Front(r)[n] \in 1..v
      <4> TAKE n \in 1..Len(Front(r))
      <4>1. n \in 1..Len(r) /\ n # Len(r) /\ Front(r)[n] = r[n]
        BY <1>1, <2>2
      <4> QED BY <1>1, <4>1
    <3> QED BY <2>2, <3>1, <3>2 DEF Staged
  <2>4. ASSUME NEW n \in 0..v PROVE contains(Front(r), n) <=> contains(r, n)
    <3>1. n \in Nat /\ n < id
      OBVIOUS
    <3> QED BY <1>1, <1>3, <3>1, HiddenFront
  <2> QED BY <2>2, <2>3, <2>4
<1>4. ASSUME ~EndsWith(r, id)
      PROVE  /\ Staged(Append(r, id), v, id)
             /\ Len(Append(r, id)) = Len(r) + 1
             /\ \A n \in 0..v : contains(Append(r, id), n) <=> contains(r, n)
  <2>1. /\ Append(r, id) \in Seq(Nat) /\ Len(Append(r, id)) = Len(r) + 1
        /\ \A n \in 1..Len(r) : Append(r, id)[n] = r[n]
        /\ Append(r, id)[Len(r) + 1] = id
    BY <1>1, AppendToRange
  <2>2. \A n \in 1..Len(r) : r[n] \in 1..v
    BY <1>1, <1>4 DEF EndsWith
  <2>3. Staged(Append(r, id), v, id)
    BY <1>1, <2>1, <2>2, SMTT(30) DEF Staged, Ascending
  <2>4. ASSUME NEW n \in 0..v PROVE contains(Append(r, id), n) <=> contains(r, n)
    <3>1. n \in Nat /\ n < id
      OBVIOUS
    <3> QED BY <1>1, <3>1, HiddenAppend
  <2> QED BY <2>1, <2>3, <2>4
<1>5. /\ Staged(add(r, id), v, id) /\ Len(add(r, id)) % 2 = 1
      /\ \A n \in 0..v : contains(add(r, id), n) <=> contains(r, n)
  <2>1. CASE Len(r) % 2 = 1
    BY <2>1 DEF add
  <2>2. CASE Len(r) % 2 # 1 /\ EndsWith(r, id)
    <3>1. add(r, id) = Front(r)
      BY <2>2 DEF add
    <3>2. (Len(r) - 1) % 2 = 1
      <4>1. Len(r) - 1 \in Nat /\ (Len(r) - 1) + 1 = Len(r)
        BY <1>1, <1>3, <2>2
      <4>2. Len(r) % 2 = 0
        BY <1>1, <2>2, Parity
      <4> QED BY <4>1, <4>2, Parity
    <3> QED BY <1>3, <2>2, <3>1, <3>2
  <2>3. CASE Len(r) % 2 # 1 /\ ~EndsWith(r, id)
    <3>1. add(r, id) = Append(r, id)
      BY <2>3 DEF add
    <3>2. (Len(r) + 1) % 2 = 1
      BY <1>1, <2>3, Parity
    <3> QED BY <1>4, <2>3, <3>1, <3>2
  <2> QED BY <2>1, <2>2, <2>3
<1>6. /\ Staged(remove(r, id), v, id) /\ Len(remove(r, id)) % 2 = 0
      /\ \A n \in 0..v : contains(remove(r, id), n) <=> contains(r, n)
  <2>1. CASE Len(r) % 2 = 0
    BY <2>1 DEF remove
  <2>2. CASE Len(r) % 2 # 0 /\ EndsWith(r, id)
    <3>1. remove(r, id) = Front(r)
      BY <2>2 DEF remove
    <3>2. (Len(r) - 1) % 2 = 0
      <4>1. Len(r) - 1 \in Nat /\ (Len(r) - 1) + 1 = Len(r)
        BY <1>1, <1>3, <2>2
      <4>2. Len(r) % 2 = 1
        BY <1>1, <2>2, Parity
      <4> QED BY <4>1, <4>2, Parity
    <3> QED BY <1>3, <2>2, <3>1, <3>2
  <2>3. CASE Len(r) % 2 # 0 /\ ~EndsWith(r, id)
    <3>1. remove(r, id) = Append(r, id)
      BY <2>3 DEF remove
    <3>2. (Len(r) + 1) % 2 = 0
      BY <1>1, <2>3, Parity
    <3> QED BY <1>4, <2>3, <3>1, <3>2
  <2> QED BY <2>1, <2>2, <2>3
<1> QED BY <1>2, <1>5, <1>6

(* Publishing an entry settles its range at the next version, with as many *)
(* bounds as before; a rollback settles it at the version there is.        *)
LEMMA SettledRange ==
    ASSUME NEW v \in Nat, NEW id \in Nat, v < id, NEW r, Staged(r, v, id)
    PROVE  /\ Settled(upgrade_transaction(r, id, v + 1), v + 1)
           /\ Len(upgrade_transaction(r, id, v + 1)) = Len(r)
           /\ Settled(rollback_transaction(r, id), v)
           /\ \A n \in 0..v :
                /\ contains(upgrade_transaction(r, id, v + 1), n) <=> contains(r, n)
                /\ contains(rollback_transaction(r, id), n) <=> contains(r, n)
<1>1. /\ r \in Seq(Nat) /\ Ascending(r) /\ Len(r) \in Nat
      /\ \A n \in 1..Len(r) : r[n] \in 1..v \/ (n = Len(r) /\ r[n] = id)
  BY DEF Staged
<1>2. CASE ~EndsWith(r, id)
  <2>1. \A n \in 1..Len(r) : r[n] \in 1..v
    BY <1>1, <1>2 DEF EndsWith
  <2>2. upgrade_transaction(r, id, v + 1) = r /\ rollback_transaction(r, id) = r
    BY <1>2 DEF upgrade_transaction, rollback_transaction
  <2>3. Settled(r, v) /\ Settled(r, v + 1)
    BY <1>1, <2>1 DEF Settled
  <2> QED BY <2>2, <2>3
<1>3. CASE EndsWith(r, id)
  <2> DEFINE f == Front(r)
             u == Append(f, v + 1)
  <2>1. /\ f \in Seq(Nat) /\ Len(r) > 0 /\ Len(f) = Len(r) - 1
        /\ \A n \in 1..Len(f) :
             n \in 1..Len(r) /\ n < Len(r) /\ f[n] = r[n] /\ r[n] \in Nat
    BY <1>1, <1>3, FrontOfRange DEF EndsWith
  <2>2. /\ u \in Seq(Nat) /\ Len(u) = Len(r)
        /\ \A n \in 1..Len(f) : u[n] = f[n]
        /\ u[Len(r)] = v + 1
    BY <1>1, <2>1, AppendToRange
  <2>3. upgrade_transaction(r, id, v + 1) = u /\ rollback_transaction(r, id) = f
    BY <1>3 DEF upgrade_transaction, rollback_transaction
  <2>4. \A n \in 0..v : contains(f, n) <=> contains(r, n)
    BY <1>1, <1>3, HiddenFront
  <2>5. \A n \in 0..v : contains(u, n) <=> contains(f, n)
    BY <2>1, HiddenAppend
  <2> HIDE DEF f, u
  <2>6. ASSUME NEW n \in 1..Len(f) PROVE f[n] \in 1..v
    <3>1. n \in 1..Len(r) /\ n # Len(r) /\ f[n] = r[n]
      BY <1>1, <2>1
    <3>2. r[n] \in 1..v
      BY <1>1, <3>1
    <3> QED BY <3>1, <3>2
  <2>7. Ascending(f)
    BY <1>1, <2>1 DEF Ascending
  <2>8. Settled(f, v)
    BY <2>1, <2>6, <2>7 DEF Settled
  <2>9. ASSUME NEW n \in 1..Len(u)
        PROVE  /\ n \in 1..Len(f) \/ n = Len(r)
               /\ u[n] \in 1..(v + 1)
               /\ n < Len(r) => u[n] = f[n] /\ n \in 1..Len(f) /\ u[n] < v + 1
    <3>1. Len(u) \in Nat /\ n \in 1..Len(u) /\ Len(u) = Len(f) + 1
      BY <1>1, <2>1, <2>2
    <3>2. n \in 1..Len(f) \/ n = Len(r)
      BY <2>1, <2>2, <3>1, SMTT(30)
    <3>3. CASE n \in 1..Len(f)
      <4>1. u[n] = f[n] /\ f[n] \in 1..v
        BY <2>2, <2>6, <3>3
      <4> QED BY <3>3, <4>1
    <3>4. CASE n = Len(r)
      <4>1. u[n] = v + 1
        BY <2>2, <3>4
      <4>2. ~(n < Len(r))
        BY <1>1, <3>4
      <4> QED BY <3>4, <4>1, <4>2
    <3> QED BY <3>2, <3>3, <3>4
  <2>10. Ascending(u)
    <3> SUFFICES ASSUME NEW n \in 1..Len(u), NEW m \in 1..Len(u), n < m
                 PROVE  u[n] < u[m]
      BY DEF Ascending
    <3>1. n < Len(r)
      BY <1>1, <2>2
    <3>2. CASE m = Len(r)
      BY <2>2, <2>9, <3>1, <3>2
    <3>3. CASE m # Len(r)
      <4>1. n \in 1..Len(f) /\ u[n] = f[n]
        BY <2>9, <3>1
      <4>2. m \in 1..Len(f) /\ u[m] = f[m]
        BY <2>2, <2>9, <3>3
      <4> QED BY <2>7, <4>1, <4>2 DEF Ascending
    <3> QED BY <3>2, <3>3
  <2>11. Settled(u, v + 1)
    BY <2>2, <2>9, <2>10 DEF Settled
  <2> QED BY <2>2, <2>3, <2>4, <2>5, <2>8, <2>11
<1> QED BY <1>2, <1>3

(* A settled range shows the same to every reader past its last version.   *)
LEMMA SettledIsStable ==
    ASSUME NEW v \in Nat, NEW r, Settled(r, v), NEW m \in Nat, v <= m
    PROVE  contains(r, m) <=> contains(r, v)
<1>1. r \in Seq(Nat) /\ \A n \in 1..Len(r) : r[n] <= v /\ r[n] <= m
  BY DEF Settled
<1> QED BY <1>1, ParityDecides

(* To the writer a settled range is one of its own.                        *)
LEMMA SettledIsStaged ==
    ASSUME NEW v, NEW id, NEW r, Settled(r, v)
    PROVE  Staged(r, v, id)
BY DEF Settled, Staged

-----------------------------------------------------------------------------
(* A quad that a view has is in the default graph or in a named graph that *)
(* the view has.                                                           *)
Whole(V) ==
    \A q \in Quads : q \in V /\ graph_name[q] \in Graphs => graph_name[q] \in V

Active == tx.phase \in {"Open", "Publishing"}

NextVersion == IF tx.phase = "Publishing" THEN version_counter + 1 ELSE version_counter

MemTypes ==
    /\ range \in [Items -> Seq(Nat)]
    /\ version_counter \in 0..MaxVersion
    /\ transaction_counter \in TransactionBase..(TransactionBase + MaxTransactions)
    /\ transaction_outcomes \in [Keys -> OutcomeStates]
    /\ tx \in [phase : Phases, id : Nat, snapshot_id : Nat, key : Keys \cup {NoKey}]
    /\ log \subseteq Items
    /\ author \in Seq(Keys \cup {NoKey}) /\ Len(author) = version_counter

(* What the phase of the transaction says of the counters and of its log.  *)
TxInv ==
    /\ tx.phase # "None" =>
         tx.id \in TransactionBase..(TransactionBase + MaxTransactions)
    /\ tx.phase \in {"Open", "Publishing", "RollingBack"} =>
         tx.snapshot_id = version_counter
    /\ tx.phase = "Publishing" => version_counter < MaxVersion
    /\ tx.phase \in {"None", "Published"} => log = {}

(* A range is staged while the log names its item, and settled otherwise.  *)
RangeInv ==
    \A i \in Items :
        /\ i \in log => Staged(range[i], version_counter, tx.id)
        /\ i \notin log => Settled(range[i], NextVersion)

(* The inductive invariant.  That views are whole is what makes clearing   *)
(* the named graphs a transaction sees clear every quad of a named graph.  *)
MemInv ==
    /\ MemTypes /\ TxInv /\ RangeInv
    /\ Whole(View(version_counter))
    /\ Active => Whole(View(tx.id))

(* The versions published so far look as before.                           *)
SameVersions == \A n \in 0..version_counter : View(n)' = View(n)

(* The id of a transaction is past every version.                          *)
LEMMA IdsArePastVersions ==
    ASSUME MemTypes, TxInv, tx.phase # "None"
    PROVE  /\ version_counter \in Nat /\ tx.id \in Nat /\ version_counter < tx.id
           /\ version_counter + 1 <= tx.id
BY MemoryAssumption DEF MemTypes, TxInv

(* In an open transaction every range is one the writer may stage in.      *)
LEMMA OpenIsStaged ==
    ASSUME MemTypes, TxInv, RangeInv, tx.phase \in {"Open", "RollingBack"}, NEW i \in Items
    PROVE  Staged(range[i], version_counter, tx.id)
<1>1. NextVersion = version_counter
  BY DEF NextVersion
<1> QED BY <1>1, SettledIsStaged DEF RangeInv

(* The ranges after A was added to, and R removed from, the writer's view. *)
Changed(A, R) ==
    [i \in Items |-> IF i \in A THEN add(range[i], tx.id)
                     ELSE IF i \in R THEN remove(range[i], tx.id)
                     ELSE range[i]]

(* Whatever an operation adds and removes, it keeps the ranges in order,   *)
(* changes the writer's view by exactly that, and no published version.    *)
LEMMA StageKeeps ==
    ASSUME MemTypes, TxInv, RangeInv, NEW A, NEW R, A \cap R = {}, A \subseteq Items,
           Stage(Changed(A, R))
    PROVE  /\ MemTypes' /\ TxInv' /\ RangeInv'
           /\ SameVersions
           /\ View(tx.id)' = (View(tx.id) \ R) \cup A
<1> DEFINE new == Changed(A, R)
           v == version_counter
           id == tx.id
<1>1. /\ tx.phase = "Open" /\ range' = new
      /\ log' = log \cup {i \in Items : new[i] # range[i]}
      /\ UNCHANGED <<version_counter, transaction_counter, transaction_outcomes, tx, author>>
  BY DEF Stage
<1>2. v \in Nat /\ id \in Nat /\ v < id
  BY <1>1, IdsArePastVersions
<1>3. \A i \in Items : Staged(range[i], v, id)
  BY <1>1, OpenIsStaged
<1>4. ASSUME NEW i \in Items
      PROVE  /\ Staged(new[i], v, id)
             /\ contains(new[i], id) <=> i \in A \/ (contains(range[i], id) /\ i \notin R)
             /\ \A n \in 0..v : contains(new[i], n) <=> contains(range[i], n)
  <2>1. /\ Staged(add(range[i], id), v, id) /\ contains(add(range[i], id), id)
        /\ Staged(remove(range[i], id), v, id) /\ ~contains(remove(range[i], id), id)
        /\ \A n \in 0..v : /\ contains(add(range[i], id), n) <=> contains(range[i], n)
                           /\ contains(remove(range[i], id), n) <=> contains(range[i], n)
    BY <1>2, <1>3, StagedRange
  <2>2. CASE i \in A
    <3>1. new[i] = add(range[i], id)
      BY <2>2 DEF Changed
    <3> QED BY <2>1, <2>2, <3>1
  <2>3. CASE i \notin A /\ i \in R
    <3>1. new[i] = remove(range[i], id)
      BY <2>3 DEF Changed
    <3> QED BY <2>1, <2>3, <3>1
  <2>4. CASE i \notin A /\ i \notin R
    <3>1. new[i] = range[i]
      BY <2>4 DEF Changed
    <3> QED BY <1>3, <2>4, <3>1
  <2> QED BY <2>2, <2>3, <2>4
<1>5. range' \in [Items -> Seq(Nat)]
  <2>1. new = [i \in Items |-> new[i]]
    BY DEF Changed
  <2>2. \A i \in Items : new[i] \in Seq(Nat)
    BY <1>4 DEF Staged
  <2> HIDE DEF new
  <2> QED BY <1>1, <2>1, <2>2
<1> HIDE DEF new
<1>6. MemTypes'
  BY <1>1, <1>5 DEF MemTypes
<1>7. TxInv'
  BY <1>1 DEF TxInv
<1>8. RangeInv'
  <2> SUFFICES ASSUME NEW i \in Items
               PROVE  /\ i \in log' => Staged(range'[i], v, id)
                      /\ i \notin log' => Settled(range'[i], v)
    BY <1>1 DEF RangeInv, NextVersion
  <2>1. Staged(range'[i], v, id)
    BY <1>1, <1>4
  <2>2. ASSUME i \notin log' PROVE Settled(range'[i], v)
    <3>1. i \notin log /\ range'[i] = range[i]
      BY <1>1, <2>2
    <3> QED BY <1>1, <3>1 DEF RangeInv, NextVersion
  <2> QED BY <2>1, <2>2
<1>9. SameVersions
  <2> SUFFICES ASSUME NEW n \in 0..v
               PROVE  {i \in Items : contains(range'[i], n)} = {i \in Items : contains(range[i], n)}
    BY DEF SameVersions, View
  <2>1. \A i \in Items : contains(range'[i], n) <=> contains(range[i], n)
    BY <1>1, <1>4
  <2> QED BY <2>1, Zenon
<1>10. View(tx.id)' = (View(tx.id) \ R) \cup A
  <2>1. \A i \in Items :
          contains(range'[i], id) <=> i \in A \/ (contains(range[i], id) /\ i \notin R)
    BY <1>1, <1>4
  <2>2. {i \in Items : contains(range'[i], id)}
          = ({i \in Items : contains(range[i], id)} \ R) \cup A
    BY <2>1, Zenon
  <2> QED BY <1>1, <2>2 DEF View
<1> QED BY <1>6, <1>7, <1>8, <1>9, <1>10

-----------------------------------------------------------------------------
(* A write of the abstract store by the transaction at work.               *)
Wrote ==
    /\ tx.phase = "Open" /\ UNCHANGED <<version_counter, tx>>
    /\ SameVersions
    /\ View(tx.id)' \in Snapshots!Written(View(tx.id)) \cup {View(tx.id)}

(* An operation whose result is whole, and is one the abstract store       *)
(* allows, keeps the invariant and is a write of that store.               *)
LEMMA StageWrites ==
    ASSUME MemInv, NEW A, NEW R, A \cap R = {}, A \subseteq Items, Stage(Changed(A, R)),
           Whole((View(tx.id) \ R) \cup A),
           (View(tx.id) \ R) \cup A \in Snapshots!Written(View(tx.id)) \cup {View(tx.id)}
    PROVE  MemInv' /\ Wrote
<1>1. /\ MemTypes' /\ TxInv' /\ RangeInv' /\ SameVersions
      /\ View(tx.id)' = (View(tx.id) \ R) \cup A
  BY StageKeeps DEF MemInv
<1>2. tx.phase = "Open" /\ UNCHANGED <<version_counter, tx>>
  BY DEF Stage
<1>3. Whole(View(tx.id)')
  BY <1>1
<1>4. View(version_counter)' = View(version_counter)
  <2>1. version_counter \in 0..version_counter /\ version_counter' = version_counter
    BY <1>2, MemoryAssumption DEF MemInv, MemTypes
  <2>2. View(version_counter)' = {i \in Items : contains(range'[i], version_counter)}
    BY <2>1 DEF View
  <2>3. \A n \in 0..version_counter : {i \in Items : contains(range'[i], n)} = View(n)
    BY <1>1 DEF SameVersions, View
  <2> QED BY <2>1, <2>2, <2>3
<1>5. Whole(View(version_counter)')
  BY <1>4 DEF MemInv
<1>6. Whole(View(version_counter))' /\ Whole(View(tx.id))'
  BY <1>3, <1>5 DEF Whole
<1>7. MemInv'
  BY <1>1, <1>6 DEF MemInv
<1> QED BY <1>1, <1>2, <1>7 DEF Wrote

(* The two simple shapes of an operation.                                  *)
LEMMA AddingAndRemoving ==
    ASSUME NEW S
    PROVE  Adding(S) = Changed(S, {}) /\ Removing(S) = Changed({}, S)
BY Zenon DEF Adding, Removing, Changed

(* What the writer sees is part of the dataset.                            *)
LEMMA ViewsAreItems == View(tx.id) \subseteq Items
BY DEF View

(* An operation only removes R from the view.                              *)
LEMMA RemovalWrites ==
    ASSUME MemInv, NEW R, Stage(Removing(R)),
           Whole(View(tx.id) \ R),
           View(tx.id) \ R \in Snapshots!Written(View(tx.id)) \cup {View(tx.id)}
    PROVE  MemInv' /\ Wrote
<1>1. Stage(Changed({}, R))
  BY AddingAndRemoving
<1>2. (View(tx.id) \ R) \cup {} = View(tx.id) \ R
  OBVIOUS
<1> QED BY <1>1, <1>2, StageWrites

(* Each operation of the writable transaction is a write of the abstract   *)
(* store, in which quads bring their graphs and clear and remove reach     *)
(* every quad they should.                                                 *)
LEMMA OperationWrites ==
    ASSUME MemInv, Operation
    PROVE  MemInv' /\ Wrote
<1> DEFINE V == View(tx.id)
<1>1. tx.phase = "Open"
  BY Zenon DEF Operation, Stage, Insert, Remove, InsertNamedGraph, RemoveNamedGraph,
         ClearGraph, ClearAllNamedGraphs, ClearAllGraphs, RemoveAllNamedGraphs,
         Clear, SetNamespace, RemoveNamespace, ClearNamespaces
<1>2. Whole(V)
  BY <1>1 DEF MemInv, Active
<1>3. /\ Quads \cap Graphs = {} /\ Quads \cap Mappings = {} /\ Graphs \cap Mappings = {}
      /\ \A q \in Quads : graph_name[q] \in Graphs \cup {DefaultGraph}
  BY MemoryAssumption
<1>4. V \subseteq Items
  BY ViewsAreItems
<1>5. ASSUME NEW q \in Quads, Insert(q) PROVE MemInv' /\ Wrote
  <2> DEFINE g == {graph_name[q]} \cap Graphs
  <2>1. CASE Len(range[q]) % 2 = 0
    <3>1. Stage(Changed({q} \cup g, {}))
      BY <1>5, <2>1, AddingAndRemoving DEF Insert
    <3>2. (V \ {}) \cup ({q} \cup g) = Snapshots!Inserted(V, q)
      BY DEF Snapshots!Inserted
    <3>3. Snapshots!Inserted(V, q) \in Snapshots!Written(V)
      BY DEF Snapshots!Written
    <3>4. Whole((V \ {}) \cup ({q} \cup g))
      BY <1>2, <1>3 DEF Whole
    <3>5. {q} \cup g \subseteq Items
      BY DEF Items
    <3> QED BY <3>1, <3>2, <3>3, <3>4, <3>5, StageWrites, Zenon
  <2>2. CASE Len(range[q]) % 2 # 0
    <3>1. Stage(Changed({q}, {}))
      BY <1>5, <2>2, AddingAndRemoving DEF Insert
    <3>2. q \in V
      <4>1. q \in Items
        BY DEF Items
      <4>2. Staged(range[q], version_counter, tx.id)
        BY <1>1, <4>1, OpenIsStaged DEF MemInv
      <4>3. Len(range[q]) % 2 = 1
        <5>1. Len(range[q]) \in Nat
          BY <4>2 DEF Staged
        <5> QED BY <2>2, <5>1, Parity, Zenon
      <4>4. version_counter \in Nat /\ tx.id \in Nat /\ version_counter < tx.id
        BY <1>1, IdsArePastVersions DEF MemInv
      <4>5. contains(range[q], tx.id)
        BY <4>2, <4>3, <4>4, StagedRange, Zenon
      <4> QED BY <4>1, <4>5 DEF View
    <3>3. (V \ {}) \cup {q} = V
      BY <3>2
    <3> HIDE DEF V
    <3>4. {q} \subseteq Items /\ {q} \cap {} = {}
      BY DEF Items
    <3> QED BY <1>2, <3>1, <3>3, <3>4, StageWrites DEF V
  <2> QED BY <2>1, <2>2, Zenon
<1>6. ASSUME NEW q \in Quads, Remove(q) PROVE MemInv' /\ Wrote
  <2>1. Whole(V \ {q})
    BY <1>2, <1>3 DEF Whole
  <2>2. V \ {q} \in Snapshots!Written(V)
    BY DEF Snapshots!Written
  <2> QED BY <1>6, <2>1, <2>2, RemovalWrites DEF Remove
<1>7. ASSUME NEW g \in Graphs, InsertNamedGraph(g) PROVE MemInv' /\ Wrote
  <2>1. Stage(Changed({g}, {}))
    BY <1>7, AddingAndRemoving DEF InsertNamedGraph
  <2>2. (V \ {}) \cup {g} = V \cup {g}
    OBVIOUS
  <2>3. V \cup {g} \in Snapshots!Written(V)
    BY DEF Snapshots!Written
  <2>4. Whole(V \cup {g})
    BY <1>2, <1>3 DEF Whole
  <2>5. {g} \subseteq Items /\ {g} \cap {} = {}
    BY DEF Items
  <2> QED BY <2>1, <2>2, <2>3, <2>4, <2>5, StageWrites
<1>8. ASSUME NEW g \in Graphs, RemoveNamedGraph(g) PROVE MemInv' /\ Wrote
  <2> DEFINE R == QuadsIn(g) \cup {g}
  <2>1. Whole(V \ R)
    BY <1>2, <1>3 DEF Whole, QuadsIn
  <2>2. R = Snapshots!QuadsIn(g) \cup {g}
    BY DEF QuadsIn, Snapshots!QuadsIn
  <2>3. V \ R \in Snapshots!Written(V)
    BY <2>2 DEF Snapshots!Written
  <2>4. Stage(Removing(R))
    BY <1>8 DEF RemoveNamedGraph
  <2> HIDE DEF R, V
  <2> QED BY <2>1, <2>3, <2>4, RemovalWrites DEF V
<1>9. ASSUME NEW p \in Quads, ClearGraph(graph_name[p]) PROVE MemInv' /\ Wrote
  <2> DEFINE R == QuadsIn(graph_name[p])
  <2>1. Whole(V \ R)
    BY <1>2, <1>3 DEF Whole, QuadsIn
  <2>2. R = Snapshots!QuadsIn(graph_name[p])
    BY DEF QuadsIn, Snapshots!QuadsIn
  <2>3. V \ R \in Snapshots!Written(V)
    BY <2>2 DEF Snapshots!Written
  <2>4. Stage(Removing(R))
    BY <1>9 DEF ClearGraph
  <2> HIDE DEF R, V
  <2> QED BY <2>1, <2>3, <2>4, RemovalWrites DEF V
<1> DEFINE N == UNION {QuadsIn(g) : g \in Graphs \cap V}
<1>10. V \ N = V \ Snapshots!NamedQuads /\ N \subseteq Quads
  <2>1. \A q \in V : q \in N <=> q \in Quads /\ graph_name[q] \in Graphs
    BY <1>2 DEF Whole, QuadsIn
  <2>2. N \subseteq Quads
    BY DEF QuadsIn
  <2> QED BY <2>1, <2>2 DEF Snapshots!NamedQuads
<1>11. CASE ClearAllNamedGraphs
  <2>1. Whole(V \ N)
    BY <1>2, <1>3, <1>10 DEF Whole
  <2>2. V \ N \in Snapshots!Written(V)
    BY <1>10 DEF Snapshots!Written
  <2>3. Stage(Removing(N))
    BY <1>11 DEF ClearAllNamedGraphs
  <2> HIDE DEF N, V
  <2> QED BY <2>1, <2>2, <2>3, RemovalWrites DEF V
<1>12. CASE RemoveAllNamedGraphs
  <2>1. V \ (Graphs \cup N) = V \ (Graphs \cup Snapshots!NamedQuads)
    BY <1>10
  <2>2. Whole(V \ (Graphs \cup N))
    BY <1>3, <2>1 DEF Whole, Snapshots!NamedQuads
  <2>3. V \ (Graphs \cup N) \in Snapshots!Written(V)
    BY <2>1 DEF Snapshots!Written
  <2>4. Stage(Removing(Graphs \cup N))
    BY <1>12 DEF RemoveAllNamedGraphs
  <2> HIDE DEF N, V
  <2> QED BY <2>2, <2>3, <2>4, RemovalWrites DEF V
<1>13. CASE ClearAllGraphs
  <2>1. Whole(V \ Quads) /\ V \ Quads \in Snapshots!Written(V)
    BY DEF Whole, Snapshots!Written
  <2> QED BY <1>13, <2>1, RemovalWrites DEF ClearAllGraphs
<1>14. CASE Clear
  <2>1. /\ Whole(V \ (Quads \cup Graphs))
        /\ V \ (Quads \cup Graphs) \in Snapshots!Written(V)
    BY DEF Whole, Snapshots!Written
  <2> QED BY <1>14, <2>1, RemovalWrites DEF Clear
<1>15. ASSUME NEW m \in Mappings, SetNamespace(m) PROVE MemInv' /\ Wrote
  <2> DEFINE other == Mapped(prefix[m]) \ {m}
             W == (V \ other) \cup {m}
  <2>1. Stage(Changed({m}, other))
    <3>1. Changed({m}, other) = [i \in Items |-> IF i = m THEN add(range[i], tx.id)
                              ELSE IF i \in other THEN remove(range[i], tx.id)
                              ELSE range[i]]
      BY Zenon DEF Changed
    <3> QED BY <1>15, <3>1 DEF SetNamespace
  <2>2. W = (V \ {n \in Mappings : prefix[n] = prefix[m]}) \cup {m}
    BY DEF Mapped
  <2>3. W \in Snapshots!Written(V)
    BY <2>2 DEF Snapshots!Written
  <2>4. Whole(W)
    BY <1>2, <1>3 DEF Whole, Mapped
  <2>5. {m} \cap other = {} /\ {m} \subseteq Items
    BY DEF Items
  <2> HIDE DEF V, other
  <2> QED BY <2>1, <2>3, <2>4, <2>5, StageWrites DEF V
<1>16. ASSUME NEW m \in Mappings, RemoveNamespace(prefix[m]) PROVE MemInv' /\ Wrote
  <2> DEFINE R == Mapped(prefix[m])
  <2>1. V \ R = V \ {n \in Mappings : prefix[n] = prefix[m]}
    BY DEF Mapped
  <2>2. V \ R \in Snapshots!Written(V)
    BY <2>1 DEF Snapshots!Written
  <2>3. Whole(V \ R)
    BY <1>2, <1>3 DEF Whole, Mapped
  <2>4. Stage(Removing(R))
    BY <1>16 DEF RemoveNamespace
  <2> HIDE DEF R, V
  <2> QED BY <2>2, <2>3, <2>4, RemovalWrites DEF V
<1>17. CASE ClearNamespaces
  <2> DEFINE R == Mappings \cap V
  <2>1. V \ R = V \ Mappings
    OBVIOUS
  <2>2. V \ R \in Snapshots!Written(V)
    BY <2>1 DEF Snapshots!Written
  <2>3. Whole(V \ R)
    BY <1>2, <1>3 DEF Whole
  <2>4. Stage(Removing(R))
    BY <1>17 DEF ClearNamespaces
  <2> HIDE DEF R, V
  <2> QED BY <2>2, <2>3, <2>4, RemovalWrites DEF V
<1> QED
  BY <1>5, <1>6, <1>7, <1>8, <1>9, <1>11, <1>12, <1>13, <1>14, <1>15, <1>16, <1>17, SMTT(30)
  DEF Operation

-----------------------------------------------------------------------------
(* The state of the abstract store.                                        *)
Versions == [n \in 1..(version_counter + 1) |-> View(n - 1)]

Seen == IF Active THEN View(tx.id) ELSE {}

(* A step of the abstract store, or none.                                  *)
Simulates == [Snapshots!Next]_Snapshots!vars

(* Views of the same versions are the same sequence of versions.           *)
LEMMA QuietStep ==
    ASSUME MemTypes, UNCHANGED version_counter, SameVersions, Active' <=> Active,
           Active => View(tx.id)' = View(tx.id)
    PROVE  Simulates
<1>1. version_counter \in Nat
  BY MemoryAssumption DEF MemTypes
<1>2. \A n \in 1..(version_counter + 1) : View(n - 1)' = View(n - 1)
  <2> SUFFICES ASSUME NEW n \in 1..(version_counter + 1)
               PROVE  View(n - 1)' = View(n - 1)
    OBVIOUS
  <2>1. n - 1 \in 0..version_counter
    BY <1>1
  <2> QED BY <2>1 DEF SameVersions, View
<1>3. Versions' = Versions
  BY <1>2 DEF Versions
<1>4. Seen' = Seen /\ (Active' = Active)
  BY DEF Seen, Active
<1> QED BY <1>3, <1>4 DEF Simulates, Snapshots!vars, Versions, Seen, Active

(* The versions form a sequence; its last member is the current version.   *)
LEMMA VersionsAreASequence ==
    ASSUME MemTypes
    PROVE  /\ Versions \in Seq(SUBSET Items)
           /\ Len(Versions) = version_counter + 1
           /\ Versions[version_counter + 1] = View(version_counter)
<1>1. version_counter \in Nat
  BY MemoryAssumption DEF MemTypes
<1>2. \A n \in 1..(version_counter + 1) : View(n - 1) \in SUBSET Items
  BY DEF View
<1>3. Versions \in Seq(SUBSET Items) /\ Len(Versions) = version_counter + 1
  BY <1>1, <1>2 DEF Versions
<1>4. Versions[version_counter + 1] = View((version_counter + 1) - 1)
  BY <1>1 DEF Versions
<1>5. (version_counter + 1) - 1 = version_counter
  BY <1>1
<1> QED BY <1>3, <1>4, <1>5

(* Nothing is staged and no version is left: a writer that begins sees the *)
(* current version.                                                        *)
LEMMA StartBegins ==
    ASSUME MemInv, NEW key \in Keys \cup {NoKey}, Start(key)
    PROVE  MemInv' /\ Simulates
<1>1. /\ tx.phase = "None" /\ log = {} /\ log' = {}
      /\ tx'.phase = "Open" /\ tx'.id = transaction_counter
      /\ tx'.snapshot_id = version_counter
      /\ UNCHANGED <<range, version_counter, author>>
  BY DEF Start, MemInv, TxInv
<1>2. MemTypes /\ TxInv /\ RangeInv /\ Whole(View(version_counter))
  BY DEF MemInv
<1>3. /\ version_counter \in Nat /\ version_counter <= MaxVersion
      /\ transaction_counter \in TransactionBase..(TransactionBase + MaxTransactions)
      /\ transaction_counter \in Nat /\ version_counter <= transaction_counter
  BY <1>2, MemoryAssumption DEF MemTypes
<1>4. \A i \in Items : Settled(range[i], version_counter)
  BY <1>1, <1>2 DEF RangeInv, NextVersion
<1>5. MemTypes'
  <2>1. tx' \in [phase : Phases, id : Nat, snapshot_id : Nat, key : Keys \cup {NoKey}]
    BY <1>3 DEF Start, Phases
  <2>2. transaction_outcomes' \in [Keys -> OutcomeStates]
    BY <1>2 DEF Start, MemTypes, OutcomeStates
  <2>3. transaction_counter' \in TransactionBase..(TransactionBase + MaxTransactions)
    BY <1>3, MemoryAssumption DEF Start
  <2> QED BY <1>1, <1>2, <2>1, <2>2, <2>3 DEF MemTypes
<1>6. TxInv'
  BY <1>1, <1>3 DEF TxInv
<1>7. RangeInv'
  BY <1>1, <1>4 DEF RangeInv, NextVersion
<1>8. View(tx.id)' = View(version_counter)
  <2>1. \A i \in Items :
          contains(range[i], transaction_counter) <=> contains(range[i], version_counter)
    BY <1>3, <1>4, SettledIsStable
  <2>2. {i \in Items : contains(range[i], transaction_counter)}
          = {i \in Items : contains(range[i], version_counter)}
    BY <2>1, Zenon
  <2> QED BY <1>1, <2>2 DEF View
<1>9. View(version_counter)' = View(version_counter) /\ Versions' = Versions
  BY <1>1 DEF View, Versions
<1>10. Whole(View(tx.id))' /\ Whole(View(version_counter))'
  BY <1>2, <1>8, <1>9 DEF Whole
<1>11. MemInv'
  BY <1>5, <1>6, <1>7, <1>10 DEF MemInv
<1>12. Seen' = Versions[Len(Versions)]
  <2>1. Seen' = View(tx.id)'
    BY <1>1 DEF Seen, Active
  <2> QED BY <1>2, <1>8, <2>1, VersionsAreASequence
<1>13. Snapshots!Begin
  BY <1>1, <1>9, <1>12, Zenon DEF Snapshots!Begin, Versions, Seen, Active
<1> QED BY <1>11, <1>13 DEF Simulates, Snapshots!Next

(* An operation is a write of the abstract store, or changes no view.      *)
LEMMA OperationSimulates ==
    ASSUME MemInv, Operation
    PROVE  MemInv' /\ Simulates
<1>1. MemInv' /\ Wrote
  BY OperationWrites
<1>2. tx.phase = "Open" /\ UNCHANGED <<version_counter, tx>> /\ SameVersions
  BY <1>1 DEF Wrote
<1>3. CASE View(tx.id)' = View(tx.id)
  BY <1>1, <1>2, <1>3, QuietStep DEF MemInv, Active
<1>4. CASE View(tx.id)' \in Snapshots!Written(View(tx.id))
  <2>1. version_counter \in Nat
    BY MemoryAssumption DEF MemInv, MemTypes
  <2>2. \A n \in 1..(version_counter + 1) : View(n - 1)' = View(n - 1)
    <3> SUFFICES ASSUME NEW n \in 1..(version_counter + 1)
                 PROVE  View(n - 1)' = View(n - 1)
      OBVIOUS
    <3>1. n - 1 \in 0..version_counter
      BY <2>1
    <3> QED BY <1>2, <3>1 DEF SameVersions, View
  <2>3. Versions' = Versions
    BY <1>2, <2>2 DEF Versions
  <2>4. Seen = View(tx.id) /\ Seen' = View(tx.id)'
    BY <1>2 DEF Seen, Active
  <2>5. Snapshots!Write
    BY <1>2, <1>4, <2>3, <2>4 DEF Snapshots!Write, Versions, Seen, Active
  <2> QED BY <1>1, <2>5, Zenon DEF Simulates, Snapshots!Next
<1> QED BY <1>1, <1>3, <1>4 DEF Wrote

(* Nobody sees a commit begin, an outcome recorded or a rollback end.      *)
LEMMA InvisibleSteps ==
    ASSUME MemInv, CommitAttempt \/ CommitDone \/ RollbackDone
    PROVE  MemInv' /\ Simulates
<1>1. MemTypes /\ TxInv /\ RangeInv /\ Whole(View(version_counter))
  BY DEF MemInv
<1>2. /\ UNCHANGED <<range, version_counter, transaction_counter, log, author>>
      /\ transaction_outcomes' \in [Keys -> OutcomeStates]
  BY <1>1 DEF CommitAttempt, CommitDone, RollbackDone, Transition, MemTypes, OutcomeStates
<1>3. SameVersions
  BY <1>2 DEF SameVersions, View
<1>4. View(version_counter)' = View(version_counter)
  BY <1>2 DEF View
<1>5. CASE CommitAttempt
  <2>1. /\ tx.phase = "Open" /\ version_counter < MaxVersion
        /\ tx' = [tx EXCEPT !.phase = "Publishing"]
    BY <1>5 DEF CommitAttempt
  <2>2. tx \in [phase : Phases, id : Nat, snapshot_id : Nat, key : Keys \cup {NoKey}]
    BY <1>1 DEF MemTypes
  <2>3. /\ tx' \in [phase : Phases, id : Nat, snapshot_id : Nat, key : Keys \cup {NoKey}]
        /\ tx'.phase = "Publishing" /\ tx'.id = tx.id /\ tx'.snapshot_id = tx.snapshot_id
    BY <2>1, <2>2 DEF Phases
  <2>4. View(tx.id)' = View(tx.id)
    BY <1>2, <2>3 DEF View
  <2>5. MemTypes'
    BY <1>1, <1>2, <2>3 DEF MemTypes
  <2>6. TxInv'
    BY <1>1, <1>2, <2>1, <2>3 DEF TxInv
  <2>7. RangeInv'
    <3>1. version_counter \in Nat
      BY <1>1, MemoryAssumption DEF MemTypes
    <3>2. \A r : Settled(r, version_counter) => Settled(r, version_counter + 1)
      BY <3>1 DEF Settled
    <3> QED BY <1>1, <1>2, <2>1, <2>3, <3>2, SMTT(30) DEF RangeInv, NextVersion
  <2>8. Whole(View(tx.id))' /\ Whole(View(version_counter))'
    BY <1>1, <1>4, <2>1, <2>4 DEF MemInv, Active, Whole
  <2>9. MemInv'
    BY <2>5, <2>6, <2>7, <2>8 DEF MemInv
  <2> QED BY <1>1, <1>2, <1>3, <2>1, <2>3, <2>4, <2>9, QuietStep DEF Active
<1>6. CASE CommitDone \/ RollbackDone
  <2>1. /\ tx' = NoTransaction /\ tx.phase \in {"Published", "RollingBack"} /\ log = {}
    BY <1>1, <1>6 DEF CommitDone, RollbackDone, TxInv
  <2>2. /\ tx' \in [phase : Phases, id : Nat, snapshot_id : Nat, key : Keys \cup {NoKey}]
        /\ tx'.phase = "None"
    BY <2>1 DEF Phases, NoTransaction
  <2>3. MemTypes' /\ TxInv'
    BY <1>1, <1>2, <2>1, <2>2 DEF MemTypes, TxInv
  <2>4. RangeInv'
    BY <1>1, <1>2, <2>1, <2>2 DEF RangeInv, NextVersion
  <2>5. Whole(View(version_counter))'
    BY <1>1, <1>4 DEF Whole
  <2>6. MemInv'
    BY <2>2, <2>3, <2>4, <2>5 DEF MemInv, Active
  <2> QED BY <1>1, <1>2, <1>3, <2>1, <2>2, <2>6, QuietStep DEF Active
<1> QED BY <1>5, <1>6

(* From the start of a rollback the writer's view is gone.                 *)
LEMMA RollbackSimulates ==
    ASSUME MemInv, RollbackStart
    PROVE  MemInv' /\ Simulates
<1>1. MemTypes /\ TxInv /\ RangeInv /\ Whole(View(version_counter))
  BY DEF MemInv
<1>2. /\ tx.phase = "Open" /\ tx' = [tx EXCEPT !.phase = "RollingBack"]
      /\ UNCHANGED <<range, version_counter, transaction_counter,
                     transaction_outcomes, log, author>>
  BY DEF RollbackStart
<1>3. tx \in [phase : Phases, id : Nat, snapshot_id : Nat, key : Keys \cup {NoKey}]
  BY <1>1 DEF MemTypes
<1>4. /\ tx' \in [phase : Phases, id : Nat, snapshot_id : Nat, key : Keys \cup {NoKey}]
      /\ tx'.phase = "RollingBack" /\ tx'.id = tx.id /\ tx'.snapshot_id = tx.snapshot_id
  BY <1>2, <1>3 DEF Phases
<1>5. MemTypes' /\ TxInv'
  BY <1>1, <1>2, <1>4 DEF MemTypes, TxInv
<1>6. RangeInv'
  BY <1>1, <1>2, <1>4 DEF RangeInv, NextVersion
<1>7. Whole(View(version_counter))' /\ Versions' = Versions
  BY <1>1, <1>2 DEF Whole, View, Versions
<1>8. MemInv'
  BY <1>4, <1>5, <1>6, <1>7 DEF MemInv, Active
<1>9. Seen' = {}
  BY <1>4 DEF Seen, Active
<1>10. Snapshots!Rollback
  BY <1>2, <1>4, <1>7, <1>9 DEF Snapshots!Rollback, Versions, Seen, Active
<1> QED BY <1>8, <1>10 DEF Simulates, Snapshots!Next

(* One entry of a commit or of a rollback after the other: no reader, and  *)
(* not the writer that publishes, sees a difference.                       *)
LEMMA EntrySteps ==
    ASSUME MemInv, NEW i \in log, PublishEntry(i) \/ RollbackEntry(i)
    PROVE  MemInv' /\ Simulates
<1> DEFINE v == version_counter
           id == tx.id
           old == range[i]
<1>1. MemTypes /\ TxInv /\ RangeInv /\ Whole(View(version_counter)) /\ i \in Items
  BY DEF MemInv, MemTypes
<1>2. /\ log' = log \ {i}
      /\ UNCHANGED <<version_counter, transaction_counter, transaction_outcomes, tx, author>>
      /\ tx.phase \in {"Publishing", "RollingBack"}
  BY DEF PublishEntry, RollbackEntry
<1>3. /\ v \in Nat /\ id \in Nat /\ v < id /\ v + 1 <= id
      /\ tx.snapshot_id = v
      /\ range \in [Items -> Seq(Nat)]
  BY <1>1, <1>2, IdsArePastVersions DEF TxInv, MemTypes
<1>4. Staged(old, v, id)
  BY <1>1 DEF RangeInv
<1>5. PICK new : /\ range' = [range EXCEPT ![i] = new]
                 /\ Settled(new, NextVersion)
                 /\ \A n \in 0..v : contains(new, n) <=> contains(old, n)
                 /\ tx.phase = "Publishing" => Len(new) = Len(old)
  <2>1. /\ Settled(upgrade_transaction(old, id, v + 1), v + 1)
        /\ Len(upgrade_transaction(old, id, v + 1)) = Len(old)
        /\ Settled(rollback_transaction(old, id), v)
        /\ \A n \in 0..v :
             /\ contains(upgrade_transaction(old, id, v + 1), n) <=> contains(old, n)
             /\ contains(rollback_transaction(old, id), n) <=> contains(old, n)
    BY <1>3, <1>4, SettledRange
  <2>2. CASE PublishEntry(i)
    <3>1. /\ range' = [range EXCEPT ![i] = upgrade_transaction(old, id, v + 1)]
          /\ NextVersion = v + 1
      BY <1>1, <1>3, <2>2 DEF PublishEntry, NextVersion
    <3> QED BY <2>1, <3>1, Zenon
  <2>3. CASE RollbackEntry(i)
    <3>1. /\ range' = [range EXCEPT ![i] = rollback_transaction(old, id)]
          /\ NextVersion = v /\ tx.phase # "Publishing"
      BY <1>1, <2>3 DEF RollbackEntry, NextVersion
    <3> QED BY <2>1, <3>1, Zenon
  <2> QED BY <2>2, <2>3
<1>6. /\ range' \in [Items -> Seq(Nat)]
      /\ range'[i] = new /\ \A j \in Items \ {i} : range'[j] = range[j]
  BY <1>1, <1>3, <1>5 DEF Settled
<1>7. MemTypes' /\ TxInv'
  BY <1>1, <1>2, <1>6 DEF MemTypes, TxInv
<1>8. RangeInv'
  <2> SUFFICES ASSUME NEW j \in Items
               PROVE  /\ j \in log' => Staged(range'[j], v, id)
                      /\ j \notin log' => Settled(range'[j], NextVersion)
    BY <1>2 DEF RangeInv, NextVersion
  <2>1. CASE j = i
    BY <1>2, <1>5, <1>6, <2>1
  <2>2. CASE j # i
    BY <1>1, <1>2, <1>6, <2>2 DEF RangeInv
  <2> QED BY <2>1, <2>2
<1>9. SameVersions
  <2> SUFFICES ASSUME NEW n \in 0..v
               PROVE  {j \in Items : contains(range'[j], n)} = {j \in Items : contains(range[j], n)}
    BY DEF SameVersions, View
  <2>1. \A j \in Items : contains(range'[j], n) <=> contains(range[j], n)
    BY <1>5, <1>6
  <2> QED BY <2>1, Zenon
<1>10. View(version_counter)' = View(version_counter)
  <2>1. v \in 0..v
    BY <1>3
  <2>2. \A n \in 0..v : {j \in Items : contains(range'[j], n)} = View(n)
    BY <1>9 DEF SameVersions, View
  <2> QED BY <1>2, <2>1, <2>2 DEF View
<1>11. ASSUME tx.phase = "Publishing" PROVE View(tx.id)' = View(tx.id)
  <2>1. old \in Seq(Nat) /\ \A n \in 1..Len(old) : old[n] <= id
    BY <1>3, <1>4, SMTT(30) DEF Staged
  <2>2. new \in Seq(Nat) /\ \A n \in 1..Len(new) : new[n] <= id
    BY <1>3, <1>5, <1>11 DEF Settled, NextVersion
  <2>3. contains(new, id) <=> contains(old, id)
    BY <1>3, <1>5, <1>11, <2>1, <2>2, ParityDecides, Zenon
  <2>4. \A j \in Items : contains(range'[j], id) <=> contains(range[j], id)
    BY <1>6, <2>3
  <2>5. {j \in Items : contains(range'[j], id)} = {j \in Items : contains(range[j], id)}
    BY <2>4, Zenon
  <2> QED BY <1>2, <2>5 DEF View
<1>12. Whole(View(version_counter))'
  BY <1>1, <1>10, Zenon DEF Whole
<1>13. Active => Whole(View(tx.id))'
  BY <1>2, <1>11 DEF Active, MemInv, Whole
<1>14. MemInv'
  BY <1>2, <1>7, <1>8, <1>12, <1>13 DEF MemInv, Active
<1> QED BY <1>1, <1>2, <1>9, <1>11, <1>14, QuietStep DEF Active

(* With every entry settled the version that is announced is the view the  *)
(* writer had.                                                             *)
LEMMA PublishSimulates ==
    ASSUME MemInv, PublishVersion
    PROVE  MemInv' /\ Simulates
<1> DEFINE v == version_counter
           id == tx.id
<1>1. MemTypes /\ TxInv /\ RangeInv /\ Whole(View(id))
  BY DEF MemInv, PublishVersion, Active
<1>2. /\ tx.phase = "Publishing" /\ log = {}
      /\ version_counter' = tx.snapshot_id + 1
      /\ author' = Append(author, tx.key)
      /\ tx' = [tx EXCEPT !.phase = "Published"]
      /\ UNCHANGED <<range, transaction_counter, transaction_outcomes, log>>
  BY DEF PublishVersion
<1>3. /\ v \in Nat /\ id \in Nat /\ v + 1 <= id /\ v < MaxVersion
      /\ version_counter' = v + 1
  BY <1>1, <1>2, IdsArePastVersions DEF TxInv
<1>4. tx \in [phase : Phases, id : Nat, snapshot_id : Nat, key : Keys \cup {NoKey}]
  BY <1>1 DEF MemTypes
<1>5. /\ tx' \in [phase : Phases, id : Nat, snapshot_id : Nat, key : Keys \cup {NoKey}]
      /\ tx'.phase = "Published" /\ tx'.id = tx.id
  BY <1>2, <1>4 DEF Phases
<1>6. MemTypes'
  <2>1. author' \in Seq(Keys \cup {NoKey}) /\ Len(author') = v + 1
    <3>1. author \in Seq(Keys \cup {NoKey}) /\ Len(author) = v
      BY <1>1 DEF MemTypes
    <3>2. tx.key \in Keys \cup {NoKey}
      BY <1>4
    <3> QED BY <1>2, <3>1, <3>2
  <2>2. version_counter' \in 0..MaxVersion
    BY <1>3, MemoryAssumption
  <2> QED BY <1>1, <1>2, <1>3, <1>5, <2>1, <2>2 DEF MemTypes
<1>7. TxInv'
  BY <1>1, <1>2, <1>5 DEF TxInv
<1>8. \A i \in Items : Settled(range[i], v + 1)
  BY <1>1, <1>2 DEF RangeInv, NextVersion
<1>9. RangeInv'
  BY <1>2, <1>3, <1>5, <1>8 DEF RangeInv, NextVersion
<1>10. View(version_counter)' = View(id) /\ View(v + 1) = View(id)
  <2>1. \A i \in Items : contains(range[i], id) <=> contains(range[i], v + 1)
    BY <1>3, <1>8, SettledIsStable
  <2>2. {i \in Items : contains(range[i], id)} = {i \in Items : contains(range[i], v + 1)}
    BY <2>1, Zenon
  <2> QED BY <1>2, <1>3, <2>2 DEF View
<1>11. MemInv'
  <2>1. Whole(View(version_counter))'
    BY <1>1, <1>10 DEF Whole
  <2> QED BY <1>5, <1>6, <1>7, <1>9, <2>1 DEF MemInv, Active
<1>12. Versions' = Append(Versions, Seen)
  <2>1. /\ Versions \in Seq(SUBSET Items) /\ Len(Versions) = v + 1
        /\ Seen = View(id) /\ Seen \in SUBSET Items
    BY <1>1, <1>2, VersionsAreASequence DEF Seen, Active, View
  <2>2. Versions' = [n \in 1..((v + 1) + 1) |-> View(n - 1)]
    BY <1>2, <1>3 DEF Versions, View
  <2>3. \A n \in 1..(v + 1) : Versions[n] = View(n - 1)
    BY DEF Versions
  <2>4. View(((v + 1) + 1) - 1) = View(id)
    <3>1. ((v + 1) + 1) - 1 = v + 1
      BY <1>3
    <3> QED BY <1>10, <3>1
  <2> DEFINE s == Append(Versions, Seen)
             t == [n \in 1..((v + 1) + 1) |-> View(n - 1)]
  <2>5. /\ s \in Seq(SUBSET Items) /\ Len(s) = (v + 1) + 1
        /\ \A n \in 1..(v + 1) : s[n] = View(n - 1)
        /\ s[(v + 1) + 1] = View(id)
    BY <1>3, <2>1, <2>3
  <2>6. \A n \in 1..((v + 1) + 1) : s[n] = t[n]
    <3> SUFFICES ASSUME NEW n \in 1..((v + 1) + 1) PROVE s[n] = t[n]
      BY Zenon
    <3>1. n \in 1..(v + 1) \/ n = (v + 1) + 1
      BY <1>3
    <3>2. t[n] = View(n - 1)
      OBVIOUS
    <3> HIDE DEF s, t
    <3> QED BY <2>4, <2>5, <3>1, <3>2
  <2>7. s = [n \in 1..((v + 1) + 1) |-> s[n]]
    <3> HIDE DEF s
    <3> QED BY <2>5
  <2>8. t = [n \in 1..((v + 1) + 1) |-> t[n]]
    OBVIOUS
  <2>9. s = t
    <3> HIDE DEF s, t
    <3> QED BY <2>6, <2>7, <2>8
  <2> QED BY <2>2, <2>9
<1>13. Seen' = {}
  BY <1>5 DEF Seen, Active
<1>14. Snapshots!Commit
  <2>1. Active /\ ~Active'
    BY <1>2, <1>5 DEF Active
  <2>2. /\ Active /\ Versions' = Append(Versions, Seen)
        /\ Active' = FALSE /\ Seen' = {}
    BY <1>12, <1>13, <2>1
  <2> QED BY <2>2, Zenon DEF Snapshots!Commit, Versions, Seen, Active
<1> QED BY <1>11, <1>14 DEF Simulates, Snapshots!Next

(* The invariant holds of an empty storage, which is an empty store.       *)
LEMMA MemInit == Init => MemInv /\ Snapshots!Init
<1> SUFFICES ASSUME Init PROVE MemInv /\ Snapshots!Init
  OBVIOUS
<1>1. /\ range = [i \in Items |-> <<>>] /\ version_counter = 0
      /\ tx = NoTransaction /\ log = {} /\ author = <<>>
      /\ tx.phase = "None"
  BY DEF Init, NoTransaction
<1>2. MemTypes
  <2>1. range \in [Items -> Seq(Nat)]
    BY <1>1
  <2>2. tx \in [phase : Phases, id : Nat, snapshot_id : Nat, key : Keys \cup {NoKey}]
    BY <1>1 DEF NoTransaction, Phases
  <2>3. transaction_outcomes \in [Keys -> OutcomeStates]
    BY DEF Init, OutcomeStates
  <2>4. /\ version_counter \in 0..MaxVersion
        /\ transaction_counter \in TransactionBase..(TransactionBase + MaxTransactions)
    BY <1>1, MemoryAssumption DEF Init
  <2>5. author \in Seq(Keys \cup {NoKey}) /\ Len(author) = version_counter
    BY <1>1
  <2> QED BY <1>1, <2>1, <2>2, <2>3, <2>4, <2>5 DEF MemTypes
<1>3. TxInv
  BY <1>1 DEF TxInv
<1>4. \A i \in Items : range[i] = <<>>
  BY <1>1
<1>5. RangeInv
  BY <1>1, <1>4 DEF RangeInv, Settled, Ascending
<1>6. View(0) = {}
  <2>1. \A i \in Items : ~contains(range[i], 0)
    BY <1>4 DEF contains
  <2> QED BY <2>1 DEF View
<1>7. Whole(View(version_counter)) /\ ~Active
  BY <1>1, <1>6 DEF Whole, Active
<1>8. Versions = <<{}>> /\ Seen = {}
  <2>1. Versions = [n \in 1..1 |-> {}]
    <3>1. Versions = [n \in 1..1 |-> View(n - 1)]
      BY <1>1 DEF Versions
    <3>2. \A n \in 1..1 : View(n - 1) = {}
      BY <1>6
    <3> QED BY <3>1, <3>2
  <2>2. <<{}>> = [n \in 1..1 |-> {}]
    OBVIOUS
  <2> QED BY <1>7, <2>1, <2>2 DEF Seen
<1>9. Snapshots!Init
  BY <1>1, <1>8 DEF Snapshots!Init, Versions, Seen, Active
<1> QED BY <1>2, <1>3, <1>5, <1>7, <1>9 DEF MemInv

(* Every step keeps the invariant and is a step of the abstract store, or  *)
(* one that nobody sees.                                                   *)
LEMMA MemNext == MemInv /\ [Next]_vars => MemInv' /\ Simulates
<1> SUFFICES ASSUME MemInv, [Next]_vars PROVE MemInv' /\ Simulates
  BY SMTT(30)
<1>1. CASE UNCHANGED vars
  <2>1. MemInv'
    BY <1>1 DEF vars, MemInv, MemTypes, TxInv, RangeInv, NextVersion, Active, View, Whole
  <2>2. SameVersions /\ View(tx.id)' = View(tx.id) /\ UNCHANGED version_counter
        /\ (Active' <=> Active)
    BY <1>1 DEF vars, SameVersions, View, Active
  <2> QED BY <2>1, <2>2, QuietStep, ZenonT(30) DEF MemInv
<1> QED
  BY <1>1, StartBegins, OperationSimulates, InvisibleSteps, RollbackSimulates,
     EntrySteps, PublishSimulates
  DEF Next

(* In every reachable state the invariant holds.                           *)
LEMMA MemInvariance == Spec => []MemInv
<1>1. Init => MemInv
  BY MemInit
<1>2. MemInv /\ [Next]_vars => MemInv'
  BY MemNext
<1> QED BY <1>1, <1>2, PTL DEF Spec

(* After a commit, a rollback or a drop nothing of a transaction is left   *)
(* in any version range, for any dataset and any number of transactions.   *)
THEOREM NothingLeftBehind == Spec => []NoTransactionLeftBehind
<1>1. MemInv => NoTransactionLeftBehind
  <2> SUFFICES ASSUME MemInv PROVE NoTransactionLeftBehind
    OBVIOUS
  <2>1. MemTypes /\ TxInv /\ RangeInv
    BY DEF MemInv
  <2>2. version_counter \in Nat /\ version_counter <= MaxVersion
    BY <2>1, MemoryAssumption DEF MemTypes
  <2>3. NextVersion \in Nat /\ version_counter <= NextVersion /\ NextVersion <= MaxVersion
    BY <2>1, <2>2, MemoryAssumption, SMTT(30) DEF TxInv, NextVersion
  <2>4. ASSUME NEW i \in Items
        PROVE  /\ range[i] \in Seq(Nat) /\ Ascending(range[i])
               /\ \A n \in 1..Len(range[i]) :
                    \/ range[i][n] \in 1..NextVersion
                    \/ n = Len(range[i]) /\ i \in log /\ range[i][n] = tx.id
    <3>1. CASE i \in log
      <4>1. Staged(range[i], version_counter, tx.id)
        BY <2>1, <3>1 DEF RangeInv
      <4>2. \A x \in 1..version_counter : x \in 1..NextVersion
        BY <2>2, <2>3, SMTT(30)
      <4> QED BY <3>1, <4>1, <4>2 DEF Staged
    <3>2. CASE i \notin log
      BY <2>1, <3>2 DEF RangeInv, Settled
    <3> QED BY <3>1, <3>2
  <2>5. TypeOK
    <3>1. ASSUME NEW i \in Items PROVE range[i] \in Seq(Bounds)
      <4>1. log # {} => tx.id \in TransactionBase..(TransactionBase + MaxTransactions)
        BY <2>1, Zenon DEF TxInv
      <4>2. \A x \in 1..NextVersion : x \in Bounds
        BY <2>3, MemoryAssumption DEF Bounds
      <4>3. i \in log => tx.id \in Bounds
        BY <4>1 DEF Bounds
      <4>4. \A n \in 1..Len(range[i]) : range[i][n] \in Bounds
        BY <2>4, <4>2, <4>3
      <4>5. range[i] \in Seq(Nat)
        BY <2>4
      <4> QED BY <4>4, <4>5, SMTT(30)
    <3>2. range \in [Items -> Seq(Bounds)]
      <4>1. range \in [Items -> Seq(Nat)]
        BY <2>1 DEF MemTypes
      <4> QED BY <3>1, <4>1
    <3> QED BY <2>1, <3>2, Zenon DEF TypeOK, MemTypes
  <2> QED BY <2>4, <2>5 DEF NoTransactionLeftBehind, Ascending, NextVersion
<1> QED BY <1>1, MemInvariance, PTL

(* The version ranges implement whole snapshots: what a reader sees of a   *)
(* published version never changes, the writer reads its own writes, and a *)
(* commit publishes the view it had as a whole.                            *)
THEOREM ImplementsSnapshots == Spec => SnapshotsHold
<1>1. Init => Snapshots!Init
  BY MemInit
<1>2. MemInv /\ [Next]_vars => [Snapshots!Next]_Snapshots!vars
  BY MemNext DEF Simulates
<1> QED BY <1>1, <1>2, MemInvariance, PTL DEF Spec, SnapshotsHold, Snapshots!Spec

-----------------------------------------------------------------------------
(* What the outcome of a key says of the transaction at work and of the    *)
(* versions it published.                                                  *)
OutcomeOf(k) ==
    /\ transaction_outcomes[k] = "Staging" <=>
         tx.key = k /\ tx.phase \in {"Open", "RollingBack"}
    /\ transaction_outcomes[k] = "CommitAttempted" <=>
         tx.key = k /\ tx.phase \in {"Publishing", "Published"}
    /\ transaction_outcomes[k] = "Committed" => Published(k) # {}
    /\ transaction_outcomes[k] \in {"Absent", "Staging", "RolledBack"} => Published(k) = {}
    /\ tx.key = k /\ tx.phase = "Published" => Published(k) # {}

OutcomeInv == \A k \in Keys : OutcomeOf(k)

(* Every step keeps the outcomes in agreement with what is published.      *)
LEMMA OutcomeNext == MemTypes /\ TxInv /\ OutcomeInv /\ [Next]_vars => OutcomeInv'
<1> SUFFICES ASSUME MemTypes, TxInv, OutcomeInv, [Next]_vars, NEW k \in Keys
             PROVE  OutcomeOf(k)'
  BY DEF OutcomeInv
<1>1. /\ OutcomeOf(k) /\ k # NoKey
      /\ transaction_outcomes \in [Keys -> OutcomeStates]
      /\ tx \in [phase : Phases, id : Nat, snapshot_id : Nat, key : Keys \cup {NoKey}]
  BY MemoryAssumption DEF OutcomeInv, MemTypes
<1>2. ASSUME UNCHANGED <<version_counter, author>> PROVE Published(k)' = Published(k)
  BY <1>2 DEF Published
<1>3. ASSUME UNCHANGED <<version_counter, author, transaction_outcomes, tx>>
      PROVE  OutcomeOf(k)'
  BY <1>1, <1>2, <1>3 DEF OutcomeOf
<1>4. CASE UNCHANGED vars
  BY <1>3, <1>4 DEF vars
<1>5. CASE Operation
  <2>1. UNCHANGED <<version_counter, author, transaction_outcomes, tx>>
    BY <1>5, Zenon
    DEF Operation, Stage, Insert, Remove, InsertNamedGraph, RemoveNamedGraph,
        ClearGraph, ClearAllNamedGraphs, ClearAllGraphs, RemoveAllNamedGraphs,
        Clear, SetNamespace, RemoveNamespace, ClearNamespaces
  <2> QED BY <1>3, <2>1, SMTT(30)
<1>6. ASSUME NEW i \in log, PublishEntry(i) \/ RollbackEntry(i) PROVE OutcomeOf(k)'
  BY <1>3, <1>6, ZenonT(30) DEF PublishEntry, RollbackEntry
<1>7. ASSUME NEW key \in Keys \cup {NoKey}, Start(key) PROVE OutcomeOf(k)'
  <2>1. /\ tx.phase = "None" /\ tx'.phase = "Open" /\ tx'.key = key
        /\ transaction_outcomes'[k] = IF k = key THEN "Staging" ELSE transaction_outcomes[k]
        /\ k = key => transaction_outcomes[k] = "Absent"
        /\ UNCHANGED <<version_counter, author>>
    BY <1>7 DEF Start
  <2> QED BY <1>1, <1>2, <2>1 DEF OutcomeOf
<1>8. ASSUME NEW from, NEW to, Transition(from, to)
      PROVE  /\ k # tx.key => transaction_outcomes'[k] = transaction_outcomes[k]
             /\ k = tx.key => transaction_outcomes[k] = from /\ transaction_outcomes'[k] = to
  <2>1. CASE tx.key = NoKey
    BY <1>1, <1>8, <2>1 DEF Transition
  <2>2. CASE tx.key # NoKey
    BY <1>1, <1>8, <2>2, ZenonT(30) DEF Transition
  <2> QED BY <2>1, <2>2
<1>9. CASE CommitAttempt
  <2>1. /\ tx.phase = "Open" /\ tx'.phase = "Publishing" /\ tx'.key = tx.key
        /\ UNCHANGED <<version_counter, author>>
    BY <1>1, <1>9 DEF CommitAttempt
  <2>2. /\ k # tx.key => transaction_outcomes'[k] = transaction_outcomes[k]
        /\ k = tx.key => transaction_outcomes'[k] = "CommitAttempted"
    BY <1>8, <1>9 DEF CommitAttempt
  <2> QED BY <1>1, <1>2, <2>1, <2>2 DEF OutcomeOf
<1>10. CASE PublishVersion
  <2>1. /\ tx.phase = "Publishing" /\ tx'.phase = "Published" /\ tx'.key = tx.key
        /\ version_counter' = version_counter + 1 /\ author' = Append(author, tx.key)
        /\ UNCHANGED transaction_outcomes
    BY <1>1, <1>10, ZenonT(30) DEF PublishVersion, TxInv
  <2>2. /\ version_counter \in Nat
        /\ author \in Seq(Keys \cup {NoKey}) /\ Len(author) = version_counter
        /\ tx.key \in Keys \cup {NoKey}
    BY <1>1, MemoryAssumption DEF MemTypes
  <2>3. /\ \A n \in 1..version_counter : author'[n] = author[n]
        /\ author'[version_counter + 1] = tx.key
    BY <2>1, <2>2
  <2>4. Published(k)' = Published(k) \cup (IF k = tx.key THEN {version_counter + 1} ELSE {})
    <3>1. \A n : n \in 1..(version_counter + 1)
                   <=> n \in 1..version_counter \/ n = version_counter + 1
      BY <2>2
    <3> QED BY <2>1, <2>3, <3>1, Zenon DEF Published
  <2>5. k = tx.key => Published(k)' # {}
    BY <2>4
  <2>6. k # tx.key => Published(k)' = Published(k)
    BY <2>4, ZenonT(30)
  <2> QED BY <1>1, <2>1, <2>5, <2>6 DEF OutcomeOf
<1>11. CASE CommitDone
  <2>1. /\ tx.phase = "Published" /\ tx'.phase = "None" /\ tx'.key = NoKey
        /\ UNCHANGED <<version_counter, author>>
    BY <1>11 DEF CommitDone, NoTransaction
  <2>2. /\ k # tx.key => transaction_outcomes'[k] = transaction_outcomes[k]
        /\ k = tx.key => transaction_outcomes'[k] = "Committed"
    BY <1>8, <1>11 DEF CommitDone
  <2> QED BY <1>1, <1>2, <2>1, <2>2 DEF OutcomeOf
<1>12. CASE RollbackStart
  <2>1. /\ tx.phase = "Open" /\ tx'.phase = "RollingBack" /\ tx'.key = tx.key
        /\ UNCHANGED <<version_counter, author, transaction_outcomes>>
    BY <1>1, <1>12, ZenonT(30) DEF RollbackStart
  <2> QED BY <1>1, <1>2, <2>1 DEF OutcomeOf
<1>13. CASE RollbackDone
  <2>1. /\ tx.phase = "RollingBack" /\ tx'.phase = "None" /\ tx'.key = NoKey
        /\ UNCHANGED <<version_counter, author>>
    BY <1>13 DEF RollbackDone, NoTransaction
  <2>2. /\ k # tx.key => transaction_outcomes'[k] = transaction_outcomes[k]
        /\ k = tx.key => /\ transaction_outcomes[k] = "Staging"
                         /\ transaction_outcomes'[k] = "RolledBack"
    BY <1>8, <1>13 DEF RollbackDone
  <2> QED BY <1>1, <1>2, <2>1, <2>2 DEF OutcomeOf
<1> QED
  BY <1>4, <1>5, <1>6, <1>7, <1>9, <1>10, <1>11, <1>12, <1>13 DEF Next

(* A key that looks up as committed has published a version, one that is   *)
(* staging or rolled back has not, for any number of keys and of           *)
(* transactions.                                                           *)
THEOREM OutcomesAreVisible == Spec => []OutcomeMeansVisible
<1>1. Init => OutcomeInv
  <2> SUFFICES ASSUME Init, NEW k \in Keys PROVE OutcomeOf(k)
    BY DEF OutcomeInv
  <2>1. /\ transaction_outcomes[k] = "Absent" /\ tx.phase = "None" /\ version_counter = 0
    BY DEF Init, NoTransaction
  <2>2. Published(k) = {}
    BY <2>1 DEF Published
  <2> QED BY <2>1, <2>2 DEF OutcomeOf
<1>2. OutcomeInv /\ MemInv => OutcomeMeansVisible
  <2> SUFFICES ASSUME OutcomeInv, MemInv, NEW k \in Keys
               PROVE  CASE transaction_outcomes[k] = "Committed" -> Published(k) # {}
                        [] transaction_outcomes[k] = "CommitAttempted" -> tx.key = k
                        [] OTHER -> Published(k) = {}
    BY DEF OutcomeMeansVisible
  <2>1. transaction_outcomes[k] \in OutcomeStates
    BY DEF MemInv, MemTypes
  <2>2. OutcomeOf(k)
    BY DEF OutcomeInv
  <2> QED BY <2>1, <2>2 DEF OutcomeOf, OutcomeStates
<1>3. MemInv /\ OutcomeInv /\ [Next]_vars => OutcomeInv'
  BY OutcomeNext DEF MemInv
<1> QED BY <1>1, <1>2, <1>3, MemInvariance, PTL DEF Spec
=============================================================================
