-------------------------- MODULE KeyedStoreProofs --------------------------
(***************************************************************************)
(* Proofs about keyed transactions, for any number of keys, unkeyed        *)
(* commits, write errors and crashes.  A single fact carries them: what is *)
(* visible, and what a failed write may still make visible, differ by one  *)
(* legal move of one key, and a legal move never leaves a decision.        *)
(***************************************************************************)
EXTENDS KeyedStore, FiniteSetTheorems, TLAPS

(* A key is reserved, then decided; a decision stays.                      *)
Legal(s, t) ==
    \/ t = s
    \/ s = "Absent" /\ t = "Staging"
    \/ s = "Staging" /\ t \in {"Committed", "RolledBack"}

(* d differs from c by a legal move of at most one key.                    *)
Moves(c, d) ==
    \E k \in Keys :
        /\ \A j \in Keys \ {k} : d.outcome[j] = c.outcome[j]
        /\ Legal(Status(c, k), Status(d, k))

(* At most one namespace of every key has a record.                        *)
Single(c) ==
    \A k \in Keys, m \in Namespaces, n \in Namespaces :
        c.outcome[k][m] # "Absent" /\ c.outcome[k][n] # "Absent" => m = n

(* The records of the keyed transaction at work are those of its phase.    *)
OwnRecord(c) ==
    tx.phase \in {"Staging", "CommitAttempted", "Dropping"} =>
        /\ tx.key \in Keys
        /\ \A n \in Namespaces \ {tx.namespace} : c.outcome[tx.key][n] = "Absent"
        /\ tx.phase # "Dropping" => c.outcome[tx.key][tx.namespace] = tx.phase
        /\ tx.phase = "Dropping" =>
             c.outcome[tx.key][tx.namespace] \in {"Staging", "RolledBack"}

(* The contents of the store: typed, with the same records in everything   *)
(* that is not lost, and with one failed write that would be a legal move. *)
StoreInv ==
    /\ states \in Seq(Contents) /\ states # <<>>
    /\ limbo \subseteq Contents /\ IsFiniteSet(limbo) /\ Cardinality(limbo) <= 1
    /\ \A i \in 1..Len(states) : states[i].outcome = Visible.outcome
    /\ Single(Visible)
    /\ \A c \in limbo : Single(c) /\ Moves(Visible, c)

(* The inductive invariant.                                                *)
KeyedInv ==
    /\ StoreInv
    /\ tx \in [phase : Phases, key : Keys \cup {NoKey}, namespace : Namespaces]
    /\ told \in [Keys -> SUBSET {"Committed", "RolledBack"}]
    /\ \A k \in Keys : told[k] \subseteq {Answer(Visible, k)}
    /\ OwnRecord(Visible)

-----------------------------------------------------------------------------
(* A record written into well-typed contents changes that record alone.    *)
LEMMA WrittenRecord ==
    ASSUME NEW c \in Contents, NEW k \in Keys, NEW ns \in Namespaces, NEW v \in Values
    PROVE  /\ WithOutcome(c, k, ns, v) \in Contents
           /\ WithOutcome(c, k, ns, v).outcome[k][ns] = v
           /\ \A n \in Namespaces \ {ns} :
                WithOutcome(c, k, ns, v).outcome[k][n] = c.outcome[k][n]
           /\ \A j \in Keys \ {k} : WithOutcome(c, k, ns, v).outcome[j] = c.outcome[j]
           /\ WithOutcome(c, k, ns, v).data = c.data
           /\ WithOutcome(c, k, ns, v).sequence = c.sequence
<1> DEFINE row == [c.outcome[k] EXCEPT ![ns] = v]
           table == [c.outcome EXCEPT ![k] = row]
           new == [c EXCEPT !.outcome = table]
<1>1. /\ c.outcome \in [Keys -> [Namespaces -> Values]]
      /\ c.data \in [Keys \cup {NoKey} -> Nat] /\ c.sequence \in Nat
  BY DEF Contents
<1>2. row \in [Namespaces -> Values] /\ row[ns] = v
      /\ \A n \in Namespaces \ {ns} : row[n] = c.outcome[k][n]
  BY <1>1
<1>3. table \in [Keys -> [Namespaces -> Values]] /\ table[k] = row
      /\ \A j \in Keys \ {k} : table[j] = c.outcome[j]
  BY <1>1, <1>2
<1>4. new \in Contents /\ new.outcome = table /\ new.data = c.data
      /\ new.sequence = c.sequence
  BY <1>1, <1>3, Zenon DEF Contents
<1>5. WithOutcome(c, k, ns, v) = new
  BY DEF WithOutcome
<1> QED
  BY <1>2, <1>3, <1>4, <1>5

(* Answer and Status are read off the records of the key.                  *)
LEMMA AnswerAndStatus ==
    ASSUME NEW c, NEW k
    PROVE  /\ Answer(c, k) \in {"Committed", "RolledBack", "Indeterminate"}
           /\ Status(c, k) \in {"Absent", "Staging", "Committed", "RolledBack"}
           /\ \A a \in {"Committed", "RolledBack"} : Answer(c, k) = a <=> Status(c, k) = a
<1>1. Answer(c, k) \in {"Committed", "RolledBack", "Indeterminate"}
  BY DEF Answer
<1>2. Recorded(c, k) = {} => Answer(c, k) = "Indeterminate"
  BY DEF Recorded, Answer
<1> QED
  BY <1>1, <1>2 DEF Status

(* Equal records give equal answers.                                       *)
LEMMA SameRecords ==
    ASSUME NEW c, NEW d, NEW k, c.outcome[k] = d.outcome[k]
    PROVE  Answer(c, k) = Answer(d, k) /\ Status(c, k) = Status(d, k)
<1>1. Answer(c, k) = Answer(d, k) /\ Recorded(c, k) = Recorded(d, k)
  BY DEF Answer, Recorded
<1> QED
  BY <1>1 DEF Status

(* Status of a key with records in one namespace only.                     *)
LEMMA StatusOfRecord ==
    ASSUME NEW c, NEW k, NEW ns \in Namespaces, c.outcome[k][ns] \in Values,
           \A n \in Namespaces \ {ns} : c.outcome[k][n] = "Absent"
    PROVE  Status(c, k) = IF c.outcome[k][ns] = "CommitAttempted" THEN "Staging"
                          ELSE c.outcome[k][ns]
<1>1. Recorded(c, k) = IF c.outcome[k][ns] = "Absent" THEN {} ELSE {ns}
  BY DEF Recorded
<1>2. Answer(c, k) = IF c.outcome[k][ns] \in {"Committed", "RolledBack"}
                     THEN c.outcome[k][ns] ELSE "Indeterminate"
  BY DEF Answer, Values
<1> QED
  BY <1>1, <1>2 DEF Status, Values

(* A definite answer survives a legal move.                                *)
LEMMA DecisionStays ==
    ASSUME NEW c, NEW d, Moves(c, d), NEW k \in Keys,
           Answer(c, k) # "Indeterminate"
    PROVE  Answer(d, k) = Answer(c, k)
<1>1. PICK m \in Keys : /\ \A j \in Keys \ {m} : d.outcome[j] = c.outcome[j]
                        /\ Legal(Status(c, m), Status(d, m))
  BY DEF Moves
<1>2. CASE k # m
  BY <1>1, <1>2, SameRecords
<1>3. CASE k = m
  BY <1>1, <1>3, AnswerAndStatus DEF Legal
<1> QED
  BY <1>2, <1>3

(* No move at all is a legal one.                                          *)
LEMMA StayingIsLegal ==
    ASSUME NEW c, NEW d, d.outcome = c.outcome, NEW k \in Keys
    PROVE  Moves(c, d)
BY SameRecords DEF Moves, Legal

(* Writing the one record of a key is a legal move, if it is one of its    *)
(* value, and keeps the key in one namespace.                              *)
LEMMA LegalWrite ==
    ASSUME NEW c \in Contents, Single(c), NEW k \in Keys, NEW ns \in Namespaces,
           NEW v \in Values, NEW d,
           \A n \in Namespaces \ {ns} : c.outcome[k][n] = "Absent",
           d.outcome = WithOutcome(c, k, ns, v).outcome,
           \/ c.outcome[k][ns] = "Absent" /\ v = "Staging"
           \/ c.outcome[k][ns] = "Staging" /\ v \in {"CommitAttempted", "RolledBack"}
           \/ c.outcome[k][ns] = "CommitAttempted" /\ v = "Committed"
           \/ c.outcome[k][ns] = "RolledBack" /\ v = "RolledBack"
    PROVE  Moves(c, d) /\ Single(d)
<1>1. /\ d.outcome[k][ns] = v
      /\ \A n \in Namespaces \ {ns} : d.outcome[k][n] = "Absent"
      /\ \A j \in Keys \ {k} : d.outcome[j] = c.outcome[j]
  BY WrittenRecord
<1>2. c.outcome[k][ns] \in Values
  BY DEF Contents
<1>3. /\ Status(c, k) = IF c.outcome[k][ns] = "CommitAttempted" THEN "Staging"
                        ELSE c.outcome[k][ns]
      /\ Status(d, k) = IF v = "CommitAttempted" THEN "Staging" ELSE v
  BY <1>1, <1>2, StatusOfRecord
<1>4. Legal(Status(c, k), Status(d, k))
  BY <1>3 DEF Legal
<1>5. Moves(c, d)
  BY <1>1, <1>4 DEF Moves
<1>6. Single(d)
  BY <1>1 DEF Single
<1> QED
  BY <1>5, <1>6

-----------------------------------------------------------------------------
(* What callers see stays or makes a legal move.                           *)
Evolves == Visible'.outcome = Visible.outcome \/ Moves(Visible, Visible')

(* There is a visible content.                                             *)
LEMMA VisibleIsTyped ==
    ASSUME StoreInv
    PROVE  Len(states) \in Nat \ {0} /\ Visible \in Contents
BY DEF StoreInv, Visible

(* One content that is not lost and none in limbo.                         *)
LEMMA SettledStore ==
    ASSUME NEW c \in Contents, Single(c), states' = <<c>>, limbo' = {}
    PROVE  StoreInv' /\ Visible' = c
<1>1. states' \in Seq(Contents) /\ states' # <<>> /\ Len(states') = 1 /\ states'[1] = c
  OBVIOUS
<1>2. Visible' = c
  BY <1>1 DEF Visible
<1>3. IsFiniteSet(limbo') /\ Cardinality(limbo') <= 1
  BY FS_EmptySet
<1> QED
  BY <1>1, <1>2, <1>3 DEF StoreInv

(* A synchronised write of a legal move, whatever becomes of it.           *)
LEMMA SyncWrite ==
    ASSUME StoreInv, NEW new \in Contents, Single(new), Moves(Visible, new),
           NEW result \in Results, WriteSync(new, result)
    PROVE  /\ StoreInv' /\ Evolves
           /\ result = "Ok" => Visible' = new
           /\ Visible' \in {Visible, new}
<1>1. CASE result \in {"Ok", "Applied"}
  <2>1. limbo' = {} /\ states' = <<new>>
    BY <1>1 DEF WriteSync
  <2> QED
    BY <2>1, SettledStore DEF Evolves
<1>2. CASE result = "NoEffect"
  <2>1. limbo' = limbo /\ states' = states
    BY <1>2 DEF WriteSync
  <2>2. Visible' = Visible
    BY <2>1 DEF Visible
  <2>3. StoreInv'
    BY <2>1, <2>2 DEF StoreInv
  <2> QED
    BY <1>2, <2>2, <2>3 DEF Evolves
<1>3. CASE result = "Limbo"
  <2>1. limbo' = {new} /\ states' = states
    BY <1>3 DEF WriteSync
  <2>2. Visible' = Visible
    BY <2>1 DEF Visible
  <2>3. IsFiniteSet({new}) /\ Cardinality({new}) = 1
    BY FS_Singleton, Zenon
  <2>4. StoreInv'
    BY <2>1, <2>2, <2>3 DEF StoreInv
  <2> QED
    BY <1>3, <2>2, <2>4 DEF Evolves
<1> QED
  BY <1>1, <1>2, <1>3 DEF Results

(* An unsynchronised write that leaves the records alone.                  *)
LEMMA UnsyncedWrite ==
    ASSUME StoreInv, NEW new \in Contents, new.outcome = Visible.outcome,
           NEW result \in Results, WriteUnsynced(new, result)
    PROVE  StoreInv' /\ Visible'.outcome = Visible.outcome
<1>1. CASE result = "Ok"
  <2>1. limbo' = {} /\ limbo = {} /\ states' = Append(states, new)
    BY <1>1 DEF WriteUnsynced
  <2>2. /\ states \in Seq(Contents) /\ states' \in Seq(Contents) /\ states' # <<>>
        /\ Len(states') = Len(states) + 1 /\ states'[Len(states')] = new
        /\ \A i \in 1..Len(states) : states'[i] = states[i]
    BY <2>1 DEF StoreInv
  <2>3. Visible' = new
    BY <2>2 DEF Visible
  <2>4. \A i \in 1..Len(states') : states'[i].outcome = new.outcome
    BY <2>2 DEF StoreInv
  <2>5. Single(new)
    BY DEF StoreInv, Single
  <2>6. IsFiniteSet(limbo') /\ Cardinality(limbo') <= 1
    BY <2>1, FS_EmptySet
  <2> QED
    BY <2>1, <2>2, <2>3, <2>4, <2>5, <2>6 DEF StoreInv
<1>2. CASE result = "NoEffect"
  <2>1. limbo' = limbo /\ states' = states
    BY <1>2 DEF WriteUnsynced
  <2>2. Visible' = Visible
    BY <2>1 DEF Visible
  <2> QED
    BY <2>1, <2>2 DEF StoreInv
<1> QED
  BY <1>1, <1>2 DEF WriteUnsynced

(* A crash leaves a content with the visible records, or the failed write. *)
LEMMA CrashedStore ==
    ASSUME StoreInv, Crash
    PROVE  StoreInv' /\ Evolves
<1>1. PICK c \in {states[i] : i \in 1..Len(states)} \cup limbo :
        states' = <<c>> /\ limbo' = {}
  BY DEF Crash
<1>2. c \in Contents
  BY <1>1 DEF StoreInv
<1>3. CASE c \in limbo
  BY <1>1, <1>2, <1>3, SettledStore DEF StoreInv, Evolves
<1>4. CASE c \in {states[i] : i \in 1..Len(states)}
  <2>1. c.outcome = Visible.outcome
    BY <1>4 DEF StoreInv
  <2>2. Single(c)
    BY <2>1 DEF StoreInv, Single
  <2> QED
    BY <1>1, <1>2, <2>1, <2>2, SettledStore DEF Evolves
<1> QED
  BY <1>1, <1>3, <1>4

(* What callers were told stays the answer.                                *)
LEMMA ToldStays ==
    ASSUME KeyedInv, Evolves, NEW k \in Keys
    PROVE  told[k] \subseteq {Answer(Visible', k)}
<1>1. told[k] \subseteq {"Committed", "RolledBack"} /\ told[k] \subseteq {Answer(Visible, k)}
  BY DEF KeyedInv
<1>2. CASE told[k] = {}
  BY <1>2
<1>3. CASE Answer(Visible, k) # "Indeterminate"
  <2>1. Answer(Visible', k) = Answer(Visible, k)
    BY <1>3, SameRecords, DecisionStays DEF Evolves
  <2> QED
    BY <1>1, <2>1
<1> QED
  BY <1>1, <1>2, <1>3

(* Telling a caller the visible answer keeps every told answer true.       *)
LEMMA ToldGrows ==
    ASSUME KeyedInv, Evolves, NEW k \in Keys,
           NEW answers \in SUBSET {"Committed", "RolledBack"},
           answers \subseteq {Answer(Visible', k)}, Tell(k, answers)
    PROVE  /\ told' \in [Keys -> SUBSET {"Committed", "RolledBack"}]
           /\ \A j \in Keys : told'[j] \subseteq {Answer(Visible', j)}
<1>1. told \in [Keys -> SUBSET {"Committed", "RolledBack"}]
  BY DEF KeyedInv
<1>2. \A j \in Keys : told'[j] = IF j = k THEN told[k] \cup answers ELSE told[j]
  BY <1>1 DEF Tell
<1>3. told' \in [Keys -> SUBSET {"Committed", "RolledBack"}]
  BY <1>1, Zenon DEF Tell
<1> QED
  BY <1>2, <1>3, ToldStays

-----------------------------------------------------------------------------
(* The empty store satisfies the invariant.                                *)
LEMMA InitInv == Init => KeyedInv
<1> SUFFICES ASSUME Init PROVE KeyedInv
  OBVIOUS
<1> DEFINE table == [k \in Keys |-> [ns \in Namespaces |-> "Absent"]]
           empty == [outcome |-> table, data |-> [k \in Keys \cup {NoKey} |-> 0], sequence |-> 0]
<1>1. table \in [Keys -> [Namespaces -> Values]]
  BY DEF Values
<1>2. empty \in Contents /\ empty.outcome = table
  BY <1>1 DEF Contents
<1>3. states = <<empty>>
  BY DEF Init
<1>4. Visible = empty
  BY <1>3 DEF Visible
<1>5. states \in Seq(Contents) /\ states # <<>> /\ Len(states) = 1 /\ states[1] = empty
  BY <1>2, <1>3
<1>6. Single(empty)
  BY <1>2 DEF Single
<1>7. IsFiniteSet(limbo) /\ Cardinality(limbo) <= 1 /\ limbo = {}
  BY FS_EmptySet DEF Init
<1>8. StoreInv
  BY <1>2, <1>4, <1>5, <1>6, <1>7 DEF StoreInv
<1>9. /\ tx \in [phase : Phases, key : Keys \cup {NoKey}, namespace : Namespaces]
      /\ tx.phase = "None"
  BY DEF Init, NoTransaction, Phases, Namespaces
<1>10. /\ told \in [Keys -> SUBSET {"Committed", "RolledBack"}]
       /\ \A k \in Keys : told[k] = {}
  BY DEF Init
<1> QED
  BY <1>8, <1>9, <1>10 DEF KeyedInv, OwnRecord

(* The three keyed writes of the transaction at work, and the reservation  *)
(* of a free key, are legal moves.                                         *)
LEMMA OwnWrites ==
    ASSUME KeyedInv, NEW v \in Values,
           \/ tx.phase = "Staging" /\ v \in {"CommitAttempted", "RolledBack"}
           \/ tx.phase = "CommitAttempted" /\ v = "Committed"
           \/ tx.phase = "Dropping" /\ v = "RolledBack",
           NEW d, d.outcome = WithOutcome(Visible, tx.key, tx.namespace, v).outcome
    PROVE  /\ tx.key \in Keys /\ tx.namespace \in Namespaces /\ Visible \in Contents
           /\ Moves(Visible, d) /\ Single(d)
           /\ d.outcome[tx.key][tx.namespace] = v
           /\ \A n \in Namespaces \ {tx.namespace} : d.outcome[tx.key][n] = "Absent"
<1>1. Visible \in Contents /\ Single(Visible)
  BY VisibleIsTyped DEF KeyedInv, StoreInv
<1>2. /\ tx.key \in Keys /\ tx.namespace \in Namespaces
      /\ \A n \in Namespaces \ {tx.namespace} : Visible.outcome[tx.key][n] = "Absent"
      /\ tx.phase # "Dropping" => Visible.outcome[tx.key][tx.namespace] = tx.phase
      /\ tx.phase = "Dropping" =>
           Visible.outcome[tx.key][tx.namespace] \in {"Staging", "RolledBack"}
  BY DEF KeyedInv, OwnRecord
<1>3. Moves(Visible, d) /\ Single(d)
  BY <1>1, <1>2, LegalWrite
<1> QED
  BY <1>1, <1>2, <1>3, WrittenRecord, SMTT(30)

(* The final batch is typed, writes the outcome and applies the effects of *)
(* the key once more.                                                      *)
LEMMA FinalBatchIsTyped ==
    ASSUME NEW c \in Contents, tx.key \in Keys, tx.namespace \in Namespaces
    PROVE  /\ FinalBatch(c) \in Contents
           /\ FinalBatch(c).outcome =
                WithOutcome(c, tx.key, tx.namespace, "Committed").outcome
           /\ FinalBatch(c).data = [c.data EXCEPT ![tx.key] = @ + 1]
           /\ FinalBatch(c).sequence =
                IF tx.namespace = "governed" THEN c.sequence + 1 ELSE c.sequence
<1> DEFINE w == WithOutcome(c, tx.key, tx.namespace, "Committed")
           more == [c.data EXCEPT ![tx.key] = @ + 1]
           grown == [w EXCEPT !.data = more]
           count == IF tx.namespace = "governed" THEN w.sequence + 1 ELSE w.sequence
           new == [grown EXCEPT !.sequence = count]
<1>1. w \in Contents /\ w.data = c.data /\ w.sequence = c.sequence
  <2>1. "Committed" \in Values
    BY DEF Values
  <2> QED
    BY <2>1, WrittenRecord
<1> HIDE DEF w
<1>2. c.data \in [Keys \cup {NoKey} -> Nat] /\ w.sequence \in Nat
  BY <1>1 DEF Contents
<1>3. more \in [Keys \cup {NoKey} -> Nat] /\ count \in Nat
  BY <1>2
<1>4. /\ grown \in Contents /\ grown.outcome = w.outcome
      /\ grown.sequence = w.sequence /\ grown.data = more
  BY <1>1, <1>3, Zenon DEF Contents
<1>5. /\ new \in Contents /\ new.outcome = w.outcome
      /\ new.data = more /\ new.sequence = count
  BY <1>3, <1>4, Zenon DEF Contents
<1>6. FinalBatch(c) = new
  <2>1. FinalBatch(c) = [w EXCEPT !.data[tx.key] = @ + 1,
                                  !.sequence = IF tx.namespace = "governed" THEN @ + 1 ELSE @]
    BY DEF FinalBatch, w
  <2>2. [w EXCEPT !.data[tx.key] = @ + 1] = [w EXCEPT !.data = [w.data EXCEPT ![tx.key] = @ + 1]]
    OBVIOUS
  <2> QED
    BY <1>1, <1>4, <2>1, <2>2
<1> QED
  BY <1>1, <1>5, <1>6 DEF w

(* The batch of an unkeyed transaction is typed and writes no outcome.     *)
LEMMA PlainBatchIsTyped ==
    ASSUME NEW c \in Contents
    PROVE  LET new == [c EXCEPT !.data[NoKey] = @ + 1]
           IN /\ new \in Contents /\ new.outcome = c.outcome
              /\ new.sequence = c.sequence
              /\ \A k \in Keys : new.data[k] = c.data[k]
<1> DEFINE more == [c.data EXCEPT ![NoKey] = @ + 1]
<1>1. c.data \in [Keys \cup {NoKey} -> Nat]
  BY DEF Contents
<1>2. more \in [Keys \cup {NoKey} -> Nat] /\ \A k \in Keys : more[k] = c.data[k]
  BY <1>1, KeyAssumption
<1> HIDE DEF more
<1>3. /\ [c EXCEPT !.data = more] \in Contents
      /\ [c EXCEPT !.data = more].outcome = c.outcome
      /\ [c EXCEPT !.data = more].sequence = c.sequence
      /\ [c EXCEPT !.data = more].data = more
  BY <1>2 DEF Contents
<1> QED
  BY <1>2, <1>3 DEF more

(* No action breaks the invariant, and what callers see evolves legally.   *)
LEMMA NextInv == KeyedInv /\ [Next]_vars => KeyedInv' /\ Evolves
<1> SUFFICES ASSUME KeyedInv, [Next]_vars PROVE KeyedInv' /\ Evolves
  OBVIOUS
<1> DEFINE Transactions == [phase : Phases, key : Keys \cup {NoKey}, namespace : Namespaces]
           Told == /\ told' \in [Keys -> SUBSET {"Committed", "RolledBack"}]
                   /\ \A k \in Keys : told'[k] \subseteq {Answer(Visible', k)}
<1>a. StoreInv /\ tx \in Transactions /\ Visible \in Contents /\ Single(Visible)
  BY VisibleIsTyped DEF KeyedInv, StoreInv
<1>b. ASSUME Evolves, told' = told PROVE Told
  BY <1>b, ToldStays DEF KeyedInv
<1>c. NoTransaction \in Transactions /\ NoTransaction.phase = "None"
  BY DEF NoTransaction, Phases, Namespaces
<1>d. ASSUME tx' = NoTransaction PROVE tx' \in Transactions /\ OwnRecord(Visible)'
  BY <1>c, <1>d DEF OwnRecord
<1>e. ASSUME StoreInv', tx' \in Transactions, Told, OwnRecord(Visible)' PROVE KeyedInv'
  BY <1>e DEF KeyedInv
<1>f. ASSUME UNCHANGED <<states, limbo>>
      PROVE  StoreInv' /\ Evolves /\ Visible' = Visible
  <2>1. Visible' = Visible
    BY <1>f DEF Visible
  <2> QED
    BY <1>a, <1>f, <2>1 DEF StoreInv, Evolves
<1> HIDE DEF Transactions, Told
<1>1. CASE StartPlain
  <2>1. StoreInv' /\ Evolves
    BY <1>1, <1>f DEF StartPlain
  <2>2. tx' \in Transactions /\ tx'.phase = "Open"
    BY <1>1, <1>c DEF StartPlain, NoTransaction, Phases, Namespaces, Transactions
  <2>3. OwnRecord(Visible)'
    BY <2>2 DEF OwnRecord
  <2>4. Told
    BY <1>1, <1>b, <2>1 DEF StartPlain
  <2> QED
    BY <1>e, <2>1, <2>2, <2>3, <2>4
<1>2. CASE DropPlain
  <2>1. StoreInv' /\ Evolves /\ Told
    BY <1>2, <1>b, <1>f DEF DropPlain
  <2>2. tx' = NoTransaction
    BY <1>2 DEF DropPlain
  <2> QED
    BY <1>d, <1>e, <2>1, <2>2
<1>3. CASE Crash
  <2>1. StoreInv' /\ Evolves
    BY <1>3, <1>a, CrashedStore
  <2>2. tx' = NoTransaction /\ told' = told
    BY <1>3 DEF Crash
  <2> QED
    BY <1>b, <1>d, <1>e, <2>1, <2>2
<1>4. ASSUME NEW k \in Keys, Lookup(k) PROVE KeyedInv' /\ Evolves
  <2>1. StoreInv' /\ Evolves /\ Visible' = Visible /\ tx' = tx
    BY <1>4, <1>f DEF Lookup
  <2>2. Tell(k, {Answer(Visible, k)} \ {"Indeterminate"})
    BY <1>4 DEF Lookup
  <2>3. {Answer(Visible, k)} \ {"Indeterminate"} \in SUBSET {"Committed", "RolledBack"}
    BY AnswerAndStatus
  <2>4. Told
    BY <2>1, <2>2, <2>3, ToldGrows DEF Told
  <2>5. OwnRecord(Visible)'
    BY <2>1 DEF KeyedInv, OwnRecord
  <2> QED
    BY <1>a, <1>e, <2>1, <2>4, <2>5
<1>5. ASSUME NEW result \in Results, CommitPlain(result) PROVE KeyedInv' /\ Evolves
  <2> DEFINE new == [Visible EXCEPT !.data[NoKey] = @ + 1]
  <2>1. new \in Contents /\ new.outcome = Visible.outcome
    BY <1>a, PlainBatchIsTyped
  <2>2. WriteUnsynced(new, result) /\ tx' = NoTransaction /\ told' = told
    BY <1>5 DEF CommitPlain
  <2> HIDE DEF new
  <2>3. StoreInv' /\ Evolves
    BY <1>a, <2>1, <2>2, UnsyncedWrite DEF Evolves
  <2> QED
    BY <1>b, <1>d, <1>e, <2>2, <2>3
<1>6. ASSUME NEW result \in Results, NEW k \in Keys, NEW ns \in Namespaces,
             StartKeyed(k, ns, result)
      PROVE  KeyedInv' /\ Evolves
  <2> DEFINE new == WithOutcome(Visible, k, ns, "Staging")
  <2>1. \A n \in Namespaces : Visible.outcome[k][n] = "Absent"
    BY <1>6 DEF StartKeyed, Free, Recorded
  <2>2. /\ new \in Contents /\ new.outcome[k][ns] = "Staging"
        /\ \A n \in Namespaces \ {ns} : new.outcome[k][n] = "Absent"
    <3>1. "Staging" \in Values
      BY DEF Values
    <3>2. /\ new \in Contents /\ new.outcome[k][ns] = "Staging"
          /\ \A n \in Namespaces \ {ns} : new.outcome[k][n] = Visible.outcome[k][n]
      BY <1>a, <3>1, WrittenRecord
    <3> QED
      BY <2>1, <3>2
  <2>3. Moves(Visible, new) /\ Single(new)
    BY <1>a, <2>1, LegalWrite DEF Values
  <2>4. WriteSync(new, result) /\ told' = told
    BY <1>6 DEF StartKeyed
  <2> HIDE DEF new
  <2>5. StoreInv' /\ Evolves /\ (result = "Ok" => Visible' = new)
    BY <1>a, <2>2, <2>3, <2>4, SyncWrite
  <2>6. CASE result = "Ok"
    <3>1. tx' = [phase |-> "Staging", key |-> k, namespace |-> ns]
      BY <1>6, <2>6 DEF StartKeyed
    <3>2. tx' \in Transactions
      BY <3>1 DEF Transactions, Phases
    <3>3. OwnRecord(Visible)'
      BY <2>2, <2>5, <2>6, <3>1 DEF OwnRecord
    <3> QED
      BY <1>b, <1>e, <2>4, <2>5, <3>2, <3>3
  <2>7. CASE result # "Ok"
    <3>1. tx' = tx /\ tx.phase = "None"
      BY <1>6, <2>7 DEF StartKeyed
    <3>2. OwnRecord(Visible)'
      BY <3>1 DEF OwnRecord
    <3> QED
      BY <1>a, <1>b, <1>e, <2>4, <2>5, <3>1, <3>2, SMTT(30)
  <2> QED
    BY <2>6, <2>7
<1>7. ASSUME NEW result \in Results, CommitAttempt(result) PROVE KeyedInv' /\ Evolves
  <2> DEFINE new == WithOutcome(Visible, tx.key, tx.namespace, "CommitAttempted")
  <2>1. /\ tx.key \in Keys /\ tx.namespace \in Namespaces
        /\ Moves(Visible, new) /\ Single(new)
        /\ new.outcome[tx.key][tx.namespace] = "CommitAttempted"
        /\ \A n \in Namespaces \ {tx.namespace} : new.outcome[tx.key][n] = "Absent"
    BY <1>7, OwnWrites, ZenonT(30) DEF CommitAttempt, Values
  <2>2. new \in Contents
    BY <1>a, <2>1, WrittenRecord DEF Values
  <2>3. WriteSync(new, result) /\ told' = told
    BY <1>7 DEF CommitAttempt
  <2> HIDE DEF new
  <2>4. StoreInv' /\ Evolves /\ (result = "Ok" => Visible' = new)
    BY <1>a, <2>1, <2>2, <2>3, SyncWrite
  <2>5. CASE result = "Ok"
    <3>1. tx' = [tx EXCEPT !.phase = "CommitAttempted"]
      BY <1>7, <2>5 DEF CommitAttempt
    <3>2. /\ tx' \in Transactions /\ tx'.phase = "CommitAttempted"
          /\ tx'.key = tx.key /\ tx'.namespace = tx.namespace
      BY <1>a, <3>1 DEF Transactions, Phases
    <3>3. OwnRecord(Visible)'
      BY <2>1, <2>4, <2>5, <3>2 DEF OwnRecord
    <3> QED
      BY <1>b, <1>e, <2>3, <2>4, <3>2, <3>3
  <2>6. CASE result # "Ok"
    <3>1. tx' = NoTransaction
      BY <1>7, <2>6 DEF CommitAttempt
    <3> QED
      BY <1>b, <1>d, <1>e, <2>3, <2>4, <3>1
  <2> QED
    BY <2>5, <2>6
<1>8. ASSUME NEW result \in Results, CommitFinal(result) PROVE KeyedInv' /\ Evolves
  <2> DEFINE new == FinalBatch(Visible)
             answers == IF result = "Ok" THEN {"Committed"} ELSE {}
  <2>1. tx.key \in Keys /\ tx.namespace \in Namespaces
    BY <1>8 DEF CommitFinal, KeyedInv, OwnRecord
  <2>2. /\ new \in Contents
        /\ new.outcome = WithOutcome(Visible, tx.key, tx.namespace, "Committed").outcome
    BY <1>a, <2>1, FinalBatchIsTyped, Zenon
  <2>3. /\ WriteSync(new, result) /\ Tell(tx.key, answers)
        /\ tx' = NoTransaction /\ tx.phase = "CommitAttempted"
    BY <1>8 DEF CommitFinal
  <2> HIDE DEF new
  <2>4. /\ Moves(Visible, new) /\ Single(new)
        /\ new.outcome[tx.key][tx.namespace] = "Committed"
    BY <2>2, <2>3, OwnWrites DEF Values
  <2>5. StoreInv' /\ Evolves /\ (result = "Ok" => Visible' = new)
    BY <1>a, <2>2, <2>3, <2>4, SyncWrite
  <2>6. Answer(new, tx.key) = "Committed"
    BY <2>1, <2>4 DEF Answer
  <2>7. Told
    BY <2>1, <2>3, <2>5, <2>6, ToldGrows DEF Told
  <2> QED
    BY <1>d, <1>e, <2>3, <2>5, <2>7
<1>9. ASSUME NEW result \in Results, Rollback(result) \/ Drop(result)
      PROVE  KeyedInv' /\ Evolves
  <2> DEFINE new == WithOutcome(Visible, tx.key, tx.namespace, "RolledBack")
             told_now == IF result = "Ok" THEN {"RolledBack"} ELSE {}
  <2>1. WriteSync(new, result) /\ tx.phase \in {"Staging", "Dropping"}
    BY <1>9, SMTT(30) DEF Rollback, Drop
  <2>2. /\ tx.key \in Keys /\ tx.namespace \in Namespaces
        /\ Moves(Visible, new) /\ Single(new)
        /\ new.outcome[tx.key][tx.namespace] = "RolledBack"
        /\ \A n \in Namespaces \ {tx.namespace} : new.outcome[tx.key][n] = "Absent"
    BY <2>1, OwnWrites, ZenonT(30) DEF Values
  <2>3. new \in Contents
    BY <1>a, <2>2, WrittenRecord DEF Values
  <2> HIDE DEF new
  <2>4. /\ StoreInv' /\ Evolves /\ (result = "Ok" => Visible' = new)
        /\ Visible' \in {Visible, new}
    BY <1>a, <2>1, <2>2, <2>3, SyncWrite
  <2>5. CASE Drop(result)
    BY <1>b, <1>d, <1>e, <2>4, <2>5 DEF Drop
  <2>6. CASE Rollback(result)
    <3>1. tx.phase = "Staging" /\ Tell(tx.key, told_now)
      BY <2>6 DEF Rollback
    <3>2. Answer(new, tx.key) = "RolledBack"
      BY <2>2 DEF Answer, Namespaces
    <3>3. Told
      BY <2>2, <2>4, <3>1, <3>2, ToldGrows DEF Told
    <3>4. CASE result = "Ok"
      <4>1. tx' = NoTransaction
        BY <2>6, <3>4 DEF Rollback
      <4> QED
        BY <1>d, <1>e, <2>4, <3>3, <4>1
    <3>5. CASE result # "Ok"
      <4>1. tx' = [tx EXCEPT !.phase = "Dropping"]
        BY <2>6, <3>5 DEF Rollback
      <4>2. /\ tx' \in Transactions /\ tx'.phase = "Dropping"
            /\ tx'.key = tx.key /\ tx'.namespace = tx.namespace
        BY <1>a, <4>1 DEF Transactions, Phases
      <4>3. /\ \A n \in Namespaces \ {tx.namespace} : Visible.outcome[tx.key][n] = "Absent"
            /\ Visible.outcome[tx.key][tx.namespace] = "Staging"
        BY <3>1 DEF KeyedInv, OwnRecord
      <4>4. OwnRecord(Visible)'
        BY <2>2, <2>4, <4>2, <4>3 DEF OwnRecord
      <4> QED
        BY <1>e, <2>4, <3>3, <4>2, <4>4
    <3> QED
      BY <3>4, <3>5
  <2> QED
    BY <1>9, <2>5, <2>6
<1>10. CASE UNCHANGED vars
  <2>1. StoreInv' /\ Evolves /\ Visible' = Visible /\ tx' = tx /\ told' = told
    BY <1>10, <1>f DEF vars
  <2>2. OwnRecord(Visible)'
    BY <2>1 DEF KeyedInv, OwnRecord
  <2> QED
    BY <1>a, <1>b, <1>e, <2>1, <2>2
<1> QED
  BY <1>1, <1>2, <1>3, <1>4, <1>5, <1>6, <1>7, <1>8, <1>9, <1>10, Zenon DEF Next

(* The invariant holds for ever, and so does the legality of every step.   *)
LEMMA Invariance == Spec => []KeyedInv
BY InitInv, NextInv, PTL DEF Spec

(* Every content that is visible or may appear is one of the two kinds.    *)
LEMMA PossibleContents ==
    ASSUME KeyedInv, NEW c \in Possible
    PROVE  /\ Single(c)
           /\ c.outcome = Visible.outcome \/ Moves(Visible, c)
<1>1. CASE c \in limbo
  BY <1>1 DEF KeyedInv, StoreInv
<1>2. CASE c \in {states[i] : i \in 1..Len(states)}
  <2>1. c.outcome = Visible.outcome
    BY <1>2 DEF KeyedInv, StoreInv
  <2> QED
    BY <2>1 DEF KeyedInv, StoreInv, Single
<1> QED
  BY <1>1, <1>2 DEF Possible

(* The store, the transaction at work and the told answers keep their      *)
(* types, and at most one failed write is outstanding at a time.           *)
THEOREM KeyedTypes == Spec => []TypeOK
<1>1. KeyedInv => TypeOK
  BY DEF KeyedInv, StoreInv, TypeOK
<1> QED
  BY <1>1, Invariance, PTL

(* A caller that was told a definite outcome by commit_keyed,              *)
(* rollback_keyed or a lookup is told the same for ever, after any crash   *)
(* and any write error, for any number of keys and transactions.           *)
THEOREM AnswersAreFinal == Spec => []DefiniteAnswersHold
<1>1. KeyedInv => DefiniteAnswersHold
  <2> SUFFICES ASSUME KeyedInv, NEW k \in Keys, NEW answer \in {"Committed", "RolledBack"},
                      answer \in told[k], NEW c \in Possible
               PROVE  Answer(c, k) = answer
    BY DEF DefiniteAnswersHold
  <2>1. Answer(Visible, k) = answer
    BY DEF KeyedInv
  <2>2. c.outcome = Visible.outcome \/ Moves(Visible, c)
    BY PossibleContents
  <2> QED
    BY <2>1, <2>2, SameRecords, DecisionStays
<1> QED
  BY <1>1, Invariance, PTL

(* No key is recorded in both namespaces, whatever crashes and errors      *)
(* come between its reservation and a retry in the other namespace.        *)
THEOREM NamespacesAreApart == Spec => []OneNamespace
<1>1. KeyedInv => OneNamespace
  <2> SUFFICES ASSUME KeyedInv, NEW c \in Possible, NEW k \in Keys
               PROVE  Cardinality(Recorded(c, k)) <= 1
    BY DEF OneNamespace
  <2>1. \A m, n \in Recorded(c, k) : m = n
    BY PossibleContents DEF Single, Recorded
  <2>2. CASE Recorded(c, k) = {}
    BY <2>2, FS_EmptySet
  <2>3. CASE Recorded(c, k) # {}
    <3>1. PICK n : Recorded(c, k) = {n}
      BY <2>1, <2>3
    <3> QED
      BY <3>1, FS_Singleton
  <2> QED
    BY <2>2, <2>3
<1> QED
  BY <1>1, Invariance, PTL

(* The keyed transactions of the storage, over all crashes and errors,     *)
(* implement the ledger: start reserves a key once, a commit or rollback,  *)
(* even one that reported an error, decides it once.                       *)
THEOREM ImplementsLedger == Spec => LedgerHolds
<1> DEFINE status == [k \in Keys |-> Status(Visible, k)]
<1>1. Init => Ledger!Init
  <2> SUFFICES ASSUME Init PROVE \A k \in Keys : Status(Visible, k) = "Absent"
    BY DEF Ledger!Init
  <2> TAKE k \in Keys
  <2>1. \A n \in Namespaces : Visible.outcome[k][n] = "Absent"
    BY DEF Init, Visible
  <2>2. Recorded(Visible, k) = {}
    BY <2>1 DEF Recorded
  <2> QED
    BY <2>2 DEF Status
<1>2. Evolves => [Ledger!Next]_status
  <2>1. ASSUME Visible'.outcome = Visible.outcome PROVE status' = status
    <3>1. \A k \in Keys : Status(Visible', k) = Status(Visible, k)
      BY <2>1, SameRecords
    <3> QED
      BY <3>1
  <2>2. ASSUME Moves(Visible, Visible') PROVE [Ledger!Next]_status
    <3>1. PICK k \in Keys :
            /\ \A j \in Keys \ {k} : Visible'.outcome[j] = Visible.outcome[j]
            /\ Legal(Status(Visible, k), Status(Visible', k))
      BY <2>2 DEF Moves
    <3>2. \A j \in Keys \ {k} : Status(Visible', j) = Status(Visible, j)
      BY <3>1, SameRecords
    <3>3. status' = [status EXCEPT ![k] = Status(Visible', k)] /\ status[k] = Status(Visible, k)
      BY <3>2, Zenon
    <3>4. CASE Status(Visible', k) = Status(Visible, k)
      BY <3>2, <3>4
    <3>5. CASE Status(Visible, k) = "Absent" /\ Status(Visible', k) = "Staging"
      BY <3>3, <3>5, Zenon DEF Ledger!Next, Ledger!Reserve
    <3>6. CASE /\ Status(Visible, k) = "Staging"
               /\ Status(Visible', k) \in {"Committed", "RolledBack"}
      BY <3>3, <3>6, Zenon DEF Ledger!Next, Ledger!Decide
    <3> QED
      BY <3>1, <3>4, <3>5, <3>6 DEF Legal
  <2> QED
    BY <2>1, <2>2 DEF Evolves
<1>3. KeyedInv /\ [Next]_vars => [Ledger!Next]_status
  BY <1>2, NextInv
<1> QED
  BY <1>1, <1>3, Invariance, PTL DEF Spec, LedgerHolds, Ledger!Spec

-----------------------------------------------------------------------------
(* The keys with a governed commit in c.                                   *)
Governed(c) == {k \in Keys : c.outcome[k]["governed"] = "Committed"}

(* The effects in c are those of the keys recorded as committed, once each,*)
(* and the sequence counts the governed ones.                              *)
Exact(c) ==
    /\ \A k \in Keys : c.data[k] = IF Answer(c, k) = "Committed" THEN 1 ELSE 0
    /\ IsFiniteSet(Governed(c)) /\ c.sequence = Cardinality(Governed(c))

EffectInv == \A c \in Possible : Exact(c)

(* The visible content is one of the possible ones.                        *)
LEMMA VisibleIsPossible ==
    ASSUME KeyedInv
    PROVE  Visible \in Possible
<1>1. Len(states) \in 1..Len(states)
  BY VisibleIsTyped DEF KeyedInv
<1> QED
  BY <1>1 DEF Possible, Visible

(* Contents with the same answers, governed commits, effects and sequence  *)
(* are exact together.                                                     *)
LEMMA SameEffects ==
    ASSUME NEW c, NEW d, Exact(c), Governed(d) = Governed(c), d.sequence = c.sequence,
           \A k \in Keys : /\ d.data[k] = c.data[k]
                           /\ Answer(d, k) = "Committed" <=> Answer(c, k) = "Committed"
    PROVE  Exact(d)
BY DEF Exact

(* A write that decides no commit keeps the effects exact.                 *)
LEMMA UndecidedWrite ==
    ASSUME NEW c \in Contents, Exact(c), NEW k \in Keys, NEW ns \in Namespaces,
           NEW v \in Values \ {"Committed"}, c.outcome[k][ns] # "Committed"
    PROVE  Exact(WithOutcome(c, k, ns, v))
<1> DEFINE d == WithOutcome(c, k, ns, v)
<1>1. /\ d.outcome[k][ns] = v
      /\ \A n \in Namespaces \ {ns} : d.outcome[k][n] = c.outcome[k][n]
      /\ \A j \in Keys \ {k} : d.outcome[j] = c.outcome[j]
      /\ d.data = c.data /\ d.sequence = c.sequence
  BY WrittenRecord
<1> HIDE DEF d
<1>2. \A j \in Keys, n \in Namespaces :
        d.outcome[j][n] = "Committed" <=> c.outcome[j][n] = "Committed"
  BY <1>1
<1>3. \A j \in Keys : Answer(d, j) = "Committed" <=> Answer(c, j) = "Committed"
  BY <1>2 DEF Answer
<1>4. Governed(d) = Governed(c)
  BY <1>2 DEF Governed, Namespaces
<1>5. Exact(d)
  BY <1>1, <1>3, <1>4, SameEffects
<1> QED
  BY <1>5 DEF d

(* The final batch of a transaction that has an attempt recorded adds its  *)
(* effects for the first time, and one to the sequence if it is governed.  *)
LEMMA DecidingWrite ==
    ASSUME KeyedInv, tx.phase = "CommitAttempted", Exact(Visible)
    PROVE  Exact(FinalBatch(Visible))
<1> DEFINE c == Visible
           d == FinalBatch(Visible)
           k == tx.key
           ns == tx.namespace
<1>1. /\ c \in Contents /\ k \in Keys /\ ns \in Namespaces
      /\ c.outcome[k][ns] = "CommitAttempted"
      /\ \A n \in Namespaces \ {ns} : c.outcome[k][n] = "Absent"
  BY VisibleIsTyped DEF KeyedInv, OwnRecord
<1>2. /\ d.outcome = WithOutcome(c, k, ns, "Committed").outcome
      /\ d.data = [c.data EXCEPT ![k] = @ + 1]
      /\ d.sequence = IF ns = "governed" THEN c.sequence + 1 ELSE c.sequence
  BY <1>1, FinalBatchIsTyped, ZenonT(30)
<1>3. /\ d.outcome[k][ns] = "Committed"
      /\ \A n \in Namespaces \ {ns} : d.outcome[k][n] = "Absent"
      /\ \A j \in Keys \ {k} : d.outcome[j] = c.outcome[j]
  <2>1. "Committed" \in Values
    BY DEF Values
  <2> QED
    BY <1>1, <1>2, <2>1, WrittenRecord, SMTT(30)
<1>4. c.data \in [Keys \cup {NoKey} -> Nat]
  BY <1>1 DEF Contents
<1> HIDE DEF c, d, k, ns
<1>5. d.data[k] = c.data[k] + 1 /\ \A j \in Keys \ {k} : d.data[j] = c.data[j]
  BY <1>1, <1>2, <1>4
<1>6. Answer(d, k) = "Committed" /\ Answer(c, k) # "Committed"
  BY <1>1, <1>3 DEF Answer
<1>7. \A j \in Keys \ {k} : Answer(d, j) = Answer(c, j)
  BY <1>3, SameRecords
<1>8. Exact(c)
  BY DEF c
<1>9. \A j \in Keys : d.data[j] = IF Answer(d, j) = "Committed" THEN 1 ELSE 0
  BY <1>5, <1>6, <1>7, <1>8, SMTT(30) DEF Exact
<1>10. /\ IsFiniteSet(Governed(c)) /\ c.sequence = Cardinality(Governed(c))
       /\ k \notin Governed(c)
  BY <1>1, <1>8 DEF Exact, Governed, Namespaces
<1>11. IsFiniteSet(Governed(d)) /\ d.sequence = Cardinality(Governed(d))
  <2>1. CASE ns = "governed"
    <3>1. Governed(d) = Governed(c) \cup {k}
      BY <1>1, <1>3, <2>1 DEF Governed
    <3>2. /\ IsFiniteSet(Governed(c) \cup {k})
          /\ Cardinality(Governed(c) \cup {k}) = Cardinality(Governed(c)) + 1
      BY <1>10, FS_AddElement
    <3> QED
      BY <1>2, <1>10, <2>1, <3>1, <3>2
  <2>2. CASE ns # "governed"
    <3>1. Governed(d) = Governed(c)
      BY <1>1, <1>3, <2>2 DEF Governed, Namespaces
    <3> QED
      BY <1>2, <1>10, <2>2, <3>1
  <2> QED
    BY <2>1, <2>2
<1>12. Exact(d)
  BY <1>9, <1>11 DEF Exact
<1> QED
  BY <1>12 DEF d

(* A write adds at most its content to those that are possible.            *)
LEMMA PossibleAfterWrite ==
    ASSUME KeyedInv, NEW new, NEW result,
           WriteSync(new, result) \/ WriteUnsynced(new, result)
    PROVE  Possible' \subseteq Possible \cup {new}
<1>1. CASE WriteSync(new, result)
  <2>1. limbo' \in {limbo, {new}} /\ states' \in {states, <<new>>}
    BY <1>1 DEF WriteSync
  <2> QED
    BY <2>1 DEF Possible
<1>2. CASE WriteUnsynced(new, result)
  <2>1. limbo' = limbo /\ states' \in {states, Append(states, new)}
    BY <1>2 DEF WriteUnsynced
  <2>2. states \in Seq(Contents)
    BY DEF KeyedInv, StoreInv
  <2>3. {Append(states, new)[i] : i \in 1..Len(Append(states, new))}
          \subseteq {states[i] : i \in 1..Len(states)} \cup {new}
    BY <2>2
  <2> QED
    BY <2>1, <2>3 DEF Possible
<1> QED
  BY <1>1, <1>2

(* No step, crash or failed write makes the effects inexact.               *)
LEMMA EffectsNext == KeyedInv /\ EffectInv /\ [Next]_vars => EffectInv'
<1> SUFFICES ASSUME KeyedInv, EffectInv, [Next]_vars PROVE EffectInv'
  OBVIOUS
<1>1. /\ Visible \in Contents /\ Exact(Visible)
      /\ tx.phase \in {"Staging", "CommitAttempted", "Dropping"} =>
           /\ tx.key \in Keys /\ tx.namespace \in Namespaces
           /\ Visible.outcome[tx.key][tx.namespace] # "Committed"
  BY VisibleIsTyped, VisibleIsPossible DEF KeyedInv, EffectInv, OwnRecord
<1>2. ASSUME NEW new, NEW result, Exact(new),
             WriteSync(new, result) \/ WriteUnsynced(new, result)
      PROVE  EffectInv'
  BY <1>2, PossibleAfterWrite DEF EffectInv
<1>3. ASSUME UNCHANGED <<states, limbo>> PROVE EffectInv'
  <2>1. Possible' = Possible
    BY <1>3 DEF Possible
  <2> QED
    BY <2>1 DEF EffectInv
<1>4. CASE StartPlain \/ DropPlain \/ UNCHANGED vars
  BY <1>3, <1>4 DEF StartPlain, DropPlain, vars
<1>5. ASSUME NEW k \in Keys, Lookup(k) PROVE EffectInv'
  BY <1>3, <1>5 DEF Lookup
<1>6. CASE Crash
  <2>1. PICK c \in Possible : states' = <<c>> /\ limbo' = {}
    BY <1>6 DEF Crash, Possible
  <2>2. Possible' = {c}
    BY <2>1 DEF Possible
  <2> QED
    BY <2>1, <2>2 DEF EffectInv
<1>7. ASSUME NEW result \in Results, CommitPlain(result) PROVE EffectInv'
  <2> DEFINE new == [Visible EXCEPT !.data[NoKey] = @ + 1]
  <2>1. /\ new.outcome = Visible.outcome /\ new.sequence = Visible.sequence
        /\ \A k \in Keys : new.data[k] = Visible.data[k]
    BY <1>1, PlainBatchIsTyped, Zenon
  <2>2. WriteUnsynced(new, result)
    BY <1>7 DEF CommitPlain
  <2> HIDE DEF new
  <2>3. Governed(new) = Governed(Visible) /\ \A k \in Keys : Answer(new, k) = Answer(Visible, k)
    BY <2>1, SameRecords DEF Governed
  <2>4. Exact(new)
    BY <1>1, <2>1, <2>3, SameEffects
  <2> QED
    BY <1>2, <2>2, <2>4
<1>8. ASSUME NEW result \in Results, NEW k \in Keys, NEW ns \in Namespaces,
             StartKeyed(k, ns, result)
      PROVE  EffectInv'
  <2>1. Visible.outcome[k][ns] = "Absent" /\ "Staging" \in Values \ {"Committed"}
    BY <1>8 DEF StartKeyed, Free, Recorded, Values
  <2>2. Exact(WithOutcome(Visible, k, ns, "Staging"))
    BY <1>1, <2>1, UndecidedWrite
  <2> QED
    BY <1>2, <1>8, <2>2 DEF StartKeyed
<1>9. ASSUME NEW result \in Results, CommitAttempt(result) \/ Rollback(result) \/ Drop(result)
      PROVE  EffectInv'
  <2>1. PICK v \in {"CommitAttempted", "RolledBack"} :
          /\ WriteSync(WithOutcome(Visible, tx.key, tx.namespace, v), result)
          /\ tx.phase \in {"Staging", "Dropping"}
    BY <1>9 DEF CommitAttempt, Rollback, Drop
  <2>2. v \in Values \ {"Committed"}
    BY DEF Values
  <2>3. Exact(WithOutcome(Visible, tx.key, tx.namespace, v))
    BY <1>1, <2>1, <2>2, UndecidedWrite
  <2> QED
    BY <1>2, <2>1, <2>3
<1>10. ASSUME NEW result \in Results, CommitFinal(result) PROVE EffectInv'
  <2>1. Exact(FinalBatch(Visible)) /\ WriteSync(FinalBatch(Visible), result)
    BY <1>1, <1>10, DecidingWrite DEF CommitFinal
  <2> QED
    BY <1>2, <2>1, SMTT(30)
<1> QED
  BY <1>4, <1>5, <1>6, <1>7, <1>8, <1>9, <1>10 DEF Next

(* Whatever crashes and write errors come in between, the effects of a key *)
(* are in the store exactly once if its record says committed and not at   *)
(* all otherwise, the receipt sequence counts the governed commits, and no *)
(* key is recorded in both namespaces, for any number of keys.             *)
THEOREM EffectsAreExact == Spec => []EffectsIffCommitted
<1>1. Init => EffectInv
  <2> SUFFICES ASSUME Init PROVE EffectInv
    OBVIOUS
  <2> DEFINE table == [k \in Keys |-> [ns \in Namespaces |-> "Absent"]]
             empty == [outcome |-> table, data |-> [k \in Keys \cup {NoKey} |-> 0],
                       sequence |-> 0]
  <2>1. Possible = {empty}
    BY DEF Init, Possible
  <2>2. \A k \in Keys, ns \in Namespaces : empty.outcome[k][ns] = "Absent"
    OBVIOUS
  <2>3. empty.sequence = 0 /\ \A k \in Keys : empty.data[k] = 0
    OBVIOUS
  <2> HIDE DEF empty
  <2>4. Governed(empty) = {} /\ \A k \in Keys : Answer(empty, k) # "Committed"
    BY <2>2 DEF Governed, Answer, Namespaces
  <2>5. Exact(empty)
    BY <2>3, <2>4, FS_EmptySet DEF Exact
  <2> QED
    BY <2>1, <2>5 DEF EffectInv
<1>2. EffectInv /\ OneNamespace => EffectsIffCommitted
  BY DEF EffectInv, Exact, Governed, EffectsIffCommitted
<1>3. KeyedInv /\ EffectInv /\ [Next]_vars => EffectInv'
  BY EffectsNext
<1> QED
  BY <1>1, <1>2, <1>3, Invariance, NamespacesAreApart, PTL DEF Spec
=============================================================================
