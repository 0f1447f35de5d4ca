--------------------------- MODULE WorkloadProofs ---------------------------
(***************************************************************************)
(* Proofs about the admission controller, for every set of policies,       *)
(* classes and principals and any number of attempts.                      *)
(***************************************************************************)
EXTENDS Workload, FiniteSetTheorems, WellFoundedInduction, TLAPS

(* The least id of a set of ids is in it.  *)
LEMMA MinId ==
    ASSUME NEW S \in SUBSET Nat, S # {}
    PROVE  Min(S) \in S /\ \A y \in S : Min(S) <= y
<1> DEFINE Before == {ss \in Nat \X Nat : ss[1] < ss[2]}
<1>1. IsWellFoundedOn(Before, Nat)
  BY NatLessThanWellFounded, Zenon DEF OpToRel
<1>2. \A x, y \in Nat : <<y, x>> \in Before <=> y < x
  OBVIOUS
<1> HIDE DEF Before
<1>3. PICK x \in S : \A y \in S : ~ (<<y, x>> \in Before)
  BY <1>1, WFMin, Zenon
<1>4. ASSUME NEW y \in S PROVE x <= y
  <2>1. x \in Nat /\ y \in Nat
    OBVIOUS
  <2>2. ~ (y < x)
    BY <1>2, <1>3, <2>1, Zenon
  <2> QED BY <2>1, <2>2
<1> QED BY <1>4, Zenon DEF Min

-----------------------------------------------------------------------------
(* Counting.  The counters of State are functions of the entries e, of the *)
(* holders H of leases and of the queue Q.                                 *)

OfClass(e, S, c) == {i \in S : ~e[i].operator /\ e[i].class = c}
OfPrincipal(e, S, p) == {i \in S : ~e[i].operator /\ e[i].principal = p}
Work(e, H, Q, p) ==
    [active |-> Cardinality(OfPrincipal(e, H, p)), queued |-> Cardinality(OfPrincipal(e, Q, p))]
Busy(e, S) == {e[i].principal : i \in {j \in S : ~e[j].operator}}
BusyClasses(e, S) == {e[i].class : i \in {j \in S : ~e[j].operator}}
PrincipalCounts(e, H, Q) == [p \in Busy(e, H \cup Q) |-> Work(e, H, Q, p)]
ClassCounts(e, H) == [c \in BusyClasses(e, H) |-> Cardinality(OfClass(e, H, c))]

(* Work is counted in natural numbers, and a principal is busy exactly     *)
(* when there is work of it: a counter that is missing counts nothing.     *)
LEMMA WorkCounts ==
    ASSUME NEW e, NEW H, NEW Q, IsFiniteSet(H), IsFiniteSet(Q), NEW p
    PROVE  /\ IsFiniteSet(OfPrincipal(e, H, p)) /\ IsFiniteSet(OfPrincipal(e, Q, p))
           /\ Work(e, H, Q, p) \in [active : Nat, queued : Nat]
           /\ p \in Busy(e, H \cup Q) <=> Work(e, H, Q, p) # Idle
           /\ CountOf(PrincipalCounts(e, H, Q), p, Idle) = Work(e, H, Q, p)
<1>1. /\ IsFiniteSet(OfPrincipal(e, H, p)) /\ Cardinality(OfPrincipal(e, H, p)) \in Nat
      /\ IsFiniteSet(OfPrincipal(e, Q, p)) /\ Cardinality(OfPrincipal(e, Q, p)) \in Nat
  BY FS_Subset, FS_CardinalityType DEF OfPrincipal
<1>2. /\ Cardinality(OfPrincipal(e, H, p)) = 0 <=> OfPrincipal(e, H, p) = {}
      /\ Cardinality(OfPrincipal(e, Q, p)) = 0 <=> OfPrincipal(e, Q, p) = {}
  BY <1>1, FS_EmptySet
<1>3. p \in Busy(e, H \cup Q) <=> OfPrincipal(e, H, p) # {} \/ OfPrincipal(e, Q, p) # {}
  BY DEF Busy, OfPrincipal
<1>4. p \in Busy(e, H \cup Q) <=> Work(e, H, Q, p) # Idle
  BY <1>1, <1>2, <1>3 DEF Work, Idle
<1>5. CountOf(PrincipalCounts(e, H, Q), p, Idle) = Work(e, H, Q, p)
  BY <1>4 DEF CountOf, PrincipalCounts
<1> QED BY <1>1, <1>4, <1>5 DEF Work

(* The same for classes.                                                   *)
LEMMA ClassWork ==
    ASSUME NEW e, NEW H, IsFiniteSet(H), NEW c
    PROVE  /\ IsFiniteSet(OfClass(e, H, c)) /\ Cardinality(OfClass(e, H, c)) \in Nat
           /\ c \in BusyClasses(e, H) <=> Cardinality(OfClass(e, H, c)) # 0
           /\ CountOf(ClassCounts(e, H), c, 0) = Cardinality(OfClass(e, H, c))
<1>1. IsFiniteSet(OfClass(e, H, c)) /\ Cardinality(OfClass(e, H, c)) \in Nat
  BY FS_Subset, FS_CardinalityType DEF OfClass
<1>2. Cardinality(OfClass(e, H, c)) = 0 <=> OfClass(e, H, c) = {}
  BY <1>1, FS_EmptySet
<1>3. c \in BusyClasses(e, H) <=> Cardinality(OfClass(e, H, c)) # 0
  BY <1>2 DEF BusyClasses, OfClass
<1> QED BY <1>1, <1>3 DEF CountOf, ClassCounts

SameCounts(e, f, H, Q) ==
    /\ PrincipalCounts(e, H, Q) = PrincipalCounts(f, H, Q)
    /\ ClassCounts(e, H) = ClassCounts(f, H)
    /\ {i \in H : ~e[i].operator} = {i \in H : ~f[i].operator}
    /\ {i \in H : e[i].operator} = {i \in H : f[i].operator}

(* Entries that no lease and no place in the queue belongs to are not      *)
(* counted.                                                                *)
LEMMA SameEntries ==
    ASSUME NEW e, NEW f, NEW H, NEW Q, \A i \in H \cup Q : e[i] = f[i]
    PROVE  SameCounts(e, f, H, Q)
<1>1. /\ {i \in H : ~e[i].operator} = {i \in H : ~f[i].operator}
      /\ {i \in H : e[i].operator} = {i \in H : f[i].operator}
      /\ {i \in H \cup Q : ~e[i].operator} = {i \in H \cup Q : ~f[i].operator}
  OBVIOUS
<1>2. Busy(e, H \cup Q) = Busy(f, H \cup Q) /\ BusyClasses(e, H) = BusyClasses(f, H)
  BY DEF Busy, BusyClasses
<1>3. \A p : OfPrincipal(e, H, p) = OfPrincipal(f, H, p) /\ OfPrincipal(e, Q, p) = OfPrincipal(f, Q, p)
  BY DEF OfPrincipal
<1>4. \A c : OfClass(e, H, c) = OfClass(f, H, c)
  BY DEF OfClass
<1>5. \A p : Work(e, H, Q, p) = Work(f, H, Q, p)
  BY <1>3 DEF Work
<1> QED BY <1>1, <1>2, <1>4, <1>5, Zenon DEF SameCounts, PrincipalCounts, ClassCounts

Less(e, S, P, p) == [P[p] EXCEPT !.queued = @ - Cardinality(OfPrincipal(e, S, p))]
Released(e, S, P) ==
    [p \in {q \in DOMAIN P : OfPrincipal(e, S, q) = {} \/ Less(e, S, P, q) # Idle} |->
        Less(e, S, P, p)]

(* A place that is not protected may be passed once more.                  *)
LEMMA Unprotected ==
    ASSUME NEW m \in Nat, NEW n \in Nat, ~(m >= n)
    PROVE  m + 1 <= n
OBVIOUS

(* release_queued on a part S of the queue: what is left counts the rest.  *)
LEMMA ReleaseCounts ==
    ASSUME NEW e, NEW H, NEW Q, IsFiniteSet(H), IsFiniteSet(Q), NEW S \in SUBSET Q
    PROVE  Released(e, S, PrincipalCounts(e, H, Q)) = PrincipalCounts(e, H, Q \ S)
<1> DEFINE P == PrincipalCounts(e, H, Q)
           Left(p) == Less(e, S, P, p)
           D == {q \in DOMAIN P : OfPrincipal(e, S, q) = {} \/ Left(q) # Idle}
<1>0. IsFiniteSet(S) /\ IsFiniteSet(Q \ S)
  BY FS_Subset
<1>1. DOMAIN P = Busy(e, H \cup Q) /\ \A p \in DOMAIN P : P[p] = Work(e, H, Q, p)
  BY DEF PrincipalCounts
<1>2. ASSUME NEW p
      PROVE  /\ Cardinality(OfPrincipal(e, Q \ S, p))
                   = Cardinality(OfPrincipal(e, Q, p)) - Cardinality(OfPrincipal(e, S, p))
             /\ OfPrincipal(e, S, p) = {} => OfPrincipal(e, Q \ S, p) = OfPrincipal(e, Q, p)
  <2>1. OfPrincipal(e, Q, p) \ OfPrincipal(e, S, p) = OfPrincipal(e, Q \ S, p)
    BY DEF OfPrincipal
  <2>2. OfPrincipal(e, Q, p) \cap OfPrincipal(e, S, p) = OfPrincipal(e, S, p)
    BY DEF OfPrincipal
  <2>3. IsFiniteSet(OfPrincipal(e, Q, p))
    BY WorkCounts, Zenon
  <2>4. Cardinality(OfPrincipal(e, Q, p) \ OfPrincipal(e, S, p))
          = Cardinality(OfPrincipal(e, Q, p))
              - Cardinality(OfPrincipal(e, Q, p) \cap OfPrincipal(e, S, p))
    BY <2>3, FS_Difference, Zenon
  <2> QED BY <2>1, <2>2, <2>4, Zenon
<1>3. \A p \in DOMAIN P : Left(p) = Work(e, H, Q \ S, p)
  BY <1>1, <1>2 DEF Work, Less
<1>4. \A p : p \in Busy(e, H \cup (Q \ S)) <=> Work(e, H, Q \ S, p) # Idle
  BY <1>0, WorkCounts, Zenon
<1>5. \A p : p \in Busy(e, H \cup Q) <=> Work(e, H, Q, p) # Idle
  BY WorkCounts, Zenon
<1>6. \A p : OfPrincipal(e, S, p) = {} => Work(e, H, Q \ S, p) = Work(e, H, Q, p)
  BY <1>2 DEF Work
<1>7. Busy(e, H \cup (Q \ S)) \subseteq Busy(e, H \cup Q)
  BY DEF Busy
<1> HIDE DEF P, Left
<1>8. D = Busy(e, H \cup (Q \ S))
  BY <1>1, <1>3, <1>4, <1>5, <1>6, <1>7, Zenon
<1>9. \A p \in D : Left(p) = Work(e, H, Q \ S, p)
  BY <1>3
<1> HIDE DEF D
<1>10. [p \in D |-> Left(p)] = PrincipalCounts(e, H, Q \ S)
  BY <1>8, <1>9 DEF PrincipalCounts
<1> QED BY <1>10 DEF Released, D, Left, P

MoreActive(P, p) == Extend(P, p, [CountOf(P, p, Idle) EXCEPT !.active = @ + 1])
MoreQueued(P, p) == Extend(P, p, [CountOf(P, p, Idle) EXCEPT !.queued = @ + 1])
MoreClass(C, c) == Extend(C, c, CountOf(C, c, 0) + 1)
FewerActive(P, p) ==
    LET left == [P[p] EXCEPT !.active = @ - 1]
    IN  IF left = Idle THEN Without(P, p) ELSE [P EXCEPT ![p] = left]
FewerClass(C, c) == IF C[c] = 1 THEN Without(C, c) ELSE [C EXCEPT ![c] = @ - 1]

(* One more lease of i counts one more for its principal and its class.    *)
LEMMA HolderCounts ==
    ASSUME NEW e, NEW H, NEW Q, IsFiniteSet(H), IsFiniteSet(Q),
           NEW i, i \notin H, ~e[i].operator
    PROVE  /\ MoreActive(PrincipalCounts(e, H, Q), e[i].principal)
                = PrincipalCounts(e, H \cup {i}, Q)
           /\ MoreClass(ClassCounts(e, H), e[i].class) = ClassCounts(e, H \cup {i})
<1> DEFINE r == e[i].principal
           c == e[i].class
           more == [CountOf(PrincipalCounts(e, H, Q), r, Idle) EXCEPT !.active = @ + 1]
<1>1. OfPrincipal(e, H \cup {i}, r) = OfPrincipal(e, H, r) \cup {i} /\ i \notin OfPrincipal(e, H, r)
  BY DEF OfPrincipal
<1>2. \A p : p # r => OfPrincipal(e, H \cup {i}, p) = OfPrincipal(e, H, p)
  BY DEF OfPrincipal
<1>3. Cardinality(OfPrincipal(e, H \cup {i}, r)) = Cardinality(OfPrincipal(e, H, r)) + 1
  BY <1>1, WorkCounts, FS_AddElement, Zenon
<1>4. more = Work(e, H \cup {i}, Q, r)
  <2>1. more = [Work(e, H, Q, r) EXCEPT !.active = @ + 1]
    BY WorkCounts, Zenon
  <2> HIDE DEF more, r
  <2> QED BY <2>1, <1>3 DEF Work
<1>5. Busy(e, (H \cup {i}) \cup Q) = Busy(e, H \cup Q) \cup {r}
  BY DEF Busy
<1>6. \A p : p # r => Work(e, H \cup {i}, Q, p) = Work(e, H, Q, p)
  BY <1>2 DEF Work
<1>7. Extend(PrincipalCounts(e, H, Q), r, more) = PrincipalCounts(e, H \cup {i}, Q)
  <2> HIDE DEF r, more
  <2> QED BY <1>4, <1>5, <1>6 DEF Extend, PrincipalCounts
<1>8. OfClass(e, H \cup {i}, c) = OfClass(e, H, c) \cup {i} /\ i \notin OfClass(e, H, c)
  BY DEF OfClass
<1>9. \A d : d # c => OfClass(e, H \cup {i}, d) = OfClass(e, H, d)
  BY DEF OfClass
<1>10. Cardinality(OfClass(e, H \cup {i}, c)) = CountOf(ClassCounts(e, H), c, 0) + 1
  BY <1>8, ClassWork, FS_AddElement, ZenonT(60)
<1>11. BusyClasses(e, H \cup {i}) = BusyClasses(e, H) \cup {c}
  BY DEF BusyClasses
<1>12. Extend(ClassCounts(e, H), c, CountOf(ClassCounts(e, H), c, 0) + 1)
         = ClassCounts(e, H \cup {i})
  <2> DEFINE n == CountOf(ClassCounts(e, H), c, 0) + 1
  <2> HIDE DEF c, n
  <2>1. Cardinality(OfClass(e, H \cup {i}, c)) = n
    BY <1>10 DEF n
  <2>2. Extend(ClassCounts(e, H), c, n) = ClassCounts(e, H \cup {i})
    BY <2>1, <1>9, <1>11 DEF Extend, ClassCounts
  <2> QED BY <2>2 DEF n
<1> QED BY <1>7, <1>12 DEF MoreActive, MoreClass

(* One more entry i of the queue counts one more for its principal.        *)
LEMMA QueueCounts ==
    ASSUME NEW e, NEW H, NEW Q, IsFiniteSet(H), IsFiniteSet(Q),
           NEW i, i \notin Q, ~e[i].operator
    PROVE  MoreQueued(PrincipalCounts(e, H, Q), e[i].principal)
             = PrincipalCounts(e, H, Q \cup {i})
<1> DEFINE r == e[i].principal
           more == [CountOf(PrincipalCounts(e, H, Q), r, Idle) EXCEPT !.queued = @ + 1]
<1>1. OfPrincipal(e, Q \cup {i}, r) = OfPrincipal(e, Q, r) \cup {i} /\ i \notin OfPrincipal(e, Q, r)
  BY DEF OfPrincipal
<1>2. \A p : p # r => OfPrincipal(e, Q \cup {i}, p) = OfPrincipal(e, Q, p)
  BY DEF OfPrincipal
<1>3. Cardinality(OfPrincipal(e, Q \cup {i}, r)) = Cardinality(OfPrincipal(e, Q, r)) + 1
  BY <1>1, WorkCounts, FS_AddElement, Zenon
<1>4. more = Work(e, H, Q \cup {i}, r)
  <2>1. more = [Work(e, H, Q, r) EXCEPT !.queued = @ + 1]
    BY WorkCounts, Zenon
  <2> HIDE DEF more, r
  <2> QED BY <2>1, <1>3 DEF Work
<1>5. Busy(e, H \cup (Q \cup {i})) = Busy(e, H \cup Q) \cup {r}
  BY DEF Busy
<1>6. \A p : p # r => Work(e, H, Q \cup {i}, p) = Work(e, H, Q, p)
  BY <1>2 DEF Work
<1> HIDE DEF r, more
<1>7. Extend(PrincipalCounts(e, H, Q), r, more) = PrincipalCounts(e, H, Q \cup {i})
  BY <1>4, <1>5, <1>6 DEF Extend, PrincipalCounts
<1> QED BY <1>7 DEF r, more, MoreQueued

(* LeaseInner::drop of the lease of i: what is left counts the others.     *)
LEMMA DropCounts ==
    ASSUME NEW e, NEW H, NEW Q, IsFiniteSet(H), IsFiniteSet(Q),
           NEW i \in H, ~e[i].operator
    PROVE  /\ FewerActive(PrincipalCounts(e, H, Q), e[i].principal)
                = PrincipalCounts(e, H \ {i}, Q)
           /\ FewerClass(ClassCounts(e, H), e[i].class) = ClassCounts(e, H \ {i})
<1> DEFINE P == PrincipalCounts(e, H, Q)
           r == e[i].principal
           left == [P[r] EXCEPT !.active = @ - 1]
           C == ClassCounts(e, H)
           c == e[i].class
           G == H \ {i}
<1>0. IsFiniteSet(G)
  BY FS_Subset
<1>1. OfPrincipal(e, G, r) = OfPrincipal(e, H, r) \ {i} /\ i \in OfPrincipal(e, H, r)
  BY DEF OfPrincipal
<1>2. \A p : p # r => OfPrincipal(e, G, p) = OfPrincipal(e, H, p)
  BY DEF OfPrincipal
<1>3. Cardinality(OfPrincipal(e, G, r)) = Cardinality(OfPrincipal(e, H, r)) - 1
  <2>1. IsFiniteSet(OfPrincipal(e, H, r))
    BY WorkCounts, Zenon
  <2> QED BY <1>1, <2>1, FS_RemoveElement, Zenon
<1>4. r \in Busy(e, H \cup Q) /\ P[r] = Work(e, H, Q, r)
  BY DEF Busy, PrincipalCounts
<1>5. left = Work(e, G, Q, r)
  <2>1. left = [Work(e, H, Q, r) EXCEPT !.active = @ - 1]
    BY <1>4, Zenon
  <2> HIDE DEF left, r, G
  <2> QED BY <2>1, <1>3 DEF Work
<1>6. \A p : p # r => Work(e, G, Q, p) = Work(e, H, Q, p)
  BY <1>2 DEF Work
<1>7. \A p : p \in Busy(e, G \cup Q) <=> Work(e, G, Q, p) # Idle
  BY <1>0, WorkCounts, Zenon
<1>8. \A p : p \in Busy(e, H \cup Q) <=> Work(e, H, Q, p) # Idle
  BY WorkCounts, Zenon
<1>9. /\ DOMAIN P = Busy(e, H \cup Q)
      /\ \A p \in DOMAIN P : P[p] = Work(e, H, Q, p)
      /\ P = [p \in DOMAIN P |-> P[p]]
  BY DEF PrincipalCounts
<1>10. OfClass(e, G, c) = OfClass(e, H, c) \ {i} /\ i \in OfClass(e, H, c)
  BY DEF OfClass
<1>11. \A d : d # c => OfClass(e, G, d) = OfClass(e, H, d)
  BY DEF OfClass
<1>12. Cardinality(OfClass(e, G, c)) = Cardinality(OfClass(e, H, c)) - 1
  <2>1. IsFiniteSet(OfClass(e, H, c))
    BY ClassWork, Zenon
  <2> QED BY <1>10, <2>1, FS_RemoveElement, Zenon
<1>13. /\ c \in DOMAIN C /\ DOMAIN C = BusyClasses(e, H)
       /\ \A d \in DOMAIN C : C[d] = Cardinality(OfClass(e, H, d))
       /\ C = [d \in DOMAIN C |-> C[d]]
  BY DEF BusyClasses, ClassCounts
<1>14. \A d : /\ d \in BusyClasses(e, G) <=> Cardinality(OfClass(e, G, d)) # 0
              /\ d \in BusyClasses(e, H) <=> Cardinality(OfClass(e, H, d)) # 0
              /\ Cardinality(OfClass(e, H, d)) \in Nat
  BY <1>0, ClassWork, Zenon
<1> HIDE DEF P, r, left, C, c, G
<1>15. (IF left = Idle THEN Without(P, r) ELSE [P EXCEPT ![r] = left]) = PrincipalCounts(e, G, Q)
  <2>1. CASE left = Idle
    <3>1. Busy(e, G \cup Q) = DOMAIN P \ {r}
      BY <2>1, <1>5, <1>6, <1>7, <1>8, <1>9
    <3> QED BY <2>1, <3>1, <1>6, <1>9 DEF Without, PrincipalCounts
  <2>2. CASE left # Idle
    <3>1. Busy(e, G \cup Q) = DOMAIN P
      BY <2>2, <1>4, <1>5, <1>6, <1>7, <1>8, <1>9
    <3>2. [P EXCEPT ![r] = left] = [p \in DOMAIN P |-> Work(e, G, Q, p)]
      BY <1>4, <1>5, <1>6, <1>9, Zenon
    <3> QED BY <2>2, <3>1, <3>2, Zenon DEF PrincipalCounts
  <2> QED BY <2>1, <2>2
<1>16. (IF C[c] = 1 THEN Without(C, c) ELSE [C EXCEPT ![c] = @ - 1]) = ClassCounts(e, G)
  <2>1. CASE C[c] = 1
    <3>1. BusyClasses(e, G) = DOMAIN C \ {c}
      BY <2>1, <1>11, <1>12, <1>13, <1>14
    <3> QED BY <2>1, <3>1, <1>11, <1>13 DEF Without, ClassCounts
  <2>2. CASE C[c] # 1
    <3>1. BusyClasses(e, G) = DOMAIN C
      BY <2>2, <1>11, <1>12, <1>13, <1>14
    <3>2. [C EXCEPT ![c] = @ - 1] = [d \in DOMAIN C |-> Cardinality(OfClass(e, G, d))]
      BY <1>11, <1>12, <1>13, Zenon
    <3> QED BY <2>2, <3>1, <3>2 DEF ClassCounts
  <2> QED BY <2>1, <2>2
<1>17. FewerActive(P, r) = PrincipalCounts(e, G, Q)
  BY <1>15, Zenon DEF FewerActive, left
<1>18. FewerClass(C, c) = ClassCounts(e, G)
  BY <1>16, Zenon DEF FewerClass
<1> QED BY <1>17, <1>18 DEF P, r, C, c, G

-----------------------------------------------------------------------------
(* Limits.  The entries S leave the entry x room under four limits.        *)

Below(e, x, S, operator, all, class, principal) ==
    IF x.operator THEN Cardinality({j \in S : e[j].operator}) < operator
    ELSE /\ Cardinality({j \in S : ~e[j].operator}) < all
         /\ Cardinality(OfClass(e, S, x.class)) < class
         /\ principal # <<>> => Cardinality(OfPrincipal(e, S, x.principal)) < principal[1]
Limit(p, field) == IF p.principal = <<>> THEN <<>> ELSE <<p.principal[1][field]>>
LeaseRoom(e, x, S) ==
    Below(e, x, S, x.policy.operator_max_active, x.policy.max_active,
          x.policy.classes[x.class].max_active, Limit(x.policy, "max_active"))
PlaceRoom(e, x, S) ==
    Below(e, x, S, x.policy.operator_max_queued, x.policy.max_queued,
          x.policy.classes[x.class].max_queued, Limit(x.policy, "max_queued"))

(* An entry as Entry builds it: of a valid policy that has its class.      *)
Sound(x) ==
    /\ x \in EntryType
    /\ Validate(x.policy)
    /\ x.class \in DOMAIN x.policy.classes
    /\ ~x.operator => x.principal \in Principals
    /\ x.operator => x.bypass_limit = 0

(* Fewer entries leave room as well.                                       *)
LEMMA FewerBelow ==
    ASSUME NEW e, NEW f, NEW x, NEW S, IsFiniteSet(S), NEW T \in SUBSET S,
           \A j \in T : e[j] = f[j],
           NEW operator \in Nat, NEW all \in Nat, NEW class \in Nat,
           NEW principal, principal # <<>> => principal[1] \in Nat,
           Below(e, x, S, operator, all, class, principal)
    PROVE  Below(f, x, T, operator, all, class, principal)
<1>1. /\ {j \in T : f[j].operator} \subseteq {j \in S : e[j].operator}
      /\ {j \in T : ~f[j].operator} \subseteq {j \in S : ~e[j].operator}
      /\ OfClass(f, T, x.class) \subseteq OfClass(e, S, x.class)
      /\ OfPrincipal(f, T, x.principal) \subseteq OfPrincipal(e, S, x.principal)
  BY DEF OfClass, OfPrincipal
<1>2. /\ IsFiniteSet({j \in S : e[j].operator}) /\ IsFiniteSet({j \in S : ~e[j].operator})
      /\ IsFiniteSet(OfClass(e, S, x.class)) /\ IsFiniteSet(OfPrincipal(e, S, x.principal))
  BY FS_Subset DEF OfClass, OfPrincipal
<1>3. ASSUME NEW A, NEW B \in SUBSET A, IsFiniteSet(A)
      PROVE  Cardinality(B) \in Nat /\ Cardinality(A) \in Nat /\ Cardinality(B) <= Cardinality(A)
  BY <1>3, FS_Subset, FS_CardinalityType
<1>4. /\ Cardinality({j \in T : f[j].operator}) \in Nat
      /\ Cardinality({j \in S : e[j].operator}) \in Nat
      /\ Cardinality({j \in T : f[j].operator}) <= Cardinality({j \in S : e[j].operator})
  BY <1>1, <1>2, <1>3
<1>5. /\ Cardinality({j \in T : ~f[j].operator}) \in Nat
      /\ Cardinality({j \in S : ~e[j].operator}) \in Nat
      /\ Cardinality({j \in T : ~f[j].operator}) <= Cardinality({j \in S : ~e[j].operator})
  BY <1>1, <1>2, <1>3
<1>6. /\ Cardinality(OfClass(f, T, x.class)) \in Nat
      /\ Cardinality(OfClass(e, S, x.class)) \in Nat
      /\ Cardinality(OfClass(f, T, x.class)) <= Cardinality(OfClass(e, S, x.class))
  BY <1>1, <1>2, <1>3, Zenon
<1>7. /\ Cardinality(OfPrincipal(f, T, x.principal)) \in Nat
      /\ Cardinality(OfPrincipal(e, S, x.principal)) \in Nat
      /\ Cardinality(OfPrincipal(f, T, x.principal)) <= Cardinality(OfPrincipal(e, S, x.principal))
  BY <1>1, <1>2, <1>3, Zenon
<1> QED BY <1>4, <1>5, <1>6, <1>7, SMTT(30) DEF Below

(* The limits of a sound entry are numbers.                                *)
LEMMA SoundLimits ==
    ASSUME NEW x, Sound(x), NEW field \in {"max_active", "max_queued"}
    PROVE  /\ x.policy.operator_max_active \in Nat /\ x.policy.operator_max_queued \in Nat
           /\ x.policy.max_active \in Nat /\ x.policy.max_queued \in Nat
           /\ x.policy.classes[x.class].max_active \in Nat
           /\ x.policy.classes[x.class].max_queued \in Nat
           /\ Limit(x.policy, field) # <<>> =>
                /\ Limit(x.policy, field)[1] \in Nat
                /\ Limit(x.policy, field)[1] = x.policy.principal[1][field]
                /\ x.policy.principal # <<>>
<1>1. IsPolicy(x.policy)
  BY PolicyAssumption DEF Sound, EntryType
<1>2. x.policy.classes[x.class] \in Limits
  BY <1>1 DEF IsPolicy, Sound
<1>3. x.policy.principal # <<>> => x.policy.principal[1] \in Limits
  BY <1>1 DEF IsPolicy
<1>4. x.policy.principal # <<>> => x.policy.principal[1][field] \in Nat
  BY <1>3 DEF Limits
<1>5. Limit(x.policy, field) # <<>> =>
                /\ Limit(x.policy, field)[1] = x.policy.principal[1][field]
                /\ x.policy.principal # <<>>
  BY DEF Limit
<1> QED BY <1>1, <1>2, <1>4, <1>5, Zenon DEF IsPolicy, Limits

(* Room for a lease, and room in the queue, stay when others go.           *)
LEMMA FewerRoom ==
    ASSUME NEW e, NEW f, NEW x, Sound(x), NEW S, IsFiniteSet(S), NEW T \in SUBSET S,
           \A j \in T : e[j] = f[j]
    PROVE  /\ LeaseRoom(e, x, S) => LeaseRoom(f, x, T)
           /\ PlaceRoom(e, x, S) => PlaceRoom(f, x, T)
<1>1. LeaseRoom(e, x, S) => LeaseRoom(f, x, T)
  BY FewerBelow, SoundLimits, SMTT(30) DEF LeaseRoom
<1>2. PlaceRoom(e, x, S) => PlaceRoom(f, x, T)
  BY FewerBelow, SoundLimits DEF PlaceRoom
<1> QED BY <1>1, <1>2, ZenonT(30)

-----------------------------------------------------------------------------
(* The inductive invariant.  The counters are exact because an entry is in *)
(* the queue only while its thread waits, so that no ticket and no purge   *)
(* releases it twice; admissions leave room because the counters are       *)
(* exact; and what a waiter was passed by is what its entry has counted.   *)

Types ==
    /\ startup \in Startups
    /\ policy \in Candidates \cup Startups
    /\ next_id \in Nat
    /\ Attempts \subseteq 0 .. next_id - 1
    /\ fired \subseteq Attempts
    /\ phase \in [Attempts -> Phases]
    /\ entry \in [Attempts -> EntryType]
    /\ bypasses \in [Attempts -> Nat]
    /\ overtaken \in [Attempts -> Nat]
    /\ ahead \in [Attempts -> SUBSET Attempts]

Counted ==
    /\ active = Cardinality({i \in Holders : ~entry[i].operator})
    /\ operator_active = Cardinality({i \in Holders : entry[i].operator})
    /\ classes = ClassCounts(entry, Holders)
    /\ principals = PrincipalCounts(entry, Holders, queue)

Roomy ==
    /\ \A i \in Holders : LeaseRoom(entry, entry[i], ahead[i])
    /\ \A i \in queue : PlaceRoom(entry, entry[i], {j \in queue : j < i})

Aged ==
    \A i \in queue : overtaken[i] = bypasses[i] /\ bypasses[i] <= entry[i].bypass_limit

Shape ==
    /\ Types
    /\ Validate(policy)
    /\ \A i \in Attempts : Sound(entry[i])
    /\ queue \subseteq Waiting
    /\ Waiting \ queue \subseteq fired

WorkloadInv == Shape /\ Counted /\ Roomy /\ Aged

(* There are finitely many attempts, and a waiter has no lease.            *)
LEMMA FiniteAttempts ==
    ASSUME Shape
    PROVE  /\ IsFiniteSet(Attempts) /\ IsFiniteSet(Holders) /\ IsFiniteSet(queue)
           /\ Attempts \subseteq Nat /\ Holders \subseteq Attempts
           /\ queue \subseteq Attempts /\ queue \cap Holders = {}
           /\ next_id \notin Attempts
<1>1. IsFiniteSet(0 .. next_id - 1)
  BY FS_Interval DEF Shape, Types
<1>2. Attempts \subseteq 0 .. next_id - 1 /\ next_id \in Nat
  BY DEF Shape, Types
<1>3. queue \subseteq Attempts /\ Holders \subseteq Attempts /\ queue \cap Holders = {}
  BY DEF Shape, Waiting, Holders
<1>4. IsFiniteSet(Attempts)
  BY <1>1, <1>2, FS_Subset, Zenon
<1>5. IsFiniteSet(Holders) /\ IsFiniteSet(queue)
  BY <1>3, <1>4, FS_Subset, Zenon
<1> QED BY <1>2, <1>3, <1>4, <1>5

(* first_eligible returns an eligible entry, if there is one, and passes   *)
(* no older eligible entry that is protected, and no older operator.       *)
LEMMA FirstEligible ==
    ASSUME Shape, NEW q \in SUBSET queue, NEW operator \in BOOLEAN
    PROVE  /\ \A m \in first_eligible(q, operator) :
                /\ m \in Eligible(q, operator)
                /\ \A i \in Eligible(q, operator) : i < m => ~operator /\ ~Protected(i)
           /\ first_eligible(q, operator) = {} => Eligible(q, operator) = {}
<1> DEFINE E == Eligible(q, operator)
           levels == {entry[i].priority : i \in E}
           protected == {entry[i].priority : i \in {j \in E : Protected(j)}}
           head(level) == Min(AtLevel(E, level))
<1>1. E \subseteq Nat /\ E \subseteq Attempts
  BY FiniteAttempts DEF Eligible
<1>2. \A i \in E : entry[i].priority \in 0..3
  BY <1>1 DEF Shape, Types, EntryType
<1>3. first_eligible(q, operator) =
        IF E = {} THEN {}
        ELSE IF operator \/ Protected(Min(E)) THEN {Min(E)}
        ELSE IF protected # {} THEN {Min({head(level) : level \in protected})}
        ELSE {head(Max(levels))}
  BY Zenon DEF first_eligible
<1>4. CASE E = {}
  BY <1>3, <1>4
<1>5. ASSUME E # {}
      PROVE  Min(E) \in E /\ \A i \in E : Min(E) <= i
  BY <1>1, <1>5, MinId
<1>6. ASSUME NEW level \in levels
      PROVE  /\ head(level) \in E /\ head(level) \in Nat
             /\ \A i \in E : entry[i].priority = level => head(level) <= i
  <2>1. AtLevel(E, level) \in SUBSET Nat /\ AtLevel(E, level) # {}
    BY <1>1 DEF AtLevel
  <2>2. head(level) \in AtLevel(E, level) /\ \A i \in AtLevel(E, level) : head(level) <= i
    BY <2>1, MinId
  <2> HIDE DEF head, E
  <2> QED BY <1>1, <2>2, Zenon DEF AtLevel
<1>7. protected \subseteq levels
  OBVIOUS
<1>8. ASSUME protected # {}
      PROVE  LET m == Min({head(level) : level \in protected})
             IN  m \in E /\ \A i \in E : Protected(i) => m <= i
  <2> DEFINE heads == {head(level) : level \in protected}
  <2> HIDE DEF head, E
  <2>1. heads \in SUBSET Nat /\ heads # {} /\ heads \subseteq E
    BY <1>6, <1>7, <1>8
  <2>2. Min(heads) \in heads /\ \A h \in heads : Min(heads) <= h
    BY <2>1, MinId, Zenon
  <2>3. ASSUME NEW i \in E, Protected(i) PROVE Min(heads) <= i
    <3>1. entry[i].priority \in protected /\ entry[i].priority \in levels
      BY <2>3
    <3>2. head(entry[i].priority) \in heads /\ head(entry[i].priority) <= i
      BY <1>6, <3>1
    <3>3. Min(heads) <= head(entry[i].priority)
      BY <2>2, <3>2
    <3> HIDE DEF heads
    <3>4. Min(heads) \in Nat /\ head(entry[i].priority) \in Nat /\ i \in Nat
      BY <1>1, <2>1, <2>2, <3>2, Zenon
    <3> QED BY <3>2, <3>3, <3>4
  <2> QED BY <2>1, <2>2, <2>3
<1>9. ASSUME E # {} PROVE Max(levels) \in levels
  <2>1. levels # {} /\ levels \subseteq 0..3
    BY <1>2, <1>9
  <2>2. \E x \in levels : \A y \in levels : x >= y
    <3> HIDE DEF levels
    <3>1. CASE 3 \in levels BY <2>1, <3>1
    <3>2. CASE 3 \notin levels /\ 2 \in levels BY <2>1, <3>2
    <3>3. CASE 3 \notin levels /\ 2 \notin levels /\ 1 \in levels BY <2>1, <3>3
    <3>4. CASE 3 \notin levels /\ 2 \notin levels /\ 1 \notin levels
      <4>1. \A y \in levels : y = 0
        BY <2>1, <3>4
      <4>2. 0 \in levels
        BY <2>1, <4>1, Zenon
      <4> QED BY <4>1, <4>2
    <3> QED BY <3>1, <3>2, <3>3, <3>4
  <2> HIDE DEF levels
  <2> QED BY <2>2 DEF Max
<1>10. CASE E # {} /\ (operator \/ Protected(Min(E)))
  <2>1. first_eligible(q, operator) = {Min(E)}
    BY <1>3, <1>10
  <2> HIDE DEF E
  <2>2. \A i \in E : ~ (i < Min(E))
    <3>1. Min(E) \in E /\ \A i \in E : Min(E) <= i
      BY <1>5, <1>10
    <3>2. Min(E) \in Nat /\ \A i \in E : i \in Nat
      BY <1>1, <3>1, Zenon
    <3> QED BY <3>1, <3>2
  <2> QED BY <1>5, <1>10, <2>1, <2>2, Zenon DEF E
<1>11. CASE E # {} /\ ~ (operator \/ Protected(Min(E))) /\ protected # {}
  <2> DEFINE m == Min({head(level) : level \in protected})
  <2>1. first_eligible(q, operator) = {m}
    BY <1>3, <1>11
  <2>2. m \in E /\ \A i \in E : Protected(i) => m <= i
    BY <1>8, <1>11
  <2> HIDE DEF E, m, protected
  <2>3. \A i \in E : i < m => ~Protected(i)
    BY <1>1, <2>2, SMTT(30)
  <2> QED BY <1>11, <2>1, <2>2, <2>3, Zenon DEF E
<1>12. CASE E # {} /\ ~ (operator \/ Protected(Min(E))) /\ protected = {}
  <2>1. first_eligible(q, operator) = {head(Max(levels))}
    BY <1>3, <1>12, Zenon
  <2>2. head(Max(levels)) \in E
    BY <1>6, <1>9, <1>12
  <2>3. \A i \in E : ~Protected(i)
    BY <1>12
  <2> HIDE DEF head, levels
  <2> QED BY <1>12, <2>1, <2>2, <2>3
<1> QED BY <1>4, <1>10, <1>11, <1>12, SMTT(30)

(* release_queued counts the rest of the queue.                            *)
LEMMA ReleaseQueued ==
    ASSUME Shape, Counted, NEW S \in SUBSET queue
    PROVE  release_queued(S) = PrincipalCounts(entry, Holders, queue \ S)
<1>1. principals = PrincipalCounts(entry, Holders, queue)
  BY DEF Counted
<1>2. release_queued(S) = Released(entry, S, principals)
  BY DEF release_queued, Released, Less, OfPrincipal, IsData
<1>3. IsFiniteSet(Holders) /\ IsFiniteSet(queue)
  BY FiniteAttempts
<1> QED BY <1>1, <1>2, <1>3, ReleaseCounts

(* What is available to an entry is room beside the leases that are held.  *)
LEMMA AvailableRoom ==
    ASSUME Shape, Counted, NEW x, Sound(x), available(x)
    PROVE  LeaseRoom(entry, x, Holders)
<1>1. IsFiniteSet(Holders) /\ IsFiniteSet(queue)
  BY FiniteAttempts, Zenon
<1>2. ClassCount(x.class) = Cardinality(OfClass(entry, Holders, x.class))
  BY <1>1, ClassWork DEF Counted, ClassCount
<1>3. Occupancy(x.principal).active = Cardinality(OfPrincipal(entry, Holders, x.principal))
  <2>1. CountOf(PrincipalCounts(entry, Holders, queue), x.principal, Idle)
          = Work(entry, Holders, queue, x.principal)
    BY <1>1, WorkCounts, Zenon
  <2>2. Occupancy(x.principal) = Work(entry, Holders, queue, x.principal)
    BY <2>1 DEF Counted, Occupancy
  <2> QED BY <2>2 DEF Work
<1>4. x.policy.principal = <<>> <=> Limit(x.policy, "max_active") = <<>>
  BY DEF Limit
<1>5. Limit(x.policy, "max_active") # <<>> =>
        Limit(x.policy, "max_active")[1] = x.policy.principal[1].max_active
  BY Zenon DEF Limit
<1>6. CASE x.operator
  BY <1>6, ZenonT(30) DEF available, LeaseRoom, Below, Counted
<1>7. CASE ~x.operator
  BY <1>2, <1>3, <1>4, <1>5, <1>7 DEF available, LeaseRoom, Below, Counted
<1> QED BY <1>6, <1>7

(* check_queue_capacity lets an entry pass that has room behind the queue. *)
LEMMA QueueRoom ==
    ASSUME Shape, Counted, NEW x, Sound(x), ~QueueFull(queue \ Purged, x)
    PROVE  PlaceRoom(entry, x, queue \ Purged)
<1> DEFINE q == queue \ Purged
<1>0. Purged \in SUBSET queue
  BY DEF Purged
<1>1. IsFiniteSet(Holders) /\ IsFiniteSet(q)
  BY FiniteAttempts, FS_Subset
<1>2. CountOf(release_queued(Purged), x.principal, Idle).queued
        = Cardinality(OfPrincipal(entry, q, x.principal))
  <2>1. release_queued(Purged) = PrincipalCounts(entry, Holders, q)
    BY <1>0, ReleaseQueued
  <2>2. CountOf(PrincipalCounts(entry, Holders, q), x.principal, Idle)
          = Work(entry, Holders, q, x.principal)
    BY <1>1, WorkCounts, Zenon
  <2> HIDE DEF q
  <2> QED BY <2>1, <2>2 DEF Work
<1>3. x.policy.principal = <<>> <=> Limit(x.policy, "max_queued") = <<>>
  BY DEF Limit
<1>4. Limit(x.policy, "max_queued") # <<>> =>
        Limit(x.policy, "max_queued")[1] = x.policy.principal[1].max_queued
  BY DEF Limit
<1>5. \A S \in SUBSET q : Cardinality(S) \in Nat
  BY <1>1, FS_Subset, FS_CardinalityType
<1>6. /\ Cardinality({j \in q : entry[j].operator}) \in Nat
      /\ Cardinality({j \in q : ~entry[j].operator}) \in Nat
      /\ Cardinality(OfClass(entry, q, x.class)) \in Nat
      /\ Cardinality(OfPrincipal(entry, q, x.principal)) \in Nat
  BY <1>5, Zenon DEF OfClass, OfPrincipal
<1>7. /\ x.policy.operator_max_queued \in Nat /\ x.policy.max_queued \in Nat
      /\ x.policy.classes[x.class].max_queued \in Nat
      /\ Limit(x.policy, "max_queued") # <<>> => Limit(x.policy, "max_queued")[1] \in Nat
  BY SoundLimits
<1> HIDE DEF q
<1>8. ~QueueFull(q, x)
  BY DEF q
<1>9. CASE x.operator
  <2>1. ~ (Cardinality({j \in q : entry[j].operator}) >= x.policy.operator_max_queued)
    BY <1>8, <1>9, Zenon DEF QueueFull
  <2>2. Cardinality({j \in q : entry[j].operator}) < x.policy.operator_max_queued
    BY <1>6, <1>7, <2>1, SMTT(30)
  <2> QED BY <1>9, <2>2, Zenon DEF PlaceRoom, Below, q
<1>10. CASE ~x.operator
  <2>1. OfClass(entry, q, x.class) = {i \in q : IsData(i) /\ entry[i].class = x.class}
    BY DEF OfClass, IsData
  <2>2. {i \in q : IsData(i)} = {j \in q : ~entry[j].operator}
    BY DEF IsData
  <2>3. /\ ~ (Cardinality({j \in q : ~entry[j].operator}) >= x.policy.max_queued)
        /\ ~ (Cardinality(OfClass(entry, q, x.class)) >= x.policy.classes[x.class].max_queued)
        /\ x.policy.principal # <<>> =>
             ~ (Cardinality(OfPrincipal(entry, q, x.principal)) >= x.policy.principal[1].max_queued)
    BY <1>2, <1>8, <1>10, <2>1, <2>2, ZenonT(60) DEF QueueFull
  <2>4. /\ Cardinality({j \in q : ~entry[j].operator}) < x.policy.max_queued
        /\ Cardinality(OfClass(entry, q, x.class)) < x.policy.classes[x.class].max_queued
    BY <1>6, <1>7, <2>3, SMTT(30)
  <2>5. Limit(x.policy, "max_queued") # <<>> =>
          Cardinality(OfPrincipal(entry, q, x.principal)) < Limit(x.policy, "max_queued")[1]
    BY <1>3, <1>4, <1>6, <1>7, <2>3
  <2> QED BY <1>10, <2>4, <2>5, Zenon DEF PlaceRoom, Below, q
<1> QED BY <1>9, <1>10 DEF q

(* Taking entries off the queue, by a purge or a poll, keeps the counters  *)
(* and the room.                                                           *)
LEMMA PurgeKeeps ==
    ASSUME WorkloadInv, NEW S \in SUBSET queue,
           queue' = queue \ S, principals' = release_queued(S), Holders' = Holders,
           UNCHANGED <<active, operator_active, classes, entry, bypasses, ahead, overtaken>>
    PROVE  Counted' /\ Roomy' /\ Aged'
<1> USE DEF WorkloadInv
<1>1. Counted'
  <2>1. principals' = PrincipalCounts(entry, Holders, queue \ S)
    BY ReleaseQueued
  <2> QED BY <2>1 DEF Counted
<1>2. Roomy'
  <2>1. \A i \in Holders' : LeaseRoom(entry, entry[i], ahead[i])'
    BY DEF Roomy
  <2>2. ASSUME NEW i \in queue'
        PROVE  PlaceRoom(entry, entry[i], {j \in queue \ S : j < i})
    <3>1. PlaceRoom(entry, entry[i], {j \in queue : j < i})
      BY DEF Roomy
    <3>2. Sound(entry[i])
      BY FiniteAttempts DEF Shape
    <3>3. IsFiniteSet({j \in queue : j < i})
      BY FiniteAttempts, FS_Subset
    <3>4. {j \in queue \ S : j < i} \in SUBSET {j \in queue : j < i}
      OBVIOUS
    <3> QED BY <3>1, <3>2, <3>3, <3>4, FewerRoom, Zenon
  <2> QED BY <2>1, <2>2 DEF Roomy
<1>3. Aged'
  BY DEF Aged
<1> QED BY <1>1, <1>2, <1>3, ZenonT(30)

(* activate counts the lease of id, which has room, and every admission    *)
(* that passes a waiter is counted by its entry.                           *)
LEMMA ActivateKeeps ==
    ASSUME WorkloadInv, NEW id \in Nat, NEW x, Sound(x), NEW q \in SUBSET queue,
           id \notin Holders, id \notin q, available(x),
           activate(id, x, q, PrincipalCounts(entry, Holders, q)),
           queue' = q, Holders' = Holders \cup {id}, entry'[id] = x,
           \A j \in Attempts : entry'[j] = entry[j],
           \A i \in Passed(q, id, x.operator) : ~x.operator /\ ~Protected(i)
    PROVE  /\ Counted' /\ Roomy' /\ Aged'
           /\ bypasses' \in [Attempts \cup {id} -> Nat]
           /\ overtaken' \in [Attempts \cup {id} -> Nat]
           /\ ahead' \in [Attempts \cup {id} -> SUBSET (Attempts \cup {id})]
<1> USE DEF WorkloadInv
<1>0. /\ IsFiniteSet(Attempts) /\ IsFiniteSet(Holders) /\ IsFiniteSet(queue)
      /\ IsFiniteSet(q) /\ Attempts \subseteq Nat /\ Holders \subseteq Attempts
      /\ queue \subseteq Attempts
  BY FiniteAttempts, FS_Subset, ZenonT(30)
<1>1. /\ bypasses \in [Attempts -> Nat] /\ overtaken \in [Attempts -> Nat]
      /\ ahead \in [Attempts -> SUBSET Attempts]
      /\ x.operator \in BOOLEAN
  BY DEF Shape, Types, Sound, EntryType
<1>2. /\ bypasses' =
            [i \in Attempts \cup {id} |->
               IF i \notin Attempts THEN 0
               ELSE IF ~x.operator /\ i \in Passed(q, id, FALSE) /\ ~Protected(i)
                    THEN bypasses[i] + 1 ELSE bypasses[i]]
      /\ overtaken' =
            [i \in Attempts \cup {id} |->
               IF i \notin Attempts THEN 0
               ELSE IF i \in Passed(q, id, x.operator) THEN overtaken[i] + 1 ELSE overtaken[i]]
      /\ ahead' = Extend(ahead, id, Holders)
  BY DEF activate
<1>3. /\ bypasses' \in [Attempts \cup {id} -> Nat]
      /\ overtaken' \in [Attempts \cup {id} -> Nat]
  <2>1. \A i \in Attempts : /\ bypasses[i] \in Nat /\ bypasses[i] + 1 \in Nat
                            /\ overtaken[i] \in Nat /\ overtaken[i] + 1 \in Nat
    BY <1>1
  <2>2. bypasses' \in [Attempts \cup {id} -> Nat]
    BY <1>2, <2>1, Zenon
  <2>3. overtaken' \in [Attempts \cup {id} -> Nat]
    BY <1>2, <2>1, Zenon
  <2> QED BY <2>2, <2>3, Zenon
<1>4. ahead' \in [Attempts \cup {id} -> SUBSET (Attempts \cup {id})]
  BY <1>0, <1>1, <1>2, Zenon DEF Extend
<1>5. Aged'
  <2> SUFFICES ASSUME NEW i \in q
               PROVE  overtaken'[i] = bypasses'[i] /\ bypasses'[i] <= entry'[i].bypass_limit
    BY DEF Aged
  <2>1. /\ i \in Attempts /\ entry'[i] = entry[i]
        /\ overtaken[i] = bypasses[i] /\ bypasses[i] <= entry[i].bypass_limit
        /\ bypasses[i] \in Nat
    BY <1>0, <1>1, Zenon DEF Aged
  <2>2. entry[i].bypass_limit \in Nat
    BY <2>1, ZenonT(30) DEF Shape, Types, EntryType
  <2>3. /\ overtaken'[i] = IF i \in Passed(q, id, x.operator) THEN overtaken[i] + 1 ELSE overtaken[i]
        /\ bypasses'[i] = IF ~x.operator /\ i \in Passed(q, id, FALSE) /\ ~Protected(i)
                          THEN bypasses[i] + 1 ELSE bypasses[i]
    BY <1>2, <2>1
  <2>4. CASE i \in Passed(q, id, x.operator)
    <3>1. ~x.operator /\ x.operator = FALSE /\ ~Protected(i)
      BY <1>1, <2>4
    <3>2. overtaken'[i] = bypasses[i] + 1 /\ bypasses'[i] = bypasses[i] + 1
      BY <2>1, <2>3, <2>4, <3>1, Zenon
    <3>3. bypasses[i] + 1 <= entry[i].bypass_limit
      BY <2>1, <2>2, <3>1, Unprotected, Zenon DEF Protected
    <3> QED BY <2>1, <3>2, <3>3, ZenonT(60)
  <2>5. CASE i \notin Passed(q, id, x.operator)
    <3>1. ~x.operator => x.operator = FALSE
      BY <1>1, Zenon
    <3>2. overtaken'[i] = bypasses[i] /\ bypasses'[i] = bypasses[i]
      BY <2>1, <2>3, <2>5, <3>1, Zenon
    <3> QED BY <2>1, <3>2, Zenon
  <2> QED BY <2>4, <2>5, ZenonT(30)
<1>6. Roomy'
  <2>1. ASSUME NEW i \in Holders \cup {id}
        PROVE  LeaseRoom(entry', entry'[i], ahead'[i])
    <3>1. CASE i = id
      <4>1. ahead'[id] = Holders
        BY <1>2, Zenon DEF Extend
      <4>2. LeaseRoom(entry, x, Holders)
        BY AvailableRoom, Zenon
      <4>3. \A j \in Holders : entry[j] = entry'[j]
        BY <1>0, Zenon
      <4> QED BY <3>1, <4>1, <4>2, <4>3, <1>0, FewerRoom, Zenon
    <3>2. CASE i # id
      <4>1. i \in Holders /\ i \in Attempts /\ ahead'[i] = ahead[i] /\ entry'[i] = entry[i]
        BY <1>0, <1>1, <1>2, <3>2, ZenonT(30) DEF Extend
      <4>2. LeaseRoom(entry, entry[i], ahead[i])
        BY <4>1 DEF Roomy
      <4>3. ahead[i] \subseteq Attempts /\ IsFiniteSet(ahead[i])
        BY <1>0, <1>1, <4>1, FS_Subset, ZenonT(60)
      <4>4. \A j \in ahead[i] : entry[j] = entry'[j]
        BY <4>3
      <4>5. Sound(entry[i])
        BY <4>1, Zenon DEF Shape
      <4>6. LeaseRoom(entry', entry[i], ahead[i])
        BY <4>2, <4>3, <4>4, <4>5, FewerRoom, Zenon
      <4> QED BY <4>1, <4>6, Zenon
    <3> QED BY <3>1, <3>2
  <2>2. ASSUME NEW i \in q
        PROVE  PlaceRoom(entry', entry'[i], {j \in q : j < i})
    <3>1. PlaceRoom(entry, entry[i], {j \in queue : j < i})
      BY Zenon DEF Roomy
    <3>2. Sound(entry[i]) /\ entry'[i] = entry[i]
      BY <1>0, Zenon DEF Shape
    <3>3. IsFiniteSet({j \in queue : j < i})
      BY <1>0, FS_Subset, Zenon
    <3>4. {j \in q : j < i} \in SUBSET {j \in queue : j < i}
      OBVIOUS
    <3>5. \A j \in {k \in q : k < i} : entry[j] = entry'[j]
      BY <1>0, Zenon
    <3>6. PlaceRoom(entry', entry[i], {j \in q : j < i})
      BY <3>1, <3>2, <3>3, <3>4, <3>5, FewerRoom, ZenonT(30)
    <3> QED BY <3>2, <3>6, Zenon
  <2> QED BY <2>1, <2>2, Zenon DEF Roomy
<1>7. Counted'
  <2> DEFINE P == PrincipalCounts(entry, Holders, q)
  <2>1. /\ PrincipalCounts(entry, Holders, q) = PrincipalCounts(entry', Holders, q)
        /\ ClassCounts(entry, Holders) = ClassCounts(entry', Holders)
        /\ {i \in Holders : ~entry[i].operator} = {i \in Holders : ~entry'[i].operator}
        /\ {i \in Holders : entry[i].operator} = {i \in Holders : entry'[i].operator}
    <3>1. \A i \in Holders \cup q : entry[i] = entry'[i]
      BY <1>0
    <3>2. SameCounts(entry, entry', Holders, q)
      BY <3>1, SameEntries, Zenon
    <3> QED BY <3>2, Zenon DEF SameCounts
  <2>2. /\ IsFiniteSet({i \in Holders : ~entry'[i].operator})
        /\ IsFiniteSet({i \in Holders : entry'[i].operator})
    BY <1>0, FS_Subset, Zenon
  <2>3. CASE x.operator
    <3>1. /\ operator_active' = operator_active + 1 /\ principals' = P
          /\ active' = active /\ classes' = classes
      BY <2>3, Zenon DEF activate
    <3>2. /\ {i \in Holders \cup {id} : ~entry'[i].operator} = {i \in Holders : ~entry'[i].operator}
          /\ {i \in Holders \cup {id} : entry'[i].operator}
               = {i \in Holders : entry'[i].operator} \cup {id}
      BY <2>3
    <3>3. Cardinality({i \in Holders \cup {id} : entry'[i].operator})
            = Cardinality({i \in Holders : entry'[i].operator}) + 1
      BY <2>2, <3>2, FS_AddElement, Zenon
    <3>4. /\ BusyClasses(entry', Holders \cup {id}) = BusyClasses(entry', Holders)
          /\ Busy(entry', (Holders \cup {id}) \cup q) = Busy(entry', Holders \cup q)
          /\ \A c : OfClass(entry', Holders \cup {id}, c) = OfClass(entry', Holders, c)
          /\ \A p : OfPrincipal(entry', Holders \cup {id}, p) = OfPrincipal(entry', Holders, p)
      BY <2>3, ZenonT(30) DEF BusyClasses, Busy, OfClass, OfPrincipal
    <3>5. ClassCounts(entry', Holders \cup {id}) = ClassCounts(entry', Holders)
      BY <3>4 DEF ClassCounts
    <3>6. PrincipalCounts(entry', Holders \cup {id}, q) = PrincipalCounts(entry', Holders, q)
      BY <3>4, Zenon DEF PrincipalCounts, Work
    <3> HIDE DEF P
    <3>7. /\ active' = Cardinality({i \in Holders \cup {id} : ~entry'[i].operator})
          /\ operator_active' = Cardinality({i \in Holders \cup {id} : entry'[i].operator})
      BY <2>1, <3>1, <3>2, <3>3, Zenon DEF Counted
    <3>8. classes' = ClassCounts(entry', Holders \cup {id})
      BY <2>1, <3>1, <3>5, Zenon DEF Counted
    <3>9. principals' = PrincipalCounts(entry', Holders \cup {id}, q)
      BY <2>1, <3>1, <3>6, ZenonT(30) DEF P
    <3> QED BY <3>7, <3>8, <3>9 DEF Counted
  <2>4. CASE ~x.operator
    <3>1. /\ active' = active + 1 /\ operator_active' = operator_active
          /\ classes' = MoreClass(classes, x.class)
          /\ principals' = MoreActive(P, x.principal)
      BY <2>4, Zenon DEF activate, MoreClass, MoreActive, ClassCount
    <3>2. /\ {i \in Holders \cup {id} : entry'[i].operator} = {i \in Holders : entry'[i].operator}
          /\ {i \in Holders \cup {id} : ~entry'[i].operator}
               = {i \in Holders : ~entry'[i].operator} \cup {id}
      BY <2>4, Zenon
    <3>3. Cardinality({i \in Holders \cup {id} : ~entry'[i].operator})
            = Cardinality({i \in Holders : ~entry'[i].operator}) + 1
      BY <2>2, <3>2, FS_AddElement, ZenonT(30)
    <3>4. /\ MoreActive(PrincipalCounts(entry', Holders, q), x.principal)
               = PrincipalCounts(entry', Holders \cup {id}, q)
          /\ MoreClass(ClassCounts(entry', Holders), x.class)
               = ClassCounts(entry', Holders \cup {id})
      <4>1. ~entry'[id].operator /\ entry'[id].principal = x.principal
            /\ entry'[id].class = x.class
        BY <2>4
      <4>2. /\ MoreActive(PrincipalCounts(entry', Holders, q), entry'[id].principal)
                 = PrincipalCounts(entry', Holders \cup {id}, q)
            /\ MoreClass(ClassCounts(entry', Holders), entry'[id].class)
                 = ClassCounts(entry', Holders \cup {id})
        BY <1>0, <4>1, HolderCounts, ZenonT(60)
      <4> QED BY <4>1, <4>2
    <3>5. principals' = PrincipalCounts(entry', Holders \cup {id}, q)
      BY <2>1, <3>1, <3>4, Zenon
    <3>6. classes' = ClassCounts(entry', Holders \cup {id})
      BY <2>1, <3>1, <3>4 DEF Counted
    <3> HIDE DEF P
    <3>7. /\ active' = Cardinality({i \in Holders \cup {id} : ~entry'[i].operator})
          /\ operator_active' = Cardinality({i \in Holders \cup {id} : entry'[i].operator})
      BY <2>1, <3>1, <3>2, <3>3, Zenon DEF Counted
    <3> QED BY <3>5, <3>6, <3>7 DEF Counted
  <2> QED BY <2>3, <2>4
<1> QED BY <1>3, <1>4, <1>5, <1>6, <1>7, Zenon

(* The entry of a request for a configured class is sound.                 *)
LEMMA EntrySound ==
    ASSUME Shape, NEW class \in DOMAIN policy.classes, NEW operator \in BOOLEAN,
           NEW principal, ~operator => principal \in Principals
    PROVE  Sound(Entry(class, operator, principal))
<1> DEFINE s == policy.priority_scheduling
           scheduled == ~operator /\ s # <<>>
           x == Entry(class, operator, principal)
<1>1. IsPolicy(policy) /\ Validate(policy)
  BY PolicyAssumption, Zenon DEF Shape, Types
<1>2. class \in Classes
  BY <1>1, Zenon DEF IsPolicy
<1>3. scheduled => /\ s[1].class_priorities[class] \in 0..3
                   /\ s[1].max_bypass \in Nat
  BY <1>1 DEF IsPolicy, Validate
<1> DEFINE who == IF operator THEN NoPrincipal ELSE principal
           level == IF scheduled THEN s[1].class_priorities[class] ELSE 0
           bound == IF scheduled THEN s[1].max_bypass ELSE 0
<1>4. x = [class |-> class, operator |-> operator, principal |-> who, policy |-> policy,
           priority |-> level, bypass_limit |-> bound]
  BY Zenon DEF Entry
<1>5. policy \in Candidates \cup Startups
  BY DEF Shape, Types
<1>6. /\ who \in Principals \cup {NoPrincipal} /\ level \in 0..3 /\ bound \in Nat
      /\ ~operator => who \in Principals
      /\ operator => bound = 0
  BY <1>3
<1> HIDE DEF x, who, level, bound
<1>7. /\ x \in EntryType /\ x.policy = policy /\ x.class = class /\ x.operator = operator
      /\ x.principal = who /\ x.bypass_limit = bound
  BY <1>2, <1>4, <1>5, <1>6, Zenon DEF EntryType
<1>8. Sound(x)
  BY <1>1, <1>6, <1>7, Zenon DEF Sound
<1> QED BY <1>8 DEF x

(* Requests with a class of the policy and, for data, a principal.         *)
LEMMA ArriveKeeps ==
    ASSUME WorkloadInv, NEW class, NEW operator \in BOOLEAN, NEW principal,
           ~operator => principal \in Principals, Arrive(class, operator, principal)
    PROVE  WorkloadInv'
<1> USE DEF WorkloadInv
<1> DEFINE e == Entry(class, operator, principal)
           q == queue \ Purged
           ps == release_queued(Purged)
<1>0. /\ next_id' = next_id + 1 /\ startup' = startup /\ policy' = policy /\ fired' = fired
      /\ class \in DOMAIN policy.classes
      /\ ArriveAdmitted(e, q, ps) \/ ArriveRefused(e, q, ps) \/ ArriveQueued(e, q, ps)
  BY DEF Arrive
<1>1. Sound(e) /\ e.operator = operator
  BY <1>0, EntrySound, Zenon DEF Entry
<1>2. Purged \in SUBSET queue /\ q \in SUBSET queue
  BY DEF Purged
<1>3. ps = PrincipalCounts(entry, Holders, q)
  BY <1>2, ReleaseQueued, ZenonT(30)
<1>4. /\ IsFiniteSet(Holders) /\ IsFiniteSet(queue) /\ Attempts \subseteq Nat
      /\ Holders \subseteq Attempts /\ queue \subseteq Attempts
      /\ next_id \notin Attempts /\ next_id \in Nat
      /\ Attempts \subseteq 0 .. next_id - 1 /\ fired \subseteq Attempts
      /\ Waiting \ q \subseteq fired /\ q \subseteq Waiting
  BY FiniteAttempts DEF Shape, Types, Purged
<1>5. /\ startup \in Startups /\ policy \in Candidates \cup Startups /\ Validate(policy)
      /\ phase \in [Attempts -> Phases] /\ entry \in [Attempts -> EntryType]
      /\ bypasses \in [Attempts -> Nat] /\ overtaken \in [Attempts -> Nat]
      /\ ahead \in [Attempts -> SUBSET Attempts]
      /\ \A i \in Attempts : Sound(entry[i])
  BY DEF Shape, Types
<1> HIDE DEF e, q, ps
<1>6. CASE ArriveRefused(e, q, ps)
  <2>1. /\ queue' = q /\ principals' = ps
        /\ UNCHANGED <<active, operator_active, classes, attempts>>
    BY <1>6 DEF ArriveRefused
  <2>2. /\ Holders' = Holders /\ Waiting' = Waiting /\ Attempts' = Attempts
        /\ UNCHANGED <<phase, entry, bypasses, ahead, overtaken>>
    BY <2>1 DEF attempts, Holders, Waiting, Attempts
  <2>3. Counted' /\ Roomy' /\ Aged'
    BY <1>2, <2>1, <2>2, PurgeKeeps, ZenonT(30) DEF q, ps
  <2>4. Types'
    BY <1>0, <1>4, <1>5, <2>2, SMTT(30) DEF Types
  <2>5. Shape'
    BY <1>0, <1>4, <1>5, <2>1, <2>2, <2>4, Zenon DEF Shape
  <2> QED BY <2>3, <2>5
<1>7. CASE ArriveAdmitted(e, q, ps)
  <2>1. /\ available(e) /\ first_eligible(q, e.operator) = {} /\ activate(next_id, e, q, ps)
        /\ queue' = q /\ entry' = Extend(entry, next_id, e)
        /\ phase' = Extend(phase, next_id, "running")
    BY <1>7, Zenon DEF ArriveAdmitted
  <2>2. Passed(q, next_id, e.operator) = {}
    BY <1>1, <1>2, <2>1, FirstEligible, ZenonT(30) DEF Passed
  <2>3. /\ Attempts' = Attempts \cup {next_id}
        /\ phase' \in [Attempts' -> Phases] /\ phase'[next_id] = "running"
        /\ \A i \in Attempts : phase'[i] = phase[i]
    BY <1>4, <1>5, <2>1 DEF Extend, Attempts, Phases
  <2>4. Holders' = Holders \cup {next_id} /\ Waiting' = Waiting
    BY <1>4, <2>3, Zenon DEF Holders, Waiting
  <2>5. /\ entry' \in [Attempts' -> EntryType] /\ entry'[next_id] = e
        /\ \A i \in Attempts : entry'[i] = entry[i]
    BY <1>1, <1>4, <1>5, <2>1, <2>3, Zenon DEF Extend, Sound
  <2>6. next_id \notin Holders /\ next_id \notin q
    BY <1>2, <1>4
  <2>7. activate(next_id, e, q, PrincipalCounts(entry, Holders, q))
    BY <1>3, <2>1
  <2>8. /\ Counted' /\ Roomy' /\ Aged'
        /\ bypasses' \in [Attempts' -> Nat] /\ overtaken' \in [Attempts' -> Nat]
        /\ ahead' \in [Attempts' -> SUBSET Attempts']
    BY <1>1, <1>2, <1>4, <2>1, <2>2, <2>3, <2>4, <2>5, <2>6, <2>7, ActivateKeeps, ZenonT(60)
  <2>9. Attempts' \subseteq 0 .. next_id' - 1 /\ fired' \subseteq Attempts' /\ next_id' \in Nat
    BY <1>0, <1>4, <2>3, SMTT(30)
  <2>10. Types'
    BY <1>0, <1>5, <2>3, <2>5, <2>8, <2>9, Zenon DEF Types
  <2>11. \A i \in Attempts' : Sound(entry'[i])
    BY <1>1, <1>5, <2>3, <2>5, Zenon
  <2>12. Shape'
    BY <1>0, <1>4, <1>5, <2>1, <2>4, <2>10, <2>11, Zenon DEF Shape
  <2> QED BY <2>8, <2>12
<1>8. CASE ArriveQueued(e, q, ps)
  <2>1. /\ ~QueueFull(q, e) /\ queue' = q \cup {next_id}
        /\ principals' = IF e.operator THEN ps ELSE MoreQueued(ps, e.principal)
        /\ phase' = Extend(phase, next_id, "waiting") /\ entry' = Extend(entry, next_id, e)
        /\ bypasses' = Extend(bypasses, next_id, 0) /\ overtaken' = Extend(overtaken, next_id, 0)
        /\ ahead' = Extend(ahead, next_id, {})
        /\ UNCHANGED <<active, operator_active, classes>>
    BY <1>8, Zenon DEF ArriveQueued, MoreQueued
  <2>2. /\ Attempts' = Attempts \cup {next_id}
        /\ phase' \in [Attempts' -> Phases] /\ phase'[next_id] = "waiting"
        /\ \A i \in Attempts : phase'[i] = phase[i]
    BY <1>4, <1>5, <2>1 DEF Extend, Attempts, Phases
  <2>3. Holders' = Holders /\ Waiting' = Waiting \cup {next_id}
    BY <1>4, <2>2, Zenon DEF Holders, Waiting
  <2>4. /\ entry' \in [Attempts' -> EntryType] /\ entry'[next_id] = e
        /\ \A i \in Attempts : entry'[i] = entry[i]
    BY <1>1, <1>4, <1>5, <2>1, <2>2, Zenon DEF Extend, Sound
  <2>5. /\ bypasses' \in [Attempts' -> Nat] /\ overtaken' \in [Attempts' -> Nat]
        /\ bypasses'[next_id] = 0 /\ overtaken'[next_id] = 0
        /\ \A i \in Attempts : bypasses'[i] = bypasses[i] /\ overtaken'[i] = overtaken[i]
    BY <1>4, <1>5, <2>1, <2>2, Zenon DEF Extend
  <2>6. /\ ahead' \in [Attempts' -> SUBSET Attempts']
        /\ \A i \in Attempts : ahead'[i] = ahead[i]
    BY <1>4, <1>5, <2>1, <2>2, Zenon DEF Extend
  <2>7. Attempts' \subseteq 0 .. next_id' - 1 /\ fired' \subseteq Attempts' /\ next_id' \in Nat
    BY <1>0, <1>4, <2>2, SMTT(30)
  <2>8. Types'
    BY <1>0, <1>5, <2>2, <2>4, <2>5, <2>6, <2>7, ZenonT(30) DEF Types
  <2>9. \A i \in Attempts' : Sound(entry'[i])
    BY <1>1, <1>5, <2>2, <2>4
  <2>10. Shape'
    BY <1>0, <1>4, <1>5, <2>1, <2>3, <2>8, <2>9, ZenonT(60) DEF Shape
  <2>11. Aged'
    <3>1. e.bypass_limit \in Nat
      BY <1>1, Zenon DEF Sound, EntryType
    <3>2. ASSUME NEW i \in queue'
          PROVE  overtaken'[i] = bypasses'[i] /\ bypasses'[i] <= entry'[i].bypass_limit
      <4>1. CASE i = next_id
        BY <2>4, <2>5, <3>1, <4>1, SMTT(30)
      <4>2. CASE i # next_id
        <5>1. i \in queue /\ i \in Attempts
          BY <1>2, <1>4, <2>1, <4>2, Zenon
        <5> QED BY <2>4, <2>5, <5>1, SMTT(30) DEF Aged
      <4> QED BY <4>1, <4>2, ZenonT(30)
    <3> QED BY <3>2 DEF Aged
  <2>12. Counted'
    <3>1. \A i \in Holders \cup q : entry[i] = entry'[i]
      BY <1>2, <1>4, <2>4
    <3>2. /\ PrincipalCounts(entry, Holders, q) = PrincipalCounts(entry', Holders, q)
          /\ ClassCounts(entry, Holders) = ClassCounts(entry', Holders)
          /\ {i \in Holders : ~entry[i].operator} = {i \in Holders : ~entry'[i].operator}
          /\ {i \in Holders : entry[i].operator} = {i \in Holders : entry'[i].operator}
      <4>1. SameCounts(entry, entry', Holders, q)
        BY <3>1, SameEntries, Zenon
      <4> QED BY <4>1, Zenon DEF SameCounts
    <3>3. principals' = PrincipalCounts(entry', Holders, q \cup {next_id})
      <4>1. CASE e.operator
        <5>1. /\ Busy(entry', Holders \cup (q \cup {next_id})) = Busy(entry', Holders \cup q)
              /\ \A p : OfPrincipal(entry', q \cup {next_id}, p) = OfPrincipal(entry', q, p)
          BY <2>4, <4>1, Zenon DEF Busy, OfPrincipal
        <5>2. PrincipalCounts(entry', Holders, q \cup {next_id}) = PrincipalCounts(entry', Holders, q)
          BY <5>1, Zenon DEF PrincipalCounts, Work
        <5> QED BY <1>3, <2>1, <3>2, <4>1, <5>2, Zenon
      <4>2. CASE ~e.operator
        <5>1. next_id \notin q /\ IsFiniteSet(q) /\ ~entry'[next_id].operator
          BY <1>2, <1>4, <2>4, <4>2, FS_Subset, ZenonT(60)
        <5>2. MoreQueued(PrincipalCounts(entry', Holders, q), entry'[next_id].principal)
                = PrincipalCounts(entry', Holders, q \cup {next_id})
          BY <1>4, <5>1, QueueCounts
        <5> QED BY <1>3, <2>1, <2>4, <3>2, <4>2, <5>2, Zenon
      <4> QED BY <4>1, <4>2, Zenon
    <3> QED BY <2>1, <2>3, <3>2, <3>3, Zenon DEF Counted
  <2>13. Roomy'
    <3>1. ASSUME NEW i \in Holders
          PROVE  LeaseRoom(entry', entry'[i], ahead'[i])
      <4>1. /\ i \in Attempts /\ ahead'[i] = ahead[i] /\ entry'[i] = entry[i]
            /\ LeaseRoom(entry, entry[i], ahead[i]) /\ Sound(entry[i])
        BY <1>4, <1>5, <2>4, <2>6 DEF Roomy
      <4>2. ahead[i] \in SUBSET Attempts /\ IsFiniteSet(ahead[i])
        BY <1>5, <4>1, FiniteAttempts, FS_Subset, Zenon
      <4>3. \A j \in ahead[i] : entry[j] = entry'[j]
        BY <2>4, <4>2, Zenon
      <4>4. LeaseRoom(entry', entry[i], ahead[i])
        BY <4>1, <4>2, <4>3, FewerRoom, Zenon
      <4> QED BY <4>1, <4>4, ZenonT(30)
    <3>2. ASSUME NEW i \in q \cup {next_id}
          PROVE  PlaceRoom(entry', entry'[i], {j \in q \cup {next_id} : j < i})
      <4> DEFINE B == {j \in q \cup {next_id} : j < i}
      <4>1. \A j \in q \cup {next_id} : j \in Nat /\ (j # next_id => j < next_id)
        BY <1>2, <1>4, SMTT(30)
      <4>2. B \subseteq q /\ \A j \in B : j < i /\ entry[j] = entry'[j]
        BY <1>2, <1>4, <2>4, <4>1, SMTT(30)
      <4>3. CASE i = next_id
        <5>1. PlaceRoom(entry, e, q)
          BY <1>1, <2>1, QueueRoom, Zenon DEF q
        <5>2. IsFiniteSet(q) /\ B \in SUBSET q
          BY <1>2, <1>4, <4>2, FS_Subset, Zenon
        <5> HIDE DEF B
        <5>3. PlaceRoom(entry', e, B)
          BY <1>1, <4>2, <5>1, <5>2, FewerRoom
        <5> QED BY <2>4, <4>3, <5>3, SMTT(30) DEF B
      <4>4. CASE i # next_id
        <5>1. /\ i \in queue /\ entry'[i] = entry[i] /\ Sound(entry[i])
              /\ PlaceRoom(entry, entry[i], {j \in queue : j < i})
          BY <1>2, <1>4, <1>5, <2>4, <4>4, Zenon DEF Roomy
        <5>2. B \in SUBSET {j \in queue : j < i} /\ IsFiniteSet({j \in queue : j < i})
          BY <1>2, <1>4, <4>2, FS_Subset, ZenonT(30)
        <5> HIDE DEF B
        <5>3. PlaceRoom(entry', entry[i], B)
          BY <4>2, <5>1, <5>2, FewerRoom, Zenon
        <5> QED BY <5>1, <5>3, Zenon DEF B
      <4> QED BY <4>3, <4>4, Zenon
    <3> QED BY <2>1, <2>3, <3>1, <3>2, Zenon DEF Roomy
  <2> QED BY <2>10, <2>11, <2>12, <2>13
<1> QED BY <1>0, <1>6, <1>7, <1>8, Zenon

(* One poll of a waiter: it fails, is purged under its feet, is admitted   *)
(* or cancelled as the first, or goes on waiting.                          *)
LEMMA PollKeeps ==
    ASSUME WorkloadInv, NEW i \in Attempts, Poll(i)
    PROVE  WorkloadInv'
<1> USE DEF WorkloadInv
<1>1. /\ Purged \in SUBSET queue /\ Purged \subseteq fired /\ fired \subseteq Attempts
      /\ Holders \subseteq Attempts /\ queue \subseteq Waiting /\ Waiting \subseteq Attempts
      /\ Waiting \ queue \subseteq fired /\ Attempts \subseteq Nat
      /\ queue \cap fired \subseteq Purged
  BY FiniteAttempts, SMTT(30) DEF Shape, Types, Purged, Waiting
<1>2. /\ startup \in Startups /\ policy \in Candidates \cup Startups /\ Validate(policy)
      /\ next_id \in Nat /\ Attempts \subseteq 0 .. next_id - 1
      /\ phase \in [Attempts -> Phases] /\ entry \in [Attempts -> EntryType]
      /\ bypasses \in [Attempts -> Nat] /\ overtaken \in [Attempts -> Nat]
      /\ ahead \in [Attempts -> SUBSET Attempts]
      /\ \A j \in Attempts : Sound(entry[j])
  BY SMTT(30) DEF Shape, Types
<1>3. /\ UNCHANGED <<startup, policy, next_id, entry>>
  BY Zenon DEF Poll, PollFails, PollPurgedLate, PollFirst, PollWaits, attempts
<1>4. ASSUME NEW to \in {"leaving", "admitted"}, i \in Waiting,
             phase' = [phase EXCEPT ![i] = to]
      PROVE  /\ Attempts' = Attempts /\ phase' \in [Attempts' -> Phases]
             /\ Waiting' = Waiting \ {i}
             /\ to = "leaving" => Holders' = Holders
             /\ to = "admitted" => Holders' = Holders \cup {i}
  <2>1. /\ DOMAIN phase' = DOMAIN phase /\ phase' \in [Attempts -> Phases]
        /\ phase'[i] = to /\ \A j \in Attempts \ {i} : phase'[j] = phase[j]
        /\ phase[i] = "waiting"
    BY <1>2, <1>4 DEF Phases, Attempts, Waiting
  <2> QED BY <2>1, <1>4, SMTT(30) DEF Attempts, Waiting, Holders
<1>5. ASSUME phase' = phase
      PROVE  Attempts' = Attempts /\ Holders' = Holders /\ Waiting' = Waiting
  BY <1>5, SMTT(30) DEF Attempts, Holders, Waiting
<1>6. CASE PollFails(i)
  <2>1. /\ i \in Waiting \cap fired /\ queue' = queue \ Purged
        /\ principals' = release_queued(Purged)
        /\ phase' = [phase EXCEPT ![i] = "leaving"]
        /\ UNCHANGED <<active, operator_active, classes, fired, bypasses, ahead, overtaken>>
    BY <1>6 DEF PollFails
  <2>2. /\ Attempts' = Attempts /\ phase' \in [Attempts' -> Phases]
        /\ Waiting' = Waiting \ {i} /\ Holders' = Holders
    BY <1>4, <2>1, Zenon
  <2>3. Counted' /\ Roomy' /\ Aged'
    BY <1>1, <1>3, <2>1, <2>2, PurgeKeeps, Zenon
  <2>4. Types'
    BY <1>1, <1>2, <1>3, <2>1, <2>2, Zenon DEF Types
  <2>5. queue' \subseteq Waiting' /\ Waiting' \ queue' \subseteq fired'
    BY <1>1, <2>1, <2>2, Zenon
  <2> QED BY <1>2, <1>3, <2>2, <2>3, <2>4, <2>5, ZenonT(30) DEF Shape
<1>7. CASE PollPurgedLate(i)
  <2> DEFINE gone == queue \cap (fired \cup {i})
  <2>1. /\ i \in Waiting \ fired /\ fired' = fired \cup {i} /\ queue' = queue \ gone
        /\ principals' = release_queued(gone)
        /\ UNCHANGED <<active, operator_active, classes, phase, bypasses, ahead, overtaken>>
    BY <1>7, SMTT(30) DEF PollPurgedLate, attempts
  <2>2. Attempts' = Attempts /\ Holders' = Holders /\ Waiting' = Waiting
    BY <1>5, <2>1, SMTT(30)
  <2>3. Counted' /\ Roomy' /\ Aged'
    BY <1>3, <2>1, <2>2, PurgeKeeps, Zenon
  <2>4. Types'
    BY <1>1, <1>2, <1>3, <2>1, <2>2, Zenon DEF Types
  <2>5. queue' \subseteq Waiting' /\ Waiting' \ queue' \subseteq fired'
    BY <1>1, <2>1, <2>2, ZenonT(30)
  <2> QED BY <1>2, <1>3, <2>2, <2>3, <2>4, <2>5, ZenonT(30) DEF Shape
<1>8. CASE PollFirst(i)
  <2> DEFINE gone == Purged \cup {i}
             q == queue \ gone
  <2>1. /\ i \in Waiting \ fired /\ queue' = q
        /\ i \in first_eligible(queue \ Purged, entry[i].operator)
    BY <1>8, Zenon DEF PollFirst
  <2>2. entry[i].operator \in BOOLEAN
    BY <1>2 DEF EntryType
  <2>3. /\ i \in Eligible(queue \ Purged, entry[i].operator)
        /\ \A j \in Eligible(queue \ Purged, entry[i].operator) :
              j < i => ~entry[i].operator /\ ~Protected(j)
    BY <2>1, <2>2, FirstEligible, Zenon
  <2>4. available(entry[i]) /\ i \in queue /\ gone \in SUBSET queue
    BY <1>1, <2>3, Zenon DEF Eligible
  <2>5. CASE /\ activate(i, entry[i], q, release_queued(gone))
             /\ phase' = [phase EXCEPT ![i] = "admitted"]
             /\ UNCHANGED fired
    <3>1. /\ Attempts' = Attempts /\ phase' \in [Attempts' -> Phases]
          /\ Waiting' = Waiting \ {i} /\ Holders' = Holders \cup {i}
      BY <1>4, <2>1, <2>5, Zenon
    <3>2. activate(i, entry[i], q, PrincipalCounts(entry, Holders, q))
      BY <2>4, <2>5, ReleaseQueued, Zenon
    <3>3. \A j \in Passed(q, i, entry[i].operator) : ~entry[i].operator /\ ~Protected(j)
      BY <2>3, Zenon DEF Passed, Eligible
    <3>4. i \notin Holders /\ i \notin q /\ i \in Nat /\ q \in SUBSET queue
      BY <1>1, <2>1 DEF Holders, Waiting
    <3>5. entry'[i] = entry[i] /\ \A j \in Attempts : entry'[j] = entry[j]
      BY <1>3
    <3> HIDE DEF q
    <3>6. /\ Counted' /\ Roomy' /\ Aged'
          /\ bypasses' \in [Attempts \cup {i} -> Nat]
          /\ overtaken' \in [Attempts \cup {i} -> Nat]
          /\ ahead' \in [Attempts \cup {i} -> SUBSET (Attempts \cup {i})]
      BY <1>2, <2>1, <2>4, <3>1, <3>2, <3>3, <3>4, <3>5, ActivateKeeps, ZenonT(60)
    <3>7. Attempts \cup {i} = Attempts'
      BY <3>1
    <3>8. Types'
      BY <1>1, <1>2, <1>3, <2>5, <3>1, <3>6, <3>7, Zenon DEF Types
    <3>9. queue' \subseteq Waiting' /\ Waiting' \ queue' \subseteq fired'
      BY <1>1, <2>1, <2>5, <3>1, Zenon DEF q
    <3> QED BY <1>2, <1>3, <3>1, <3>6, <3>8, <3>9, ZenonT(30) DEF Shape
  <2>6. CASE /\ fired' = fired \cup {i}
             /\ principals' = release_queued(gone)
             /\ phase' = [phase EXCEPT ![i] = "leaving"]
             /\ UNCHANGED <<active, operator_active, classes, bypasses, ahead, overtaken>>
    <3>1. /\ Attempts' = Attempts /\ phase' \in [Attempts' -> Phases]
          /\ Waiting' = Waiting \ {i} /\ Holders' = Holders
      BY <1>4, <2>1, <2>6, Zenon
    <3>2. Counted' /\ Roomy' /\ Aged'
      BY <1>3, <2>1, <2>4, <2>6, <3>1, PurgeKeeps, Zenon
    <3>3. Types'
      BY <1>1, <1>2, <1>3, <2>6, <3>1, Zenon DEF Types
    <3>4. queue' \subseteq Waiting' /\ Waiting' \ queue' \subseteq fired'
      BY <1>1, <2>1, <2>6, <3>1, Zenon
    <3> QED BY <1>2, <1>3, <3>1, <3>2, <3>3, <3>4, ZenonT(30) DEF Shape
  <2> QED BY <1>8, <2>5, <2>6 DEF PollFirst
<1>9. CASE PollWaits(i)
  <2>1. /\ queue' = queue \ Purged /\ principals' = release_queued(Purged)
        /\ UNCHANGED <<active, operator_active, classes, fired, phase, bypasses, ahead, overtaken>>
    BY <1>9 DEF PollWaits, attempts
  <2>2. Attempts' = Attempts /\ Holders' = Holders /\ Waiting' = Waiting
    BY <1>5, <2>1, Zenon
  <2>3. Counted' /\ Roomy' /\ Aged'
    BY <1>1, <1>3, <2>1, <2>2, PurgeKeeps, Zenon
  <2>4. Types'
    BY <1>1, <1>2, <1>3, <2>1, <2>2, Zenon DEF Types
  <2>5. queue' \subseteq Waiting' /\ Waiting' \ queue' \subseteq fired'
    BY <1>1, <2>1, <2>2, Zenon
  <2> QED BY <1>2, <1>3, <2>2, <2>3, <2>4, <2>5, ZenonT(30) DEF Shape
<1> QED BY <1>6, <1>7, <1>8, <1>9, ZenonT(30) DEF Poll

(* An attempt that is over leaves the others as they are.                  *)
LEMMA OverKeeps ==
    ASSUME WorkloadInv, NEW i \in Attempts, i \notin queue, i \notin Waiting, Over(i),
           UNCHANGED <<startup, policy, next_id, queue>>
    PROVE  /\ Shape' /\ Roomy' /\ Aged'
           /\ Holders' = Holders \ {i}
           /\ \A j \in Attempts \ {i} : entry'[j] = entry[j]
<1> USE DEF WorkloadInv
<1>1. /\ startup \in Startups /\ policy \in Candidates \cup Startups /\ Validate(policy)
      /\ next_id \in Nat /\ Attempts \subseteq 0 .. next_id - 1 /\ fired \subseteq Attempts
      /\ phase \in [Attempts -> Phases] /\ entry \in [Attempts -> EntryType]
      /\ bypasses \in [Attempts -> Nat] /\ overtaken \in [Attempts -> Nat]
      /\ ahead \in [Attempts -> SUBSET Attempts]
      /\ \A j \in Attempts : Sound(entry[j])
  BY DEF Shape, Types
<1>2. /\ IsFiniteSet(Attempts) /\ IsFiniteSet(queue) /\ Holders \subseteq Attempts
      /\ queue \subseteq Attempts /\ queue \subseteq Waiting /\ Waiting \ queue \subseteq fired
  BY FiniteAttempts, ZenonT(30) DEF Shape
<1>3. /\ Attempts' = Attempts \ {i} /\ phase' \in [Attempts' -> Phases]
      /\ \A j \in Attempts \ {i} : phase'[j] = phase[j]
  BY <1>1, SMTT(30) DEF Over, Without, Attempts
<1>4. Holders' = Holders \ {i} /\ Waiting' = Waiting
  BY <1>3, Zenon DEF Holders, Waiting
<1>5. /\ entry' \in [Attempts' -> EntryType]
      /\ \A j \in Attempts \ {i} : entry'[j] = entry[j]
  BY <1>1, <1>3, Zenon DEF Over, Without
<1>6. /\ bypasses' \in [Attempts' -> Nat] /\ overtaken' \in [Attempts' -> Nat]
      /\ \A j \in Attempts \ {i} : bypasses'[j] = bypasses[j] /\ overtaken'[j] = overtaken[j]
  BY <1>1, <1>3, Zenon DEF Over, Without
<1>7. /\ ahead' \in [Attempts' -> SUBSET Attempts']
      /\ \A j \in Attempts \ {i} : ahead'[j] = ahead[j] \ {i}
  BY <1>1, <1>3, Zenon DEF Over
<1>8. fired' = fired \ {i}
  BY Zenon DEF Over
<1>9. Types'
  BY <1>1, <1>3, <1>5, <1>6, <1>7, <1>8, Zenon DEF Types
<1>10. Shape'
  <2>1. \A j \in Attempts' : Sound(entry'[j])
    BY <1>1, <1>3, <1>5, Zenon
  <2>2. queue' \subseteq Waiting' /\ Waiting' \ queue' \subseteq fired'
    BY <1>2, <1>4, <1>8
  <2> QED BY <1>1, <1>9, <2>1, <2>2, Zenon DEF Shape
<1>11. Aged'
  BY <1>2, <1>5, <1>6, Zenon DEF Aged
<1>12. Roomy'
  <2>1. ASSUME NEW j \in Holders \ {i}
        PROVE  LeaseRoom(entry', entry'[j], ahead'[j])
    <3>1. /\ j \in Attempts \ {i} /\ ahead'[j] = ahead[j] \ {i} /\ entry'[j] = entry[j]
          /\ LeaseRoom(entry, entry[j], ahead[j]) /\ Sound(entry[j])
          /\ ahead[j] \subseteq Attempts
      BY <1>1, <1>2, <1>5, <1>7 DEF Roomy
    <3>2. IsFiniteSet(ahead[j]) /\ ahead[j] \ {i} \in SUBSET ahead[j]
      BY <1>2, <3>1, FS_Subset, Zenon
    <3>3. \A k \in ahead[j] \ {i} : entry[k] = entry'[k]
      BY <1>5, <3>1, Zenon
    <3>4. LeaseRoom(entry', entry[j], ahead[j] \ {i})
      BY <3>1, <3>2, <3>3, FewerRoom, ZenonT(60)
    <3> QED BY <3>1, <3>4, ZenonT(60)
  <2>2. ASSUME NEW j \in queue
        PROVE  PlaceRoom(entry', entry'[j], {k \in queue : k < j})
    <3>1. /\ j \in Attempts \ {i} /\ entry'[j] = entry[j] /\ Sound(entry[j])
          /\ PlaceRoom(entry, entry[j], {k \in queue : k < j})
      BY <1>1, <1>2, <1>5 DEF Roomy
    <3>2. IsFiniteSet({k \in queue : k < j}) /\ {k \in queue : k < j} \in SUBSET {k \in queue : k < j}
      BY <1>2, FS_Subset
    <3>3. \A k \in {l \in queue : l < j} : entry[k] = entry'[k]
      BY <1>2, <1>5
    <3>4. PlaceRoom(entry', entry[j], {k \in queue : k < j})
      BY <3>1, <3>2, <3>3, FewerRoom, Zenon
    <3> QED BY <3>1, <3>4, Zenon
  <2> QED BY <1>4, <2>1, <2>2, Zenon DEF Roomy
<1> QED BY <1>4, <1>5, <1>10, <1>11, <1>12, ZenonT(30)

(* A ticket finds its entry gone from the queue, whoever took it off: it   *)
(* releases nothing a second time.                                         *)
LEMMA DropTicketKeeps ==
    ASSUME WorkloadInv, NEW i \in Attempts, DropTicket(i)
    PROVE  WorkloadInv'
<1> USE DEF WorkloadInv
<1>1. phase[i] \in {"leaving", "admitted"} /\ i \notin Waiting /\ i \notin queue
  BY DEF DropTicket, Shape, Waiting
<1>2. /\ queue' = queue /\ principals' = principals
      /\ UNCHANGED <<startup, policy, active, operator_active, classes, next_id>>
  BY <1>1, Zenon DEF DropTicket
<1>3. CASE phase[i] = "leaving"
  <2>1. Over(i)
    BY <1>3, Zenon DEF DropTicket
  <2>2. /\ Shape' /\ Roomy' /\ Aged' /\ Holders' = Holders \ {i}
        /\ \A j \in Attempts \ {i} : entry'[j] = entry[j]
    BY <1>1, <1>2, <2>1, OverKeeps, Zenon
  <2>3. i \notin Holders /\ Holders' = Holders
    BY <1>3, <2>2, ZenonT(30) DEF Holders
  <2>4. \A j \in Holders \cup queue : entry[j] = entry'[j]
    BY <1>1, <2>2, <2>3, FiniteAttempts
  <2>5. /\ PrincipalCounts(entry, Holders, queue) = PrincipalCounts(entry', Holders, queue)
        /\ ClassCounts(entry, Holders) = ClassCounts(entry', Holders)
        /\ {j \in Holders : ~entry[j].operator} = {j \in Holders : ~entry'[j].operator}
        /\ {j \in Holders : entry[j].operator} = {j \in Holders : entry'[j].operator}
    <3>1. SameCounts(entry, entry', Holders, queue)
      BY <2>4, SameEntries, Zenon
    <3> QED BY <3>1, Zenon DEF SameCounts
  <2>6. Counted'
    BY <1>2, <2>3, <2>5, Zenon DEF Counted
  <2> QED BY <2>2, <2>6, Zenon
<1>4. CASE phase[i] = "admitted"
  <2>1. /\ phase' = [phase EXCEPT ![i] = "running"]
        /\ UNCHANGED <<entry, bypasses, overtaken, ahead, fired>>
    BY <1>4, Zenon DEF DropTicket
  <2>2. /\ phase \in [Attempts -> Phases] /\ phase' \in [Attempts -> Phases]
        /\ Attempts' = Attempts
        /\ phase'[i] = "running" /\ \A j \in Attempts \ {i} : phase'[j] = phase[j]
    BY <2>1 DEF Shape, Types, Phases, Attempts
  <2>3. Holders' = Holders /\ Waiting' = Waiting
    BY <1>4, <2>2 DEF Holders, Waiting
  <2>4. Types'
    BY <1>2, <2>1, <2>2, Zenon DEF Shape, Types
  <2>5. Shape'
    BY <1>2, <2>1, <2>2, <2>3, <2>4, Zenon DEF Shape
  <2> QED BY <1>2, <2>1, <2>3, <2>5, Zenon DEF Counted, Roomy, Aged
<1> QED BY <1>1, <1>3, <1>4, Zenon

(* The last clone of a lease gives back exactly what it was counted for.   *)
LEMMA DropLeaseKeeps ==
    ASSUME WorkloadInv, NEW i \in Attempts, DropLease(i)
    PROVE  WorkloadInv'
<1> USE DEF WorkloadInv
<1>1. phase[i] = "running" /\ Over(i) /\ UNCHANGED <<startup, policy, queue, next_id>>
  BY Zenon DEF DropLease
<1>2. i \notin Waiting /\ i \notin queue /\ i \in Holders
  BY <1>1 DEF Shape, Waiting, Holders
<1>3. /\ Shape' /\ Roomy' /\ Aged' /\ Holders' = Holders \ {i}
      /\ \A j \in Attempts \ {i} : entry'[j] = entry[j]
  BY <1>1, <1>2, OverKeeps, Zenon
<1> DEFINE G == Holders \ {i}
<1>4. /\ IsFiniteSet(Holders) /\ IsFiniteSet(queue) /\ IsFiniteSet(G)
      /\ Holders \subseteq Attempts /\ queue \subseteq Attempts
  BY FiniteAttempts, FS_Subset, ZenonT(30)
<1>5. \A j \in G \cup queue : entry[j] = entry'[j]
  BY <1>2, <1>3, <1>4
<1>6. /\ PrincipalCounts(entry, G, queue) = PrincipalCounts(entry', G, queue)
      /\ ClassCounts(entry, G) = ClassCounts(entry', G)
      /\ {j \in G : ~entry[j].operator} = {j \in G : ~entry'[j].operator}
      /\ {j \in G : entry[j].operator} = {j \in G : entry'[j].operator}
  <2>1. SameCounts(entry, entry', G, queue)
    BY <1>5, SameEntries, Zenon
  <2> QED BY <2>1, Zenon DEF SameCounts
<1>7. /\ IsFiniteSet({j \in Holders : ~entry[j].operator})
      /\ IsFiniteSet({j \in Holders : entry[j].operator})
  BY <1>4, FS_Subset
<1>8. CASE entry[i].operator
  <2>1. /\ operator_active' = operator_active - 1
        /\ UNCHANGED <<active, classes, principals>>
    BY <1>8 DEF DropLease
  <2>2. /\ {j \in G : ~entry[j].operator} = {j \in Holders : ~entry[j].operator}
        /\ {j \in G : entry[j].operator} = {j \in Holders : entry[j].operator} \ {i}
        /\ i \in {j \in Holders : entry[j].operator}
    BY <1>2, <1>8
  <2>3. Cardinality({j \in G : entry[j].operator})
          = Cardinality({j \in Holders : entry[j].operator}) - 1
    BY <1>7, <2>2, FS_RemoveElement, ZenonT(60)
  <2>4. /\ BusyClasses(entry, G) = BusyClasses(entry, Holders)
        /\ Busy(entry, G \cup queue) = Busy(entry, Holders \cup queue)
        /\ \A c : OfClass(entry, G, c) = OfClass(entry, Holders, c)
        /\ \A p : OfPrincipal(entry, G, p) = OfPrincipal(entry, Holders, p)
    BY <1>8 DEF BusyClasses, Busy, OfClass, OfPrincipal
  <2>5. ClassCounts(entry, G) = ClassCounts(entry, Holders)
    BY <2>4, Zenon DEF ClassCounts
  <2>6. PrincipalCounts(entry, G, queue) = PrincipalCounts(entry, Holders, queue)
    BY <2>4 DEF PrincipalCounts, Work
  <2> HIDE DEF G
  <2>7. /\ active' = Cardinality({j \in G : ~entry'[j].operator})
        /\ operator_active' = Cardinality({j \in G : entry'[j].operator})
        /\ classes' = ClassCounts(entry', G)
        /\ principals' = PrincipalCounts(entry', G, queue)
    BY <1>6, <2>1, <2>2, <2>3, <2>5, <2>6, Zenon DEF Counted
  <2> QED BY <1>1, <1>3, <2>7, ZenonT(60) DEF Counted, G
<1>9. CASE ~entry[i].operator
  <2>1. /\ active' = active - 1 /\ operator_active' = operator_active
        /\ classes' = FewerClass(classes, entry[i].class)
        /\ principals' = FewerActive(principals, entry[i].principal)
    BY <1>9 DEF DropLease, FewerClass, FewerActive, release_active
  <2>2. /\ {j \in G : entry[j].operator} = {j \in Holders : entry[j].operator}
        /\ {j \in G : ~entry[j].operator} = {j \in Holders : ~entry[j].operator} \ {i}
        /\ i \in {j \in Holders : ~entry[j].operator}
    BY <1>2, <1>9
  <2>3. Cardinality({j \in G : ~entry[j].operator})
          = Cardinality({j \in Holders : ~entry[j].operator}) - 1
    BY <1>7, <2>2, FS_RemoveElement, ZenonT(60)
  <2>4. /\ FewerActive(PrincipalCounts(entry, Holders, queue), entry[i].principal)
             = PrincipalCounts(entry, G, queue)
        /\ FewerClass(ClassCounts(entry, Holders), entry[i].class) = ClassCounts(entry, G)
    BY <1>2, <1>4, <1>9, DropCounts, Zenon
  <2> HIDE DEF G
  <2>5. /\ active' = Cardinality({j \in G : ~entry'[j].operator})
        /\ operator_active' = Cardinality({j \in G : entry'[j].operator})
        /\ classes' = ClassCounts(entry', G)
        /\ principals' = PrincipalCounts(entry', G, queue)
    BY <1>6, <2>1, <2>2, <2>3, <2>4, Zenon DEF Counted
  <2> QED BY <1>1, <1>3, <2>5, ZenonT(60) DEF Counted, G
<1> QED BY <1>8, <1>9, Zenon

(* A reload changes the policy of later requests only: no counter is zero, *)
(* so that none is dropped.                                                *)
LEMMA ReloadKeeps ==
    ASSUME WorkloadInv, NEW candidate \in Candidates, Reload(candidate)
    PROVE  WorkloadInv'
<1> USE DEF WorkloadInv
<1>1. /\ policy' = candidate /\ Validate(candidate)
      /\ classes' = [c \in {d \in DOMAIN classes : classes[d] # 0} |-> classes[c]]
      /\ UNCHANGED <<startup, active, operator_active, principals, queue, next_id, fired,
                     phase, entry, bypasses, ahead, overtaken>>
  BY DEF Reload, attempts
<1>2. Attempts' = Attempts /\ Holders' = Holders /\ Waiting' = Waiting
  BY <1>1 DEF Attempts, Holders, Waiting
<1>3. classes' = classes
  <2>1. classes = ClassCounts(entry, Holders) /\ IsFiniteSet(Holders)
    BY FiniteAttempts DEF Counted
  <2>2. /\ DOMAIN classes = BusyClasses(entry, Holders)
        /\ \A c \in DOMAIN classes : classes[c] = Cardinality(OfClass(entry, Holders, c))
        /\ classes = [c \in DOMAIN classes |-> classes[c]]
    BY <2>1 DEF ClassCounts
  <2>3. \A c \in DOMAIN classes : classes[c] # 0
    BY <2>1, <2>2, ClassWork, SMTT(30)
  <2> QED BY <1>1, <2>2, <2>3, Zenon
<1>4. Types'
  BY <1>1, <1>2, Zenon DEF Shape, Types
<1>5. Shape'
  BY <1>1, <1>2, <1>4 DEF Shape
<1> QED BY <1>1, <1>2, <1>3, <1>5 DEF Counted, Roomy, Aged

(* A deadline that passes changes nothing but itself.                      *)
LEMMA FireKeeps ==
    ASSUME WorkloadInv, NEW i \in Attempts, Fire(i)
    PROVE  WorkloadInv'
<1> USE DEF WorkloadInv
<1>1. /\ fired' = fired \cup {i}
      /\ UNCHANGED <<startup, policy, active, operator_active, classes, principals, queue, next_id,
                     phase, entry, bypasses, ahead, overtaken>>
  BY DEF Fire, attempts
<1>2. Attempts' = Attempts /\ Holders' = Holders /\ Waiting' = Waiting
  BY <1>1, Zenon DEF Attempts, Holders, Waiting
<1>3. Types'
  BY <1>1, <1>2, Zenon DEF Shape, Types
<1>4. Shape'
  BY <1>1, <1>2, <1>3 DEF Shape
<1> QED BY <1>1, <1>2, <1>4, Zenon DEF Counted, Roomy, Aged

(* The controller starts with nothing active and nothing queued.           *)
LEMMA InitInv == Init => WorkloadInv
<1> SUFFICES ASSUME Init PROVE WorkloadInv
  OBVIOUS
<1> USE DEF Init
<1>1. Attempts = {} /\ Holders = {} /\ Waiting = {}
  BY DEF Attempts, Holders, Waiting
<1>2. Types
  <2>1. \A T : <<>> \in [{} -> T]
    OBVIOUS
  <2> QED BY <1>1, <2>1 DEF Types
<1>3. Shape
  BY <1>1, <1>2, StartupsAreValid DEF Shape
<1>4. Counted
  <2>1. Cardinality({}) = 0
    BY FS_EmptySet
  <2>2. /\ {i \in Holders : ~entry[i].operator} = {}
        /\ {i \in Holders : entry[i].operator} = {}
    BY <1>1, Zenon
  <2>3. BusyClasses(entry, Holders) = {} /\ Busy(entry, Holders \cup queue) = {}
    BY <1>1 DEF BusyClasses, Busy
  <2>4. ClassCounts(entry, Holders) = <<>> /\ PrincipalCounts(entry, Holders, queue) = <<>>
    BY <2>3 DEF ClassCounts, PrincipalCounts
  <2> QED BY <2>1, <2>2, <2>4, Zenon DEF Counted
<1>5. Roomy /\ Aged
  BY <1>1 DEF Roomy, Aged
<1> QED BY <1>3, <1>4, <1>5 DEF WorkloadInv

(* Every critical section keeps the invariant.                             *)
LEMMA NextInv == WorkloadInv /\ [Next]_vars => WorkloadInv'
<1> SUFFICES ASSUME WorkloadInv, [Next]_vars PROVE WorkloadInv'
  OBVIOUS
<1>1. ASSUME NEW c \in Classes, NEW p \in Principals, Arrive(c, FALSE, p) PROVE WorkloadInv'
  BY <1>1, ArriveKeeps, Zenon
<1>2. ASSUME NEW c \in OperatorClasses, Arrive(c, TRUE, NoPrincipal) PROVE WorkloadInv'
  BY <1>2, ArriveKeeps, Zenon
<1>3. ASSUME NEW i \in Attempts, Poll(i) \/ DropTicket(i) \/ DropLease(i) \/ Fire(i)
      PROVE  WorkloadInv'
  BY <1>3, PollKeeps, DropTicketKeeps, DropLeaseKeeps, FireKeeps
<1>4. ASSUME NEW candidate \in Candidates, Reload(candidate) PROVE WorkloadInv'
  BY <1>4, ReloadKeeps
<1>5. CASE UNCHANGED vars
  <2>1. UNCHANGED <<startup, policy, active, operator_active, classes, principals, queue, next_id,
                    fired, phase, entry, bypasses, ahead, overtaken>>
    BY <1>5 DEF vars, attempts
  <2>2. Attempts' = Attempts /\ Holders' = Holders /\ Waiting' = Waiting
    BY <2>1, Zenon DEF Attempts, Holders, Waiting
  <2>3. Types'
    BY <2>1, <2>2 DEF WorkloadInv, Shape, Types
  <2>4. Shape'
    BY <2>1, <2>2, <2>3 DEF WorkloadInv, Shape
  <2> QED BY <2>1, <2>2, <2>4, Zenon DEF WorkloadInv, Counted, Roomy, Aged
<1> QED BY <1>1, <1>2, <1>3, <1>4, <1>5, Zenon DEF Next

(* The invariant holds in every reachable state.                           *)
LEMMA AlwaysInv == Spec => []WorkloadInv
  BY InitInv, NextInv, PTL DEF Spec

-----------------------------------------------------------------------------

(* The counters of State are the work there is, however entries leave the  *)
(* queue and leases are dropped (release_queued, release_active, purge).   *)
THEOREM Exact == Spec => []CountsExact
<1>1. WorkloadInv => CountsExact
  <2> SUFFICES ASSUME WorkloadInv PROVE CountsExact
    OBVIOUS
  <2>1. Counted
    BY DEF WorkloadInv
  <2>2. {i \in Holders : IsData(i)} = {i \in Holders : ~entry[i].operator}
    BY DEF IsData
  <2>3. {i \in Holders : ~IsData(i)} = {i \in Holders : entry[i].operator}
    BY ZenonT(30) DEF IsData
  <2>4. classes = [c \in {entry[i].class : i \in {j \in Holders : IsData(j)}} |->
                     Cardinality({i \in Holders : IsData(i) /\ entry[i].class = c})]
    BY <2>1 DEF Counted, ClassCounts, BusyClasses, OfClass, IsData
  <2>5. principals
          = [p \in {entry[i].principal : i \in {j \in Holders \cup queue : IsData(j)}} |->
               [active |-> Cardinality({i \in Holders : IsData(i) /\ entry[i].principal = p}),
                queued |-> Cardinality({i \in queue : IsData(i) /\ entry[i].principal = p})]]
    BY <2>1, ZenonT(60) DEF Counted, PrincipalCounts, Work, Busy, OfPrincipal, IsData
  <2>6. /\ active = Cardinality({i \in Holders : IsData(i)})
        /\ operator_active = Cardinality({i \in Holders : ~IsData(i)})
    BY <2>1, <2>2, <2>3 DEF Counted
  <2> QED BY <2>4, <2>5, <2>6, Zenon DEF CountsExact
<1> QED BY <1>1, AlwaysInv, PTL

(* No admission and no place in the queue exceeds a limit of the policy    *)
(* that the request came under, whatever is reloaded (available,           *)
(* check_queue_capacity).                                                  *)
THEOREM Capacity == Spec => []CapacityHeld
<1>1. WorkloadInv => CapacityHeld
  <2> SUFFICES ASSUME WorkloadInv PROVE CapacityHeld
    OBVIOUS
  <2>1. Roomy
    BY DEF WorkloadInv
  <2> QED BY <2>1, Zenon DEF Roomy, LeaseRoom, PlaceRoom, Below, Limit, OfClass, OfPrincipal, IsData,
                      CapacityHeld
<1> QED BY <1>1, AlwaysInv, PTL

(* A waiter is passed at most max_bypass times (age_older_eligible,        *)
(* first_eligible).                                                        *)
THEOREM Bypass == Spec => []BypassBounded
<1>1. WorkloadInv => BypassBounded
  BY DEF WorkloadInv, Aged, BypassBounded
<1> QED BY <1>1, AlwaysInv, PTL

(* A pool whose leases are all back admits whoever waits in it.            *)
LEMMA EmptyPoolAdmits ==
    ASSUME Shape, Counted, NEW i \in queue,
           {j \in Holders : entry[j].operator = entry[i].operator} = {}
    PROVE  available(entry[i])
<1> DEFINE x == entry[i]
<1>1. /\ Sound(x) /\ IsFiniteSet(Holders) /\ IsFiniteSet(queue)
      /\ Holders \subseteq Attempts /\ i \in Attempts
  BY FiniteAttempts DEF Shape
<1>2. IsPolicy(x.policy) /\ Validate(x.policy) /\ x.class \in DOMAIN x.policy.classes
      /\ x.operator \in BOOLEAN /\ \A j \in Holders : entry[j].operator \in BOOLEAN
  BY <1>1, PolicyAssumption, Zenon DEF Sound, EntryType, Shape
<1>3. Cardinality({}) = 0
  BY FS_EmptySet
<1>4. CASE x.operator
  <2>1. {j \in Holders : entry[j].operator} = {}
    BY <1>2, <1>4, Zenon
  <2>2. operator_active = 0
    BY <1>3, <2>1, Zenon DEF Counted
  <2>3. x.policy.operator_max_active \in Nat /\ x.policy.operator_max_active # 0
    BY <1>2, Zenon DEF IsPolicy, Validate
  <2> HIDE DEF x
  <2>4. available(x)
    BY <1>4, <2>2, <2>3 DEF available
  <2> QED BY <2>4 DEF x
<1>5. CASE ~x.operator
  <2>1. {j \in Holders : ~entry[j].operator} = {}
    BY <1>2, <1>5, Zenon
  <2>2. active = 0
    BY <1>3, <2>1, Zenon DEF Counted
  <2>3. OfClass(entry, Holders, x.class) = {} /\ OfPrincipal(entry, Holders, x.principal) = {}
    BY <2>1 DEF OfClass, OfPrincipal
  <2>4. ClassCount(x.class) = 0
    BY <1>1, <1>3, <2>3, ClassWork, ZenonT(60) DEF Counted, ClassCount
  <2>5. Occupancy(x.principal).active = 0
    <3>1. CountOf(PrincipalCounts(entry, Holders, queue), x.principal, Idle)
            = Work(entry, Holders, queue, x.principal)
      BY <1>1, WorkCounts, Zenon
    <3>2. Occupancy(x.principal) = Work(entry, Holders, queue, x.principal)
      BY <3>1, Zenon DEF Counted, Occupancy
    <3> HIDE DEF x
    <3> QED BY <1>3, <2>3, <3>2 DEF Work
  <2>6. /\ x.policy.max_active \in Nat /\ x.policy.max_active # 0
        /\ x.policy.classes[x.class].max_active \in 1 .. x.policy.max_active
        /\ x.policy.principal # <<>> =>
              x.policy.principal[1].max_active \in 1 .. x.policy.max_active
    BY <1>2, ZenonT(60) DEF IsPolicy, Validate
  <2> HIDE DEF x
  <2>7. /\ active < x.policy.max_active
        /\ ClassCount(x.class) < x.policy.classes[x.class].max_active
        /\ x.policy.principal # <<>> =>
              Occupancy(x.principal).active < x.policy.principal[1].max_active
    BY <2>2, <2>4, <2>5, <2>6
  <2>8. available(x)
    BY <1>5, <2>7, Zenon DEF available
  <2> QED BY <2>8 DEF x
<1> QED BY <1>4, <1>5, Zenon

(* A pool with waiters stands still only while its leases are held         *)
(* (try_acquire polls, purge, first_eligible).                             *)
THEOREM Moves == Spec => []PoolMoves
<1>1. WorkloadInv => PoolMoves
  <2> SUFFICES ASSUME WorkloadInv PROVE PoolMoves
    OBVIOUS
  <2> USE DEF WorkloadInv
  <2>1. Waiting \ queue \subseteq fired /\ queue \subseteq Waiting
    BY DEF Shape
  <2>2. ASSUME NEW operator \in BOOLEAN,
               {i \in queue \ fired : entry[i].operator = operator} # {},
               {i \in Holders : entry[i].operator = operator} = {}
        PROVE  first_eligible(queue \ fired, operator) \cap Waiting # {}
    <3>1. PICK i \in queue \ fired : entry[i].operator = operator
      BY <2>2, Zenon
    <3>2. available(entry[i])
      BY <2>2, <3>1, EmptyPoolAdmits, Zenon
    <3>3. i \in Eligible(queue \ fired, operator)
      BY <3>1, <3>2 DEF Eligible
    <3>4. queue \ fired \in SUBSET queue
      OBVIOUS
    <3>5. PICK m \in first_eligible(queue \ fired, operator) : m \in Eligible(queue \ fired, operator)
      BY <3>3, <3>4, FirstEligible, Zenon
    <3>6. m \in Waiting
      BY <2>1, <3>5 DEF Eligible
    <3> QED BY <3>5, <3>6, Zenon
  <2> QED BY <2>1, <2>2 DEF PoolMoves
<1> QED BY <1>1, AlwaysInv, PTL
=============================================================================
