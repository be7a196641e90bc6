---------------------------- MODULE AirconProofs ----------------------------
(***************************************************************************)
(* Proofs about Aircon: type correctness, and what a client, the appliance  *)
(* and a restart rely on.                                                   *)
(*                                                                         *)
(* The schedule list is sorted and pruned by moving its items to the places  *)
(* a bijection gives them, so what is counted in it is counted the same      *)
(* afterwards; the first part is about that.  The invariant is Duties: the   *)
(* two documents are well formed and differ only in what they say of tasks   *)
(* that were executed, the holder of the mutex works on a task that is       *)
(* marked as running, and what was handed to the infrared worker is not      *)
(* pending.  Shadow, about the appliance, rests on it.                       *)
(***************************************************************************)
EXTENDS Aircon, SequenceTheorems, FunctionTheorems, FiniteSetTheorems, TLAPS

-----------------------------------------------------------------------------
(* Places in a list: a numbering that gives no two items the same place leaves    *)
(* no place empty.                                                            *)
LEMMA Places ==
    ASSUME NEW K, IsFiniteSet(K), NEW place \in [K -> 1..Cardinality(K)],
           \A i, j \in K : place[i] = place[j] => i = j
    PROVE  place \in Bijection(K, 1..Cardinality(K))
<1>1. Cardinality(K) \in Nat
  BY FS_CardinalityType
<1>2. IsFiniteSet(1..Cardinality(K)) /\ Cardinality(1..Cardinality(K)) = Cardinality(K)
  BY <1>1, FS_Interval
<1>3. place \in Injection(K, 1..Cardinality(K))
  BY Fun_IsInj
<1>4. place \in Surjection(K, 1..Cardinality(K))
  BY <1>2, <1>3, FS_Injection
<1>. QED
  BY <1>3, <1>4 DEF Bijection

LEMMA Bijects ==
    ASSUME NEW S, NEW T, NEW f \in Bijection(S, T)
    PROVE  /\ f \in [S -> T] /\ DOMAIN f = S
           /\ \A i, j \in S : f[i] = f[j] => i = j
           /\ \A k \in T : \E i \in S : f[i] = k
BY DEF Bijection, Injection, Surjection, IsInjective

(* How many elements of a set come before one of them, itself included.          *)
LEMMA Counted ==
    ASSUME NEW K, IsFiniteSet(K), NEW A \in SUBSET K, NEW i \in A
    PROVE  IsFiniteSet(A) /\ Cardinality(A) \in 1..Cardinality(K)
<1>1. IsFiniteSet(A) /\ Cardinality(A) <= Cardinality(K)
  BY FS_Subset
<1>2. Cardinality(A) \in Nat /\ Cardinality(K) \in Nat
  BY <1>1, FS_CardinalityType
<1>3. Cardinality(A) # 0
  BY <1>1, FS_EmptySet
<1>. QED
  BY <1>1, <1>2, <1>3

LEMMA Smaller ==
    ASSUME NEW A, NEW B, IsFiniteSet(B), A \subseteq B, NEW i \in B, i \notin A
    PROVE  Cardinality(A) # Cardinality(B)
BY FS_Subset

LEMMA Numbering ==
    ASSUME NEW n \in Nat, NEW K \in SUBSET (1..n)
    PROVE  IsFiniteSet(K) /\ Numbered(K) \in Bijection(K, 1..Cardinality(K))
<1>. DEFINE upto(i) == {j \in K : j <= i}
<1>1. IsFiniteSet(K)
  <2>1. IsFiniteSet(1..n)
    BY FS_Interval
  <2>. QED
    BY <2>1, FS_Subset
<1>0. \A i \in K : i \in Int
  OBVIOUS
<1>2. ASSUME NEW i \in K PROVE Cardinality(upto(i)) \in 1..Cardinality(K)
  <2>1. i \in upto(i)
    BY <1>0
  <2>. QED
    BY <2>1, <1>1, Counted
<1>3. ASSUME NEW i \in K, NEW j \in K, i < j
      PROVE  Cardinality(upto(i)) # Cardinality(upto(j))
  <2>1. upto(i) \subseteq upto(j)
    <3>1. \A k \in K : k <= i => k <= j
      BY <1>0, <1>3
    <3>. QED
      BY <3>1
  <2>3. j \in upto(j) /\ j \notin upto(i)
    BY <1>0, <1>3
  <2>2. IsFiniteSet(upto(j))
    BY <1>1, FS_Subset
  <2>. QED
    BY <2>1, <2>2, <2>3, Smaller
<1>4. Numbered(K) \in [K -> 1..Cardinality(K)] /\ \A i \in K : Numbered(K)[i] = Cardinality(upto(i))
  BY <1>2 DEF Numbered
<1>5. \A i, j \in K : i < j \/ j < i \/ i = j
  OBVIOUS
<1>6. \A i, j \in K : Numbered(K)[i] = Numbered(K)[j] => i = j
  BY <1>3, <1>4, <1>5
<1>. HIDE DEF upto
<1>. QED
  BY <1>1, <1>4, <1>6, Places

(* The first of a set of indexes.                                             *)
LEMMA First ==
    ASSUME NEW n \in Nat, NEW K \in SUBSET (1..n), K # {}
    PROVE  Min(K) \in K
<1>1. IsFiniteSet(K) /\ Numbered(K) \in Bijection(K, 1..Cardinality(K))
  BY Numbering
<1>2. 1 \in 1..Cardinality(K)
  BY <1>1, Counted
<1>3. PICK i \in K : Numbered(K)[i] = 1
  BY <1>1, <1>2 DEF Bijection, Surjection
<1>. DEFINE upto == {j \in K : j <= i}
<1>4. Cardinality(upto) = 1 /\ IsFiniteSet(upto) /\ i \in upto
  BY <1>1, <1>3, FS_Subset DEF Numbered
<1>5. upto = {i}
  BY <1>4, FS_Singleton
<1>6. \A j \in K : i <= j
  BY <1>5
<1>. QED
  BY <1>6 DEF Min

-----------------------------------------------------------------------------
(* A list that is arranged anew.                                              *)
LEMMA ArrangedIs ==
    ASSUME NEW S, NEW s \in Seq(S), NEW K \in SUBSET DOMAIN s, IsFiniteSet(K),
           NEW place \in Bijection(K, 1..Cardinality(K))
    PROVE  LET r == Arranged(s, place)
           IN  /\ r \in Seq(S) /\ Len(r) = Cardinality(K) /\ DOMAIN r = 1..Cardinality(K)
               /\ \A i \in K : place[i] \in DOMAIN r /\ r[place[i]] = s[i]
               /\ \A k \in DOMAIN r : \E i \in K : place[i] = k /\ r[k] = s[i]
               /\ \A i, j \in K : place[i] = place[j] => i = j
<1>. DEFINE n == Cardinality(K)
            origin == Inverse(place, K, 1..n)
            r == [k \in 1..n |-> s[origin[k]]]
<1>1. n \in Nat
  BY FS_CardinalityType
<1>2. /\ place \in [K -> 1..n] /\ DOMAIN place = K
      /\ \A i, j \in K : place[i] = place[j] => i = j
      /\ \A k \in 1..n : \E i \in K : place[i] = k
  BY DEF Bijection, Injection, Surjection, IsInjective
<1>3. origin \in Bijection(1..n, K) /\ \A i \in K : origin[place[i]] = i
  BY Fun_BijInverse
<1>4. origin \in [1..n -> K]
  BY <1>3 DEF Bijection, Injection
<1>5. Arranged(s, place) = r
  BY <1>2 DEF Arranged
<1>. HIDE DEF n, origin
<1>6. r \in [1..n -> S]
  <2>1. \A i \in DOMAIN s : s[i] \in S
    OBVIOUS
  <2>. QED
    BY <1>4, <2>1
<1>7. r \in Seq(S) /\ Len(r) = n /\ DOMAIN r = 1..n
  <2>1. r \in Seq(S)
    BY <1>1, <1>6
  <2>. QED
    BY <1>1, <1>6, <2>1, LenProperties
<1>8. \A i \in K : place[i] \in DOMAIN r /\ r[place[i]] = s[i]
  BY <1>2, <1>3
<1>9. \A k \in DOMAIN r : \E i \in K : place[i] = k /\ r[k] = s[i]
  BY <1>2, <1>3
<1>. HIDE DEF r
<1>. QED
  BY <1>2, <1>5, <1>7, <1>8, <1>9 DEF n

(* The items of a kind are as many in their new places.                        *)
LEMMA ArrangedCount ==
    ASSUME NEW K, IsFiniteSet(K), NEW place \in Bijection(K, 1..Cardinality(K)),
           NEW A \in SUBSET K, NEW B \in SUBSET (1..Cardinality(K)),
           \A i \in K : i \in A <=> place[i] \in B
    PROVE  Cardinality(B) = Cardinality(A)
<1>. DEFINE f == [i \in A |-> place[i]]
<1>1. /\ place \in [K -> 1..Cardinality(K)]
      /\ \A i, j \in K : place[i] = place[j] => i = j
      /\ \A k \in 1..Cardinality(K) : \E i \in K : place[i] = k
  BY Bijects
<1>2. f \in [A -> B] /\ \A i, j \in A : f[i] = f[j] => i = j
  BY <1>1
<1>3. \A k \in B : \E i \in A : f[i] = k
  BY <1>1
<1>. HIDE DEF f
<1>4. f \in Injection(A, B) /\ f \in Surjection(A, B)
  BY <1>2, <1>3, Fun_IsInj, Fun_IsSurj
<1>5. ExistsBijection(A, B)
  BY <1>4 DEF ExistsBijection, Bijection
<1>6. IsFiniteSet(A)
  BY FS_Subset
<1>. QED
  BY <1>5, <1>6, FS_Bijection

-----------------------------------------------------------------------------
(* Lists of schedules.                                                        *)
Actives(s) == {i \in DOMAIN s : Active(s[i])}
Reservations(s) == {i \in DOMAIN s : Reserves(s[i])}
Distinct(s) == \A i, j \in DOMAIN s : s[i].id = s[j].id => i = j
Single(s) == \A i, j \in DOMAIN s :
    s[i].request_id # "" /\ s[i].request_id = s[j].request_id => i = j
Below(s, n) == \A i \in DOMAIN s : s[i].id < n
Has(s, id, status) == \E i \in DOMAIN s : s[i].id = id /\ s[i].status = status

LEMMA HasIs == \A d, status, id : id \in Ids(d, status) <=> Has(d.schedules, id, status)
BY DEF Ids, Has

LEMMA ReservationsAreActive == \A s : Reservations(s) \subseteq Actives(s)
BY DEF Reservations, Actives, Reserves, Active

LEMMA TakenIs ==
    ASSUME NEW s \in Seq(Task)
    PROVE  /\ Taken(s) = Cardinality(Actives(s)) + Cardinality(Reservations(s))
           /\ Cardinality(Actives(s)) \in Nat /\ Cardinality(Reservations(s)) \in Nat
           /\ IsFiniteSet(Actives(s)) /\ IsFiniteSet(Reservations(s))
           /\ IsFiniteSet(DOMAIN s) /\ Cardinality(DOMAIN s) = Len(s)
           /\ Len(s) \in Nat /\ DOMAIN s = 1..Len(s)
<1>1. Len(s) \in Nat /\ DOMAIN s = 1..Len(s)
  BY LenProperties
<1>2. IsFiniteSet(DOMAIN s) /\ Cardinality(DOMAIN s) = Len(s)
  BY <1>1, FS_Interval
<1>3. Actives(s) \subseteq DOMAIN s /\ Reservations(s) \subseteq DOMAIN s
  BY DEF Actives, Reservations
<1>4. IsFiniteSet(Actives(s)) /\ IsFiniteSet(Reservations(s))
  BY <1>2, <1>3, FS_Subset
<1>5. Cardinality(Actives(s)) \in Nat /\ Cardinality(Reservations(s)) \in Nat
  BY <1>4, FS_CardinalityType
<1>6. Taken(s) = Cardinality(Actives(s)) + Cardinality(Reservations(s))
  BY DEF Taken, Actives, Reservations
<1>. QED
  BY <1>1, <1>2, <1>4, <1>5, <1>6

(* A list that is arranged anew without its settled items, or some of them, takes  *)
(* up as many places, and loses no task.                                       *)
LEMMA ArrangedTasks ==
    ASSUME NEW s \in Seq(Task), NEW K \in SUBSET DOMAIN s, Actives(s) \subseteq K,
           NEW place \in Bijection(K, 1..Cardinality(K))
    PROVE  LET r == Arranged(s, place)
           IN  /\ r \in Seq(Task) /\ Len(r) = Cardinality(K) /\ Taken(r) = Taken(s)
               /\ \A k \in DOMAIN r : \E i \in DOMAIN s : r[k] = s[i]
               /\ Distinct(s) => Distinct(r)
               /\ Single(s) => Single(r)
               /\ \A n : Below(s, n) => Below(r, n)
               /\ \A id, status : Has(r, id, status) => Has(s, id, status)
               /\ \A id, status :
                     status \in {"pending", "running"} /\ Has(s, id, status) => Has(r, id, status)
<1>. DEFINE r == Arranged(s, place)
<1>1. IsFiniteSet(DOMAIN s) /\ IsFiniteSet(K)
  BY TakenIs, FS_Subset
<1>2. /\ r \in Seq(Task) /\ Len(r) = Cardinality(K) /\ DOMAIN r = 1..Cardinality(K)
      /\ \A i \in K : place[i] \in DOMAIN r /\ r[place[i]] = s[i]
      /\ \A k \in DOMAIN r : \E i \in K : place[i] = k /\ r[k] = s[i]
      /\ \A i, j \in K : place[i] = place[j] => i = j
  BY <1>1, ArrangedIs
<1>. HIDE DEF r
<1>3. Cardinality(Actives(r)) = Cardinality(Actives(s))
  <2>1. \A i \in K : i \in Actives(s) <=> place[i] \in Actives(r)
    BY <1>2 DEF Actives
  <2>2. Actives(r) \in SUBSET (1..Cardinality(K)) /\ Actives(s) \in SUBSET K
    BY <1>2 DEF Actives
  <2>. QED
    BY <1>1, <2>1, <2>2, ArrangedCount
<1>4. Cardinality(Reservations(r)) = Cardinality(Reservations(s))
  <2>1. \A i \in K : i \in Reservations(s) <=> place[i] \in Reservations(r)
    BY <1>2 DEF Reservations
  <2>2. Reservations(r) \in SUBSET (1..Cardinality(K)) /\ Reservations(s) \in SUBSET K
    BY <1>2, ReservationsAreActive DEF Reservations
  <2>. QED
    BY <1>1, <2>1, <2>2, ArrangedCount
<1>5. Taken(r) = Taken(s)
  BY <1>2, <1>3, <1>4, TakenIs
<1>6. \A k \in DOMAIN r : \E i \in DOMAIN s : r[k] = s[i]
  BY <1>2
<1>7. ASSUME Distinct(s) PROVE Distinct(r)
  <2>. SUFFICES ASSUME NEW k \in DOMAIN r, NEW l \in DOMAIN r, r[k].id = r[l].id PROVE k = l
    BY DEF Distinct
  <2>1. PICK i \in K : place[i] = k /\ r[k] = s[i]
    BY <1>2
  <2>2. PICK j \in K : place[j] = l /\ r[l] = s[j]
    BY <1>2
  <2>. QED
    BY <2>1, <2>2, <1>7 DEF Distinct
<1>8. ASSUME Single(s) PROVE Single(r)
  <2>. SUFFICES ASSUME NEW k \in DOMAIN r, NEW l \in DOMAIN r, r[k].request_id # "",
                       r[k].request_id = r[l].request_id
                PROVE  k = l
    BY DEF Single
  <2>1. PICK i \in K : place[i] = k /\ r[k] = s[i]
    BY <1>2
  <2>2. PICK j \in K : place[j] = l /\ r[l] = s[j]
    BY <1>2
  <2>. QED
    BY <2>1, <2>2, <1>8 DEF Single
<1>9. \A n : Below(s, n) => Below(r, n)
  BY <1>6 DEF Below
<1>10. \A id, status : Has(r, id, status) => Has(s, id, status)
  BY <1>6 DEF Has
<1>11. ASSUME NEW id, NEW status, status \in {"pending", "running"}, Has(s, id, status)
       PROVE  Has(r, id, status)
  <2>1. PICK i \in DOMAIN s : s[i].id = id /\ s[i].status = status
    BY <1>11 DEF Has
  <2>2. i \in K
    BY <2>1, <1>11 DEF Actives, Active
  <2>. QED
    BY <2>1, <2>2, <1>2 DEF Has
<1>. QED
  BY <1>2, <1>5, <1>6, <1>7, <1>8, <1>9, <1>10, <1>11 DEF r

(* sort_by_key: a list with the same items.                                     *)
LEMMA TimePlaces ==
    ASSUME NEW s \in Seq(Task)
    PROVE  [i \in DOMAIN s |-> Cardinality({j \in DOMAIN s : Before(s, j, i)})]
             \in Bijection(DOMAIN s, 1..Cardinality(DOMAIN s))
<1>. DEFINE K == DOMAIN s
            upto(i) == {j \in K : Before(s, j, i)}
            place == [i \in K |-> Cardinality(upto(i))]
<1>1. /\ IsFiniteSet(K) /\ \A i \in K : i \in Int
      /\ \A i \in K : s[i].at \in Int
  <2>1. \A i \in K : s[i] \in Task
    OBVIOUS
  <2>2. \A t \in Task : t.at \in Nat
    BY DEF Task
  <2>. QED
    BY <2>1, <2>2, TakenIs
<1>2. ASSUME NEW i \in K PROVE i \in upto(i) /\ IsFiniteSet(upto(i))
  <2>1. i <= i
    BY <1>1
  <2>. QED
    BY <2>1, <1>1, FS_Subset DEF Before
<1>3. ASSUME NEW i \in K PROVE Cardinality(upto(i)) \in 1..Cardinality(K)
  BY <1>1, <1>2, Counted
<1>4. ASSUME NEW i \in K, NEW j \in K, ~Before(s, j, i)
      PROVE  Cardinality(upto(i)) # Cardinality(upto(j))
  <2>1. ASSUME NEW k \in K, Before(s, k, i) PROVE Before(s, k, j)
    BY <1>1, <1>4, <2>1 DEF Before
  <2>2. upto(i) \subseteq upto(j) /\ j \in upto(j) /\ j \notin upto(i)
    BY <2>1, <1>2, <1>4
  <2>. QED
    BY <2>2, <1>2, Smaller
<1>5. \A i, j \in K : i # j => ~Before(s, i, j) \/ ~Before(s, j, i)
  BY <1>1 DEF Before
<1>6. place \in [K -> 1..Cardinality(K)] /\ \A i \in K : place[i] = Cardinality(upto(i))
  BY <1>3
<1>7. \A i, j \in K : place[i] = place[j] => i = j
  BY <1>4, <1>5, <1>6
<1>. HIDE DEF place, upto
<1>8. place \in Bijection(K, 1..Cardinality(K))
  BY <1>1, <1>6, <1>7, Places
<1>. QED
  BY <1>8 DEF place, upto

(* prune_schedules: what is active stays, and the rest as far as there is room.     *)
LEMMA PrunedAre ==
    ASSUME NEW s \in Seq(Task), Taken(s) <= MaxSchedules
    PROVE  LET K == DOMAIN s \ Pruned(s)
           IN  /\ Numbered(K) \in Bijection(K, 1..Cardinality(K))
               /\ Actives(s) \subseteq K /\ Cardinality(K) <= MaxSchedules
<1>. DEFINE K == DOMAIN s \ Pruned(s)
            m == Len(s) - MaxSchedules
            old == Settled(s)
<1>1. /\ IsFiniteSet(DOMAIN s) /\ Cardinality(DOMAIN s) = Len(s) /\ Len(s) \in Nat
      /\ DOMAIN s = 1..Len(s) /\ IsFiniteSet(Actives(s)) /\ Cardinality(Actives(s)) \in Nat
      /\ Cardinality(Actives(s)) <= MaxSchedules /\ MaxSchedules \in Nat
  BY TakenIs, AirconAssumption
<1>2. Numbered(K) \in Bijection(K, 1..Cardinality(K))
  BY <1>1, Numbering
<1>3. Actives(s) \subseteq K
  BY DEF Actives, Pruned, Settled
<1>4. old \in SUBSET (1..Len(s)) /\ IsFiniteSet(old)
  <2>1. old \in SUBSET DOMAIN s
    BY DEF Settled
  <2>. QED
    BY <2>1, <1>1, FS_Subset
<1>5. Numbered(old) \in Bijection(old, 1..Cardinality(old))
  BY <1>1, <1>4, Numbering
<1>6. Cardinality(old) = Len(s) - Cardinality(Actives(s))
  <2>0. \A i \in DOMAIN s : i \in old <=> i \notin Actives(s)
    BY DEF Settled, Actives
  <2>2. Actives(s) \subseteq DOMAIN s /\ old \subseteq DOMAIN s
    BY DEF Settled, Actives
  <2>3. old = DOMAIN s \ Actives(s)
    BY <2>0, <2>2
  <2>4. DOMAIN s \cap Actives(s) = Actives(s)
    BY <2>2
  <2>1. old = DOMAIN s \ Actives(s) /\ DOMAIN s \cap Actives(s) = Actives(s)
    BY <2>3, <2>4
  <2>5. Cardinality(DOMAIN s \ Actives(s))
          = Cardinality(DOMAIN s) - Cardinality(DOMAIN s \cap Actives(s))
    BY <1>1, FS_Difference
  <2>. QED
    BY <2>1, <2>5, <1>1
<1>7. Cardinality(K) <= MaxSchedules
  <2>0. Pruned(s) \subseteq old /\ old \subseteq DOMAIN s
    BY DEF Pruned, Settled
  <2>1. CASE Len(s) <= MaxSchedules
    <3>1. Cardinality(K) <= Len(s) /\ IsFiniteSet(K)
      BY <1>1, FS_Subset
    <3>2. Cardinality(K) \in Nat
      BY <3>1, FS_CardinalityType
    <3>. QED
      BY <1>1, <2>1, <3>1, <3>2
  <2>2. CASE ~(Len(s) <= MaxSchedules)
    <3>1. m \in Nat /\ m <= Cardinality(old) /\ Cardinality(old) \in Nat
      BY <1>1, <1>6, <2>2
    <3>2. 1..m \in SUBSET (1..Cardinality(old))
      BY <3>1
    <3>3. \A i \in old : Numbered(old)[i] \in 1..Cardinality(old)
      BY <1>5 DEF Bijection, Injection
    <3>10. \A i \in old : i \in Pruned(s) <=> Numbered(old)[i] <= m
      BY DEF Pruned
    <3>4. \A i \in old : i \in Pruned(s) <=> Numbered(old)[i] \in 1..m
      BY <3>1, <3>3, <3>10
    <3>. HIDE DEF old, m
    <3>5. Pruned(s) \in SUBSET old
      BY <2>0
    <3>6. Cardinality(1..m) = Cardinality(Pruned(s))
      <4>. DEFINE place == Numbered(old)
                  B == 1..m
                  A == Pruned(s)
      <4>1. /\ IsFiniteSet(old) /\ place \in Bijection(old, 1..Cardinality(old))
            /\ A \in SUBSET old /\ B \in SUBSET (1..Cardinality(old))
            /\ \A i \in old : i \in A <=> place[i] \in B
        BY <1>4, <1>5, <3>2, <3>4, <3>5
      <4>. HIDE DEF place, A, B
      <4>2. Cardinality(B) = Cardinality(A)
        BY <4>1, ArrangedCount
      <4>. QED
        BY <4>2 DEF A, B
    <3>7. Cardinality(Pruned(s)) = m
      BY <3>1, <3>6, FS_Interval
    <3>8. DOMAIN s \cap Pruned(s) = Pruned(s)
      <4>1. Pruned(s) \subseteq DOMAIN s
        BY <2>0 DEF old
      <4>. QED
        BY <4>1
    <3>9. Cardinality(K) = Len(s) - m
      BY <1>1, <3>7, <3>8, FS_Difference
    <3>. QED
      BY <1>1, <3>9 DEF m
  <2>. QED
    BY <2>1, <2>2
<1>. QED
  BY <1>2, <1>3, <1>7

(* Both of them.                                                              *)
Kept(s, r) ==
    /\ r \in Seq(Task) /\ Taken(r) = Taken(s) /\ Len(r) <= MaxSchedules
    /\ \A k \in DOMAIN r : \E i \in DOMAIN s : r[k] = s[i]
    /\ Distinct(s) => Distinct(r)
    /\ Single(s) => Single(r)
    /\ \A n : Below(s, n) => Below(r, n)
    /\ \A id, status : Has(r, id, status) => Has(s, id, status)
    /\ \A id, status :
          status \in {"pending", "running"} /\ Has(s, id, status) => Has(r, id, status)

LEMMA Tidied ==
    ASSUME NEW s \in Seq(Task), Taken(s) <= MaxSchedules
    PROVE  Kept(s, Prune(ByTime(s)))
<1>. DEFINE place == [i \in DOMAIN s |-> Cardinality({j \in DOMAIN s : Before(s, j, i)})]
            t == Arranged(s, place)
<1>1. place \in Bijection(DOMAIN s, 1..Cardinality(DOMAIN s))
  BY TimePlaces
<1>2. Actives(s) \subseteq DOMAIN s
  BY DEF Actives
<1>3. t = ByTime(s)
  BY DEF ByTime
<1>. HIDE DEF place
<1>4. /\ t \in Seq(Task) /\ Taken(t) = Taken(s)
      /\ \A k \in DOMAIN t : \E i \in DOMAIN s : t[k] = s[i]
      /\ Distinct(s) => Distinct(t)
      /\ Single(s) => Single(t)
      /\ \A n : Below(s, n) => Below(t, n)
      /\ \A id, status : Has(t, id, status) => Has(s, id, status)
      /\ \A id, status :
            status \in {"pending", "running"} /\ Has(s, id, status) => Has(t, id, status)
  BY <1>1, <1>2, ArrangedTasks
<1>. HIDE DEF t
<1>. DEFINE K == DOMAIN t \ Pruned(t)
            r == Arranged(t, Numbered(K))
<1>5. /\ Numbered(K) \in Bijection(K, 1..Cardinality(K))
      /\ Actives(t) \subseteq K /\ Cardinality(K) <= MaxSchedules
  BY <1>4, PrunedAre
<1>6. r = Prune(t)
  BY DEF Prune
<1>7. K \in SUBSET DOMAIN t
  OBVIOUS
<1>. HIDE DEF K
<1>8. /\ r \in Seq(Task) /\ Len(r) = Cardinality(K) /\ Taken(r) = Taken(t)
      /\ \A k \in DOMAIN r : \E i \in DOMAIN t : r[k] = t[i]
      /\ Distinct(t) => Distinct(r)
      /\ Single(t) => Single(r)
      /\ \A n : Below(t, n) => Below(r, n)
      /\ \A id, status : Has(r, id, status) => Has(t, id, status)
      /\ \A id, status :
            status \in {"pending", "running"} /\ Has(t, id, status) => Has(r, id, status)
  BY <1>4, <1>5, <1>7, ArrangedTasks
<1>. HIDE DEF r
<1>9. Len(r) <= MaxSchedules /\ Taken(r) = Taken(s)
  BY <1>4, <1>5, <1>8
<1>10. \A k \in DOMAIN r : \E i \in DOMAIN s : r[k] = s[i]
  BY <1>4, <1>8
<1>. QED
  BY <1>3, <1>4, <1>6, <1>8, <1>9, <1>10 DEF Kept

-----------------------------------------------------------------------------
(* The document.                                                              *)

(* What holds of the document in memory and of the one in the file.              *)
WellFormed(d) ==
    /\ Below(d.schedules, d.next_id)
    /\ Distinct(d.schedules)
    /\ Single(d.schedules)
    /\ Taken(d.schedules) <= MaxSchedules
    /\ Len(d.schedules) <= MaxSchedules

LEMMA DocumentIs ==
    ASSUME NEW d \in Document
    PROVE  /\ d.state \in State /\ d.known \in BOOLEAN /\ d.next_id \in Nat /\ d.next_id # 0
           /\ d.schedules \in Seq(Task)
           /\ DOMAIN d.schedules = 1..Len(d.schedules) /\ Len(d.schedules) \in Nat
           /\ \A i \in DOMAIN d.schedules : d.schedules[i] \in Task
<1>1. d.schedules \in Seq(Task)
  BY DEF Document
<1>2. \A i \in DOMAIN d.schedules : d.schedules[i] \in Task
  BY <1>1
<1>. QED
  BY <1>1, <1>2, LenProperties DEF Document

LEMMA TaskIs ==
    ASSUME NEW t \in Task
    PROVE  /\ t.id \in Nat /\ t.id # 0 /\ t.at \in Nat /\ t.auto_off \in Nat
           /\ t.command \in Operation /\ t.request_id \in RequestId /\ t.status \in Status
BY DEF Task

(* The state changes, and the tasks do not; or the tasks do, and the state does not. *)
LEMMA Believed ==
    ASSUME NEW d \in Document, NEW state \in State, NEW known \in BOOLEAN
    PROVE  LET e == [d EXCEPT !.state = state, !.known = known]
           IN  e \in Document /\ e.state = state /\ e.known = known
               /\ e.next_id = d.next_id /\ e.schedules = d.schedules
BY DEF Document

LEMMA Doubted ==
    ASSUME NEW d \in Document
    PROVE  LET e == [d EXCEPT !.known = FALSE]
           IN  e \in Document /\ e.state = d.state /\ e.known = FALSE
               /\ e.next_id = d.next_id /\ e.schedules = d.schedules
BY DEF Document

LEMMA Listed ==
    ASSUME NEW d \in Document, NEW s \in Seq(Task)
    PROVE  LET e == [d EXCEPT !.schedules = s]
           IN  e \in Document /\ e.schedules = s
               /\ e.state = d.state /\ e.known = d.known /\ e.next_id = d.next_id
BY DEF Document

(* A new task takes up the place it needs, and that of its off task.              *)
LEMMA Appended ==
    ASSUME NEW s \in Seq(Task), NEW t \in Task, t.status = "pending"
    PROVE  LET r == Append(s, t)
           IN  /\ r \in Seq(Task) /\ DOMAIN s = 1..Len(s) /\ Len(s) \in Nat
               /\ DOMAIN r = 1..(Len(s) + 1) /\ r[Len(s) + 1] = t
               /\ \A i \in DOMAIN s : r[i] = s[i]
               /\ Taken(r) = Taken(s) + (IF t.auto_off > 0 THEN 2 ELSE 1)
<1>. DEFINE r == Append(s, t)
            n == Len(s) + 1
<1>1. /\ r \in Seq(Task) /\ DOMAIN s = 1..Len(s) /\ Len(s) \in Nat
      /\ DOMAIN r = 1..n /\ r[n] = t /\ \A i \in DOMAIN s : r[i] = s[i]
  BY AppendProperties, LenProperties
<1>. HIDE DEF r
<1>2. n \notin DOMAIN s /\ \A i \in DOMAIN r : i \in DOMAIN s \/ i = n
  BY <1>1
<1>3. DOMAIN s \subseteq DOMAIN r /\ n \in DOMAIN r
  BY <1>1
<1>. HIDE DEF n
<1>4. Actives(r) = Actives(s) \cup {n}
  BY <1>1, <1>2, <1>3 DEF Actives, Active
<1>5. Reservations(r) = IF t.auto_off > 0 THEN Reservations(s) \cup {n} ELSE Reservations(s)
  BY <1>1, <1>2, <1>3 DEF Reservations, Reserves
<1>6. Cardinality(Actives(r)) = Cardinality(Actives(s)) + 1
  <2>1. IsFiniteSet(Actives(s)) /\ n \notin Actives(s)
    BY <1>2, TakenIs DEF Actives
  <2>. QED
    BY <2>1, <1>4, FS_AddElement
<1>7. Cardinality(Reservations(r))
        = IF t.auto_off > 0 THEN Cardinality(Reservations(s)) + 1 ELSE Cardinality(Reservations(s))
  <2>1. IsFiniteSet(Reservations(s)) /\ n \notin Reservations(s)
    BY <1>2, TakenIs DEF Reservations
  <2>2. Cardinality(Reservations(s) \cup {n}) = Cardinality(Reservations(s)) + 1
    BY <2>1, FS_AddElement
  <2>. QED
    BY <2>2, <1>5
<1>8. /\ Taken(r) = Cardinality(Actives(r)) + Cardinality(Reservations(r))
      /\ Taken(s) = Cardinality(Actives(s)) + Cardinality(Reservations(s))
      /\ Cardinality(Actives(s)) \in Nat /\ Cardinality(Reservations(s)) \in Nat
  BY <1>1, TakenIs
<1>9. Taken(r) = Taken(s) + (IF t.auto_off > 0 THEN 2 ELSE 1)
  BY <1>6, <1>7, <1>8
<1>. QED
  BY <1>1, <1>9 DEF r, n

(* insert_schedule, for a document the schedule fits.                             *)
LEMMA Inserted ==
    ASSUME NEW d \in Document, WellFormed(d), NEW command \in Operation,
           NEW request_id \in RequestId, NEW at \in Nat, NEW auto_off \in Nat,
           Fits(d, auto_off), ~Known(d, request_id)
    PROVE  LET e == Insert(d, command, request_id, at, auto_off)
           IN  /\ e \in Document /\ WellFormed(e)
               /\ e.state = d.state /\ e.known = d.known /\ e.next_id = d.next_id + 1
               /\ Has(e.schedules, d.next_id, "pending")
               /\ \A id : id # d.next_id /\ Has(e.schedules, id, "pending")
                            => Has(d.schedules, id, "pending")
               /\ \A id : Has(d.schedules, id, "running") => Has(e.schedules, id, "running")
<1>. DEFINE s == d.schedules
            t == [id |-> d.next_id, command |-> command, request_id |-> request_id, at |-> at,
                  auto_off |-> auto_off, status |-> "pending"]
            r == Append(s, t)
            u == Prune(ByTime(r))
            e == Insert(d, command, request_id, at, auto_off)
<1>1. /\ s \in Seq(Task) /\ d.next_id \in Nat /\ d.next_id # 0
      /\ \A i \in DOMAIN s : s[i].id \in Nat
  BY DocumentIs, TaskIs
<1>2. /\ t \in Task /\ t.status = "pending" /\ t.auto_off = auto_off /\ t.id = d.next_id
      /\ t.request_id = request_id
  BY <1>1 DEF Task, Status
<1>3. e = [d EXCEPT !.next_id = d.next_id + 1, !.schedules = u]
  BY DEF Insert
<1>. HIDE DEF t, s, e
<1>4. /\ r \in Seq(Task) /\ DOMAIN s = 1..Len(s) /\ Len(s) \in Nat
      /\ DOMAIN r = 1..(Len(s) + 1) /\ r[Len(s) + 1] = t
      /\ \A i \in DOMAIN s : r[i] = s[i]
      /\ Taken(r) = Taken(s) + (IF auto_off > 0 THEN 2 ELSE 1)
  BY <1>1, <1>2, Appended
<1>. HIDE DEF r
<1>5. \A i \in DOMAIN r : i \in DOMAIN s \/ i = Len(s) + 1
  BY <1>4
<1>6. Taken(r) <= MaxSchedules
  BY <1>4 DEF Fits, s
<1>7. Kept(r, u)
  BY <1>4, <1>6, Tidied
<1>8. Distinct(r)
  <2>1. Distinct(s) /\ \A i \in DOMAIN s : s[i].id < d.next_id
    BY DEF WellFormed, Below, s
  <2>2. \A i \in DOMAIN s : s[i].id # t.id
    BY <1>1, <1>2, <2>1
  <2>. QED
    BY <2>1, <2>2, <1>4, <1>5 DEF Distinct
<1>9. Single(r)
  <2>1. Single(s)
    BY DEF WellFormed, s
  <2>2. request_id # "" => \A i \in DOMAIN s : s[i].request_id # request_id
    BY DEF Known, s
  <2>3. ASSUME NEW i \in DOMAIN r, NEW j \in DOMAIN r, r[i].request_id # "",
               r[i].request_id = r[j].request_id
        PROVE  i = j
    <3>1. CASE i \in DOMAIN s /\ j \in DOMAIN s
      BY <3>1, <2>1, <2>3, <1>4 DEF Single
    <3>2. CASE i \in DOMAIN s /\ j = Len(s) + 1
      BY <3>2, <2>2, <2>3, <1>2, <1>4
    <3>3. CASE j \in DOMAIN s /\ i = Len(s) + 1
      BY <3>3, <2>2, <2>3, <1>2, <1>4
    <3>. QED
      BY <3>1, <3>2, <3>3, <1>5
  <2>. QED
    BY <2>3 DEF Single
<1>10. Below(r, d.next_id + 1)
  <2>1. \A i \in DOMAIN s : s[i].id < d.next_id
    BY DEF WellFormed, Below, s
  <2>2. \A i \in DOMAIN r : r[i].id < d.next_id + 1
    BY <2>1, <1>1, <1>2, <1>4, <1>5
  <2>. QED
    BY <2>2 DEF Below
<1>11. Has(r, d.next_id, "pending")
  BY <1>2, <1>4 DEF Has
<1>12. /\ \A id, st : Has(s, id, st) => Has(r, id, st)
       /\ \A id, st : id # d.next_id /\ Has(r, id, st) => Has(s, id, st)
  <2>1. DOMAIN s \subseteq DOMAIN r
    BY <1>4
  <2>. QED
    BY <2>1, <1>2, <1>4, <1>5 DEF Has
<1>. HIDE DEF u
<1>13. u \in Seq(Task)
  BY <1>7 DEF Kept
<1>14. /\ e \in Document /\ e.schedules = u /\ e.next_id = d.next_id + 1
       /\ e.state = d.state /\ e.known = d.known
  <2>. DEFINE n == d.next_id + 1
  <2>1. n \in Nat \ {0}
    BY <1>1
  <2>2. e = [d EXCEPT !.next_id = n, !.schedules = u]
    BY <1>3
  <2>. HIDE DEF n
  <2>3. e \in Document
    BY <2>1, <2>2, <1>13 DEF Document
  <2>4. e.schedules = u /\ e.next_id = n /\ e.state = d.state /\ e.known = d.known
    BY <2>2 DEF Document
  <2>. QED
    BY <2>3, <2>4 DEF n
<1>15. WellFormed(e)
  <2>1. /\ Below(u, d.next_id + 1) /\ Distinct(u) /\ Single(u)
        /\ Taken(u) = Taken(r) /\ Len(u) <= MaxSchedules
    BY <1>7, <1>8, <1>9, <1>10 DEF Kept
  <2>2. Taken(u) <= MaxSchedules
    BY <2>1, <1>6
  <2>. QED
    BY <2>1, <2>2, <1>14 DEF WellFormed
<1>16. Has(u, d.next_id, "pending")
  BY <1>7, <1>11 DEF Kept
<1>17. \A id : id # d.next_id /\ Has(u, id, "pending") => Has(s, id, "pending")
  BY <1>7, <1>12 DEF Kept
<1>18. \A id : Has(s, id, "running") => Has(u, id, "running")
  BY <1>7, <1>12 DEF Kept
<1>. QED
  BY <1>14, <1>15, <1>16, <1>17, <1>18 DEF s, e

(* Tasks get another status, and nothing else changes.                            *)
Restated(s, r, ids, status) ==
    /\ r \in Seq(Task) /\ DOMAIN r = DOMAIN s /\ Len(r) = Len(s)
    /\ \A i \in DOMAIN s :
          /\ r[i].id = s[i].id /\ r[i].request_id = s[i].request_id
          /\ r[i].at = s[i].at /\ r[i].auto_off = s[i].auto_off /\ r[i].command = s[i].command
          /\ r[i].status = IF s[i].id \in ids THEN status ELSE s[i].status

LEMMA WithStatusIs ==
    ASSUME NEW d \in Document, NEW ids, NEW status \in Status
    PROVE  LET e == WithStatus(d, ids, status)
           IN  /\ e \in Document /\ e.state = d.state /\ e.known = d.known
               /\ e.next_id = d.next_id
               /\ Restated(d.schedules, e.schedules, ids, status)
<1>. DEFINE s == d.schedules
            r == [i \in DOMAIN s |-> IF s[i].id \in ids THEN [s[i] EXCEPT !.status = status]
                                                        ELSE s[i]]
<1>1. /\ s \in Seq(Task) /\ DOMAIN s = 1..Len(s) /\ Len(s) \in Nat
      /\ \A i \in DOMAIN s : s[i] \in Task
  BY DocumentIs
<1>2. WithStatus(d, ids, status) = [d EXCEPT !.schedules = r]
  BY DEF WithStatus
<1>3. ASSUME NEW t \in Task
      PROVE  LET u == [t EXCEPT !.status = status]
             IN  /\ u \in Task /\ u.id = t.id /\ u.request_id = t.request_id /\ u.at = t.at
                 /\ u.auto_off = t.auto_off /\ u.command = t.command /\ u.status = status
  BY DEF Task
<1>. HIDE DEF s
<1>4. ASSUME NEW i \in DOMAIN s
      PROVE  /\ r[i] \in Task
             /\ r[i].id = s[i].id /\ r[i].request_id = s[i].request_id
             /\ r[i].at = s[i].at /\ r[i].auto_off = s[i].auto_off /\ r[i].command = s[i].command
             /\ r[i].status = IF s[i].id \in ids THEN status ELSE s[i].status
  BY <1>1, <1>3
<1>5. DOMAIN r = DOMAIN s /\ r \in [1..Len(s) -> Task]
  BY <1>1, <1>4
<1>. HIDE DEF r
<1>6. r \in Seq(Task) /\ Len(r) = Len(s)
  <2>1. r \in Seq(Task)
    BY <1>1, <1>5
  <2>. QED
    BY <2>1, <1>1, <1>5, LenProperties
<1>7. Restated(s, r, ids, status)
  BY <1>4, <1>5, <1>6 DEF Restated
<1>. QED
  BY <1>2, <1>6, <1>7, Listed DEF s

LEMMA RestatedKeeps ==
    ASSUME NEW s \in Seq(Task), NEW r, NEW ids, NEW status, Restated(s, r, ids, status)
    PROVE  /\ Distinct(s) => Distinct(r)
           /\ Single(s) => Single(r)
           /\ \A n : Below(s, n) => Below(r, n)
           /\ \A id, st : id \notin ids => (Has(r, id, st) <=> Has(s, id, st))
           /\ \A id, st : id \in ids /\ Has(r, id, st) => st = status
           /\ \A id, st : id \in ids /\ Has(s, id, st) => Has(r, id, status)
<1>1. Distinct(s) => Distinct(r)
  BY DEF Restated, Distinct
<1>2. Single(s) => Single(r)
  BY DEF Restated, Single
<1>3. \A n : Below(s, n) => Below(r, n)
  BY DEF Restated, Below
<1>4. /\ \A id, st : id \notin ids => (Has(r, id, st) <=> Has(s, id, st))
      /\ \A id, st : id \in ids /\ Has(r, id, st) => st = status
      /\ \A id, st : id \in ids /\ Has(s, id, st) => Has(r, id, status)
  BY DEF Restated, Has
<1>. QED
  BY <1>1, <1>2, <1>3, <1>4

(* A task that is settled gives up its places; one that starts hands the place of  *)
(* its off task over.                                                          *)
LEMMA Settles ==
    ASSUME NEW s \in Seq(Task), NEW r, NEW ids, NEW status, Restated(s, r, ids, status),
           status \notin {"pending", "running"}
    PROVE  Taken(r) <= Taken(s)
<1>1. r \in Seq(Task)
  BY DEF Restated
<1>2. Actives(r) \subseteq Actives(s) /\ Reservations(r) \subseteq Reservations(s)
  BY DEF Restated, Actives, Reservations, Active, Reserves
<1>3. /\ Cardinality(Actives(r)) <= Cardinality(Actives(s))
      /\ Cardinality(Reservations(r)) <= Cardinality(Reservations(s))
  BY <1>2, TakenIs, FS_Subset
<1>. QED
  BY <1>1, <1>3, TakenIs

LEMMA Starts ==
    ASSUME NEW s \in Seq(Task), Distinct(s), NEW i \in DOMAIN s, s[i].status = "pending",
           NEW r, Restated(s, r, {s[i].id}, "running")
    PROVE  Taken(r) = Taken(s) - (IF s[i].auto_off > 0 THEN 1 ELSE 0)
<1>1. r \in Seq(Task) /\ DOMAIN r = DOMAIN s
  BY DEF Restated
<1>2. \A j \in DOMAIN s : /\ j # i => r[j].status = s[j].status /\ r[j].auto_off = s[j].auto_off
                          /\ j = i => r[j].status = "running"
  BY DEF Restated, Distinct
<1>3. Actives(r) = Actives(s)
  <2>1. \A j \in DOMAIN s : j \in Actives(r) <=> j \in Actives(s)
    BY <1>1, <1>2 DEF Actives, Active
  <2>2. Actives(r) \subseteq DOMAIN s /\ Actives(s) \subseteq DOMAIN s
    BY <1>1 DEF Actives
  <2>. QED
    BY <2>1, <2>2
<1>4. Reservations(r) = Reservations(s) \ {i}
  <2>1. \A j \in DOMAIN s : j \in Reservations(r) <=> j \in Reservations(s) \ {i}
    BY <1>1, <1>2 DEF Reservations, Reserves
  <2>2. Reservations(r) \subseteq DOMAIN s /\ Reservations(s) \subseteq DOMAIN s
    BY <1>1 DEF Reservations
  <2>. QED
    BY <2>1, <2>2
<1>5. i \in Reservations(s) <=> s[i].auto_off > 0
  BY DEF Reservations, Reserves
<1>6. Cardinality(Reservations(r))
        = Cardinality(Reservations(s)) - (IF s[i].auto_off > 0 THEN 1 ELSE 0)
  <2>1. IsFiniteSet(Reservations(s)) /\ Cardinality(Reservations(s)) \in Nat
    BY TakenIs
  <2>2. Cardinality(Reservations(s) \ {i})
          = IF i \in Reservations(s) THEN Cardinality(Reservations(s)) - 1
                                     ELSE Cardinality(Reservations(s))
    BY <2>1, FS_RemoveElement
  <2>. QED
    BY <2>1, <2>2, <1>4, <1>5
<1>. QED
  BY <1>1, <1>3, <1>6, TakenIs

-----------------------------------------------------------------------------
(* normalize(): no task is pending that was not, and there is room for what there is. *)
LEMMA Normalized ==
    ASSUME NEW d \in Document, WellFormed(d)
    PROVE  LET e == Normalize(d)
           IN  /\ e \in Document /\ WellFormed(e) /\ e.next_id = d.next_id
               /\ \A id : Has(e.schedules, id, "pending") => Has(d.schedules, id, "pending")
<1>. DEFINE w == WithStatus(d, Ids(d, "running"), "failed")
            s == w.schedules
            u == Prune(ByTime(s))
            e == Normalize(d)
<1>1. /\ w \in Document /\ w.next_id = d.next_id
      /\ Restated(d.schedules, s, Ids(d, "running"), "failed")
  BY WithStatusIs DEF Status
<1>2. e = [w EXCEPT !.schedules = u]
  BY DEF Normalize
<1>. HIDE DEF w, e
<1>3. d.schedules \in Seq(Task) /\ s \in Seq(Task)
  BY <1>1, DocumentIs
<1>4. /\ Distinct(s) /\ Single(s) /\ Below(s, d.next_id)
      /\ \A id : Has(s, id, "pending") => Has(d.schedules, id, "pending")
  BY <1>1, <1>3, RestatedKeeps DEF WellFormed
<1>5. Taken(s) <= MaxSchedules
  <2>1. Taken(s) <= Taken(d.schedules)
    BY <1>1, <1>3, Settles
  <2>2. Taken(s) \in Nat /\ Taken(d.schedules) \in Nat /\ MaxSchedules \in Nat
    BY <1>3, TakenIs, AirconAssumption
  <2>. QED
    BY <2>1, <2>2 DEF WellFormed
<1>. HIDE DEF s
<1>6. Kept(s, u)
  BY <1>3, <1>5, Tidied
<1>. HIDE DEF u
<1>7. u \in Seq(Task)
  BY <1>6 DEF Kept
<1>8. e \in Document /\ e.schedules = u /\ e.next_id = w.next_id
  BY <1>1, <1>2, <1>7, Listed
<1>9. WellFormed(e)
  <2>1. /\ Below(u, d.next_id) /\ Distinct(u) /\ Single(u)
        /\ Taken(u) <= MaxSchedules /\ Len(u) <= MaxSchedules
    BY <1>4, <1>5, <1>6 DEF Kept
  <2>. QED
    BY <2>1, <1>1, <1>8 DEF WellFormed
<1>10. \A id : Has(u, id, "pending") => Has(d.schedules, id, "pending")
  BY <1>4, <1>6 DEF Kept
<1>. QED
  BY <1>1, <1>8, <1>9, <1>10 DEF e

(* The file may be behind memory in what it says of tasks that were executed, and   *)
(* in nothing else.                                                            *)
Executed == {"running", "completed", "failed"}
SameTask(s, t) == /\ s.id = t.id /\ s.request_id = t.request_id
                  /\ s.status = t.status \/ (s.status \in Executed /\ t.status \in Executed)
Alike(d, e) == /\ d.next_id = e.next_id
               /\ DOMAIN d.schedules = DOMAIN e.schedules
               /\ \A i \in DOMAIN d.schedules : SameTask(d.schedules[i], e.schedules[i])

LEMMA AlikeSelf == \A d : Alike(d, d)
BY DEF Alike, SameTask

LEMMA AlikeHas ==
    ASSUME NEW d, NEW e, Alike(d, e), NEW id, NEW status \in {"pending", "cancelled"}
    PROVE  Has(d.schedules, id, status) <=> Has(e.schedules, id, status)
BY DEF Alike, SameTask, Has, Executed

-----------------------------------------------------------------------------
(* The shape of the state.                                                    *)
Running == [command : Operation \cup {NoRequest.command}, auto_off : Nat, id : Nat, next : State,
            off : Nat, ok : BOOLEAN]

LEMMA StateIs == DefaultState \in State /\ \A on \in BOOLEAN : [DefaultState EXCEPT !.power = on] \in State
<1>1. 26 \in MinTemperature..MaxTemperature /\ "cool" \in Mode
  BY DEF Mode, MinTemperature, MaxTemperature
<1>2. DefaultState \in State
  BY <1>1 DEF DefaultState, State
<1>. QED
  BY <1>2 DEF State

LEMMA IdleIs == Idle \in Running /\ Idle.id = 0 /\ Idle.auto_off = 0
<1>1. DefaultState \in State
  BY StateIs
<1>. QED
  BY <1>1 DEF Idle, Running, NoRequest

LEMMA EmptyIs == EmptyDocument \in Document /\ WellFormed(EmptyDocument)
                 /\ EmptyDocument.known = FALSE /\ EmptyDocument.schedules = <<>>
<1>1. <<>> \in Seq(Task) /\ DOMAIN EmptyDocument.schedules = {}
  BY EmptySeq DEF EmptyDocument
<1>2. EmptyDocument \in Document
  BY <1>1, StateIs DEF EmptyDocument, Document
<1>3. Taken(EmptyDocument.schedules) = 0
  BY <1>1, FS_EmptySet DEF Taken
<1>4. Len(EmptyDocument.schedules) = 0
  BY DEF EmptyDocument
<1>. QED
  BY <1>1, <1>2, <1>3, <1>4, AirconAssumption
     DEF WellFormed, Below, Distinct, Single, EmptyDocument

(* What an operation makes of the state is a state, if it applies.                 *)
LEMMA ChangedIs ==
    ASSUME NEW op \in Operation, NEW state \in State, Applies(op, state)
    PROVE  Changed(op, state) \in State
<1>1. /\ state.power \in BOOLEAN /\ state.mode \in Mode /\ state.eco \in BOOLEAN
      /\ state.temperature_c \in MinTemperature..MaxTemperature
      /\ Changed(op, state).temperature_c \in MinTemperature..MaxTemperature
  BY DEF Applies, Valid, State
<1>2. CASE op \in [operation : {"set"}, temperature_c : 0..255, mode : Mode, eco : BOOLEAN]
  BY <1>1, <1>2 DEF Changed, State
<1>3. CASE op \in [operation : {"off"}]
  BY <1>1, <1>3 DEF Changed, State
<1>4. CASE op \in [operation : {"power"}, enabled : BOOLEAN]
  BY <1>1, <1>4 DEF Changed, State
<1>5. CASE op \in [operation : {"set_temperature"}, temperature_c : 0..255]
  BY <1>1, <1>5 DEF Changed, State
<1>6. CASE op \in [operation : {"adjust_temperature"}, delta_c : -128..127]
  BY <1>1, <1>6 DEF Changed, State
<1>7. CASE op \in [operation : {"set_mode"}, mode : Mode]
  BY <1>1, <1>7 DEF Changed, State
<1>8. CASE op \in [operation : {"set_eco"}, enabled : BOOLEAN]
  BY <1>1, <1>8 DEF Changed, State
<1>. QED
  BY <1>2, <1>3, <1>4, <1>5, <1>6, <1>7, <1>8 DEF Operation

LEMMA Commands == \A state \in State : Infrared(state) \in Command
BY DEF Command

LEMMA RequestIs ==
    ASSUME NEW r \in Request
    PROVE  /\ r.delay \in Nat /\ r.auto_off \in Nat /\ r.request_id \in RequestId
           /\ ~IsCancellation(r) => r.command \in Operation
BY DEF Request, IsCancellation, Cancellation

LEMMA Waits ==
    ASSUME TypeOK, NEW t \in Client, waiting[t] # NoRequest
    PROVE  waiting[t] \in Request
BY DEF TypeOK

LEMMA AnsweredTyped ==
    ASSUME TypeOK, NEW t \in Client, Answered(t)
    PROVE  waiting' \in [Client -> Request \cup {NoRequest}]
BY DEF TypeOK, Answered

LEMMA SpendTyped ==
    ASSUME TypeOK, NEW B, Spend(B)
    PROVE  /\ used' \in [Bound -> Nat] /\ \A b \in Bound : used'[b] >= used[b]
           /\ \A b \in Bound : b \in B => used'[b] = used[b] + 1
<1>1. used \in [Bound -> Nat]
  BY DEF TypeOK
<1>2. used' = [b \in Bound |-> IF b \in B THEN used[b] + 1 ELSE used[b]]
  BY DEF Spend
<1>. QED
  BY <1>1, <1>2

(* What the other parts of the state are, for steps that leave them alone.          *)
LEMMA Types ==
    ASSUME TypeOK
    PROVE  /\ now \in Nat /\ mem \in Document /\ disk \in Document
           /\ mem.next_id \in Nat
           /\ execution \in Client \cup {Nobody, Worker}
           /\ stage \in {"free", "execute", "send", "sent", "finish"}
           /\ running \in Running /\ running.id \in Nat /\ running.auto_off \in Nat
           /\ running.next \in State
           /\ dispatched \subseteq Nat \ {0} /\ used \in [Bound -> Nat]
BY DocumentIs DEF TypeOK, Running

LEMMA NobodyIs == Nobody # Worker /\ Nobody \notin Client /\ Worker \notin Client
BY AirconAssumption DEF Nobody, Worker

-----------------------------------------------------------------------------
(* The inductive invariant.                                                   *)

(* What has been handed to the infrared worker is not pending, so that run_due()   *)
(* does not find it again.                                                     *)
Dispatches == \A id \in dispatched : id < mem.next_id /\ ~Has(mem.schedules, id, "pending")

(* Who holds the mutex: the task that is executed is marked as running.            *)
Holder ==
    /\ execution = Nobody <=> stage = "free"
    /\ stage = "execute" => running.command \in Operation
    /\ execution = Worker => Has(mem.schedules, running.id, "running")
    /\ execution = Worker /\ stage = "execute" => running.id \notin dispatched
    /\ execution # Worker => running.id = 0 /\ stage # "finish"

OffKept == stage \in {"send", "sent"} /\ running.auto_off > 0
             => Has(disk.schedules, running.off, "pending")

Room == stage = "execute" /\ execution = Worker /\ running.auto_off > 0 => Fits(mem, 0)

Documents == WellFormed(mem) /\ WellFormed(disk) /\ Alike(mem, disk)

Duties == Documents /\ Dispatches /\ Holder /\ OffKept /\ Room

LEMMA Quiet ==
    ASSUME Duties, UNCHANGED <<mem, disk, execution, stage, running, dispatched>>
    PROVE  Duties'
BY DEF Duties, Documents, Dispatches, Holder, OffKept, Room

LEMMA Dispatched ==
    ASSUME TypeOK, Duties, mem' \in Document, dispatched' = dispatched,
           mem'.next_id >= mem.next_id,
           \A id : id # mem.next_id /\ Has(mem'.schedules, id, "pending")
                     => Has(mem.schedules, id, "pending")
    PROVE  Dispatches'
<1>1. ASSUME NEW id \in dispatched
      PROVE  id < mem'.next_id /\ ~Has(mem'.schedules, id, "pending")
  <2>1. id < mem.next_id /\ ~Has(mem.schedules, id, "pending") /\ id \in Nat
    BY Types DEF Duties, Dispatches
  <2>2. mem.next_id \in Nat /\ mem'.next_id \in Nat
    BY Types, DocumentIs
  <2>. QED
    BY <2>1, <2>2
<1>. QED
  BY <1>1 DEF Dispatches

(* A document that is committed.                                               *)
LEMMA Committed ==
    ASSUME TypeOK, Duties, NEW d \in Document, WellFormed(d), mem' = d, disk' = d,
           dispatched' = dispatched, d.next_id >= mem.next_id,
           \A id : id # mem.next_id /\ Has(d.schedules, id, "pending")
                     => Has(mem.schedules, id, "pending")
    PROVE  Documents' /\ Dispatches'
<1>1. Documents'
  BY AlikeSelf DEF Documents
<1>. QED
  BY <1>1, Dispatched

(* The mutex is given back.                                                   *)
LEMMA Freed ==
    ASSUME TypeOK, Documents', Dispatches', Release
    PROVE  Duties' /\ running' \in Running /\ execution' = Nobody /\ stage' = "free"
<1>1. running' \in Running /\ running'.id = 0 /\ running'.auto_off = 0
  BY IdleIs DEF Release
<1>2. Holder' /\ OffKept' /\ Room'
  BY <1>1, NobodyIs DEF Release, Holder, OffKept, Room
<1>. QED
  BY <1>1, <1>2 DEF Duties, Release

(* execute() returns, to whoever called it.                                      *)
LEMMA Returned ==
    ASSUME TypeOK, Duties, NEW ok \in BOOLEAN, Returns(ok), Documents', Dispatches',
           dispatched' = dispatched,
           \A id : Has(mem.schedules, id, "running") => Has(mem'.schedules, id, "running")
    PROVE  /\ Duties' /\ running' \in Running
           /\ execution' \in {Nobody, Worker} /\ stage' \in {"free", "finish"}
<1>1. CASE execution = Worker
  <2>1. stage' = "finish" /\ running' = [running EXCEPT !.ok = ok] /\ execution' = Worker
    BY <1>1 DEF Returns
  <2>2. running' \in Running /\ running'.id = running.id
    BY <2>1, Types DEF Running
  <2>3. Holder' /\ OffKept' /\ Room'
    BY <1>1, <2>1, <2>2, NobodyIs DEF Duties, Holder, OffKept, Room
  <2>. QED
    BY <2>1, <2>2, <2>3 DEF Duties
<1>2. CASE execution # Worker
  BY <1>2, Freed DEF Returns
<1>. QED
  BY <1>1, <1>2

-----------------------------------------------------------------------------
LEMMA InitInv == Init => TypeOK /\ Duties
<1>. SUFFICES ASSUME Init PROVE TypeOK /\ Duties
  OBVIOUS
<1>1. mem = EmptyDocument /\ disk = EmptyDocument /\ running = Idle /\ dispatched = {}
      /\ execution = Nobody /\ stage = "free"
  BY DEF Init
<1>2. running \in Running
  BY <1>1, IdleIs
<1>3. waiting \in [Client -> Request \cup {NoRequest}]
  BY DEF Init
<1>4. appliance \in Command
  BY StateIs, Commands DEF Init
<1>5. used \in [Bound -> Nat] /\ scenario \in Scenarios /\ flight \subseteq Command /\ now \in Nat
  BY DEF Init
<1>6. TypeOK
  BY <1>1, <1>2, <1>3, <1>4, <1>5, EmptyIs DEF TypeOK, Running
<1>7. Documents
  BY <1>1, EmptyIs, AlikeSelf DEF Documents
<1>8. Dispatches /\ Holder /\ OffKept /\ Room
  BY <1>1, IdleIs, NobodyIs DEF Dispatches, Holder, OffKept, Room
<1>. QED
  BY <1>6, <1>7, <1>8 DEF Duties

(* Handlers that come and go, the clock, and the appliance.                       *)
LEMMA SubmitStep ==
    ASSUME TypeOK, Duties, NEW t \in Client, Submit(t), UNCHANGED scenario
    PROVE  TypeOK' /\ Duties'
<1>1. Duties'
  BY Quiet DEF Submit, documents
<1>2. used' \in [Bound -> Nat]
  BY SpendTyped DEF Submit
<1>3. waiting' \in [Client -> Request \cup {NoRequest}]
  <2>1. PICK r \in scenario.asks : waiting' = [waiting EXCEPT ![t] = r]
    BY DEF Submit
  <2>2. r \in Request
    BY <2>1, AirconAssumption DEF TypeOK
  <2>. QED
    BY <2>1, <2>2 DEF TypeOK
<1>. QED
  BY <1>1, <1>2, <1>3 DEF TypeOK, Submit, documents, outside

LEMMA TickStep ==
    ASSUME TypeOK, Duties, Tick, UNCHANGED scenario PROVE TypeOK' /\ Duties'
<1>1. Duties'
  BY Quiet DEF Tick, documents
<1>2. used' \in [Bound -> Nat] /\ now' \in Nat
  BY SpendTyped, Types DEF Tick
<1>. QED
  BY <1>1, <1>2 DEF TypeOK, Tick, documents, outside

LEMMA EmitLateStep ==
    ASSUME TypeOK, Duties, EmitLate, UNCHANGED scenario PROVE TypeOK' /\ Duties'
<1>1. Duties'
  BY Quiet DEF EmitLate, documents
<1>2. appliance' \in Command /\ flight' \subseteq Command
  BY DEF EmitLate, TypeOK
<1>. QED
  BY <1>1, <1>2 DEF TypeOK, EmitLate, documents, outside

LEMMA EmitStep ==
    ASSUME TypeOK, Duties, Emit, UNCHANGED scenario PROVE TypeOK' /\ Duties'
<1>1. Duties'
  BY DEF Emit, documents, Duties, Documents, Dispatches, Holder, OffKept, Room
<1>2. appliance' \in Command
  BY Types, Commands DEF Emit
<1>. QED
  BY <1>1, <1>2 DEF TypeOK, Emit, documents, outside

LEMMA AbandonedTyped == ASSUME TypeOK, Abandoned PROVE flight' \subseteq Command
BY Types, Commands DEF Abandoned, TypeOK

LEMMA DropStep ==
    ASSUME TypeOK, Duties, NEW t \in Client, Drop(t), UNCHANGED scenario
    PROVE  TypeOK' /\ Duties'
<1>0. used' \in [Bound -> Nat] /\ UNCHANGED <<now, mem, disk, appliance, dispatched>>
  BY SpendTyped DEF Drop, documents
<1>1. CASE Answered(t) /\ UNCHANGED <<execution, stage, running, flight>>
  <2>1. Duties'
    BY <1>0, <1>1, Quiet
  <2>2. waiting' \in [Client -> Request \cup {NoRequest}]
    BY <1>1, AnsweredTyped
  <2>. QED
    BY <1>0, <1>1, <2>1, <2>2 DEF TypeOK
<1>2. CASE Release /\ Abandoned /\ UNCHANGED waiting
  <2>1. Documents' /\ Dispatches'
    BY <1>0 DEF Duties, Documents, Dispatches
  <2>2. Duties' /\ running' \in Running /\ execution' = Nobody /\ stage' = "free"
    BY <1>2, <2>1, Freed
  <2>3. flight' \subseteq Command
    BY <1>2, AbandonedTyped
  <2>. QED
    BY <1>0, <1>2, <2>2, <2>3 DEF TypeOK, Running
<1>. QED
  BY <1>1, <1>2 DEF Drop

LEMMA CrashStep ==
    ASSUME TypeOK, Duties, Crash, UNCHANGED scenario PROVE TypeOK' /\ Duties'
<1>. DEFINE e == Normalize(disk)
<1>1. /\ used' \in [Bound -> Nat] /\ UNCHANGED <<now, appliance, dispatched>>
      /\ mem' = e /\ disk' = e /\ Release /\ Abandoned
      /\ waiting' \in [Client -> Request \cup {NoRequest}]
  BY SpendTyped DEF Crash
<1>2. /\ disk \in Document /\ WellFormed(disk) /\ Alike(mem, disk) /\ mem.next_id \in Nat
  BY Types DEF Duties, Documents
<1>3. /\ e \in Document /\ WellFormed(e) /\ e.next_id = disk.next_id
      /\ \A id : Has(e.schedules, id, "pending") => Has(disk.schedules, id, "pending")
  BY <1>2, Normalized
<1>. HIDE DEF e
<1>4. \A id : Has(e.schedules, id, "pending") => Has(mem.schedules, id, "pending")
  BY <1>2, <1>3, AlikeHas
<1>5. e.next_id >= mem.next_id
  BY <1>2, <1>3 DEF Alike
<1>6. Documents' /\ Dispatches'
  BY <1>1, <1>3, <1>4, <1>5, Committed
<1>7. Duties' /\ running' \in Running /\ execution' = Nobody /\ stage' = "free"
  BY <1>1, <1>6, Freed
<1>8. flight' \subseteq Command
  BY <1>1, AbandonedTyped
<1>. QED
  BY <1>1, <1>3, <1>7, <1>8 DEF TypeOK, Running

(* A write that fails.                                                         *)
LEMMA NotCommitted ==
    ASSUME TypeOK, CommitFails
    PROVE  used' \in [Bound -> Nat] /\ UNCHANGED <<mem, disk>>
BY SpendTyped DEF CommitFails, documents

LEMMA CommitIs ==
    ASSUME TypeOK, NEW d, Commit(d)
    PROVE  mem' = d /\ disk' = d /\ used' \in [Bound -> Nat]
BY Types DEF Commit

LEMMA CancelStep ==
    ASSUME TypeOK, Duties, NEW t \in Client, Cancel(t), UNCHANGED scenario
    PROVE  TypeOK' /\ Duties'
<1>. DEFINE ids == {id \in Ids(mem, "pending") :
                      waiting[t].command.operation = "cancel_schedule"
                        => id = waiting[t].command.schedule_id}
            d == WithStatus(mem, ids, "cancelled")
<1>0. UNCHANGED <<now, execution, stage, running, appliance, flight, dispatched>>
      /\ waiting' \in [Client -> Request \cup {NoRequest}]
  BY AnsweredTyped DEF Cancel, outside
<1>1. CASE UNCHANGED <<mem, disk>> /\ used' \in [Bound -> Nat]
  <2>1. Duties'
    BY <1>0, <1>1, Quiet
  <2>. QED
    BY <1>0, <1>1, <2>1 DEF TypeOK
<1>2. CASE Commit(d)
  <2>1. /\ mem \in Document /\ WellFormed(mem) /\ mem.schedules \in Seq(Task)
        /\ mem.next_id \in Nat
    BY Types, DocumentIs DEF Duties, Documents
  <2>2. /\ d \in Document /\ d.next_id = mem.next_id
        /\ Restated(mem.schedules, d.schedules, ids, "cancelled")
    BY <2>1, WithStatusIs DEF Status
  <2>3. \A id : id \in ids => Has(mem.schedules, id, "pending")
    BY HasIs
  <2>4. mem' = d /\ disk' = d /\ used' \in [Bound -> Nat]
    BY <1>2, CommitIs
  <2>. HIDE DEF ids, d
  <2>5. /\ Distinct(d.schedules) /\ Single(d.schedules) /\ Below(d.schedules, d.next_id)
        /\ Len(d.schedules) <= MaxSchedules
    <3>1. Distinct(d.schedules) /\ Single(d.schedules) /\ Below(d.schedules, d.next_id)
      BY <2>1, <2>2, RestatedKeeps DEF WellFormed
    <3>2. Len(d.schedules) = Len(mem.schedules)
      BY <2>2 DEF Restated
    <3>. QED
      BY <2>1, <3>1, <3>2 DEF WellFormed
  <2>6. Taken(d.schedules) <= MaxSchedules
    <3>1. Taken(d.schedules) <= Taken(mem.schedules)
      BY <2>1, <2>2, Settles
    <3>2. d.schedules \in Seq(Task)
      BY <2>2, DocumentIs
    <3>3. Taken(d.schedules) \in Nat /\ Taken(mem.schedules) \in Nat /\ MaxSchedules \in Nat
      BY <2>1, <3>2, TakenIs, AirconAssumption
    <3>. QED
      BY <2>1, <3>1, <3>3 DEF WellFormed
  <2>7. WellFormed(d)
    BY <2>5, <2>6 DEF WellFormed
  <2>8. \A id : Has(d.schedules, id, "pending") => Has(mem.schedules, id, "pending")
    BY <2>1, <2>2, <2>3, RestatedKeeps
  <2>9. Documents' /\ Dispatches'
    BY <1>0, <2>1, <2>2, <2>4, <2>7, <2>8, Committed
  <2>10. Holder' /\ OffKept' /\ Room'
    <3>1. execution = Nobody /\ stage = "free"
      BY DEF Cancel, Enters, Duties, Holder
    <3>. QED
      BY <1>0, <3>1, NobodyIs DEF Duties, Holder, OffKept, Room
  <2>. QED
    BY <1>0, <2>2, <2>4, <2>9, <2>10 DEF TypeOK, Duties
<1>3. \/ UNCHANGED <<mem, disk>> /\ used' \in [Bound -> Nat]
      \/ Commit(d)
  <2>1. \/ UNCHANGED <<documents, used>> \/ Commit(d) \/ CommitFails
    BY DEF Cancel
  <2>2. UNCHANGED <<documents, used>> => UNCHANGED <<mem, disk>> /\ used' \in [Bound -> Nat]
    BY Types DEF documents
  <2>. QED
    BY <2>1, <2>2, NotCommitted
<1>. QED
  BY <1>1, <1>2, <1>3

LEMMA ScheduleStep ==
    ASSUME TypeOK, Duties, NEW t \in Client, Schedule(t), UNCHANGED scenario
    PROVE  TypeOK' /\ Duties'
<1>. DEFINE r == waiting[t]
            d == Insert(mem, r.command, r.request_id, now + r.delay, r.auto_off)
<1>0. UNCHANGED <<now, execution, stage, running, appliance, flight, dispatched>>
      /\ waiting' \in [Client -> Request \cup {NoRequest}]
  BY AnsweredTyped DEF Schedule, outside
<1>1. CASE UNCHANGED <<mem, disk>> /\ used' \in [Bound -> Nat]
  <2>1. Duties'
    BY <1>0, <1>1, Quiet
  <2>. QED
    BY <1>0, <1>1, <2>1 DEF TypeOK
<1>2. CASE Commit(d) /\ ~Known(mem, r.request_id) /\ Fits(mem, r.auto_off)
  <2>1. r \in Request /\ ~IsCancellation(r) /\ execution = Nobody
    BY Waits DEF Schedule, Enters
  <2>2. /\ r.command \in Operation /\ r.request_id \in RequestId /\ r.auto_off \in Nat
        /\ now + r.delay \in Nat /\ mem \in Document /\ WellFormed(mem) /\ mem.next_id \in Nat
    BY <2>1, RequestIs, Types DEF Duties, Documents
  <2>3. mem' = d /\ disk' = d /\ used' \in [Bound -> Nat]
    BY <1>2, CommitIs
  <2>4. /\ d \in Document /\ WellFormed(d) /\ d.next_id = mem.next_id + 1
        /\ \A id : id # mem.next_id /\ Has(d.schedules, id, "pending")
                     => Has(mem.schedules, id, "pending")
    BY <1>2, <2>2, Inserted
  <2>. HIDE DEF d, r
  <2>5. d.next_id >= mem.next_id
    BY <2>2, <2>4
  <2>6. Documents' /\ Dispatches'
    BY <1>0, <2>3, <2>4, <2>5, Committed
  <2>7. Holder' /\ OffKept' /\ Room'
    <3>1. stage = "free"
      BY <2>1 DEF Duties, Holder
    <3>. QED
      BY <1>0, <2>1, <3>1, NobodyIs DEF Duties, Holder, OffKept, Room
  <2>. QED
    BY <1>0, <2>3, <2>4, <2>6, <2>7 DEF TypeOK, Duties
<1>3. \/ UNCHANGED <<mem, disk>> /\ used' \in [Bound -> Nat]
      \/ Commit(d) /\ ~Known(mem, r.request_id) /\ Fits(mem, r.auto_off)
  <2>1. \/ UNCHANGED <<documents, used>>
        \/ Commit(d) /\ ~Known(mem, r.request_id) /\ Fits(mem, r.auto_off)
        \/ CommitFails
    BY DEF Schedule
  <2>2. UNCHANGED <<documents, used>> => UNCHANGED <<mem, disk>> /\ used' \in [Bound -> Nat]
    BY Types DEF documents
  <2>. QED
    BY <2>1, <2>2, NotCommitted
<1>. QED
  BY <1>1, <1>2, <1>3

LEMMA BeginStep ==
    ASSUME TypeOK, Duties, NEW t \in Client, Begin(t), UNCHANGED scenario
    PROVE  TypeOK' /\ Duties'
<1>0. UNCHANGED <<now, mem, disk, appliance, flight, dispatched, used>>
      /\ waiting' \in [Client -> Request \cup {NoRequest}]
  BY AnsweredTyped DEF Begin, outside, documents
<1>1. waiting[t] \in Request /\ ~IsCancellation(waiting[t])
  BY Waits DEF Begin, Enters
<1>2. waiting[t].command \in Operation /\ waiting[t].auto_off \in Nat
  BY <1>1, RequestIs
<1>3. /\ execution' = t /\ stage' = "execute"
      /\ running' = [Idle EXCEPT !.command = waiting[t].command, !.auto_off = waiting[t].auto_off]
  BY DEF Begin
<1>4. running' \in Running /\ running'.id = 0 /\ running'.command \in Operation
  BY <1>2, <1>3, IdleIs DEF Running
<1>5. t # Worker /\ t # Nobody
  BY NobodyIs
<1>6. Duties'
  BY <1>0, <1>3, <1>4, <1>5 DEF Duties, Documents, Dispatches, Holder, OffKept, Room
<1>. QED
  BY <1>0, <1>3, <1>4, <1>6 DEF TypeOK, Running

(* run_due: the first schedule that is due is marked and executed.                 *)
LEMMA RunDueStep ==
    ASSUME TypeOK, Duties, RunDue, UNCHANGED scenario
    PROVE  TypeOK' /\ Duties'
<1>. DEFINE i == Min(DueIndexes)
            s == mem.schedules[i]
            d == WithStatus(mem, {s.id}, "running")
<1>0. UNCHANGED <<now, waiting, appliance, flight, dispatched>> /\ execution = Nobody
  BY DEF RunDue, outside
<1>1. CASE CommitFails /\ UNCHANGED <<execution, stage, running>>
  <2>1. used' \in [Bound -> Nat] /\ UNCHANGED <<mem, disk>>
    BY <1>1, NotCommitted
  <2>2. Duties'
    BY <1>0, <1>1, <2>1, Quiet
  <2>. QED
    BY <1>0, <1>1, <2>1, <2>2 DEF TypeOK
<1>2. CASE /\ Commit(d) /\ execution' = Worker /\ stage' = "execute"
           /\ running' = [Idle EXCEPT !.command = s.command, !.auto_off = s.auto_off, !.id = s.id]
  <2>1. /\ mem \in Document /\ WellFormed(mem) /\ mem.schedules \in Seq(Task)
        /\ mem.next_id \in Nat /\ DOMAIN mem.schedules = 1..Len(mem.schedules)
        /\ Len(mem.schedules) \in Nat
    BY Types, DocumentIs DEF Duties, Documents
  <2>2. i \in DueIndexes
    <3>1. DueIndexes \in SUBSET (1..Len(mem.schedules))
      BY <2>1 DEF DueIndexes
    <3>2. DueIndexes # {}
      BY DEF RunDue
    <3>. QED
      BY <2>1, <3>1, <3>2, First
  <2>3. i \in DOMAIN mem.schedules /\ s.status = "pending" /\ s \in Task
    BY <2>1, <2>2, DocumentIs DEF DueIndexes
  <2>4. /\ s.id \in Nat /\ s.auto_off \in Nat /\ s.command \in Operation
    BY <2>3, TaskIs
  <2>5. /\ d \in Document /\ d.next_id = mem.next_id
        /\ Restated(mem.schedules, d.schedules, {s.id}, "running")
    BY <2>1, WithStatusIs DEF Status
  <2>6. mem' = d /\ disk' = d /\ used' \in [Bound -> Nat]
    BY <1>2, CommitIs
  <2>7. Has(mem.schedules, s.id, "pending")
    BY <2>3 DEF Has
  <2>. HIDE DEF i, d
  <2>8. /\ Distinct(d.schedules) /\ Single(d.schedules) /\ Below(d.schedules, d.next_id)
        /\ Len(d.schedules) <= MaxSchedules
    <3>1. Distinct(d.schedules) /\ Single(d.schedules) /\ Below(d.schedules, d.next_id)
      BY <2>1, <2>5, RestatedKeeps DEF WellFormed
    <3>2. Len(d.schedules) = Len(mem.schedules)
      BY <2>5 DEF Restated
    <3>. QED
      BY <2>1, <3>1, <3>2 DEF WellFormed
  <2>9. Taken(d.schedules) = Taken(mem.schedules) - (IF s.auto_off > 0 THEN 1 ELSE 0)
    BY <2>1, <2>3, <2>5, Starts DEF WellFormed
  <2>10. Taken(mem.schedules) \in Nat /\ MaxSchedules \in Nat /\ Taken(mem.schedules) <= MaxSchedules
    BY <2>1, TakenIs, AirconAssumption DEF WellFormed
  <2>11. WellFormed(d)
    BY <2>8, <2>9, <2>10 DEF WellFormed
  <2>12. \A id : Has(d.schedules, id, "pending") => Has(mem.schedules, id, "pending")
    BY <2>1, <2>5, RestatedKeeps
  <2>13. Has(d.schedules, s.id, "running")
    BY <2>1, <2>5, <2>7, RestatedKeeps
  <2>14. s.auto_off > 0 => Fits(d, 0)
    BY <2>9, <2>10 DEF Fits
  <2>15. Documents' /\ Dispatches'
    BY <1>0, <2>1, <2>5, <2>6, <2>11, <2>12, Committed
  <2>16. s.id \notin dispatched
    BY <2>7 DEF Duties, Dispatches
  <2>. HIDE DEF s
  <2>17. /\ running' \in Running /\ running'.id = s.id /\ running'.command \in Operation
         /\ running'.auto_off = s.auto_off
    BY <1>2, <2>4, IdleIs DEF Running
  <2>18. Holder' /\ OffKept' /\ Room'
    BY <1>0, <1>2, <2>6, <2>13, <2>14, <2>16, <2>17, NobodyIs DEF Holder, OffKept, Room
  <2>. QED
    BY <1>0, <1>2, <2>5, <2>6, <2>15, <2>17, <2>18 DEF TypeOK, Duties, Running
<1>. QED
  BY <1>1, <1>2 DEF RunDue

(* execute(): the off task is in the file before the command is sent.               *)
LEMMA DispatchIs ==
    ASSUME TypeOK, Duties, stage = "execute", NEW off \in Nat, Dispatch(off),
           Acceptable(running.command, running.auto_off)
    PROVE  /\ running' \in Running /\ running'.id = running.id /\ running'.off = off
           /\ running'.auto_off = running.auto_off
           /\ stage' = "send" /\ execution' = execution
           /\ dispatched' = dispatched \cup ({running.id} \ {0})
<1>1. running.command \in Operation
  BY DEF Duties, Holder
<1>2. mem.state \in State
  BY Types, DocumentIs
<1>3. Changed(running.command, mem.state) \in State
  BY <1>1, <1>2, ChangedIs DEF Acceptable
<1>. DEFINE next == Changed(running.command, mem.state)
<1>4. running' = [running EXCEPT !.next = next, !.off = off] /\ next \in State
  BY <1>3 DEF Dispatch
<1>. HIDE DEF next
<1>5. /\ running' \in Running /\ running'.id = running.id /\ running'.off = off
      /\ running'.auto_off = running.auto_off
  BY <1>4, Types DEF Running
<1>. QED
  BY <1>5 DEF Dispatch

(* The task that is executed is not pending, and is not executed again.              *)
LEMMA NowDispatched ==
    ASSUME TypeOK, Duties, mem' \in Document, mem'.next_id >= mem.next_id,
           \A id : id # mem.next_id /\ Has(mem'.schedules, id, "pending")
                     => Has(mem.schedules, id, "pending"),
           dispatched' = dispatched \cup ({running.id} \ {0})
    PROVE  Dispatches' /\ dispatched' \subseteq Nat \ {0}
<1>0. mem.next_id \in Nat /\ mem'.next_id \in Nat
  BY Types, DocumentIs
<1>1. ASSUME NEW id \in dispatched'
      PROVE  id \in Nat /\ id < mem.next_id /\ ~Has(mem.schedules, id, "pending")
  <2>1. CASE id \in dispatched
    BY <2>1, Types DEF Duties, Dispatches
  <2>2. CASE id = running.id /\ id # 0
    <3>1. execution = Worker /\ Has(mem.schedules, id, "running")
      BY <2>2 DEF Duties, Holder
    <3>2. PICK i \in DOMAIN mem.schedules :
            mem.schedules[i].id = id /\ mem.schedules[i].status = "running"
      BY <3>1 DEF Has
    <3>3. id < mem.next_id
      BY <3>2 DEF Duties, Documents, WellFormed, Below
    <3>4. ~Has(mem.schedules, id, "pending")
      BY <3>2 DEF Has, Duties, Documents, WellFormed, Distinct
    <3>. QED
      BY <2>2, <3>3, <3>4, Types
  <2>. QED
    BY <1>1, <2>1, <2>2
<1>2. ASSUME NEW id \in dispatched'
      PROVE  id < mem'.next_id /\ ~Has(mem'.schedules, id, "pending")
  BY <1>0, <1>1
<1>. QED
  BY <1>2, Types DEF Dispatches

(* The off task: an operation, of no request.                                     *)
LEMMA OffIs ==
    /\ [operation |-> "off"] \in Operation
    /\ "" \in RequestId
    /\ \A d : ~Known(d, "")
<1>. DEFINE off == [operation |-> "off"]
            Sets == [operation : {"set"}, temperature_c : 0..255, mode : Mode, eco : BOOLEAN]
            Offs == [operation : {"off"}]
            Rest == [operation : {"power"}, enabled : BOOLEAN]
                    \cup [operation : {"set_temperature"}, temperature_c : 0..255]
                    \cup [operation : {"adjust_temperature"}, delta_c : -128..127]
                    \cup [operation : {"set_mode"}, mode : Mode]
                    \cup [operation : {"set_eco"}, enabled : BOOLEAN]
<1>1. off \in Offs
  OBVIOUS
<1>2. \A x : x \in Operation <=> x \in Sets \/ x \in Offs \/ x \in Rest
  BY DEF Operation
<1>. HIDE DEF off, Sets, Offs, Rest
<1>3. off \in Operation
  BY <1>1, <1>2
<1>4. [operation |-> "off"] \in Operation
  BY <1>3 DEF off
<1>5. "" \in RequestId
  BY DEF RequestId
<1>6. \A d : ~Known(d, "")
  BY DEF Known
<1>. QED
  BY <1>4, <1>5, <1>6

LEMMA PrepareStep ==
    ASSUME TypeOK, Duties, Prepare, UNCHANGED scenario
    PROVE  TypeOK' /\ Duties'
<1>. DEFINE d == Insert(mem, [operation |-> "off"], "", now + running.auto_off, 0)
<1>0. /\ UNCHANGED <<now, waiting, appliance, flight>> /\ stage = "execute"
      /\ execution # Nobody /\ execution \in Client \cup {Worker}
  BY Types DEF Prepare, outside, Duties, Holder
<1>1. /\ mem \in Document /\ disk \in Document /\ WellFormed(mem) /\ WellFormed(disk)
      /\ Alike(mem, disk) /\ mem.next_id \in Nat
  BY Types DEF Duties, Documents
<1>2. CASE /\ UNCHANGED <<mem, disk, dispatched>> /\ used' \in [Bound -> Nat]
           /\ Returns(FALSE)
  <2>1. Documents' /\ Dispatches'
    BY <1>2 DEF Duties, Documents, Dispatches
  <2>2. /\ Duties' /\ running' \in Running
        /\ execution' \in {Nobody, Worker} /\ stage' \in {"free", "finish"}
    BY <1>2, <2>1, Returned
  <2>. QED
    BY <1>0, <1>2, <2>2 DEF TypeOK, Running
<1>3. CASE /\ Acceptable(running.command, running.auto_off) /\ running.auto_off = 0
           /\ Dispatch(0) /\ UNCHANGED <<mem, disk, used>>
  <2>1. /\ running' \in Running /\ running'.id = running.id /\ running'.auto_off = 0
        /\ stage' = "send" /\ execution' = execution
        /\ dispatched' = dispatched \cup ({running.id} \ {0})
    BY <1>0, <1>3, DispatchIs
  <2>2. Dispatches' /\ dispatched' \subseteq Nat \ {0}
    BY <1>1, <1>3, <2>1, NowDispatched
  <2>3. Documents'
    BY <1>1, <1>3 DEF Documents
  <2>4. Holder' /\ OffKept' /\ Room'
    BY <1>0, <1>3, <2>1 DEF Duties, Holder, OffKept, Room
  <2>. QED
    BY <1>0, <1>3, <2>1, <2>2, <2>3, <2>4 DEF TypeOK, Running, Duties
<1>4. CASE /\ Acceptable(running.command, running.auto_off) /\ running.auto_off > 0
           /\ Fits(mem, 0) /\ Commit(d) /\ Dispatch(mem.next_id)
  <2>1. [operation |-> "off"] \in Operation /\ ~Known(mem, "") /\ "" \in RequestId
    BY OffIs
  <2>2. now + running.auto_off \in Nat /\ 0 \in Nat
    BY Types
  <2>3. Fits(mem, 0) /\ mem \in Document /\ WellFormed(mem)
    BY <1>1, <1>4
  <2>. DEFINE off == [operation |-> "off"]
              at == now + running.auto_off
  <2>. HIDE DEF off, at
  <2>10. /\ off \in Operation /\ at \in Nat /\ d = Insert(mem, off, "", at, 0)
    BY <2>1, <2>2 DEF off, at
  <2>. HIDE DEF d
  <2>11. /\ d \in Document /\ WellFormed(d) /\ d.next_id = mem.next_id + 1
         /\ Has(d.schedules, mem.next_id, "pending")
         /\ \A id : id # mem.next_id /\ Has(d.schedules, id, "pending")
                      => Has(mem.schedules, id, "pending")
         /\ \A id : Has(mem.schedules, id, "running") => Has(d.schedules, id, "running")
    BY <2>1, <2>2, <2>3, <2>10, Inserted
  <2>4. mem' = d /\ disk' = d /\ used' \in [Bound -> Nat]
    BY <1>4, CommitIs
  <2>5. /\ running' \in Running /\ running'.id = running.id /\ running'.off = mem.next_id
        /\ stage' = "send" /\ execution' = execution
        /\ dispatched' = dispatched \cup ({running.id} \ {0})
    BY <1>0, <1>1, <1>4, DispatchIs
  <2>6. d.next_id >= mem.next_id
    BY <1>1, <2>11
  <2>7. Dispatches' /\ dispatched' \subseteq Nat \ {0}
    BY <2>11, <2>4, <2>5, <2>6, NowDispatched
  <2>8. Documents'
    BY <2>11, <2>4, AlikeSelf DEF Documents
  <2>9. Holder' /\ OffKept' /\ Room'
    BY <1>0, <2>11, <2>4, <2>5 DEF Duties, Holder, OffKept, Room
  <2>. QED
    BY <1>0, <2>11, <2>4, <2>5, <2>7, <2>8, <2>9 DEF TypeOK, Running, Duties
<1>5. \/ /\ UNCHANGED <<mem, disk, dispatched>> /\ used' \in [Bound -> Nat]
         /\ Returns(FALSE)
      \/ /\ Acceptable(running.command, running.auto_off) /\ running.auto_off = 0
         /\ Dispatch(0) /\ UNCHANGED <<mem, disk, used>>
      \/ /\ Acceptable(running.command, running.auto_off) /\ running.auto_off > 0
         /\ Fits(mem, 0) /\ Commit(d) /\ Dispatch(mem.next_id)
  BY NotCommitted, Types DEF Prepare, InsertOff, documents
<1>. QED
  BY <1>2, <1>3, <1>4, <1>5

(* What is saved although the file may stay behind.                                *)
LEMMA SaveIs ==
    ASSUME TypeOK, NEW d, NEW B, Save(d, B)
    PROVE  mem' = d /\ disk' \in {d, disk} /\ used' \in [Bound -> Nat]
BY SpendTyped DEF Save

LEMMA Saved ==
    ASSUME TypeOK, Duties, NEW d \in Document, WellFormed(d), Alike(d, disk),
           mem' = d, disk' \in {d, disk}, dispatched' = dispatched, d.next_id = mem.next_id,
           \A id : Has(d.schedules, id, "pending") => Has(mem.schedules, id, "pending")
    PROVE  Documents' /\ Dispatches'
<1>1. Documents'
  BY AlikeSelf DEF Duties, Documents
<1>2. mem'.next_id >= mem.next_id
  BY Types
<1>. QED
  BY <1>1, <1>2, Dispatched

LEMMA SameList ==
    ASSUME Duties, NEW d, d.next_id = mem.next_id, d.schedules = mem.schedules
    PROVE  WellFormed(d) /\ Alike(d, disk)
BY DEF Duties, Documents, WellFormed, Alike

LEMMA ConfirmedStep ==
    ASSUME TypeOK, Duties, Confirmed, UNCHANGED scenario
    PROVE  TypeOK' /\ Duties'
<1>. DEFINE d == [mem EXCEPT !.state = running.next, !.known = TRUE]
<1>0. UNCHANGED <<now, waiting, appliance, flight, dispatched>> /\ Returns(TRUE)
  BY DEF Confirmed, outside
<1>1. d \in Document /\ d.next_id = mem.next_id /\ d.schedules = mem.schedules
  BY Types, Believed
<1>2. mem' = d /\ disk' \in {d, disk} /\ used' \in [Bound -> Nat]
  BY SaveIs DEF Confirmed
<1>. HIDE DEF d
<1>3. WellFormed(d) /\ Alike(d, disk)
  BY <1>1, SameList
<1>4. Documents' /\ Dispatches'
  BY <1>0, <1>1, <1>2, <1>3, Saved
<1>5. /\ Duties' /\ running' \in Running
      /\ execution' \in {Nobody, Worker} /\ stage' \in {"free", "finish"}
  BY <1>0, <1>1, <1>2, <1>4, Returned
<1>. QED
  BY <1>0, <1>1, <1>2, <1>5 DEF TypeOK, Running

LEMMA UnconfirmedStep ==
    ASSUME TypeOK, Duties, Unconfirmed, UNCHANGED scenario
    PROVE  TypeOK' /\ Duties'
<1>. DEFINE d == [mem EXCEPT !.known = FALSE]
<1>0. UNCHANGED <<now, waiting, appliance, dispatched>> /\ Returns(FALSE)
  BY DEF Unconfirmed
<1>1. d \in Document /\ d.next_id = mem.next_id /\ d.schedules = mem.schedules
  BY Types, Doubted
<1>2. mem' = d /\ disk' \in {d, disk} /\ used' \in [Bound -> Nat]
  BY SaveIs DEF Unconfirmed, Distrusted
<1>. HIDE DEF d
<1>3. WellFormed(d) /\ Alike(d, disk)
  BY <1>1, SameList
<1>4. Documents' /\ Dispatches'
  BY <1>0, <1>1, <1>2, <1>3, Saved
<1>5. /\ Duties' /\ running' \in Running
      /\ execution' \in {Nobody, Worker} /\ stage' \in {"free", "finish"}
  BY <1>0, <1>1, <1>2, <1>4, Returned
<1>6. flight' \subseteq Command
  BY Types, Commands DEF Unconfirmed, TypeOK
<1>. QED
  BY <1>0, <1>1, <1>2, <1>5, <1>6 DEF TypeOK, Running

(* run_due records the outcome.                                                 *)
LEMMA FinishStep ==
    ASSUME TypeOK, Duties, Finish, UNCHANGED scenario
    PROVE  TypeOK' /\ Duties'
<1>. DEFINE status == IF running.ok THEN "completed" ELSE "failed"
            d == WithStatus(mem, {running.id}, status)
<1>0. UNCHANGED <<now, waiting, appliance, flight, dispatched>> /\ Release
  BY DEF Finish, outside
<1>1. /\ mem \in Document /\ WellFormed(mem) /\ Alike(mem, disk)
      /\ mem.schedules \in Seq(Task) /\ Has(mem.schedules, running.id, "running")
  BY Types, DocumentIs DEF Finish, Duties, Documents, Holder
<1>2. status \in Status /\ status \in {"completed", "failed"}
  BY DEF Status
<1>3. /\ d \in Document /\ d.next_id = mem.next_id
      /\ Restated(mem.schedules, d.schedules, {running.id}, status)
  BY <1>1, <1>2, WithStatusIs
<1>4. mem' = d /\ disk' \in {d, disk} /\ used' \in [Bound -> Nat]
  BY SaveIs DEF Finish
<1>. HIDE DEF status, d
<1>5. WellFormed(d)
  <2>1. Distinct(d.schedules) /\ Single(d.schedules) /\ Below(d.schedules, d.next_id)
    BY <1>1, <1>3, RestatedKeeps DEF WellFormed
  <2>2. Len(d.schedules) = Len(mem.schedules)
    BY <1>3 DEF Restated
  <2>3. Taken(d.schedules) <= Taken(mem.schedules)
    BY <1>1, <1>2, <1>3, Settles
  <2>4. d.schedules \in Seq(Task)
    BY <1>3, DocumentIs
  <2>5. Taken(d.schedules) \in Nat /\ Taken(mem.schedules) \in Nat /\ MaxSchedules \in Nat
    BY <1>1, <2>4, TakenIs, AirconAssumption
  <2>. QED
    BY <1>1, <2>1, <2>2, <2>3, <2>5 DEF WellFormed
<1>6. Alike(d, disk)
  <2>1. \A i \in DOMAIN mem.schedules :
          mem.schedules[i].id = running.id => mem.schedules[i].status = "running"
    BY <1>1 DEF Has, WellFormed, Distinct
  <2>2. ASSUME NEW i \in DOMAIN d.schedules
        PROVE  SameTask(d.schedules[i], disk.schedules[i])
    <3>1. i \in DOMAIN mem.schedules /\ SameTask(mem.schedules[i], disk.schedules[i])
      BY <1>1, <1>3 DEF Restated, Alike
    <3>2. /\ d.schedules[i].id = mem.schedules[i].id
          /\ d.schedules[i].request_id = mem.schedules[i].request_id
          /\ d.schedules[i].status = IF mem.schedules[i].id = running.id THEN status
                                     ELSE mem.schedules[i].status
      BY <1>3, <3>1 DEF Restated
    <3>. QED
      BY <1>2, <2>1, <3>1, <3>2 DEF SameTask, Executed
  <2>. QED
    BY <1>1, <1>3, <2>2 DEF Alike, Restated
<1>7. \A id : Has(d.schedules, id, "pending") => Has(mem.schedules, id, "pending")
  BY <1>1, <1>2, <1>3, RestatedKeeps
<1>8. Documents' /\ Dispatches'
  BY <1>0, <1>3, <1>4, <1>5, <1>6, <1>7, Saved
<1>9. Duties' /\ running' \in Running /\ execution' = Nobody /\ stage' = "free"
  BY <1>0, <1>8, Freed
<1>. QED
  BY <1>0, <1>3, <1>4, <1>9 DEF TypeOK, Running

-----------------------------------------------------------------------------
LEMMA StepInv == ASSUME TypeOK, Duties, [Next]_vars PROVE TypeOK' /\ Duties'
<1>1. CASE UNCHANGED vars
  <2>1. Duties'
    BY <1>1, Quiet DEF vars
  <2>. QED
    BY <1>1, <2>1 DEF vars, TypeOK
<1>2. CASE Next
  <2>1. UNCHANGED scenario
    BY <1>2 DEF Next
  <2>2. ASSUME NEW t \in Client, Submit(t) \/ Cancel(t) \/ Schedule(t) \/ Begin(t) \/ Drop(t)
        PROVE  TypeOK' /\ Duties'
    BY <2>1, <2>2, SubmitStep, CancelStep, ScheduleStep, BeginStep, DropStep
  <2>3. CASE TimeIsUp
    BY <2>3, <1>1 DEF TimeIsUp
  <2>. QED
    BY <1>2, <2>1, <2>2, <2>3, RunDueStep, PrepareStep, EmitStep, ConfirmedStep,
       UnconfirmedStep, FinishStep, EmitLateStep, CrashStep, TickStep DEF Next, Execute
<1>. QED
  BY <1>1, <1>2

-----------------------------------------------------------------------------
(* What follows from the invariant.                                              *)
LEMMA Correct == Spec => [](TypeOK /\ Duties)
<1>1. Init => TypeOK /\ Duties
  BY InitInv
<1>2. TypeOK /\ Duties /\ [Next]_vars => TypeOK' /\ Duties'
  BY StepInv
<1>. QED
  BY <1>1, <1>2, PTL DEF Spec

(* TypeOK: the state has the shape the module gives it, whatever is asked of the   *)
(* hub and whatever fails.                                                      *)
THEOREM TypeCorrect == Spec => []TypeOK
BY Correct, PTL

(* TasksAreDurable: memory and file agree on what is pending and on what is          *)
(* cancelled, and no request has two tasks.                                       *)
THEOREM Durable == Spec => []TasksAreDurable
<1>1. Duties => TasksAreDurable
  <2>. SUFFICES ASSUME Duties PROVE TasksAreDurable
    OBVIOUS
  <2>1. ASSUME NEW status \in {"pending", "cancelled"}
        PROVE  Ids(mem, status) = Ids(disk, status)
    <3>1. \A id : Has(mem.schedules, id, status) <=> Has(disk.schedules, id, status)
      BY AlikeHas DEF Duties, Documents
    <3>2. \A id : id \in Ids(mem, status) <=> id \in Ids(disk, status)
      BY <3>1, HasIs
    <3>. QED
      BY <3>2
  <2>2. OnePerRequest
    BY DEF OnePerRequest, Duties, Documents, WellFormed, Single
  <2>. QED
    BY <2>1, <2>2 DEF TasksAreDurable
<1>. QED
  BY <1>1, Correct, PTL

(* OffTaskIsSafe: while a command with an automatic off is on its way, the off task   *)
(* is pending in the file.                                                      *)
THEOREM OffTaskKept == Spec => []OffTaskIsSafe
<1>1. Duties => OffTaskIsSafe
  BY HasIs DEF Duties, OffKept, OffTaskIsSafe
<1>. QED
  BY <1>1, Correct, PTL

(* CapacityHeld: neither the list nor the places it has promised exceed             *)
(* MAX_SCHEDULES, and the off task of a scheduled command finds its place.           *)
THEOREM RoomForAll == Spec => []CapacityHeld
<1>1. Duties => CapacityHeld
  BY DEF Duties, Documents, WellFormed, Room, CapacityHeld
<1>. QED
  BY <1>1, Correct, PTL

-----------------------------------------------------------------------------
(* A command is handed to the infrared worker by Prepare alone.                      *)
LEMMA OnlyPrepare ==
    ASSUME TypeOK, Duties, [Next]_vars, stage = "execute", stage' = "send"
    PROVE  Prepare
<1>1. execution # Nobody
  BY DEF Duties, Holder
<1>2. ~UNCHANGED vars
  BY DEF vars
<1>3. ASSUME NEW t \in Client
      PROVE  ~(Submit(t) \/ Cancel(t) \/ Schedule(t) \/ Begin(t) \/ Drop(t))
  BY <1>1 DEF Submit, Cancel, Schedule, Begin, Drop, Enters, Release
<1>4. ~RunDue /\ ~EmitLate /\ ~Crash /\ ~Tick /\ ~TimeIsUp
  BY <1>1, <1>2 DEF RunDue, EmitLate, Crash, Tick, TimeIsUp, Release
<1>5. ~Emit /\ ~Confirmed /\ ~Unconfirmed /\ ~Finish
  BY DEF Emit, Confirmed, Unconfirmed, Finish
<1>. QED
  BY <1>2, <1>3, <1>4, <1>5 DEF Next, Execute

(* AtMostOnce: a schedule is handed to the infrared worker once, across restarts      *)
(* and failed writes.                                                           *)
THEOREM SentOnce == Spec => AtMostOnce
<1>1. ASSUME TypeOK, Duties
      PROVE  stage = "execute" => running.id \notin dispatched
  <2>1. 0 \notin dispatched
    BY <1>1, Types
  <2>2. CASE execution = Worker
    BY <2>2, <1>1 DEF Duties, Holder
  <2>3. CASE execution # Worker
    BY <2>1, <2>3, <1>1 DEF Duties, Holder
  <2>. QED
    BY <2>2, <2>3
<1>2. TypeOK /\ Duties /\ [Next]_vars
        => [stage = "execute" /\ stage' = "send" => running.id \notin dispatched]_vars
  BY <1>1
<1>. QED
  BY <1>2, Correct, PTL DEF Spec, AtMostOnce

-----------------------------------------------------------------------------
(* The shadow state.  Between the emission of a command and its confirmation the     *)
(* appliance has what the command says, and the shadow what was there before.         *)
Truthful ==
    /\ flight = {}
    /\ stage = "sent" => appliance = Infrared(running.next)
    /\ stage # "sent" /\ mem.known => appliance = Infrared(mem.state)

Shadow == SendersStay => Truthful

LEMMA Spent ==
    ASSUME TypeOK, [Next]_vars
    PROVE  used' \in [Bound -> Nat] /\ \A b \in Bound : used'[b] >= used[b]
<1>. DEFINE Goal == used' \in [Bound -> Nat] /\ \A b \in Bound : used'[b] >= used[b]
<1>1. ASSUME used' = used PROVE Goal
  BY <1>1, Types
<1>2. ASSUME NEW B, Spend(B) PROVE Goal
  BY <1>2, SpendTyped
<1>. HIDE DEF Goal
<1>3. ASSUME NEW d, Commit(d) \/ CommitFails PROVE Goal
  BY <1>1, <1>2, <1>3 DEF Commit, CommitFails
<1>4. ASSUME NEW d, NEW B, Save(d, B) PROVE Goal
  BY <1>2, <1>4 DEF Save
<1>5. ASSUME NEW t \in Client, Submit(t) \/ Cancel(t) \/ Schedule(t) \/ Begin(t) \/ Drop(t)
      PROVE  Goal
  <2>1. CASE Submit(t) \/ Drop(t)
    BY <1>2, <2>1 DEF Submit, Drop
  <2>2. CASE Cancel(t)
    BY <1>1, <1>3, <2>2 DEF Cancel
  <2>3. CASE Schedule(t)
    BY <1>1, <1>3, <2>3 DEF Schedule
  <2>4. CASE Begin(t)
    BY <1>1, <2>4 DEF Begin
  <2>. QED
    BY <1>5, <2>1, <2>2, <2>3, <2>4
<1>6. ASSUME RunDue \/ Prepare PROVE Goal
  <2>1. CASE RunDue
    BY <1>3, <2>1 DEF RunDue
  <2>2. CASE Prepare
    BY <1>1, <1>3, <2>2 DEF Prepare, InsertOff
  <2>. QED
    BY <1>6, <2>1, <2>2
<1>7. ASSUME Confirmed \/ Unconfirmed \/ Finish PROVE Goal
  BY <1>4, <1>7 DEF Confirmed, Unconfirmed, Finish
<1>8. ASSUME Crash \/ Tick PROVE Goal
  BY <1>2, <1>8 DEF Crash, Tick
<1>9. ASSUME Emit \/ EmitLate \/ TimeIsUp \/ UNCHANGED vars PROVE Goal
  BY <1>1, <1>9 DEF Emit, EmitLate, TimeIsUp, vars
<1>10. Goal
  BY <1>5, <1>6, <1>7, <1>8, <1>9 DEF Next, Execute
<1>. QED
  BY <1>10 DEF Goal

(* A sender that goes is never unsaid.                                           *)
LEMMA Stayed ==
    ASSUME TypeOK, [Next]_vars, SendersStay'
    PROVE  /\ SendersStay
           /\ \A b \in {"drops", "crashes", "timeouts"} : used'[b] = used[b]
<1>. DEFINE B == {"drops", "crashes", "timeouts"}
<1>1. \A b \in B : b \in Bound
  BY DEF Bound
<1>2. \A b \in B : used[b] \in Nat /\ used'[b] \in Nat /\ used'[b] >= used[b]
  BY <1>1, Spent, Types
<1>3. used'["drops"] + used'["crashes"] + used'["timeouts"] = 0
  BY DEF SendersStay
<1>4. \A b \in B : used'[b] = 0
  <2>1. used'["drops"] \in Nat /\ used'["crashes"] \in Nat /\ used'["timeouts"] \in Nat
    BY <1>2
  <2>2. used'["drops"] = 0 /\ used'["crashes"] = 0 /\ used'["timeouts"] = 0
    BY <2>1, <1>3
  <2>. QED
    BY <2>2
<1>5. \A b \in B : used[b] = 0
  BY <1>2, <1>4
<1>. QED
  BY <1>4, <1>5 DEF SendersStay

(* A bound that is spent grows.                                                   *)
LEMMA Gone ==
    ASSUME TypeOK, NEW b \in {"drops", "crashes", "timeouts"}, used'[b] = used[b]
    PROVE  ~Spend({b})
<1>1. b \in Bound /\ used[b] \in Nat
  BY Types DEF Bound
<1>2. ASSUME Spend({b}) PROVE used'[b] = used[b] + 1
  BY <1>1, <1>2, SpendTyped
<1>. QED
  BY <1>1, <1>2

(* Nothing is said of the appliance and nothing done to it.                         *)
LEMMA Silent ==
    ASSUME Truthful, UNCHANGED <<appliance, flight>>, stage # "sent", stage' # "sent",
           mem'.state = mem.state, mem'.known = mem.known
    PROVE  Truthful'
BY DEF Truthful

(* A step that commits a document that is said to be in the same state.              *)
LEMMA Commits ==
    ASSUME TypeOK, NEW d, d.state = mem.state, d.known = mem.known, Commit(d) \/ CommitFails
    PROVE  mem'.state = mem.state /\ mem'.known = mem.known
BY DEF Commit, CommitFails, documents

(* execute() returns.                                                           *)
LEMMA NotSent == ASSUME NEW ok, Returns(ok) PROVE stage' # "sent"
BY DEF Returns, Release

LEMMA TaskTruthful ==
    ASSUME TypeOK, Duties, Truthful, NEW t \in Client, Cancel(t) \/ Schedule(t) \/ Begin(t)
    PROVE  Truthful'
<1>1. /\ stage = "free" /\ stage' # "sent" /\ UNCHANGED <<appliance, flight>>
  BY DEF Cancel, Schedule, Begin, Enters, Duties, Holder, outside
<1>2. mem \in Document /\ WellFormed(mem)
  BY Types DEF Duties, Documents
<1>3. mem'.state = mem.state /\ mem'.known = mem.known
  <2>1. CASE Cancel(t)
    <3>. DEFINE ids == {id \in Ids(mem, "pending") :
                          waiting[t].command.operation = "cancel_schedule"
                            => id = waiting[t].command.schedule_id}
                d == WithStatus(mem, ids, "cancelled")
    <3>1. d.state = mem.state /\ d.known = mem.known
      BY <1>2, WithStatusIs DEF Status
    <3>2. mem' = mem \/ Commit(d) \/ CommitFails
      BY <2>1 DEF Cancel, documents
    <3>. HIDE DEF d
    <3>. QED
      BY <3>1, <3>2, Commits
  <2>2. CASE Schedule(t)
    <3>. DEFINE r == waiting[t]
                d == Insert(mem, r.command, r.request_id, now + r.delay, r.auto_off)
    <3>1. \/ mem' = mem
          \/ /\ Acceptable(r.command, r.auto_off) /\ ~Known(mem, r.request_id)
             /\ Fits(mem, r.auto_off)
             /\ Commit(d) \/ CommitFails
      BY <2>2 DEF Schedule, documents
    <3>2. /\ r.command \in Operation /\ r.request_id \in RequestId /\ r.auto_off \in Nat
          /\ now + r.delay \in Nat
      BY <2>2, Waits, RequestIs, Types DEF Schedule, Enters
    <3>3. ASSUME ~Known(mem, r.request_id), Fits(mem, r.auto_off)
          PROVE  d.state = mem.state /\ d.known = mem.known
      BY <1>2, <3>2, <3>3, Inserted
    <3>. HIDE DEF d
    <3>. QED
      BY <3>1, <3>3, Commits
  <2>3. CASE Begin(t)
    BY <2>3 DEF Begin, documents
  <2>. QED
    BY <2>1, <2>2, <2>3
<1>. QED
  BY <1>1, <1>3, Silent

LEMMA DueTruthful ==
    ASSUME TypeOK, Duties, Truthful, RunDue PROVE Truthful'
<1>. DEFINE s == mem.schedules[Min(DueIndexes)]
            d == WithStatus(mem, {s.id}, "running")
<1>1. /\ stage = "free" /\ stage' # "sent" /\ UNCHANGED <<appliance, flight>>
      /\ Commit(d) \/ CommitFails
  BY DEF RunDue, Duties, Holder, outside
<1>2. d.state = mem.state /\ d.known = mem.known
  BY Types, WithStatusIs DEF Status
<1>. HIDE DEF d
<1>. QED
  BY <1>1, <1>2, Commits, Silent

LEMMA PrepareTruthful ==
    ASSUME TypeOK, Duties, Truthful, Prepare PROVE Truthful'
<1>. DEFINE off == [operation |-> "off"]
            at == now + running.auto_off
            d == Insert(mem, off, "", at, 0)
<1>1. stage = "execute" /\ UNCHANGED <<appliance, flight>>
  BY DEF Prepare, outside
<1>2. stage' # "sent"
  BY NotSent DEF Prepare, Dispatch
<1>3. mem' = mem \/ (Fits(mem, 0) /\ (Commit(d) \/ CommitFails))
  BY DEF Prepare, InsertOff, documents
<1>4. ASSUME Fits(mem, 0) PROVE d.state = mem.state /\ d.known = mem.known
  <2>1. off \in Operation /\ ~Known(mem, "") /\ "" \in RequestId
    BY OffIs
  <2>3. at \in Nat /\ 0 \in Nat
    BY Types
  <2>2. mem \in Document /\ WellFormed(mem)
    BY Types DEF Duties, Documents
  <2>. HIDE DEF off, at
  <2>. QED
    BY <1>4, <2>1, <2>2, <2>3, Inserted
<1>. HIDE DEF d
<1>. QED
  BY <1>1, <1>2, <1>3, <1>4, Commits, Silent

LEMMA ConfirmedTruthful ==
    ASSUME TypeOK, Truthful, Confirmed PROVE Truthful'
<1>1. /\ stage = "sent" /\ UNCHANGED <<appliance, flight>> /\ stage' # "sent"
      /\ appliance = Infrared(running.next)
  BY NotSent DEF Confirmed, outside, Truthful
<1>2. mem'.state = running.next
  BY Types DEF Confirmed, Save, Document
<1>. QED
  BY <1>1, <1>2 DEF Truthful

LEMMA UnconfirmedTruthful ==
    ASSUME TypeOK, Truthful, Unconfirmed, used'["timeouts"] = used["timeouts"]
    PROVE  Truthful'
<1>1. stage' # "sent" /\ UNCHANGED appliance
  BY NotSent DEF Unconfirmed
<1>2. ~Spend({"timeouts"}) /\ ~Spend({"timeouts"} \cup {"saves"})
  <2>1. "timeouts" \in Bound /\ used["timeouts"] \in Nat
    BY Types DEF Bound
  <2>2. ASSUME NEW B, "timeouts" \in B, Spend(B) PROVE FALSE
    BY <2>1, <2>2, SpendTyped
  <2>. QED
    BY <2>2
<1>3. UNCHANGED flight
  BY <1>2 DEF Unconfirmed, Save
<1>4. mem'.known = FALSE
  BY Types DEF Unconfirmed, Save, Distrusted, Document
<1>. QED
  BY <1>1, <1>3, <1>4 DEF Truthful

LEMMA FinishTruthful ==
    ASSUME TypeOK, Duties, Truthful, Finish PROVE Truthful'
<1>. DEFINE status == IF running.ok THEN "completed" ELSE "failed"
            d == WithStatus(mem, {running.id}, status)
<1>1. /\ stage = "finish" /\ stage' # "sent" /\ UNCHANGED <<appliance, flight>>
      /\ mem' = d
  BY DEF Finish, Release, Save, outside
<1>2. status \in Status
  BY DEF Status
<1>3. d.state = mem.state /\ d.known = mem.known
  BY <1>2, Types, WithStatusIs
<1>. QED
  BY <1>1, <1>3, Silent

LEMMA StepShadow ==
    ASSUME TypeOK, Duties, Shadow, [Next]_vars PROVE Shadow'
<1>. SUFFICES ASSUME SendersStay' PROVE Truthful'
  BY DEF Shadow
<1>1. Truthful /\ \A b \in {"drops", "crashes", "timeouts"} : used'[b] = used[b]
  BY Stayed DEF Shadow
<1>2. CASE UNCHANGED <<mem, stage, running, appliance, flight>>
  BY <1>1, <1>2 DEF Truthful
<1>3. ASSUME NEW t \in Client, Submit(t) \/ Cancel(t) \/ Schedule(t) \/ Begin(t) \/ Drop(t)
      PROVE  Truthful'
  <2>1. CASE Submit(t)
    BY <2>1, <1>2 DEF Submit, documents, outside
  <2>2. CASE Drop(t)
    BY <2>2, <1>1, Gone DEF Drop
  <2>. QED
    BY <1>1, <1>3, <2>1, <2>2, TaskTruthful
<1>4. CASE Emit
  BY <1>1, <1>4 DEF Emit, Truthful
<1>5. CASE EmitLate
  BY <1>1, <1>5 DEF EmitLate, Truthful
<1>6. CASE Crash
  BY <1>1, <1>6, Gone DEF Crash
<1>7. CASE Tick \/ TimeIsUp \/ UNCHANGED vars
  BY <1>7, <1>2 DEF Tick, TimeIsUp, documents, outside, vars
<1>. QED
  BY <1>1, <1>3, <1>4, <1>5, <1>6, <1>7, DueTruthful, PrepareTruthful, ConfirmedTruthful,
     UnconfirmedTruthful, FinishTruthful DEF Next, Execute

(* ShadowTruthful: as long as no sender goes, a shadow state that is said to be known *)
(* is what the appliance was last told, whatever requests and writes fail.           *)
THEOREM ShadowIsTrue == Spec => []ShadowTruthful
<1>1. Init => Shadow
  <2>. SUFFICES ASSUME Init PROVE Truthful
    BY DEF Shadow
  <2>1. flight = {} /\ stage = "free" /\ mem.known = FALSE
    BY EmptyIs DEF Init
  <2>. QED
    BY <2>1 DEF Truthful
<1>2. TypeOK /\ Duties /\ Shadow /\ [Next]_vars => Shadow'
  BY StepShadow
<1>3. Shadow => ShadowTruthful
  BY DEF Shadow, Truthful, ShadowTruthful
<1>. QED
  BY <1>1, <1>2, <1>3, Correct, PTL DEF Spec
=============================================================================
