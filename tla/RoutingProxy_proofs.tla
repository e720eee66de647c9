------------------------- MODULE RoutingProxy_proofs -------------------------
(***************************************************************************)
(* The order in which a group's members are tried (RoutingPlan), and what  *)
(* requests through a group keep to, for any number of requests, members   *)
(* and conversations, and whatever fails, expires, is edited or restarted  *)
(* while they run.                                                         *)
(***************************************************************************)
EXTENDS RoutingProxy, FiniteSetTheorems, SequenceTheorems, TLAPS

-----------------------------------------------------------------------------
(* The lists the order is made of (RoutingPlan).                               *)

\* A strict order on S.
StrictOrder(S, R) ==
  /\ \A i \in S : <<i, i>> \notin R
  /\ \A i, j, k \in S : <<i, j>> \in R /\ <<j, k>> \in R => <<i, k>> \in R
  /\ \A i, j \in S : i # j => <<i, j>> \in R \/ <<j, i>> \in R

\* f lists the elements of S, each once.
Lists(f, S) ==
  /\ f \in [1..Cardinality(S) -> S]
  /\ \A k, l \in 1..Cardinality(S) : f[k] = f[l] => k = l
  /\ \A i \in S : \E k \in 1..Cardinality(S) : f[k] = i

\* What sorting gives is the same elements, in the order.
LEMMA SortedLists ==
  ASSUME NEW S, IsFiniteSet(S), NEW R, StrictOrder(S, R)
  PROVE  /\ Lists(Sorted(S, R), S)
         /\ \A k, l \in 1..Cardinality(S) : k < l => <<Sorted(S, R)[k], Sorted(S, R)[l]>> \in R
<1> DEFINE n == Cardinality(S)
           before(i) == {j \in S : <<j, i>> \in R}
           rank == [i \in S |-> Cardinality(before(i))]
<1>1. n \in Nat
  BY FS_CardinalityType
<1>2. ASSUME NEW i \in S PROVE IsFiniteSet(before(i)) /\ rank[i] \in 0..(n - 1)
  <2>1. IsFiniteSet(before(i)) /\ Cardinality(before(i)) =< n /\ (n = Cardinality(before(i)) => S = before(i))
    BY FS_Subset
  <2>2. i \notin before(i)
    BY DEF StrictOrder
  <2>3. Cardinality(before(i)) \in Nat
    BY <2>1, FS_CardinalityType
  <2> HIDE DEF before, n
  <2> QED
    BY <1>1, <2>1, <2>2, <2>3
<1>3. ASSUME NEW i \in S, NEW j \in S, <<i, j>> \in R PROVE rank[i] < rank[j]
  <2>1. before(i) \subseteq before(j) /\ i \in before(j) /\ i \notin before(i)
    BY <1>3 DEF StrictOrder
  <2>2. Cardinality(before(i)) =< Cardinality(before(j)) /\ Cardinality(before(j)) # Cardinality(before(i))
    <3> HIDE DEF before
    <3> QED
      BY <1>2, <2>1, FS_Subset
  <2> HIDE DEF before, n
  <2> QED
    BY <1>1, <1>2, <2>2
<1>4. rank \in Injection(S, 0..(n - 1))
  <2>1. rank \in [S -> 0..(n - 1)]
    BY <1>2
  <2>2. \A i, j \in S : rank[i] = rank[j] => i = j
    <3> SUFFICES ASSUME NEW i \in S, NEW j \in S, i # j PROVE rank[i] # rank[j]
      OBVIOUS
    <3>1. rank[i] < rank[j] \/ rank[j] < rank[i]
      <4> HIDE DEF rank
      <4> QED
        BY <1>3 DEF StrictOrder
    <3>2. rank[i] \in Int /\ rank[j] \in Int
      <4>1. rank[i] \in 0..(n - 1) /\ rank[j] \in 0..(n - 1)
        BY <1>2
      <4> HIDE DEF rank, n
      <4> QED
        BY <1>1, <4>1
    <3> HIDE DEF rank
    <3> QED
      BY <3>1, <3>2
  <2> HIDE DEF rank
  <2> QED
    BY <2>1, <2>2 DEF Injection, IsInjective
<1> HIDE DEF rank
<1>5. rank \in Surjection(S, 0..(n - 1))
  <2>1. IsFiniteSet(0..(n - 1)) /\ Cardinality(0..(n - 1)) = n
    BY <1>1, FS_Interval
  <2> QED
    BY <1>4, <2>1, FS_Injection
<1>6. ASSUME NEW k \in 1..n PROVE Sorted(S, R)[k] \in S /\ rank[Sorted(S, R)[k]] = k - 1
  <2>1. k - 1 \in 0..(n - 1)
    BY <1>1
  <2>2. \E i \in S : rank[i] = k - 1
    BY <1>5, <2>1 DEF Surjection
  <2>3. \E i \in S : Cardinality(before(i)) = k - 1
    BY <2>2 DEF rank
  <2>4. Sorted(S, R)[k] = CHOOSE i \in S : Cardinality(before(i)) = k - 1
    BY DEF Sorted
  <2> QED
    BY <2>3, <2>4 DEF rank
<1>7. ASSUME NEW i \in S, NEW j \in S, rank[i] = rank[j] PROVE i = j
  BY <1>4, <1>7 DEF Injection, IsInjective
<1>8. Lists(Sorted(S, R), S)
  <2>1. Sorted(S, R) \in [1..n -> S]
    <3> DEFINE pick(k) == CHOOSE i \in S : Cardinality(before(i)) = k - 1
    <3>1. Sorted(S, R) = [k \in 1..n |-> pick(k)]
      BY DEF Sorted
    <3> HIDE DEF pick
    <3> QED
      BY <1>6, <3>1
  <2>2. ASSUME NEW k \in 1..n, NEW l \in 1..n, Sorted(S, R)[k] = Sorted(S, R)[l] PROVE k = l
    BY <1>1, <1>6, <2>2
  <2>3. ASSUME NEW i \in S PROVE \E k \in 1..n : Sorted(S, R)[k] = i
    <3>1. rank[i] + 1 \in 1..n /\ (rank[i] + 1) - 1 = rank[i]
      BY <1>1, <1>2 DEF rank
    <3> QED
      BY <1>6, <1>7, <3>1
  <2> QED
    BY <2>1, <2>2, <2>3 DEF Lists
<1>9. ASSUME NEW k \in 1..n, NEW l \in 1..n, k < l PROVE <<Sorted(S, R)[k], Sorted(S, R)[l]>> \in R
  <2> DEFINE a == Sorted(S, R)[k]
             b == Sorted(S, R)[l]
  <2>1. a \in S /\ b \in S /\ rank[a] = k - 1 /\ rank[b] = l - 1
    BY <1>6
  <2> HIDE DEF a, b
  <2>2. rank[a] < rank[b]
    BY <1>1, <1>9, <2>1
  <2>3. ~(<<b, a>> \in R)
    <3> SUFFICES ASSUME <<b, a>> \in R PROVE FALSE
      OBVIOUS
    <3>1. rank[b] < rank[a]
      BY <1>3, <2>1 DEF rank
    <3> QED
      BY <1>1, <2>1, <2>2, <3>1
  <2>4. a # b
    BY <1>1, <2>1, <2>2
  <2> QED
    BY <2>1, <2>3, <2>4 DEF StrictOrder, a, b
<1> QED
  BY <1>8, <1>9

\* The positions a filter keeps, in their order.
Ascending(I) == Sorted(I, {p \in I \X I : p[1] < p[2]})

LEMMA AscendingLists ==
  ASSUME NEW I \in SUBSET Nat, IsFiniteSet(I)
  PROVE  /\ Lists(Ascending(I), I)
         /\ \A k, l \in 1..Cardinality(I) : k < l => Ascending(I)[k] < Ascending(I)[l]
<1> DEFINE R == {p \in I \X I : p[1] < p[2]}
<1>1. \A i, j : <<i, j>> \in R <=> i \in I /\ j \in I /\ i < j
  OBVIOUS
<1>2. StrictOrder(I, R)
  <2> HIDE DEF R
  <2> QED
    BY <1>1 DEF StrictOrder
<1> HIDE DEF R
<1>3. Ascending(I) = Sorted(I, R)
  BY DEF R, Ascending
<1>4. /\ Lists(Ascending(I), I)
      /\ \A k, l \in 1..Cardinality(I) : k < l => <<Ascending(I)[k], Ascending(I)[l]>> \in R
  BY <1>2, <1>3, SortedLists
<1> QED
  BY <1>1, <1>4

\* What filter() leaves, entry by entry.
LEMMA KeptEntries ==
  ASSUME NEW list, NEW I \in SUBSET Nat, IsFiniteSet(I)
  PROVE  /\ DOMAIN Kept(list, I) = 1..Cardinality(I)
         /\ Cardinality(I) \in Nat
         /\ \A k \in 1..Cardinality(I) : Kept(list, I)[k] = list[Ascending(I)[k]]
<1> DEFINE R == {p \in I \X I : p[1] < p[2]}
<1>1. \A i \in I : {j \in I : j < i} = {j \in I : <<j, i>> \in R}
  OBVIOUS
<1>2. ASSUME NEW k \in 1..Cardinality(I)
      PROVE  (CHOOSE i \in I : Cardinality({j \in I : j < i}) = k - 1)
               = (CHOOSE i \in I : Cardinality({j \in I : <<j, i>> \in R}) = k - 1)
  <2> HIDE DEF R
  <2> QED
    BY <1>1
<1>3. \A k \in 1..Cardinality(I) : Ascending(I)[k] = CHOOSE i \in I : Cardinality({j \in I : <<j, i>> \in R}) = k - 1
  BY DEF Ascending, Sorted
<1> HIDE DEF R
<1> QED
  BY <1>2, <1>3, FS_CardinalityType DEF Kept

-----------------------------------------------------------------------------
(* Rotating.                                                                   *)

LEMMA QuotientUnique ==
  ASSUME NEW n \in Nat \ {0}, NEW p \in Int, NEW q \in Int, n * p < n * q + n, n * q < n * p + n
  PROVE  p = q
OBVIOUS

LEMMA Divided ==
  ASSUME NEW n \in Nat \ {0}, NEW a \in Nat
  PROVE  a % n \in 0..(n - 1) /\ \E q \in Int : a = n * q + (a % n)
<1>1. a % n \in 0..(n - 1)
  OBVIOUS
<1>2. a = n * (a \div n) + (a % n) /\ a \div n \in Int
  OBVIOUS
<1> QED
  BY <1>1, <1>2

\* Numbers less than n apart that leave the same remainder are the same.
LEMMA SameRemainder ==
  ASSUME NEW n \in Nat \ {0}, NEW a \in Nat, NEW b \in Nat, a % n = b % n, a < b + n, b < a + n
  PROVE  a = b
<1>1. PICK p \in Int : a = n * p + (a % n)
  BY Divided
<1>2. PICK q \in Int : b = n * q + (b % n)
  BY Divided
<1>3. a % n \in Int /\ n * p \in Int /\ n * q \in Int
  BY Divided
<1> DEFINE x == n * p
           y == n * q
           r == a % n
<1>4. a = x + r /\ b = y + r
  BY <1>1, <1>2
<1>5. x < y + n /\ y < x + n
  <2> HIDE DEF x, y, r
  <2>1. x \in Int /\ y \in Int /\ r \in Int
    BY <1>3 DEF x, y, r
  <2> QED
    BY <1>4, <2>1
<1>6. p = q
  BY <1>5, QuotientUnique
<1> QED
  BY <1>4, <1>6

LEMMA SmallRemainder ==
  ASSUME NEW n \in Nat \ {0}, NEW x \in 0..(n - 1)
  PROVE  x % n = x
OBVIOUS

-----------------------------------------------------------------------------
(* Lists in another order.                                                     *)

Distinct(list) == \A i, j \in DOMAIN list : list[i] = list[j] => i = j

\* a has the entries of b, each once.
Reorders(a, b) == Distinct(a) /\ Len(a) = Len(b) /\ ToSet(a) = ToSet(b)

LEMMA SameEntries ==
  ASSUME NEW T, NEW a \in Seq(T), NEW b \in Seq(T), Distinct(a), Distinct(b), ToSet(a) = ToSet(b)
  PROVE  Reorders(a, b)
<1> DEFINE m == Len(a)
           n == Len(b)
           to == [i \in 1..m |-> CHOOSE j \in 1..n : b[j] = a[i]]
<1>1. m \in Nat /\ n \in Nat /\ DOMAIN a = 1..m /\ DOMAIN b = 1..n
  OBVIOUS
<1>2. ASSUME NEW i \in 1..m PROVE to[i] \in 1..n /\ b[to[i]] = a[i]
  <2>1. \E j \in 1..n : b[j] = a[i]
    BY <1>1 DEF ToSet
  <2> QED
    BY <2>1
<1>3. to \in [1..m -> 1..n]
  BY <1>2
<1> HIDE DEF to
<1>4. to \in Injection(1..m, 1..n)
  BY <1>1, <1>2, <1>3 DEF Injection, IsInjective, Distinct
<1>5. \A j \in 1..n : \E i \in 1..m : to[i] = j
  <2> SUFFICES ASSUME NEW j \in 1..n PROVE \E i \in 1..m : to[i] = j
    OBVIOUS
  <2>1. PICK i \in 1..m : a[i] = b[j]
    BY <1>1 DEF ToSet
  <2> QED
    BY <1>1, <1>2, <2>1 DEF Distinct
<1>6. to \in Surjection(1..m, 1..n)
  BY <1>3, <1>5 DEF Surjection
<1> HIDE DEF m, n
<1>7. /\ IsFiniteSet(1..m) /\ Cardinality(1..m) = m
      /\ IsFiniteSet(1..n) /\ Cardinality(1..n) = n
  <2>1. \A k \in Nat : IsFiniteSet(1..k) /\ Cardinality(1..k) = k
    BY FS_Interval
  <2> QED
    BY <1>1, <2>1
<1>8. m = n
  BY <1>4, <1>6, <1>7, FS_Injection
<1> QED
  BY <1>8 DEF Reorders, m, n

LEMMA KeptSound ==
  ASSUME NEW T, NEW list \in Seq(T), NEW I \in SUBSET (DOMAIN list)
  PROVE  /\ Kept(list, I) \in Seq(T)
         /\ ToSet(Kept(list, I)) = {list[i] : i \in I}
         /\ Distinct(list) => Distinct(Kept(list, I))
         /\ \A k \in DOMAIN Kept(list, I) : \E i \in I : Kept(list, I)[k] = list[i]
<1> DEFINE n == Cardinality(I)
           f == Ascending(I)
           kept == Kept(list, I)
<1>1. I \in SUBSET Nat /\ IsFiniteSet(I)
  <2>1. DOMAIN list = 1..Len(list) /\ Len(list) \in Nat
    OBVIOUS
  <2>2. IsFiniteSet(1..Len(list))
    BY <2>1, FS_Interval
  <2> QED
    BY <2>1, <2>2, FS_Subset
<1>2. DOMAIN kept = 1..n /\ n \in Nat /\ \A k \in 1..n : kept[k] = list[f[k]]
  BY <1>1, KeptEntries
<1>3. f \in [1..n -> I] /\ (\A k, l \in 1..n : f[k] = f[l] => k = l) /\ (\A i \in I : \E k \in 1..n : f[k] = i)
  BY <1>1, AscendingLists DEF Lists
<1>4. kept = [k \in 1..n |-> list[f[k]]]
  <2>1. kept = [k \in 1..n |-> list[CHOOSE i \in I : Cardinality({j \in I : j < i}) = k - 1]]
    BY DEF Kept
  <2> DEFINE g == [k \in 1..n |-> list[f[k]]]
             e(k) == list[CHOOSE i \in I : Cardinality({j \in I : j < i}) = k - 1]
  <2>2. kept = [k \in 1..n |-> e(k)]
    BY <2>1
  <2> HIDE DEF e, kept, f, n
  <2>3. \A k \in 1..n : e(k) = list[f[k]]
    BY <1>2, <2>2
  <2> QED
    BY <2>2, <2>3
<1> HIDE DEF kept, f, n
<1>5. kept \in Seq(T)
  BY <1>2, <1>3, <1>4
<1>6. ToSet(kept) = {list[i] : i \in I}
  BY <1>2, <1>3 DEF ToSet
<1>7. Distinct(list) => Distinct(kept)
  BY <1>2, <1>3 DEF Distinct
<1>8. \A k \in DOMAIN kept : \E i \in I : kept[k] = list[i]
  BY <1>2, <1>3
<1> QED
  BY <1>5, <1>6, <1>7, <1>8 DEF kept

\* A filter that keeps the first m entries.
LEMMA KeptFirst ==
  ASSUME NEW T, NEW list \in Seq(T), NEW m \in 0..Len(list)
  PROVE  Kept(list, 1..m) = SubSeq(list, 1, m)
<1>1. m \in Nat /\ IsFiniteSet(1..m) /\ Cardinality(1..m) = m
  BY FS_Interval
<1> DEFINE e(k) == CHOOSE i \in 1..m : Cardinality({j \in 1..m : j < i}) = k - 1
<1>2. ASSUME NEW k \in 1..m PROVE e(k) = k
  <2>1. \A i \in 1..m : Cardinality({j \in 1..m : j < i}) = i - 1
    <3> SUFFICES ASSUME NEW i \in 1..m PROVE Cardinality({j \in 1..m : j < i}) = i - 1
      OBVIOUS
    <3>1. {j \in 1..m : j < i} = 1..(i - 1)
      BY <1>1
    <3>2. Cardinality(1..(i - 1)) = i - 1
      BY <1>1, FS_Interval
    <3> QED
      BY <3>1, <3>2
  <2> DEFINE c(i) == Cardinality({j \in 1..m : j < i})
  <2> HIDE DEF c
  <2>2. \A i \in 1..m : c(i) = i - 1
    BY <2>1 DEF c
  <2>3. (CHOOSE i \in 1..m : c(i) = k - 1) = k
    BY <1>1, <2>2
  <2> QED
    BY <2>3 DEF c
<1>3. Kept(list, 1..m) = [k \in 1..m |-> list[e(k)]]
  BY <1>1 DEF Kept
<1> HIDE DEF e
<1>4. Kept(list, 1..m) = [k \in 1..m |-> list[k]]
  BY <1>2, <1>3
<1> QED
  BY <1>1, <1>4

LEMMA KeptNone ==
  ASSUME NEW list
  PROVE  Kept(list, {}) = << >>
<1>1. Cardinality({}) = 0
  BY FS_EmptySet
<1> QED
  BY <1>1 DEF Kept

-----------------------------------------------------------------------------
(* The order in which the members are tried.                                   *)

LEMMA RotatedSound ==
  ASSUME NEW T, NEW list \in Seq(T), Distinct(list), NEW c \in Nat
  PROVE  rotated(list, c) \in Seq(T) /\ Reorders(rotated(list, c), list)
<1> DEFINE n == Len(list)
           at == [i \in 1..n |-> ((i - 1 + c) % n) + 1]
           r == rotated(list, c)
<1>1. n \in Nat /\ DOMAIN list = 1..n
  OBVIOUS
<1>2. ASSUME NEW i \in 1..n PROVE i - 1 + c \in Nat /\ n \in Nat \ {0} /\ at[i] \in 1..n /\ at[i] - 1 = (i - 1 + c) % n
  <2>1. i - 1 + c \in Nat /\ n \in Nat \ {0}
    BY <1>1
  <2>2. (i - 1 + c) % n \in 0..(n - 1)
    <3> HIDE DEF n
    <3> QED
      BY <2>1, Divided
  <2>3. at[i] = ((i - 1 + c) % n) + 1
    OBVIOUS
  <2> DEFINE z == (i - 1 + c) % n
  <2> HIDE DEF n, at, z
  <2>4. z \in 0..(n - 1) /\ at[i] = z + 1
    BY <2>2, <2>3 DEF z
  <2>5. at[i] \in 1..n /\ at[i] - 1 = z
    BY <2>1, <2>4
  <2> QED
    BY <2>1, <2>5 DEF z
<1>3. r = [i \in 1..n |-> list[at[i]]]
  BY <1>1 DEF rotated
<1>4. \A i, j \in 1..n : at[i] = at[j] => i = j
  <2> SUFFICES ASSUME NEW i \in 1..n, NEW j \in 1..n, at[i] = at[j] PROVE i = j
    OBVIOUS
  <2>1. (i - 1 + c) % n = (j - 1 + c) % n
    BY <1>2
  <2>2. i - 1 + c < j - 1 + c + n /\ j - 1 + c < i - 1 + c + n
    BY <1>1
  <2>3. i - 1 + c = j - 1 + c
    <3> HIDE DEF n, at
    <3> QED
      BY <1>2, <2>1, <2>2, SameRemainder
  <2> QED
    BY <1>1, <2>3
<1>5. at \in [1..n -> 1..n]
  BY <1>2
<1> HIDE DEF at, r
<1>6. \A j \in 1..n : \E i \in 1..n : at[i] = j
  <2>1. at \in Injection(1..n, 1..n)
    BY <1>4, <1>5 DEF Injection, IsInjective
  <2>2. IsFiniteSet(1..n)
    BY <1>1, FS_Interval
  <2>3. at \in Surjection(1..n, 1..n)
    BY <2>1, <2>2, FS_Injection
  <2> QED
    BY <2>3 DEF Surjection
<1>7. r \in Seq(T) /\ DOMAIN r = 1..n /\ Len(r) = n
  BY <1>1, <1>3, <1>5
<1>8. Distinct(r)
  BY <1>1, <1>3, <1>4, <1>5, <1>7 DEF Distinct
<1>9. ToSet(r) = ToSet(list)
  BY <1>1, <1>3, <1>5, <1>6, <1>7 DEF ToSet
<1> QED
  BY <1>7, <1>8, <1>9 DEF Reorders, r

LEMMA LeastUsedSound ==
  ASSUME NEW T, NEW list \in Seq(T), Distinct(list), NEW cnt \in [T -> Nat]
  PROVE  leastUsed(list, cnt) \in Seq(T) /\ Reorders(leastUsed(list, cnt), list)
<1> DEFINE n == Len(list)
           D == DOMAIN list
           first == {p \in D \X D : \/ cnt[list[p[1]]] < cnt[list[p[2]]]
                                    \/ cnt[list[p[1]]] = cnt[list[p[2]]] /\ p[1] < p[2]}
           f == Sorted(D, first)
           r == leastUsed(list, cnt)
<1>1. n \in Nat /\ D = 1..n /\ IsFiniteSet(D) /\ Cardinality(D) = n
  <2>1. n \in Nat /\ D = 1..n
    OBVIOUS
  <2> HIDE DEF n, D
  <2> QED
    BY <2>1, FS_Interval
<1>2. \A i \in D : list[i] \in T /\ cnt[list[i]] \in Nat /\ i \in Int
  BY <1>1
<1>3. \A i, j : <<i, j>> \in first <=> /\ i \in D /\ j \in D
                                       /\ \/ cnt[list[i]] < cnt[list[j]]
                                          \/ cnt[list[i]] = cnt[list[j]] /\ i < j
  <2> HIDE DEF D
  <2> QED
    OBVIOUS
<1>4. StrictOrder(D, first)
  <2> DEFINE used == [i \in D |-> cnt[list[i]]]
  <2>1. \A i \in D : used[i] \in Int /\ i \in Int
    BY <1>2
  <2>2. \A i, j \in D : <<i, j>> \in first <=> used[i] < used[j] \/ (used[i] = used[j] /\ i < j)
    BY <1>3
  <2> HIDE DEF used, first, D
  <2>3. \A i \in D : <<i, i>> \notin first
    BY <2>1, <2>2
  <2>4. ASSUME NEW i \in D, NEW j \in D, NEW k \in D, <<i, j>> \in first, <<j, k>> \in first PROVE <<i, k>> \in first
    <3>1. /\ used[i] < used[j] \/ (used[i] = used[j] /\ i < j)
          /\ used[j] < used[k] \/ (used[j] = used[k] /\ j < k)
      BY <2>2, <2>4
    <3>2. used[i] < used[k] \/ (used[i] = used[k] /\ i < k)
      BY <2>1, <3>1
    <3> QED
      BY <2>2, <3>2
  <2>5. ASSUME NEW i \in D, NEW j \in D, i # j PROVE <<i, j>> \in first \/ <<j, i>> \in first
    BY <2>1, <2>2, <2>5
  <2> QED
    BY <2>3, <2>4, <2>5 DEF StrictOrder
<1>a. DOMAIN list = D /\ Len(list) = n
  OBVIOUS
<1> HIDE DEF first, D, n
<1>5. f \in [1..n -> D] /\ (\A k, l \in 1..n : f[k] = f[l] => k = l) /\ (\A i \in D : \E k \in 1..n : f[k] = i)
  <2>1. Lists(f, D)
    BY <1>1, <1>4, SortedLists
  <2> HIDE DEF f
  <2> QED
    BY <1>1, <2>1 DEF Lists
<1>6. r = [k \in DOMAIN f |-> list[f[k]]]
  BY DEF leastUsed, first, D
<1> HIDE DEF f, r
<1>7. r = [k \in 1..n |-> list[f[k]]]
  BY <1>5, <1>6
<1>8. r \in Seq(T) /\ DOMAIN r = 1..n /\ Len(r) = n
  BY <1>1, <1>2, <1>5, <1>7
<1>9. Distinct(r)
  <2> SUFFICES ASSUME NEW k \in 1..n, NEW l \in 1..n, r[k] = r[l] PROVE k = l
    BY <1>8 DEF Distinct
  <2>1. f[k] \in D /\ f[l] \in D /\ list[f[k]] = list[f[l]]
    BY <1>5, <1>7
  <2>2. f[k] = f[l]
    BY <1>a, <2>1 DEF Distinct
  <2> QED
    BY <1>5, <2>2
<1>10. ToSet(r) = ToSet(list)
  BY <1>a, <1>5, <1>7, <1>8 DEF ToSet
<1> QED
  BY <1>a, <1>8, <1>9, <1>10 DEF Reorders, r

LEMMA OrderSound ==
  ASSUME NEW T, NEW list \in Seq(T), Distinct(list), NEW cnt \in [T -> Nat], NEW c \in Nat, NEW strategy
  PROVE  /\ orderMemberIndexes(strategy, list, c, cnt) \in Seq(T)
         /\ Reorders(orderMemberIndexes(strategy, list, c, cnt), list)
<1>1. CASE strategy = "rotate"
  BY <1>1, RotatedSound DEF orderMemberIndexes
<1>2. CASE strategy = "least_used"
  BY <1>2, LeastUsedSound DEF orderMemberIndexes
<1>3. CASE strategy \notin {"rotate", "least_used"}
  BY <1>3 DEF orderMemberIndexes, Reorders
<1> QED
  BY <1>1, <1>2, <1>3

LEMMA AffinitySound ==
  ASSUME NEW T, NEW list \in Seq(T), Distinct(list), NEW stick
  PROVE  /\ applyAffinityOrder(list, stick) \in Seq(T)
         /\ Reorders(applyAffinityOrder(list, stick), list)
         /\ stick \in ToSet(list) => applyAffinityOrder(list, stick)[1] = stick
<1>1. CASE stick \notin ToSet(list)
  BY <1>1 DEF applyAffinityOrder, Reorders
<1>2. CASE stick \in ToSet(list)
  <2> DEFINE i == CHOOSE i \in DOMAIN list : list[i] = stick
             n == Len(list)
             a == SubSeq(list, 1, i - 1)
             b == SubSeq(list, i + 1, n)
             r == <<stick>> \o (a \o b)
  <2>1. i \in 1..n /\ list[i] = stick /\ n \in Nat /\ DOMAIN list = 1..n
    <3>1. \E j \in DOMAIN list : list[j] = stick
      BY <1>2 DEF ToSet
    <3> QED
      BY <3>1
  <2>2. applyAffinityOrder(list, stick) = r
    BY <1>2 DEF applyAffinityOrder, RemoveAt
  <2> HIDE DEF i
  <2>3. /\ a \in Seq(T) /\ Len(a) = i - 1 /\ \A k \in 1..(i - 1) : a[k] = list[k]
        /\ b \in Seq(T) /\ Len(b) = n - i /\ \A k \in 1..(n - i) : b[k] = list[k + i]
    <3>1. a \in Seq(T) /\ Len(a) = i - 1
      BY <2>1
    <3>2. \A k \in 1..(i - 1) : a[k] = list[k]
      BY <2>1
    <3>3. b \in Seq(T) /\ Len(b) = n - i
      <4>1. \A k \in (i + 1)..n : list[k] \in T
        BY <2>1
      <4> QED
        <5>1. i + 1 \in Int /\ n \in Int
          BY <2>1
        <5>2. b \in Seq(T) /\ Len(b) = IF i + 1 =< n THEN n - (i + 1) + 1 ELSE 0
          <6> HIDE DEF n
          <6> QED
            BY <4>1, <5>1, SubSeqProperties
        <5> HIDE DEF b, n
        <5> QED
          BY <2>1, <5>2
    <3>4. \A k \in 1..(n - i) : b[k] = list[k + i]
      BY <2>1
    <3> QED
      BY <3>1, <3>2, <3>3, <3>4
  <2>4. stick \in T
    BY <2>1
  <2> HIDE DEF a, b, n
  <2>5. /\ r \in Seq(T) /\ Len(r) = n /\ DOMAIN r = 1..n /\ r[1] = stick
        /\ \A k \in 2..i : r[k] = list[k - 1]
        /\ \A k \in (i + 1)..n : r[k] = list[k]
    <3> DEFINE ab == a \o b
    <3>1. /\ ab \in Seq(T) /\ Len(ab) = n - 1
          /\ \A k \in 1..(i - 1) : ab[k] = list[k]
          /\ \A k \in i..(n - 1) : ab[k] = list[k + 1]
      <4>1. ab \in Seq(T) /\ Len(ab) = n - 1
        BY <2>1, <2>3
      <4>2. \A k \in 1..(i - 1) : ab[k] = a[k]
        BY <2>1, <2>3
      <4>3. \A k \in i..(n - 1) : ab[k] = b[k - (i - 1)] /\ k - (i - 1) \in 1..(n - i) /\ (k - (i - 1)) + i = k + 1
        BY <2>1, <2>3
      <4> HIDE DEF ab
      <4> QED
        BY <2>3, <4>1, <4>2, <4>3
    <3>2. r = <<stick>> \o ab
      OBVIOUS
    <3> HIDE DEF ab, r
    <3>3. r \in Seq(T) /\ Len(r) = n /\ DOMAIN r = 1..n /\ r[1] = stick
      BY <2>1, <2>4, <3>1, <3>2
    <3>4. \A k \in 2..n : r[k] = ab[k - 1]
      BY <2>1, <2>4, <3>1, <3>2
    <3> QED
      BY <2>1, <3>1, <3>3, <3>4
  <2> HIDE DEF r
  <2> DEFINE from == [k \in 1..n |-> IF k = 1 THEN i ELSE IF k =< i THEN k - 1 ELSE k]
  <2>6. /\ from \in [1..n -> 1..n]
        /\ \A k, l \in 1..n : from[k] = from[l] => k = l
        /\ \A j \in 1..n : from[IF j = i THEN 1 ELSE IF j < i THEN j + 1 ELSE j] = j
    BY <2>1
  <2>7. \A k \in 1..n : r[k] = list[from[k]]
    BY <2>1, <2>5
  <2> HIDE DEF from
  <2>b. \A j \in 1..n : \E k \in 1..n : from[k] = j
    <3> SUFFICES ASSUME NEW j \in 1..n PROVE \E k \in 1..n : from[k] = j
      OBVIOUS
    <3>1. (IF j = i THEN 1 ELSE IF j < i THEN j + 1 ELSE j) \in 1..n
      BY <2>1
    <3> QED
      BY <2>6, <3>1
  <2>8. Distinct(r)
    BY <2>1, <2>5, <2>6, <2>7 DEF Distinct
  <2>9. ToSet(r) = ToSet(list)
    <3>1. \A k \in 1..n : r[k] \in ToSet(list)
      <4> SUFFICES ASSUME NEW k \in 1..n PROVE r[k] \in ToSet(list)
        OBVIOUS
      <4>1. from[k] \in DOMAIN list
        BY <2>1, <2>6
      <4> QED
        BY <2>7, <4>1 DEF ToSet
    <3>2. \A j \in 1..n : list[j] \in ToSet(r)
      <4> SUFFICES ASSUME NEW j \in 1..n PROVE list[j] \in ToSet(r)
        OBVIOUS
      <4>1. PICK k \in 1..n : from[k] = j
        BY <2>b
      <4> QED
        BY <2>5, <2>7, <4>1 DEF ToSet
    <3> QED
      BY <2>1, <2>5, <3>1, <3>2 DEF ToSet
  <2> QED
    BY <2>2, <2>5, <2>8, <2>9 DEF Reorders, n
<1> QED
  BY <1>1, <1>2

LEMMA DeferSound ==
  ASSUME NEW T, NEW list \in Seq(T), Distinct(list), NEW cooling
  PROVE  /\ deferCooling(list, cooling) \in Seq(T)
         /\ Reorders(deferCooling(list, cooling), list)
         /\ \A i, j \in DOMAIN deferCooling(list, cooling) :
              deferCooling(list, cooling)[i] \in cooling /\ i < j => deferCooling(list, cooling)[j] \in cooling
         /\ ToSet(list) \cap cooling = {} => deferCooling(list, cooling) = list
<1> DEFINE I == {i \in DOMAIN list : list[i] \notin cooling}
           J == {i \in DOMAIN list : list[i] \in cooling}
           x == Kept(list, I)
           y == Kept(list, J)
           r == x \o y
<1>1. deferCooling(list, cooling) = r
  BY DEF deferCooling
<1>a. I \in SUBSET (DOMAIN list) /\ J \in SUBSET (DOMAIN list)
  OBVIOUS
<1>5. I \cup J = DOMAIN list
  OBVIOUS
<1>b. (\A i \in I : list[i] \notin cooling) /\ (\A i \in J : list[i] \in cooling)
  OBVIOUS
<1>c. ToSet(list) \cap cooling = {} => I = 1..Len(list) /\ J = {}
  BY DEF ToSet
<1> HIDE DEF I, J
<1>2. /\ x \in Seq(T) /\ ToSet(x) = {list[i] : i \in I} /\ Distinct(x)
      /\ \A k \in DOMAIN x : \E i \in I : x[k] = list[i]
  BY <1>a, KeptSound
<1>3. /\ y \in Seq(T) /\ ToSet(y) = {list[i] : i \in J} /\ Distinct(y)
      /\ \A k \in DOMAIN y : \E i \in J : y[k] = list[i]
  BY <1>a, KeptSound
<1>4. (\A k \in DOMAIN x : x[k] \notin cooling) /\ (\A k \in DOMAIN y : y[k] \in cooling)
  BY <1>b, <1>2, <1>3
<1>6. ASSUME ToSet(list) \cap cooling = {} PROVE r = list
  <2>1. I = 1..Len(list) /\ J = {}
    BY <1>c, <1>6
  <2>2. x = SubSeq(list, 1, Len(list)) /\ y = << >>
    BY <2>1, KeptFirst, KeptNone
  <2>3. SubSeq(list, 1, Len(list)) = list
    BY SubSeqFull
  <2> HIDE DEF x, y
  <2> QED
    BY <2>2, <2>3
<1> HIDE DEF x, y
<1> DEFINE m == Len(x)
           n == Len(y)
<1>7. /\ m \in Nat /\ n \in Nat /\ DOMAIN x = 1..m /\ DOMAIN y = 1..n
      /\ r \in Seq(T) /\ Len(r) = m + n /\ DOMAIN r = 1..(m + n)
  BY <1>2, <1>3
<1>8. \A k \in 1..m : r[k] = x[k]
  BY <1>2, <1>3
<1>9. \A k \in (m + 1)..(m + n) : r[k] = y[k - m] /\ k - m \in 1..n
  BY <1>2, <1>3
<1> HIDE DEF r, m, n
<1>10. \A k \in 1..(m + n) : IF k =< m THEN r[k] = x[k] /\ r[k] \notin cooling ELSE r[k] = y[k - m] /\ r[k] \in cooling
  <2> SUFFICES ASSUME NEW k \in 1..(m + n)
               PROVE  IF k =< m THEN r[k] = x[k] /\ r[k] \notin cooling ELSE r[k] = y[k - m] /\ r[k] \in cooling
    OBVIOUS
  <2>1. CASE k =< m
    <3>1. k \in 1..m
      BY <1>7, <2>1
    <3> QED
      BY <1>4, <1>7, <1>8, <2>1, <3>1
  <2>2. CASE ~(k =< m)
    <3>1. k \in (m + 1)..(m + n)
      BY <1>7, <2>2
    <3> QED
      BY <1>4, <1>7, <1>9, <2>2, <3>1
  <2> QED
    BY <2>1, <2>2
<1>11. Distinct(r)
  <2> SUFFICES ASSUME NEW i \in 1..(m + n), NEW j \in 1..(m + n), r[i] = r[j] PROVE i = j
    BY <1>7 DEF Distinct
  <2>1. CASE i =< m /\ j =< m
    <3>1. i \in 1..m /\ j \in 1..m /\ x[i] = x[j]
      BY <1>7, <1>10, <2>1
    <3> QED
      BY <1>2, <1>7, <3>1 DEF Distinct
  <2>2. CASE ~(i =< m) /\ ~(j =< m)
    <3>1. i - m \in 1..n /\ j - m \in 1..n /\ y[i - m] = y[j - m]
      BY <1>7, <1>10, <2>2
    <3>2. i - m = j - m
      BY <1>3, <1>7, <3>1 DEF Distinct
    <3> QED
      BY <1>7, <3>2
  <2> QED
    BY <1>10, <2>1, <2>2
<1>12. ToSet(r) = ToSet(list)
  <2>1. ToSet(r) = ToSet(x) \cup ToSet(y)
    <3>1. ASSUME NEW k \in 1..(m + n) PROVE r[k] \in ToSet(x) \cup ToSet(y)
      <4>1. CASE k =< m
        <5>1. k \in DOMAIN x /\ r[k] = x[k]
          BY <1>7, <1>10, <4>1
        <5> QED
          BY <5>1 DEF ToSet
      <4>2. CASE ~(k =< m)
        <5>1. k - m \in DOMAIN y /\ r[k] = y[k - m]
          BY <1>7, <1>10, <4>2
        <5> QED
          BY <5>1 DEF ToSet
      <4> QED
        BY <4>1, <4>2
    <3>2. ASSUME NEW k \in 1..m PROVE x[k] \in ToSet(r)
      <4>1. k \in DOMAIN r
        BY <1>7
      <4> QED
        BY <1>8, <4>1 DEF ToSet
    <3>3. ASSUME NEW k \in 1..n PROVE y[k] \in ToSet(r)
      <4>1. k + m \in (m + 1)..(m + n) /\ k + m \in DOMAIN r /\ (k + m) - m = k
        BY <1>7
      <4>2. r[k + m] = y[k]
        BY <1>9, <4>1
      <4> QED
        BY <4>1, <4>2 DEF ToSet
    <3> QED
      BY <1>7, <3>1, <3>2, <3>3 DEF ToSet
  <2> QED
    BY <1>2, <1>3, <1>5, <2>1 DEF ToSet
<1>13. \A i, j \in DOMAIN r : r[i] \in cooling /\ i < j => r[j] \in cooling
  BY <1>7, <1>10
<1>14. Reorders(r, list)
  BY <1>7, <1>11, <1>12, SameEntries
<1> QED
  BY <1>1, <1>6, <1>7, <1>11, <1>12, <1>13, <1>14

(* The plan lists every member of the group once, whatever the strategy and the    *)
(* counters; no member that rests is before one that does not; and the pinned      *)
(* member is first unless it rests (planRoutingOrder).                            *)
THEOREM PlanListsMembers ==
  ASSUME NEW T, NEW list \in Seq(T), Distinct(list), NEW cnt \in [T -> Nat], NEW c \in Nat,
         NEW strategy, NEW stick, NEW cooling
  PROVE  LET order == planRoutingOrder(list, strategy, stick, cooling, cnt, c)
         IN  /\ order \in Seq(T) /\ Reorders(order, list)
             /\ \A i, j \in DOMAIN order : order[i] \in cooling /\ i < j => order[j] \in cooling
             /\ stick \in ToSet(list) \ cooling => order[1] = stick
<1> DEFINE a == orderMemberIndexes(strategy, list, c, cnt)
           b == applyAffinityOrder(a, stick)
           d == deferCooling(b, cooling)
<1>1. planRoutingOrder(list, strategy, stick, cooling, cnt, c) = d
  BY DEF planRoutingOrder
<1>2. a \in Seq(T) /\ Reorders(a, list)
  BY OrderSound
<1> HIDE DEF a
<1>3. b \in Seq(T) /\ Reorders(b, a) /\ (stick \in ToSet(a) => b[1] = stick)
  BY <1>2, AffinitySound DEF Reorders
<1> HIDE DEF b
<1>4. /\ d \in Seq(T) /\ Reorders(d, b)
      /\ \A i, j \in DOMAIN d : d[i] \in cooling /\ i < j => d[j] \in cooling
  BY <1>3, DeferSound DEF Reorders
<1>5. ASSUME stick \in ToSet(list), stick \notin cooling PROVE d[1] = stick
  <2>1. b[1] = stick /\ Len(b) \in Nat /\ Len(b) > 0
    <3>1. stick \in ToSet(b)
      BY <1>2, <1>3, <1>5 DEF Reorders
    <3> QED
      <4>1. PICK k \in DOMAIN b : b[k] = stick
        BY <3>1 DEF ToSet
      <4> QED
        BY <1>2, <1>3, <1>5, <4>1 DEF Reorders
  <2> DEFINE I == {i \in DOMAIN b : b[i] \notin cooling}
  <2>2. 1 \in I /\ I \subseteq DOMAIN b /\ DOMAIN b = 1..Len(b)
    BY <1>3, <1>5, <2>1
  <2>3. IsFiniteSet(I) /\ I \in SUBSET Nat
    <3>1. IsFiniteSet(1..Len(b))
      BY <2>1, FS_Interval
    <3> HIDE DEF I
    <3> QED
      BY <2>2, <3>1, FS_Subset
  <2> HIDE DEF I
  <2>4. Kept(b, I)[1] = b[1] /\ 1 \in DOMAIN Kept(b, I) /\ Kept(b, I) \in Seq(T)
    <3>1. Cardinality(I) \in Nat /\ Cardinality(I) # 0
      BY <2>2, <2>3, FS_CardinalityType, FS_EmptySet
    <3>2. Ascending(I) \in [1..Cardinality(I) -> I] /\ \E k \in 1..Cardinality(I) : Ascending(I)[k] = 1
      BY <2>2, <2>3, AscendingLists DEF Lists
    <3>3. PICK k \in 1..Cardinality(I) : Ascending(I)[k] = 1
      BY <3>2
    <3>4. Ascending(I)[1] \in I /\ (1 < k => Ascending(I)[1] < 1)
      BY <2>3, <3>1, <3>2, <3>3, AscendingLists
    <3>5. k = 1
      BY <2>2, <3>1, <3>4
    <3>6. 1 \in 1..Cardinality(I)
      BY <3>1
    <3>7. Kept(b, I)[1] = b[Ascending(I)[1]] /\ DOMAIN Kept(b, I) = 1..Cardinality(I)
      BY <2>3, <3>6, KeptEntries
    <3>8. Kept(b, I) \in Seq(T)
      BY <1>3, <2>2, KeptSound
    <3> QED
      BY <3>3, <3>5, <3>6, <3>7, <3>8
  <2>5. d = Kept(b, I) \o Kept(b, {i \in DOMAIN b : b[i] \in cooling})
    BY DEF deferCooling, I
  <2>6. Kept(b, {i \in DOMAIN b : b[i] \in cooling}) \in Seq(T)
    BY <1>3, KeptSound
  <2> QED
    BY <2>1, <2>4, <2>5, <2>6
<1> HIDE DEF d
<1>6. Reorders(d, list)
  BY <1>2, <1>3, <1>4 DEF Reorders
<1> QED
  BY <1>1, <1>4, <1>5, <1>6

-----------------------------------------------------------------------------
(* The invariant.                                                              *)

Entries == [seat : Seats, ok : BOOLEAN, status : FailoverStatus \cup {"refused", "ok"}]
Answers == {"none", "unavailable", "refused", "reply", "cut", "broken", "dropped"}
Requests == [pc : {"new", "reading", "sent", "fixed", "driven", "body", "done", "stuck"},
             conv : Convs \cup {None}, cand : Seq(Seats), at : Nat, trail : Seq(Entries),
             answer : Answers, solo : BOOLEAN]

\* The trail follows the plan, and every attempt on it failed in a way that another
\* member might not.
Follows(trail, cand) ==
  /\ Len(trail) =< Len(cand)
  /\ \A i \in 1..Len(trail) : trail[i].seat = cand[i] /\ trail[i].status \in FailoverStatus

\* When no member is available, all were tried, or the last one tried is served by a driver.
Exhausted(trail, cand) ==
  /\ Follows(trail, cand) /\ trail # << >>
  /\ Len(trail) = Len(cand) \/ trail[Len(trail)].seat \in DriverSeats

\* Where a request is in its plan.
OnPlan(q) ==
  /\ q.at =< Len(q.cand)
  /\ q.pc \in {"new", "reading"} => q.cand = << >> /\ q.trail = << >>
  /\ q.pc \in {"sent", "fixed", "driven", "body"} =>
       q.at > 0 /\ Len(q.trail) = q.at - 1 /\ Follows(q.trail, q.cand)
  /\ q.pc = "driven" => q.cand[q.at] \in DriverSeats
  /\ q.pc # "done" => q.answer = "none"
  /\ q.answer = "unavailable" /\ q.cand # << >> => Exhausted(q.trail, q.cand)

Planned == {q \in Requests : OnPlan(q)}

Sticks == [conv : Convs, seat : Seats]

\* A list of sticks within the cap, one for a conversation.
OneEach(list) ==
  /\ Len(list) =< MaxSticks
  /\ \A i, j \in DOMAIN list : list[i].conv = list[j].conv => i = j
StickLists == {list \in Seq(Sticks) : OneEach(list)}

RuntimeOK ==
  /\ group \in Configs \cup {None} /\ reachable \subseteq Seats /\ resting \subseteq Seats
  /\ cursor \in Nat /\ ok \in [Seats -> Nat]
  /\ answeredBy \in [Convs -> Seats \cup {None}] /\ moved \in Seats \cup {None}
  /\ edits \in Nat /\ throws \in Nat

IInv ==
  /\ RuntimeOK
  /\ req \in [Reqs -> Planned]
  /\ sticks \in StickLists /\ savedSticks \in StickLists
  /\ throws = 0 => savedSticks = sticks

\* A conversation's stick is what answered it last, as long as the group's affinity
\* is not switched off and on again.
PinsLast ==
  group # None /\ group.affinity = "session" /\ throws = 0 =>
    \A i \in DOMAIN sticks : answeredBy[sticks[i].conv] = sticks[i].seat

\* The member that the rotation begins with next.
upNext == group.members[(cursor % Len(group.members)) + 1]
Rotating == edits = 0 /\ group.strategy = "rotate" /\ Len(group.members) > 1

\* A request that runs alone and unpinned began with the member the rotation was at,
\* and the rotation is past it once it is answered.
TakesTurn(r) ==
  /\ req[r].solo => \A p \in Reqs \ {r} : ~Active(p)
  /\ Rotating /\ req[r].solo /\ req[r].conv = None /\ req[r].at = 1 =>
       /\ req[r].pc \in {"sent", "fixed"} => req[r].cand[1] = upNext
       /\ req[r].pc = "body" => req[r].cand[1] # upNext

TurnsTaken ==
  /\ group \in Configs \/ edits > 0
  /\ edits = 0 => reachable = Seats
  /\ edits = 0 => \A r \in Reqs : req[r].pc # "driven" /\ TakesTurn(r)
  /\ moved # None => edits = 0
  /\ moved # None /\ Rotating => moved # upNext

-----------------------------------------------------------------------------
(* What the steps do to a request.                                             *)

\* One request becomes n.
LEMMA RequestBecomes ==
  ASSUME req \in [Reqs -> Planned], NEW r \in Reqs, NEW n \in Planned, req' = [req EXCEPT ![r] = n]
  PROVE  req' \in [Reqs -> Planned] /\ req'[r] = n /\ \A q \in Reqs \ {r} : req'[q] = req[q]
OBVIOUS

LEMMA FinishEffect ==
  ASSUME req \in [Reqs -> Planned], NEW r \in Reqs, NEW trail \in Seq(Entries), NEW answer \in Answers,
         Finish(r, trail, answer),
         answer = "unavailable" /\ req[r].cand # << >> => Exhausted(trail, req[r].cand)
  PROVE  /\ req' \in [Reqs -> Planned]
         /\ \A q \in Reqs \ {r} : req'[q] = req[q]
         /\ req'[r].pc = "done" /\ ~req'[r].solo
<1> DEFINE q == req[r]
           n == [q EXCEPT !.pc = "done", !.trail = trail, !.answer = answer, !.solo = FALSE]
<1>1. req' = [req EXCEPT ![r] = n]
  BY DEF Finish
<1>2. q \in Requests /\ q.at =< Len(q.cand)
  BY DEF Planned, OnPlan
<1> HIDE DEF q
<1>3. /\ n \in Requests /\ n.pc = "done" /\ n.trail = trail /\ n.answer = answer /\ n.solo = FALSE
      /\ n.at = q.at /\ n.cand = q.cand
  BY <1>2 DEF Requests
<1> HIDE DEF n
<1>4. n \in Planned
  BY <1>2, <1>3 DEF Planned, OnPlan, q
<1> QED
  BY <1>1, <1>3, <1>4, RequestBecomes

\* What is known of a request that is tried.
LEMMA TryingNow ==
  ASSUME req \in [Reqs -> Planned], NEW r \in Reqs, req[r].pc \in {"sent", "fixed", "driven", "body"}
  PROVE  /\ req[r] \in Requests /\ req[r].at \in 1..Len(req[r].cand) /\ Len(req[r].trail) = req[r].at - 1
         /\ Follows(req[r].trail, req[r].cand) /\ seat(r) \in Seats /\ req[r].answer = "none"
         /\ req[r].cand \in Seq(Seats) /\ req[r].cand # << >>
         /\ req[r].trail \in Seq(Entries) /\ Len(req[r].cand) \in Nat
<1>1. req[r] \in Planned
  OBVIOUS
<1>2. /\ req[r] \in Requests /\ req[r].at > 0 /\ req[r].at =< Len(req[r].cand)
      /\ Len(req[r].trail) = req[r].at - 1 /\ Follows(req[r].trail, req[r].cand) /\ req[r].answer = "none"
  BY <1>1 DEF Planned, OnPlan
<1>3. req[r].at \in Nat /\ req[r].cand \in Seq(Seats) /\ req[r].trail \in Seq(Entries)
  BY <1>2 DEF Requests
<1>4. Len(req[r].cand) \in Nat /\ req[r].at \in 1..Len(req[r].cand)
  BY <1>2, <1>3
<1> QED
  BY <1>2, <1>3, <1>4 DEF seat

LEMMA LoggedSound ==
  ASSUME req \in [Reqs -> Planned], NEW r \in Reqs, req[r].pc \in {"sent", "fixed", "driven", "body"},
         NEW good \in BOOLEAN, NEW status \in FailoverStatus \cup {"refused", "ok"}
  PROVE  /\ logged(r, good, status) \in Seq(Entries)
         /\ Len(logged(r, good, status)) = req[r].at
         /\ logged(r, good, status)[req[r].at].seat = seat(r)
         /\ status \in FailoverStatus => Follows(logged(r, good, status), req[r].cand)
<1> DEFINE q == req[r]
           e == [seat |-> seat(r), ok |-> good, status |-> status]
           t == Append(q.trail, e)
<1>1. /\ q.at \in 1..Len(q.cand) /\ Len(q.trail) = q.at - 1 /\ Follows(q.trail, q.cand)
      /\ q.trail \in Seq(Entries) /\ seat(r) \in Seats /\ Len(q.cand) \in Nat /\ seat(r) = q.cand[q.at]
  BY TryingNow DEF seat
<1>2. e \in Entries /\ e.seat = seat(r) /\ e.status = status
  BY <1>1 DEF Entries
<1>3. logged(r, good, status) = t
  BY DEF logged
<1> HIDE DEF e, q
<1>4. /\ t \in Seq(Entries) /\ Len(t) = q.at /\ t[q.at] = e
      /\ \A i \in 1..(q.at - 1) : t[i] = q.trail[i]
  BY <1>1, <1>2
<1> HIDE DEF t
<1>5. ASSUME status \in FailoverStatus PROVE Follows(t, q.cand)
  <2> SUFFICES ASSUME NEW i \in 1..q.at PROVE t[i].seat = q.cand[i] /\ t[i].status \in FailoverStatus
    BY <1>1, <1>4 DEF Follows
  <2>1. CASE i = q.at
    BY <1>1, <1>2, <1>4, <1>5, <2>1
  <2>2. CASE i # q.at
    <3>1. i \in 1..(q.at - 1)
      BY <1>1, <2>2
    <3> QED
      BY <1>1, <1>4, <3>1 DEF Follows
  <2> QED
    BY <2>1, <2>2
<1> QED
  BY <1>2, <1>3, <1>4, <1>5 DEF q

\* The next member is tried.
LEMMA FailOverEffect ==
  ASSUME req \in [Reqs -> Planned], NEW r \in Reqs, req[r].pc \in {"sent", "fixed"},
         NEW status \in FailoverStatus, more(r), FailOver(r, status)
  PROVE  /\ req' \in [Reqs -> Planned]
         /\ \A q \in Reqs \ {r} : req'[q] = req[q]
         /\ req'[r].at > 1 /\ req'[r].solo = req[r].solo
         /\ req'[r].pc = Begin(req[r].cand[req[r].at + 1]) /\ req[r].cand[req[r].at + 1] \in Seats
<1> DEFINE q == req[r]
           t == logged(r, FALSE, status)
           pc == Begin(q.cand[q.at + 1])
           n == [q EXCEPT !.trail = t, !.at = q.at + 1, !.pc = pc]
<1>1. req' = [req EXCEPT ![r] = n]
  BY DEF FailOver
<1>2. /\ q \in Requests /\ q.at \in 1..Len(q.cand) /\ q.at < Len(q.cand) /\ q.answer = "none"
      /\ q.cand \in Seq(Seats) /\ Len(q.cand) \in Nat /\ q.cand # << >>
  BY TryingNow DEF more
<1>3. t \in Seq(Entries) /\ Len(t) = q.at /\ Follows(t, q.cand)
  BY LoggedSound
<1>4. pc \in {"sent", "driven"} /\ (pc = "driven" => q.cand[q.at + 1] \in DriverSeats)
  BY DEF Begin
<1> HIDE DEF q, t, pc
<1>5. /\ n \in Requests /\ n.pc = pc /\ n.trail = t /\ n.answer = "none" /\ n.solo = q.solo
      /\ n.at = q.at + 1 /\ n.cand = q.cand
  <2>1. q.at + 1 \in Nat
    BY <1>2
  <2> DEFINE a == q.at + 1
  <2> HIDE DEF a
  <2>2. n = [q EXCEPT !.trail = t, !.at = a, !.pc = pc]
    BY DEF a
  <2>3. a \in Nat /\ pc \in {"new", "reading", "sent", "fixed", "driven", "body", "done", "stuck"}
    BY <1>4, <2>1 DEF a
  <2>4. /\ n \in Requests /\ n.pc = pc /\ n.trail = t /\ n.answer = q.answer /\ n.solo = q.solo
        /\ n.at = a /\ n.cand = q.cand
    <3> HIDE DEF n
    <3> QED
      BY <1>2, <1>3, <2>2, <2>3 DEF Requests
  <2> QED
    BY <1>2, <2>4 DEF a
<1> HIDE DEF n
<1>6. n \in Planned
  BY <1>2, <1>3, <1>4, <1>5 DEF Planned, OnPlan
<1>7. n.at > 1 /\ q.cand[q.at + 1] \in Seats
  BY <1>2, <1>5
<1> QED
  BY <1>1, <1>5, <1>6, <1>7, RequestBecomes DEF q, pc

\* A request is answered in its body, is fixed, or is stuck: only its control moves.
LEMMA ControlEffect ==
  ASSUME req \in [Reqs -> Planned], NEW r \in Reqs, req[r].pc \in {"sent", "fixed", "driven", "body"},
         NEW pc \in {"fixed", "body", "stuck"}, NEW solo \in BOOLEAN,
         req' = [req EXCEPT ![r] = [req[r] EXCEPT !.pc = pc, !.solo = solo]]
  PROVE  /\ req' \in [Reqs -> Planned]
         /\ \A q \in Reqs \ {r} : req'[q] = req[q]
         /\ req'[r].pc = pc /\ req'[r].solo = solo
         /\ req'[r].at = req[r].at /\ req'[r].cand = req[r].cand /\ req'[r].conv = req[r].conv
<1> DEFINE q == req[r]
           n == [q EXCEPT !.pc = pc, !.solo = solo]
<1>1. req' = [req EXCEPT ![r] = n]
  OBVIOUS
<1>2. /\ q \in Requests /\ q.at \in 1..Len(q.cand) /\ q.answer = "none" /\ Len(q.trail) = q.at - 1
      /\ Follows(q.trail, q.cand) /\ Len(q.cand) \in Nat
  BY TryingNow
<1> HIDE DEF q
<1>3. /\ n \in Requests /\ n.pc = pc /\ n.trail = q.trail /\ n.answer = q.answer /\ n.solo = solo
      /\ n.at = q.at /\ n.cand = q.cand /\ n.conv = q.conv
  BY <1>2 DEF Requests
<1> HIDE DEF n
<1>4. n \in Planned
  BY <1>2, <1>3 DEF Planned, OnPlan
<1> QED
  BY <1>1, <1>3, <1>4, RequestBecomes DEF q

-----------------------------------------------------------------------------
(* The sticks.                                                                 *)

LEMMA FrontSound ==
  ASSUME NEW list \in StickLists, list # << >>
  PROVE  /\ Front(list) \in StickLists
         /\ Kept(list, {i \in DOMAIN list : list[i] # Last(list)}) = Front(list)
         /\ \A k \in DOMAIN Front(list) : \E i \in DOMAIN list : Front(list)[k] = list[i]
<1> DEFINE n == Len(list)
<1>1. /\ list \in Seq(Sticks) /\ OneEach(list) /\ n \in Nat /\ n > 0 /\ DOMAIN list = 1..n
      /\ \A i, j \in 1..n : list[i].conv = list[j].conv => i = j
  BY DEF StickLists, OneEach
<1>2. Front(list) = SubSeq(list, 1, n - 1) /\ Last(list) = list[n]
  BY DEF Front, Last
<1>3. {i \in DOMAIN list : list[i] # Last(list)} = 1..(n - 1)
  BY <1>1, <1>2
<1>4. Kept(list, 1..(n - 1)) = SubSeq(list, 1, n - 1)
  BY <1>1, KeptFirst
<1>5. /\ Front(list) \in Seq(Sticks) /\ Len(Front(list)) = n - 1 /\ DOMAIN Front(list) = 1..(n - 1)
      /\ \A k \in 1..(n - 1) : Front(list)[k] = list[k]
  BY <1>1, <1>2
<1>6. OneEach(Front(list))
  <2>1. n =< MaxSticks /\ MaxSticks \in Nat
    BY <1>1, RoutingAssumption DEF OneEach
  <2>2. n - 1 =< MaxSticks
    BY <1>1, <2>1
  <2>3. \A i, j \in 1..(n - 1) : i \in 1..n /\ j \in 1..n
    BY <1>1
  <2> HIDE DEF n
  <2> QED
    BY <1>1, <1>5, <2>2, <2>3 DEF OneEach
<1> QED
  BY <1>1, <1>2, <1>3, <1>4, <1>5, <1>6 DEF StickLists

\* Of what a filter leaves.
LEMMA KeptSticks ==
  ASSUME NEW list \in StickLists, NEW I \in SUBSET (DOMAIN list)
  PROVE  Kept(list, I) \in StickLists
<1>1. list \in Seq(Sticks) /\ OneEach(list)
  BY DEF StickLists
<1>2. Kept(list, I) \in Seq(Sticks) /\ \A k \in DOMAIN Kept(list, I) : \E i \in I : Kept(list, I)[k] = list[i]
  BY <1>1, KeptSound
<1>3. Distinct(list)
  BY <1>1 DEF OneEach, Distinct
<1>4. Distinct(Kept(list, I))
  BY <1>1, <1>3, KeptSound
<1>5. \A k, l \in DOMAIN Kept(list, I) : Kept(list, I)[k].conv = Kept(list, I)[l].conv => k = l
  BY <1>1, <1>2, <1>4 DEF OneEach, Distinct
<1>6. Len(Kept(list, I)) =< MaxSticks
  <2>1. IsFiniteSet(DOMAIN list) /\ Cardinality(DOMAIN list) = Len(list) /\ Len(list) \in Nat
    <3>1. DOMAIN list = 1..Len(list) /\ Len(list) \in Nat
      BY <1>1
    <3>2. IsFiniteSet(1..Len(list)) /\ Cardinality(1..Len(list)) = Len(list)
      <4> DEFINE n == Len(list)
      <4> HIDE DEF n
      <4>1. n \in Nat
        BY <3>1 DEF n
      <4>2. IsFiniteSet(1..n) /\ Cardinality(1..n) = n
        BY <4>1, FS_Interval
      <4> QED
        BY <4>2 DEF n
    <3> QED
      BY <3>1, <3>2
  <2>2. IsFiniteSet(I) /\ Cardinality(I) =< Len(list) /\ I \in SUBSET Nat
    BY <1>1, <2>1, FS_Subset
  <2>3. DOMAIN Kept(list, I) = 1..Cardinality(I) /\ Cardinality(I) \in Nat
    BY <2>2, KeptEntries
  <2>4. Len(Kept(list, I)) = Cardinality(I)
    BY <1>2, <2>3
  <2>5. Len(list) =< MaxSticks /\ MaxSticks \in Nat
    BY <1>1, RoutingAssumption DEF OneEach
  <2> QED
    BY <2>1, <2>2, <2>3, <2>4, <2>5
<1> QED
  BY <1>2, <1>5, <1>6 DEF StickLists, OneEach

LEMMA RememberedSound ==
  ASSUME sticks \in StickLists, NEW c \in Convs, NEW s \in Seats
  PROVE  /\ remembered(c, s) \in StickLists
         /\ \A k \in DOMAIN remembered(c, s) :
              \/ remembered(c, s)[k] = [conv |-> c, seat |-> s]
              \/ \E i \in DOMAIN sticks : remembered(c, s)[k] = sticks[i] /\ sticks[i].conv # c
<1> DEFINE e == [conv |-> c, seat |-> s]
           I == {i \in DOMAIN sticks : sticks[i].conv # c}
           old == Kept(sticks, I)
           next == <<e>> \o old
           m == IF Len(next) < MaxSticks THEN Len(next) ELSE MaxSticks
           r == SubSeq(next, 1, m)
<1>1. remembered(c, s) = r /\ e \in Sticks /\ e.conv = c
  BY DEF remembered, newest, Sticks
<1>2. I \in SUBSET (DOMAIN sticks) /\ (\A i \in I : sticks[i].conv # c)
  OBVIOUS
<1> HIDE DEF I
<1>3. /\ old \in Seq(Sticks) /\ (\A i, j \in DOMAIN old : old[i].conv = old[j].conv => i = j)
      /\ \A k \in DOMAIN old : \E i \in I : old[k] = sticks[i]
  <2>1. old \in StickLists
    BY <1>2, KeptSticks
  <2>2. \A k \in DOMAIN old : \E i \in I : old[k] = sticks[i]
    BY <1>2, KeptSound DEF StickLists
  <2> QED
    BY <2>1, <2>2 DEF StickLists, OneEach
<1> HIDE DEF e, old
<1>4. /\ next \in Seq(Sticks) /\ Len(next) = Len(old) + 1 /\ Len(old) \in Nat /\ next[1] = e
      /\ DOMAIN next = 1..(Len(old) + 1) /\ DOMAIN old = 1..Len(old)
      /\ \A k \in 2..(Len(old) + 1) : next[k] = old[k - 1] /\ k - 1 \in DOMAIN old
  BY <1>1, <1>3
<1>5. m \in 0..Len(next) /\ m =< MaxSticks
  BY <1>4, RoutingAssumption
<1> HIDE DEF next, m
<1>6. /\ r \in Seq(Sticks) /\ Len(r) = m /\ DOMAIN r = 1..m
      /\ \A k \in 1..m : r[k] = next[k]
  BY <1>4, <1>5
<1> HIDE DEF r
<1>7. \A k \in DOMAIN next : next[k] = e \/ \E i \in DOMAIN sticks : next[k] = sticks[i] /\ sticks[i].conv # c
  BY <1>2, <1>3, <1>4
<1>8. \A i, j \in DOMAIN next : next[i].conv = next[j].conv => i = j
  <2>1. \A k \in 2..(Len(old) + 1) : next[k].conv # c
    BY <1>2, <1>3, <1>4
  <2> SUFFICES ASSUME NEW i \in 1..(Len(old) + 1), NEW j \in 1..(Len(old) + 1), next[i].conv = next[j].conv PROVE i = j
    BY <1>4
  <2>2. CASE i = 1 \/ j = 1
    BY <1>1, <1>4, <2>1, <2>2
  <2>3. CASE i # 1 /\ j # 1
    <3>1. i - 1 \in DOMAIN old /\ j - 1 \in DOMAIN old /\ old[i - 1].conv = old[j - 1].conv
      BY <1>4, <2>3
    <3>2. i - 1 = j - 1
      BY <1>3, <3>1
    <3> QED
      BY <1>4, <3>2
  <2> QED
    BY <2>2, <2>3
<1>9. 1..m \subseteq DOMAIN next
  BY <1>4, <1>5
<1>10. OneEach(r)
  BY <1>5, <1>6, <1>8, <1>9 DEF OneEach
<1> QED
  BY <1>1, <1>6, <1>7, <1>9, <1>10 DEF StickLists, e

-----------------------------------------------------------------------------
(* The plan of a request.                                                      *)

LEMMA MembersSound ==
  ASSUME RuntimeOK, group # None
  PROVE  /\ group \in Configs /\ group.members \in Seq(Seats) /\ Distinct(group.members)
         /\ Len(group.members) \in Nat \ {0}
         /\ members \in Seq(Seats) /\ Distinct(members)
         /\ reachable = Seats => members = group.members
<1>1. /\ group \in Configs /\ group.members \in Seq(Seats) /\ Distinct(group.members) /\ group.members # << >>
  BY RoutingAssumption DEF RuntimeOK, Distinct
<1> DEFINE list == group.members
           I == {i \in DOMAIN list : list[i] \in reachable}
<1>2. members = Kept(list, I)
  BY DEF members
<1>3. I \in SUBSET (DOMAIN list) /\ (reachable = Seats => I = 1..Len(list))
  BY <1>1
<1>4. Len(list) \in Nat \ {0}
  BY <1>1
<1> HIDE DEF list, I
<1>5. list \in Seq(Seats) /\ Distinct(list)
  BY <1>1 DEF list
<1>6. members \in Seq(Seats) /\ Distinct(members)
  BY <1>2, <1>3, <1>5, KeptSound
<1>7. ASSUME reachable = Seats PROVE members = list
  BY <1>2, <1>3, <1>4, <1>5, <1>7, KeptFirst, SubSeqFull
<1> QED
  BY <1>1, <1>4, <1>6, <1>7 DEF list

LEMMA PlanNow ==
  ASSUME RuntimeOK, group # None, members # << >>, NEW c
  PROVE  /\ plan(c) \in Seq(Seats) /\ plan(c) # << >> /\ Len(plan(c)) \in Nat /\ Len(plan(c)) > 0
         /\ plan(c)[1] \in Seats
         /\ ToSet(plan(c)) = ToSet(members)
         /\ \A i, j \in DOMAIN plan(c) : plan(c)[i] \in resting /\ i < j => plan(c)[j] \in resting
<1>1. members \in Seq(Seats) /\ Distinct(members) /\ ok \in [Seats -> Nat] /\ cursor \in Nat
  BY MembersSound DEF RuntimeOK
<1>2. plan(c) \in Seq(Seats) /\ Reorders(plan(c), members)
      /\ \A i, j \in DOMAIN plan(c) : plan(c)[i] \in resting /\ i < j => plan(c)[j] \in resting
  BY <1>1, PlanListsMembers DEF plan
<1>3. Len(plan(c)) = Len(members) /\ ToSet(plan(c)) = ToSet(members) /\ Len(members) \in Nat /\ Len(members) > 0
  BY <1>1, <1>2 DEF Reorders
<1> QED
  BY <1>2, <1>3

\* What the plan of a request does to the requests.
LEMMA PlanEffect ==
  ASSUME RuntimeOK, req \in [Reqs -> Planned], NEW r \in Reqs, Plan(r), group # None, members # << >>
  PROVE  /\ req' \in [Reqs -> Planned]
         /\ req'[r].cand = plan(req[r].conv) /\ req'[r].at = 1 /\ req'[r].conv = req[r].conv
         /\ req'[r].pc = Begin(plan(req[r].conv)[1])
         /\ req'[r].solo <=> resting = {} /\ \A p \in Reqs \ {r} : ~Active(p)
         /\ \A q \in Reqs \ {r} : ~req'[q].solo /\ req'[q].pc = req[q].pc
<1> DEFINE cand == plan(req[r].conv)
           solo == resting = {} /\ \A p \in Reqs \ {r} : ~Active(p)
           n == [req[r] EXCEPT !.cand = cand, !.at = 1, !.pc = Begin(cand[1]), !.solo = solo]
           m(q) == [req[q] EXCEPT !.solo = FALSE]
<1>1. req[r].pc = "reading" /\ req' = [q \in Reqs |-> IF q = r THEN n ELSE m(q)]
  BY DEF Plan
<1>2. cand \in Seq(Seats) /\ cand # << >> /\ Len(cand) \in Nat /\ Len(cand) > 0 /\ cand[1] \in Seats /\ solo \in BOOLEAN
  BY PlanNow
<1>3. req[r] \in Requests /\ req[r].trail = << >> /\ req[r].answer = "none"
  BY <1>1 DEF Planned, OnPlan
<1>4. Begin(cand[1]) \in {"sent", "driven"} /\ (Begin(cand[1]) = "driven" => cand[1] \in DriverSeats)
  BY DEF Begin
<1> HIDE DEF cand, solo
<1>5. /\ n \in Requests /\ n.pc = Begin(cand[1]) /\ n.at = 1 /\ n.cand = cand /\ n.trail = << >>
      /\ n.answer = "none" /\ n.solo = solo /\ n.conv = req[r].conv
  BY <1>2, <1>3, <1>4 DEF Requests
<1> HIDE DEF n
<1>6. n \in Planned
  <2>1. Follows(<< >>, cand)
    BY <1>2 DEF Follows
  <2>2. Len(n.trail) = n.at - 1 /\ n.at =< Len(n.cand)
    BY <1>2, <1>5
  <2> QED
    BY <1>2, <1>4, <1>5, <2>1, <2>2 DEF Planned, OnPlan
<1>7. ASSUME NEW q \in Reqs PROVE m(q) \in Planned /\ ~m(q).solo /\ m(q).pc = req[q].pc
  <2>1. req[q] \in Planned
    OBVIOUS
  <2>2. req[q] \in Requests /\ OnPlan(req[q])
    BY <2>1 DEF Planned
  <2> DEFINE k == req[q]
             l == [k EXCEPT !.solo = FALSE]
  <2> HIDE DEF k
  <2>3. /\ l \in Requests /\ l.pc = k.pc /\ l.at = k.at /\ l.cand = k.cand /\ l.trail = k.trail
        /\ l.answer = k.answer /\ ~l.solo
    BY <2>2 DEF Requests, k
  <2> HIDE DEF l
  <2>4. l \in Planned
    BY <2>2, <2>3 DEF Planned, OnPlan, k
  <2> QED
    BY <2>3, <2>4 DEF k, l
<1> HIDE DEF m
<1>8. req' \in [Reqs -> Planned] /\ req'[r] = n /\ \A q \in Reqs \ {r} : req'[q] = m(q)
  BY <1>1, <1>6, <1>7
<1> QED
  BY <1>5, <1>7, <1>8 DEF cand, solo

-----------------------------------------------------------------------------
(* Every step keeps the invariant.                                             *)

LEMMA InitIInv == Init => IInv
<1> SUFFICES ASSUME Init PROVE IInv
  OBVIOUS
<1>1. unmade \in Planned
  <2>1. << >> \in Seq(Seats) /\ << >> \in Seq(Entries) /\ Len(<< >>) = 0
    OBVIOUS
  <2>2. unmade \in Requests
    BY <2>1 DEF unmade, Requests, Answers
  <2>3. OnPlan(unmade)
    BY DEF OnPlan, unmade
  <2> QED
    BY <2>2, <2>3 DEF Planned
<1>2. << >> \in StickLists
  <2>1. << >> \in Seq(Sticks) /\ Len(<< >>) = 0 /\ DOMAIN << >> = {}
    OBVIOUS
  <2> QED
    BY <2>1, RoutingAssumption DEF StickLists, OneEach
<1>3. RuntimeOK
  BY DEF Init, RuntimeOK
<1> QED
  BY <1>1, <1>2, <1>3 DEF Init, IInv

LEMMA ArriveSound == ASSUME IInv, NEW r \in Reqs, Arrive(r) PROVE IInv'
<1>1. PICK c \in Convs \cup {None} : req' = [req EXCEPT ![r] = [unmade EXCEPT !.pc = "reading", !.conv = c]]
  BY DEF Arrive
<1> DEFINE n == [unmade EXCEPT !.pc = "reading", !.conv = c]
<1>2. n \in Planned
  <2>1. << >> \in Seq(Seats) /\ << >> \in Seq(Entries) /\ Len(<< >>) = 0
    OBVIOUS
  <2>2. n \in Requests
    BY <2>1 DEF unmade, Requests, Answers
  <2>3. OnPlan(n)
    BY DEF OnPlan, unmade
  <2> QED
    BY <2>2, <2>3 DEF Planned
<1> HIDE DEF n
<1>3. req' \in [Reqs -> Planned]
  BY <1>1, <1>2, RequestBecomes DEF IInv, n
<1> QED
  BY <1>3 DEF Arrive, IInv, RuntimeOK, runtime, affinity, user

LEMMA PlanSound == ASSUME IInv, NEW r \in Reqs, Plan(r) PROVE IInv'
<1>1. req' \in [Reqs -> Planned]
  <2>1. CASE group = None \/ members = << >>
    <3>1. Finish(r, << >>, "unavailable") /\ req[r].pc = "reading"
      BY <2>1 DEF Plan
    <3>2. req[r].cand = << >>
      BY <3>1 DEF IInv, Planned, OnPlan
    <3>3. << >> \in Seq(Entries) /\ "unavailable" \in Answers
      BY DEF Answers
    <3> QED
      BY <3>1, <3>2, <3>3, FinishEffect DEF IInv
  <2>2. CASE group # None /\ members # << >>
    BY <2>2, PlanEffect DEF IInv
  <2> QED
    BY <2>1, <2>2
<1> QED
  BY <1>1 DEF Plan, IInv, RuntimeOK, runtime, affinity, user

\* An attempt that fails for good: the request is told so.
LEMMA GivesUp ==
  ASSUME req \in [Reqs -> Planned], NEW r \in Reqs, req[r].pc \in {"sent", "fixed", "driven", "body"},
         NEW good \in BOOLEAN, NEW status \in FailoverStatus \cup {"refused", "ok"},
         NEW answer \in Answers, Finish(r, logged(r, good, status), answer),
         answer = "unavailable" => status \in FailoverStatus /\ (~more(r) \/ req[r].pc = "driven")
  PROVE  /\ req' \in [Reqs -> Planned]
         /\ \A q \in Reqs \ {r} : req'[q] = req[q]
         /\ req'[r].pc = "done" /\ ~req'[r].solo
<1>1. /\ logged(r, good, status) \in Seq(Entries)
      /\ Len(logged(r, good, status)) = req[r].at
      /\ logged(r, good, status)[req[r].at].seat = seat(r)
      /\ status \in FailoverStatus => Follows(logged(r, good, status), req[r].cand)
  BY LoggedSound
<1>2. req[r].at \in 1..Len(req[r].cand) /\ Len(req[r].cand) \in Nat
  BY TryingNow
<1>3. req[r].pc = "driven" => seat(r) \in DriverSeats
  BY DEF Planned, OnPlan, seat
<1>4. ASSUME answer = "unavailable" PROVE Exhausted(logged(r, good, status), req[r].cand)
  <2>1. logged(r, good, status) # << >>
    BY <1>1, <1>2
  <2>2. ~more(r) => req[r].at = Len(req[r].cand)
    BY <1>2 DEF more
  <2> QED
    BY <1>1, <1>3, <1>4, <2>1, <2>2 DEF Exhausted
<1> QED
  BY <1>1, <1>4, FinishEffect

LEMMA FailsEffect ==
  ASSUME IInv, NEW r \in Reqs, NEW status \in FailoverStatus \cup {"refused"}, Fails(r, status)
  PROVE  /\ req' \in [Reqs -> Planned]
         /\ \A q \in Reqs \ {r} : req'[q] = req[q]
         /\ resting' \subseteq Seats
         /\ \/ req'[r].pc = "done" /\ ~req'[r].solo
            \/ /\ req'[r].at > 1 /\ req'[r].solo = req[r].solo
               /\ \E s \in Seats : req'[r].pc = Begin(s)
<1>0. req[r].pc \in {"sent", "fixed"} /\ req \in [Reqs -> Planned] /\ resting \subseteq Seats
  BY DEF Fails, IInv, RuntimeOK
<1>1. CASE more(r) /\ status \in FailoverStatus
  <2>1. FailOver(r, status) /\ resting' = resting \cup {seat(r)}
    BY <1>1 DEF Fails
  <2>2. seat(r) \in Seats
    BY <1>0, TryingNow
  <2> QED
    BY <1>0, <1>1, <2>1, <2>2, FailOverEffect
<1>2. CASE ~(more(r) /\ status \in FailoverStatus)
  <2> DEFINE answer == IF status \in FailoverStatus THEN "unavailable" ELSE "refused"
  <2>1. Finish(r, logged(r, FALSE, status), answer) /\ UNCHANGED resting
    BY <1>2 DEF Fails
  <2>2. answer \in Answers /\ (answer = "unavailable" => status \in FailoverStatus /\ ~more(r))
    BY <1>2 DEF Answers
  <2> HIDE DEF answer
  <2> QED
    BY <1>0, <2>1, <2>2, GivesUp
<1> QED
  BY <1>1, <1>2

LEMMA FailsSound ==
  ASSUME IInv, NEW r \in Reqs, NEW status \in FailoverStatus \cup {"refused"}, Fails(r, status)
  PROVE  IInv'
<1>1. req' \in [Reqs -> Planned] /\ resting' \subseteq Seats
  BY FailsEffect
<1>2. moved' = None /\ UNCHANGED <<cursor, ok, affinity, user, throws>>
  BY DEF Fails
<1> QED
  BY <1>1, <1>2 DEF IInv, RuntimeOK, affinity, user

LEMMA FixesEffect ==
  ASSUME IInv, NEW r \in Reqs, Fixes(r)
  PROVE  /\ req' \in [Reqs -> Planned]
         /\ \A q \in Reqs \ {r} : req'[q] = req[q]
         /\ req'[r].pc = "fixed" /\ req'[r].solo = req[r].solo
         /\ req'[r].at = req[r].at /\ req'[r].cand = req[r].cand /\ req'[r].conv = req[r].conv
<1>1. req[r] \in Requests /\ req[r].pc = "sent" /\ req' = [req EXCEPT ![r].pc = "fixed"]
  BY DEF Fixes, IInv, Planned
<1>2. req' = [req EXCEPT ![r] = [req[r] EXCEPT !.pc = "fixed", !.solo = req[r].solo]] /\ req[r].solo \in BOOLEAN
  BY <1>1 DEF Requests
<1> QED
  BY <1>1, <1>2, ControlEffect DEF IInv

LEMMA FixesSound == ASSUME IInv, NEW r \in Reqs, Fixes(r) PROVE IInv'
<1>1. req' \in [Reqs -> Planned]
  BY FixesEffect
<1> QED
  BY <1>1 DEF Fixes, IInv, RuntimeOK, runtime, affinity, user

LEMMA StallsEffect ==
  ASSUME IInv, NEW r \in Reqs, Stalls(r)
  PROVE  /\ req' \in [Reqs -> Planned]
         /\ \A q \in Reqs \ {r} : req'[q] = req[q]
         /\ req'[r].pc = "stuck" /\ ~req'[r].solo
<1>1. req[r].pc \in {"body", "driven"} /\ req' = [req EXCEPT ![r].pc = "stuck", ![r].solo = FALSE]
  BY DEF Stalls
<1>2. req' = [req EXCEPT ![r] = [req[r] EXCEPT !.pc = "stuck", !.solo = FALSE]]
  BY <1>1 DEF IInv
<1> QED
  BY <1>1, <1>2, ControlEffect DEF IInv

LEMMA StallsSound == ASSUME IInv, NEW r \in Reqs, Stalls(r) PROVE IInv'
<1>1. req' \in [Reqs -> Planned]
  BY StallsEffect
<1> QED
  BY <1>1 DEF Stalls, IInv, RuntimeOK, runtime, affinity, user

LEMMA RepliedEffect ==
  ASSUME IInv, NEW r \in Reqs, Replied(r) \/ BreaksOff(r) \/ DriverEnds(r)
  PROVE  /\ req' \in [Reqs -> Planned]
         /\ \A q \in Reqs \ {r} : req'[q] = req[q]
         /\ req'[r].pc = "done" /\ ~req'[r].solo
<1>0. req[r].pc \in {"body", "driven"} /\ req \in [Reqs -> Planned] /\ {"reply", "cut", "broken", "unavailable", "refused"} \subseteq Answers
  BY DEF Replied, BreaksOff, DriverEnds, IInv, Answers
<1>1. req[r].trail \in Seq(Entries)
  BY <1>0, TryingNow
<1>2. CASE Finish(r, req[r].trail, "broken")
  BY <1>0, <1>1, <1>2, FinishEffect
<1>3. CASE \E answer \in {"reply", "cut"}, good \in BOOLEAN : Finish(r, logged(r, good, "ok"), answer)
  BY <1>0, <1>3, GivesUp
<1>4. CASE /\ req[r].pc = "driven"
           /\ \E status \in {"failover", "refused"} :
                Finish(r, logged(r, FALSE, status), IF status = "failover" THEN "unavailable" ELSE "refused")
  <2>1. PICK status \in {"failover", "refused"} :
               Finish(r, logged(r, FALSE, status), IF status = "failover" THEN "unavailable" ELSE "refused")
    BY <1>4
  <2> DEFINE answer == IF status = "failover" THEN "unavailable" ELSE "refused"
  <2>2. /\ answer \in Answers /\ status \in FailoverStatus \cup {"refused", "ok"}
        /\ answer = "unavailable" => status \in FailoverStatus
    BY <1>0 DEF FailoverStatus
  <2>3. Finish(r, logged(r, FALSE, status), answer)
    BY <2>1
  <2> HIDE DEF answer
  <2> QED
    BY <1>0, <1>4, <2>2, <2>3, GivesUp
<1> QED
  BY <1>2, <1>3, <1>4 DEF Replied, BreaksOff, DriverEnds

LEMMA FirstChoiceTyped ==
  ASSUME IInv, NEW r \in Reqs, req[r].pc \in {"sent", "fixed", "driven", "body"}
  PROVE  FirstChoice(r) \in Seats \cup {None}
BY TryingNow DEF IInv, FirstChoice

LEMMA RepliedSound == ASSUME IInv, NEW r \in Reqs, Replied(r) \/ BreaksOff(r) \/ DriverEnds(r) PROVE IInv'
<1>1. req' \in [Reqs -> Planned]
  BY RepliedEffect
<1>2. moved' \in Seats \cup {None}
  BY FirstChoiceTyped DEF Replied, BreaksOff, DriverEnds
<1>3. UNCHANGED <<runtime, affinity, user, throws>>
  BY DEF Replied, BreaksOff, DriverEnds
<1> QED
  BY <1>1, <1>2, <1>3 DEF IInv, RuntimeOK, runtime, affinity, user

\* The reply begins: the request reads its body, or ends where its pin cannot be saved.
LEMMA SucceedsEffect ==
  ASSUME IInv, NEW r \in Reqs, Succeeds(r)
  PROVE  /\ req' \in [Reqs -> Planned]
         /\ \A q \in Reqs \ {r} : req'[q] = req[q]
         /\ \/ req'[r].pc = "done" /\ ~req'[r].solo
            \/ /\ req'[r].pc = "body" /\ req'[r].solo = req[r].solo
               /\ req'[r].at = req[r].at /\ req'[r].cand = req[r].cand /\ req'[r].conv = req[r].conv
<1>0. req \in [Reqs -> Planned] /\ req[r].pc \in {"sent", "fixed"} /\ "broken" \in Answers
  BY DEF IInv, Succeeds, Answers
<1>1. req[r] \in Requests /\ req[r].trail \in Seq(Entries)
  BY <1>0, TryingNow
<1>2. CASE Finish(r, req[r].trail, "broken")
  BY <1>0, <1>1, <1>2, FinishEffect
<1>3. CASE req' = [req EXCEPT ![r].pc = "body"]
  <2>1. req' = [req EXCEPT ![r] = [req[r] EXCEPT !.pc = "body", !.solo = req[r].solo]] /\ req[r].solo \in BOOLEAN
    BY <1>1, <1>3 DEF Requests
  <2> QED
    BY <1>0, <2>1, ControlEffect
<1> QED
  BY <1>2, <1>3 DEF Succeeds

LEMMA SucceedsSound == ASSUME IInv, NEW r \in Reqs, Succeeds(r) PROVE IInv'
<1> DEFINE c == req[r].conv
           s == seat(r)
           pins == group # None /\ group.affinity = "session" /\ c # None
<1>1. req' \in [Reqs -> Planned]
  BY SucceedsEffect
<1>2. s \in Seats /\ c \in Convs \cup {None}
  BY TryingNow DEF Succeeds, IInv, Requests
<1>3. /\ ok' = [ok EXCEPT ![s] = @ + 1]
      /\ cursor' = IF group # None /\ group.strategy = "rotate"
                   THEN (cursor + 1) % Len(group.members) ELSE cursor
      /\ sticks' = IF pins THEN remembered(c, s) ELSE sticks
      /\ answeredBy' = IF c = None THEN answeredBy ELSE [answeredBy EXCEPT ![c] = s]
      /\ \/ (savedSticks' = IF pins THEN sticks' ELSE savedSticks) /\ UNCHANGED throws
         \/ throws' = throws + 1 /\ UNCHANGED savedSticks
      /\ moved' = None /\ UNCHANGED <<resting, user>>
  BY DEF Succeeds
<1> HIDE DEF c, s
<1>4. sticks' \in StickLists
  BY <1>2, <1>3, RememberedSound DEF IInv
<1>5. savedSticks' \in StickLists /\ throws' \in Nat
  BY <1>3, <1>4 DEF IInv, RuntimeOK
<1>6. throws' = 0 => savedSticks' = sticks'
  BY <1>3 DEF IInv, RuntimeOK
<1>7. cursor' \in Nat
  <2>1. CASE group # None /\ group.strategy = "rotate"
    <3>1. Len(group.members) \in Nat \ {0} /\ cursor + 1 \in Nat
      BY <2>1, MembersSound DEF IInv, RuntimeOK
    <3>2. (cursor + 1) % Len(group.members) \in 0..(Len(group.members) - 1)
      BY <3>1, Divided
    <3> QED
      BY <1>3, <2>1, <3>1, <3>2
  <2>2. CASE ~(group # None /\ group.strategy = "rotate")
    BY <1>3, <2>2 DEF IInv, RuntimeOK
  <2> QED
    BY <2>1, <2>2
<1>8. ok' \in [Seats -> Nat] /\ answeredBy' \in [Convs -> Seats \cup {None}]
  BY <1>2, <1>3 DEF IInv, RuntimeOK
<1> QED
  BY <1>1, <1>3, <1>4, <1>5, <1>6, <1>7, <1>8 DEF IInv, RuntimeOK, user

LEMMA RestEndsSound == ASSUME IInv, RestEnds PROVE IInv'
BY DEF IInv, RuntimeOK, RestEnds, affinity, user

LEMMA StickExpiresSound == ASSUME IInv, StickExpires PROVE IInv'
<1>1. sticks' \in StickLists
  BY FrontSound DEF IInv, StickExpires
<1>2. savedSticks' \in StickLists
  BY KeptSticks DEF IInv, StickExpires
<1>3. ASSUME throws' = 0 PROVE savedSticks' = sticks'
  BY <1>3, FrontSound DEF IInv, StickExpires
<1> QED
  BY <1>1, <1>2, <1>3 DEF IInv, RuntimeOK, StickExpires, runtime, user

LEMMA RemoveGroupSound == ASSUME IInv, RemoveGroup PROVE IInv'
<1>1. << >> \in StickLists
  <2>1. << >> \in Seq(Sticks) /\ Len(<< >>) = 0 /\ DOMAIN << >> = {}
    OBVIOUS
  <2> QED
    BY <2>1, RoutingAssumption DEF StickLists, OneEach
<1>2. /\ sticks' = << >> /\ savedSticks' \in StickLists /\ throws' \in Nat
      /\ throws' = 0 => savedSticks' = sticks'
  BY <1>1 DEF IInv, RuntimeOK, RemoveGroup
<1> QED
  BY <1>1, <1>2 DEF IInv, RuntimeOK, RemoveGroup, Edit

LEMMA RestartSound == ASSUME IInv, Restart PROVE IInv'
<1>1. req' = [q \in Reqs |-> IF req[q].pc = "new" THEN req[q]
                             ELSE [req[q] EXCEPT !.pc = "done", !.answer = "dropped"]]
  BY DEF Restart
<1>2. ASSUME NEW q \in Reqs PROVE [req[q] EXCEPT !.pc = "done", !.answer = "dropped"] \in Planned
  <2> DEFINE k == req[q]
             n == [k EXCEPT !.pc = "done", !.answer = "dropped"]
  <2>1. k \in Requests /\ OnPlan(k)
    BY DEF IInv, Planned
  <2> HIDE DEF k
  <2>2. n \in Requests /\ n.pc = "done" /\ n.answer = "dropped" /\ n.at = k.at /\ n.cand = k.cand
    BY <2>1 DEF Requests, Answers
  <2> HIDE DEF n
  <2>3. n \in Planned
    BY <2>1, <2>2 DEF Planned, OnPlan
  <2> QED
    BY <2>3 DEF k, n
<1>3. req' \in [Reqs -> Planned]
  BY <1>1, <1>2 DEF IInv
<1>4. RuntimeOK'
  <2>1. ok' \in [Seats -> Nat] /\ cursor' \in Nat /\ resting' \subseteq Seats
    BY DEF Restart
  <2>0. Edit /\ throws' = throws
    BY DEF Restart
  <2>2. edits' \in Nat /\ throws' \in Nat /\ moved' = None
    BY <2>0 DEF IInv, RuntimeOK, Edit
  <2>3. UNCHANGED <<group, reachable, answeredBy>>
    BY DEF Restart
  <2> QED
    BY <2>1, <2>2, <2>3 DEF IInv, RuntimeOK
<1>5. sticks' \in StickLists /\ savedSticks' \in StickLists /\ (throws' = 0 => savedSticks' = sticks')
  BY DEF IInv, Restart
<1> QED
  BY <1>3, <1>4, <1>5 DEF IInv

LEMMA EditSound == ASSUME IInv, EditGroup \/ EditProvider \/ RetryNow PROVE IInv'
<1>1. CASE EditGroup
  BY <1>1 DEF IInv, RuntimeOK, EditGroup, Edit, runtime, affinity
<1>2. CASE EditProvider
  BY <1>2 DEF IInv, RuntimeOK, EditProvider, Edit, runtime, affinity
<1>3. CASE RetryNow
  BY <1>3 DEF IInv, RuntimeOK, RetryNow, Edit, affinity
<1> QED
  BY <1>1, <1>2, <1>3

LEMMA StutterSound == ASSUME IInv, UNCHANGED vars PROVE IInv'
BY DEF IInv, RuntimeOK, vars

LEMMA Inductive == IInv /\ [Next]_vars => IInv'
<1> SUFFICES ASSUME IInv, [Next]_vars PROVE IInv'
  OBVIOUS
<1>1. CASE \E r \in Reqs : Arrive(r) \/ Handle(r) \/ Stalls(r)
  BY <1>1, ArriveSound, PlanSound, FailsSound, FixesSound, SucceedsSound, RepliedSound, StallsSound DEF Handle
<1>2. CASE RestEnds \/ StickExpires
  BY <1>2, RestEndsSound, StickExpiresSound
<1>3. CASE EditGroup \/ RemoveGroup \/ EditProvider \/ RetryNow \/ Restart
  BY <1>3, EditSound, RemoveGroupSound, RestartSound
<1>4. CASE UNCHANGED vars
  BY <1>4, StutterSound
<1> QED
  BY <1>1, <1>2, <1>3, <1>4 DEF Next

\* The runtime keeps its types, every request is somewhere on its plan, and as long as no
\* save throws the sticks on disk are those in memory (runtime.ts, sessionAffinity.ts).
THEOREM InvariantHolds == Spec => []IInv
BY InitIInv, Inductive, PTL DEF Spec

-----------------------------------------------------------------------------
(* The theorems.                                                               *)

LEMMA InvariantIsSound == IInv => SticksSound
<1> SUFFICES ASSUME IInv PROVE SticksSound
  OBVIOUS
<1>1. ASSUME NEW list \in StickLists PROVE \A stick \in ToSet(list) : stick \in Sticks
  BY DEF StickLists, ToSet
<1>2. ASSUME NEW r \in Reqs
      PROVE  /\ req[r].pc \in {"new", "reading", "sent", "fixed", "driven", "body", "done", "stuck"}
             /\ req[r].at \in 0..Len(req[r].cand)
             /\ ToSet(req[r].cand) \subseteq Seats
  <2>1. req[r] \in Requests /\ req[r].at =< Len(req[r].cand)
    BY DEF IInv, Planned, OnPlan
  <2> DEFINE q == req[r]
  <2>2. q.cand \in Seq(Seats) /\ q.at \in Nat
    BY <2>1 DEF Requests
  <2>3. q.at \in 0..Len(q.cand)
    BY <2>1, <2>2
  <2>4. ToSet(q.cand) \subseteq Seats
    BY <2>2 DEF ToSet
  <2> QED
    BY <2>1, <2>3, <2>4 DEF Requests
<1>3. TypeOK
  BY <1>1, <1>2 DEF IInv, RuntimeOK, TypeOK, Sticks
<1>4. OneStickPerConversation
  BY DEF IInv, StickLists, OneEach, OneStickPerConversation
<1> QED
  BY <1>3, <1>4 DEF SticksSound

\* For any group, number of requests and cap: the runtime keeps its types, and a
\* conversation has one stick, in memory and on disk, never more than the cap.
THEOREM SticksAreSound == Spec => []SticksSound
BY InvariantHolds, InvariantIsSound, PTL

LEMMA InvariantTries == IInv => TriesEveryMember
<1> SUFFICES ASSUME IInv, NEW r \in Reqs, req[r].answer = "unavailable", req[r].cand # << >>
    PROVE  LET trail == req[r].trail
           IN /\ [i \in DOMAIN trail |-> trail[i].seat] = SubSeq(req[r].cand, 1, Len(trail))
              /\ \A i \in DOMAIN trail : trail[i].status \in FailoverStatus
              /\ Len(trail) = Len(req[r].cand) \/ Last(trail).seat \in DriverSeats
  BY DEF TriesEveryMember
<1> DEFINE trail == req[r].trail
           cand == req[r].cand
<1>1. /\ trail \in Seq(Entries) /\ cand \in Seq(Seats) /\ Exhausted(trail, cand)
  BY DEF IInv, Planned, OnPlan, Requests
<1> HIDE DEF trail, cand
<1>2. /\ DOMAIN trail = 1..Len(trail) /\ Len(trail) \in Nat /\ Len(cand) \in Nat /\ Len(trail) =< Len(cand)
      /\ \A i \in 1..Len(trail) : trail[i].seat = cand[i] /\ trail[i].status \in FailoverStatus
  BY <1>1 DEF Exhausted, Follows
<1>3. [i \in DOMAIN trail |-> trail[i].seat] = SubSeq(cand, 1, Len(trail))
  <2> DEFINE n == Len(trail)
             tried == [i \in 1..n |-> trail[i].seat]
  <2>1. /\ SubSeq(cand, 1, n) \in Seq(Seats) /\ Len(SubSeq(cand, 1, n)) = n
        /\ \A i \in 1..n : SubSeq(cand, 1, n)[i] = cand[i]
    BY <1>1, <1>2, SubSeqProperties
  <2>2. tried \in Seq(Seats) /\ Len(tried) = n
    BY <1>1, <1>2
  <2>3. \A i \in 1..n : tried[i] = SubSeq(cand, 1, n)[i]
    BY <1>2, <2>1
  <2> HIDE DEF tried
  <2>4. tried = SubSeq(cand, 1, n)
    BY <2>1, <2>2, <2>3
  <2> QED
    BY <1>2, <2>4 DEF tried
<1>4. Len(trail) = Len(cand) \/ Last(trail).seat \in DriverSeats
  BY <1>1 DEF Exhausted, Last
<1> QED
  BY <1>2, <1>3, <1>4 DEF trail, cand

\* A client hears that no member is available only after those of its plan were tried
\* once each in the planned order, whatever was edited meanwhile and whichever other
\* requests ran; the only early end is a member that a driver serves.
THEOREM EveryMemberIsTried == Spec => []TriesEveryMember
BY InvariantHolds, InvariantTries, PTL

\* Only the plan of a request sends it to its first member.
LEMMA OnlyPlanStarts ==
  ASSUME IInv, [Next]_vars, NEW r \in Reqs, Starts(r)
  PROVE  Plan(r) /\ group # None /\ members # << >>
<1>0. req[r].pc = "reading" /\ req'[r].pc \in {"sent", "driven"} /\ req \in [Reqs -> Planned]
  BY DEF Starts, IInv
<1>1. ASSUME NEW q \in Reqs \ {r}, req'[r] = req[r] PROVE FALSE
  BY <1>0, <1>1
<1>2. CASE \E q \in Reqs : Arrive(q)
  <2>1. PICK q \in Reqs : Arrive(q)
    BY <1>2
  <2>2. req[q].pc # "reading"
    BY <2>1 DEF Arrive
  <2>3. req'[r] = req[r]
    BY <1>0, <2>1, <2>2 DEF Arrive
  <2> QED
    BY <1>0, <2>3
<1>3. CASE \E q \in Reqs \ {r} : Plan(q)
  <2>1. PICK q \in Reqs \ {r} : Plan(q)
    BY <1>3
  <2>2. req'[r] = req[r] \/ req'[r] = [req[r] EXCEPT !.solo = FALSE]
    BY <1>0, <2>1 DEF Plan, Finish
  <2>3. req[r] \in Requests
    BY <1>0 DEF Planned
  <2>4. req'[r].pc = req[r].pc
    BY <2>2, <2>3 DEF Requests
  <2> QED
    BY <1>0, <2>4
<1>4. CASE Plan(r)
  <2>1. ASSUME Finish(r, << >>, "unavailable") PROVE FALSE
    <3>1. req'[r].pc = "done"
      <4>1. req[r] \in Planned /\ req[r] \in Requests
        BY <1>0 DEF Planned
      <4>2. req' = [req EXCEPT ![r] = [req[r] EXCEPT !.pc = "done", !.trail = << >>, !.answer = "unavailable", !.solo = FALSE]]
        BY <2>1, <1>0 DEF Finish
      <4> QED
        BY <1>0, <4>1, <4>2 DEF Requests
    <3> QED
      BY <1>0, <3>1
  <2> QED
    BY <1>4, <2>1 DEF Plan
<1>5. CASE \E q \in Reqs : (\E status \in FailoverStatus \cup {"refused"} : Fails(q, status))
                           \/ Fixes(q) \/ Succeeds(q) \/ Replied(q) \/ BreaksOff(q) \/ DriverEnds(q) \/ Stalls(q)
  <2>1. PICK q \in Reqs : (\E status \in FailoverStatus \cup {"refused"} : Fails(q, status))
                           \/ Fixes(q) \/ Succeeds(q) \/ Replied(q) \/ BreaksOff(q) \/ DriverEnds(q) \/ Stalls(q)
    BY <1>5
  <2>2. req[q].pc # "reading"
    BY <2>1 DEF Fails, Fixes, Succeeds, Replied, BreaksOff, DriverEnds, Stalls
  <2>3. \A p \in Reqs \ {q} : req'[p] = req[p]
    BY <2>1, FailsEffect, FixesEffect, SucceedsEffect, RepliedEffect, StallsEffect
  <2> QED
    BY <1>0, <2>2, <2>3
<1>6. CASE UNCHANGED req
  BY <1>0, <1>6
<1>7. CASE Restart
  <2>1. req'[r] = [req[r] EXCEPT !.pc = "done", !.answer = "dropped"] /\ req[r] \in Requests
    BY <1>0, <1>7 DEF Restart, Planned
  <2> QED
    BY <1>0, <2>1 DEF Requests
<1> QED
  BY <1>2, <1>3, <1>4, <1>5, <1>6, <1>7
     DEF Next, Handle, vars, RestEnds, StickExpires, EditGroup, RemoveGroup, EditProvider, RetryNow

\* Whatever the strategy and the pin, and whatever happened since the last request: a
\* request begins with a resting member only when all that are reachable rest.
THEOREM RestingAreTriedLast == Spec => RestingTriedLast
<1>1. ASSUME IInv, [Next]_vars
      PROVE  \A r \in Reqs : Starts(r) /\ req'[r].cand[1] \in resting => ToSet(members) \subseteq resting
  <2> SUFFICES ASSUME NEW r \in Reqs, Starts(r), req'[r].cand[1] \in resting PROVE ToSet(members) \subseteq resting
    OBVIOUS
  <2> DEFINE order == plan(req[r].conv)
  <2>1. Plan(r) /\ group # None /\ members # << >> /\ RuntimeOK /\ req \in [Reqs -> Planned]
    BY <1>1, OnlyPlanStarts DEF IInv
  <2>2. req'[r].cand = order
    BY <2>1, PlanEffect
  <2>3. /\ order \in Seq(Seats) /\ Len(order) \in Nat /\ Len(order) > 0 /\ ToSet(order) = ToSet(members)
        /\ \A i, j \in DOMAIN order : order[i] \in resting /\ i < j => order[j] \in resting
    BY <2>1, PlanNow
  <2>4. order[1] \in resting
    BY <2>2
  <2> HIDE DEF order
  <2>5. \A j \in DOMAIN order : order[j] \in resting
    <3>1. 1 \in DOMAIN order /\ \A j \in DOMAIN order : j = 1 \/ 1 < j
      BY <2>3
    <3> QED
      BY <2>3, <2>4, <3>1
  <2> QED
    BY <2>3, <2>5 DEF ToSet
<1>2. IInv /\ [Next]_vars => [\A r \in Reqs : Starts(r) /\ req'[r].cand[1] \in resting =>
                                ToSet(members) \subseteq resting]_vars
  BY <1>1
<1> QED
  BY <1>2, InvariantHolds, PTL DEF Spec, RestingTriedLast

-----------------------------------------------------------------------------
(* The pinned member.                                                          *)

\* The group does not begin to pin conversations.
PinningNotResumed ==
  [][group' # None /\ group'.affinity = "session" => group # None /\ group.affinity = "session"]_vars

LEMMA SucceedsPins ==
  ASSUME IInv, PinsLast, NEW r \in Reqs, Succeeds(r)
  PROVE  PinsLast'
<1> SUFFICES ASSUME group' # None, group'.affinity = "session", throws' = 0, NEW i \in DOMAIN sticks'
    PROVE  answeredBy'[sticks'[i].conv] = sticks'[i].seat
  BY DEF PinsLast
<1> DEFINE c == req[r].conv
           s == seat(r)
<1>1. group = group' /\ throws = 0
  BY DEF Succeeds, user, IInv, RuntimeOK
<1>2. s \in Seats /\ c \in Convs \cup {None}
  BY TryingNow DEF Succeeds, IInv, Requests
<1>3. /\ sticks' = IF c # None THEN remembered(c, s) ELSE sticks
      /\ answeredBy' = IF c = None THEN answeredBy ELSE [answeredBy EXCEPT ![c] = s]
  BY <1>1 DEF Succeeds
<1>4. \A k \in DOMAIN sticks : answeredBy[sticks[k].conv] = sticks[k].seat /\ sticks[k].conv \in Convs
  <2>1. sticks \in Seq(Sticks)
    BY DEF IInv, StickLists
  <2>2. \A k \in DOMAIN sticks : sticks[k] \in Sticks
    BY <2>1
  <2>3. \A k \in DOMAIN sticks : answeredBy[sticks[k].conv] = sticks[k].seat
    BY <1>1 DEF PinsLast
  <2> QED
    BY <2>2, <2>3 DEF Sticks
<1>5. answeredBy \in [Convs -> Seats \cup {None}]
  BY DEF IInv, RuntimeOK
<1> HIDE DEF c, s
<1>6. CASE c = None
  BY <1>3, <1>4, <1>6
<1>7. CASE c # None
  <2>1. \/ sticks'[i] = [conv |-> c, seat |-> s]
        \/ \E k \in DOMAIN sticks : sticks'[i] = sticks[k] /\ sticks[k].conv # c
    BY <1>2, <1>3, <1>7, RememberedSound DEF IInv
  <2>2. answeredBy'[c] = s /\ \A d \in Convs \ {c} : answeredBy'[d] = answeredBy[d]
    BY <1>2, <1>3, <1>5, <1>7
  <2>3. CASE sticks'[i] = [conv |-> c, seat |-> s]
    BY <2>2, <2>3
  <2>4. CASE \E k \in DOMAIN sticks : sticks'[i] = sticks[k] /\ sticks[k].conv # c
    BY <1>4, <2>2, <2>4
  <2> QED
    BY <2>1, <2>3, <2>4
<1> QED
  BY <1>6, <1>7

LEMMA StepPins ==
  ASSUME IInv, PinsLast, [Next]_vars,
         [group' # None /\ group'.affinity = "session" => group # None /\ group.affinity = "session"]_vars
  PROVE  PinsLast'
<1>1. CASE \E r \in Reqs : Succeeds(r)
  BY <1>1, SucceedsPins
<1>2. CASE UNCHANGED <<group, sticks, answeredBy, throws>>
  BY <1>2 DEF PinsLast
<1>3. CASE StickExpires
  <2>1. \A k \in DOMAIN sticks' : \E i \in DOMAIN sticks : sticks'[k] = sticks[i]
    BY <1>3, FrontSound DEF IInv, StickExpires
  <2>2. UNCHANGED <<group, answeredBy, throws>>
    BY <1>3 DEF StickExpires, user
  <2> QED
    BY <2>1, <2>2 DEF PinsLast
<1>4. CASE EditGroup
  <2>1. /\ UNCHANGED <<sticks, answeredBy, throws>>
        /\ group' # None /\ group'.affinity = "session" => group # None /\ group.affinity = "session"
    BY <1>4 DEF EditGroup, affinity, vars
  <2> QED
    BY <2>1 DEF PinsLast
<1>5. CASE RemoveGroup
  BY <1>5 DEF RemoveGroup, PinsLast
<1>6. CASE Restart
  <2>1. throws' = throws /\ sticks' = savedSticks /\ UNCHANGED <<answeredBy, group>>
    BY <1>6 DEF Restart
  <2> QED
    BY <2>1 DEF PinsLast, IInv
<1> QED
  BY <1>1, <1>2, <1>3, <1>4, <1>5, <1>6
     DEF Next, Handle, Arrive, Plan, Fails, Fixes, Replied, BreaksOff, DriverEnds, Stalls, RestEnds,
         EditProvider, RetryNow, vars, user, affinity

LEMMA PinnedToLast ==
  ASSUME IInv, PinsLast
  PROVE  StickIsLastAnswerer
<1> SUFFICES ASSUME group # None, group.affinity = "session", throws = 0, NEW c \in Convs, stickOf(c) # None
    PROVE  stickOf(c) = answeredBy[c]
  BY DEF StickIsLastAnswerer
<1> DEFINE mine == {i \in DOMAIN sticks : sticks[i].conv = c}
<1>1. PICK k \in DOMAIN sticks : sticks[k].conv = c
  BY DEF stickOf
<1>2. mine = {k} /\ k \in Nat
  BY <1>1 DEF IInv, StickLists, OneEach
<1>3. stickOf(c) = sticks[k].seat
  <2>1. stickOf(c) = sticks[CHOOSE i \in mine : \A j \in mine : i =< j].seat
    BY <1>2 DEF stickOf
  <2>2. \A i \in mine : i = k
    BY <1>2
  <2>3. (CHOOSE i \in mine : \A j \in mine : i =< j) = k
    BY <1>2, <2>2
  <2> QED
    BY <2>1, <2>3
<1> QED
  BY <1>1, <1>3 DEF PinsLast

\* As long as the group does not begin to pin and no save of the sticks throws, a
\* conversation's stick is the member that answered it last, whatever expired, was
\* removed or restarted, and however its requests overlapped.
THEOREM SticksNameLastAnswerer == Spec /\ PinningNotResumed => []StickIsLastAnswerer
<1>1. Init => PinsLast
  BY DEF Init, PinsLast
<1>2. IInv /\ PinsLast /\ [Next]_vars
      /\ [group' # None /\ group'.affinity = "session" => group # None /\ group.affinity = "session"]_vars
      => PinsLast'
  BY StepPins
<1>3. IInv /\ PinsLast => StickIsLastAnswerer
  BY PinnedToLast
<1> QED
  BY <1>1, <1>2, <1>3, InvariantHolds, PTL DEF Spec, PinningNotResumed

-----------------------------------------------------------------------------
(* The rotation.                                                               *)

LEMMA RotationStarts ==
  ASSUME RuntimeOK, group # None, members = group.members, group.strategy = "rotate", resting = {},
         NEW stick, stick \notin Seats
  PROVE  planRoutingOrder(members, group.strategy, stick, resting, ok, cursor)[1] = upNext
<1> DEFINE list == group.members
           n == Len(list)
           turned == rotated(list, cursor)
<1>1. list \in Seq(Seats) /\ Distinct(list) /\ n \in Nat \ {0} /\ cursor \in Nat
  BY MembersSound DEF RuntimeOK
<1>2. turned \in Seq(Seats) /\ Distinct(turned) /\ ToSet(turned) = ToSet(list)
  BY <1>1, RotatedSound DEF Reorders
<1>3. turned[1] = upNext
  <2>1. 1 \in DOMAIN list /\ 1 - 1 + cursor = cursor
    BY <1>1
  <2>2. turned[1] = list[((1 - 1 + cursor) % n) + 1]
    BY <2>1 DEF rotated
  <2> QED
    BY <2>1, <2>2 DEF upNext
<1> HIDE DEF turned
<1>4. orderMemberIndexes(group.strategy, members, cursor, ok) = turned
  BY DEF orderMemberIndexes, turned
<1>5. applyAffinityOrder(turned, stick) = turned
  BY <1>2 DEF applyAffinityOrder, ToSet
<1>6. deferCooling(turned, {}) = turned
  BY <1>2, DeferSound
<1> QED
  BY <1>3, <1>4, <1>5, <1>6 DEF planRoutingOrder

\* Once the cursor moves, another member is next.
LEMMA CursorMovesOn ==
  ASSUME RuntimeOK, group # None, Len(group.members) > 1,
         cursor' = (cursor + 1) % Len(group.members), group' = group
  PROVE  upNext' # upNext
<1> DEFINE list == group.members
           n == Len(list)
           a == cursor % n
           b == (cursor + 1) % n
<1>1. /\ list \in Seq(Seats) /\ n \in Nat \ {0} /\ n > 1 /\ cursor \in Nat /\ DOMAIN list = 1..n
      /\ \A i, j \in 1..n : list[i] = list[j] => i = j
  BY MembersSound DEF RuntimeOK, Distinct
<1>2. a \in 0..(n - 1) /\ b \in 0..(n - 1) /\ b % n = b /\ a # b
  <2> HIDE DEF n
  <2>0. n \in Nat \ {0} /\ cursor \in Nat /\ cursor + 1 \in Nat
    BY <1>1
  <2>1. a \in 0..(n - 1) /\ b \in 0..(n - 1)
    BY <2>0, Divided
  <2>2. b % n = b
    BY <1>1, <2>1, SmallRemainder
  <2>3. ASSUME a = b PROVE FALSE
    <3>1. cursor < (cursor + 1) + n /\ cursor + 1 < cursor + n /\ cursor + 1 \in Nat
      BY <1>1
    <3>2. cursor = cursor + 1
      BY <1>1, <2>3, <3>1, SameRemainder
    <3> QED
      BY <1>1, <3>2
  <2> QED
    BY <2>1, <2>2, <2>3
<1>3. upNext = list[a + 1] /\ upNext' = list[b + 1]
  BY <1>2 DEF upNext
<1> HIDE DEF a, b, list
<1>4. a + 1 \in 1..n /\ b + 1 \in 1..n /\ a + 1 # b + 1
  BY <1>1, <1>2
<1> QED
  BY <1>1, <1>3, <1>4

LEMMA WithoutDrivers == ASSUME DriverSeats = {}, NEW s PROVE Begin(s) = "sent"
BY DEF Begin

\* A request that is not active does not take a step on its plan.
LEMMA SoloKept ==
  ASSUME IInv, TurnsTaken, edits = 0, NEW r \in Reqs, Active(r),
         \A q \in Reqs \ {r} : req'[q] = req[q],
         req'[r].solo => req[r].solo
  PROVE  /\ \A q \in Reqs \ {r} : ~req[q].solo
         /\ \A q \in Reqs : req'[q].solo => \A p \in Reqs \ {q} : ~(Active(p)')
<1>1. \A q \in Reqs : req[q].solo => \A p \in Reqs \ {q} : ~Active(p)
  BY DEF TurnsTaken, TakesTurn
<1> QED
  BY <1>1 DEF Active

\* A request that goes on with its plan, the rotation unmoved.
LEMMA TurnKept ==
  ASSUME IInv, TurnsTaken, edits = 0, NEW r \in Reqs, Active(r),
         \A q \in Reqs \ {r} : req'[q] = req[q],
         req'[r].solo => req[r].solo /\ (req'[r].at # 1 \/ (/\ req'[r].at = req[r].at
                                                            /\ req'[r].cand = req[r].cand
                                                            /\ req'[r].conv = req[r].conv
                                                            /\ req[r].pc \in {"sent", "fixed"}
                                                            /\ req'[r].pc \in {"sent", "fixed"})),
         req'[r].pc # "driven",
         UNCHANGED <<group, cursor, edits>>
  PROVE  \A q \in Reqs : req'[q].pc # "driven" /\ TakesTurn(q)'
<1>1. /\ \A q \in Reqs \ {r} : ~req[q].solo
      /\ \A q \in Reqs : req'[q].solo => \A p \in Reqs \ {q} : ~(Active(p)')
  BY SoloKept
<1>2. upNext' = upNext /\ Rotating' = Rotating
  BY DEF upNext, Rotating
<1>3. ASSUME NEW q \in Reqs \ {r} PROVE req'[q].pc # "driven" /\ ~req'[q].solo
  BY <1>1 DEF TurnsTaken
<1>4. TakesTurn(r)
  BY DEF TurnsTaken
<1>5. TakesTurn(r)'
  BY <1>1, <1>2, <1>4 DEF TakesTurn
<1>6. ASSUME NEW q \in Reqs \ {r} PROVE TakesTurn(q)'
  BY <1>1, <1>3 DEF TakesTurn
<1> QED
  BY <1>3, <1>5, <1>6

LEMMA ArriveTurns == ASSUME IInv, TurnsTaken, NEW r \in Reqs, Arrive(r) PROVE TurnsTaken'
<1>1. PICK c \in Convs \cup {None} : req' = [req EXCEPT ![r] = [unmade EXCEPT !.pc = "reading", !.conv = c]]
  BY DEF Arrive
<1>2. UNCHANGED <<group, cursor, edits, reachable, moved>> /\ ~Active(r)
  BY DEF Arrive, runtime, user, Active
<1>3. req'[r].pc = "reading" /\ ~req'[r].solo /\ \A q \in Reqs \ {r} : req'[q] = req[q]
  BY <1>1 DEF IInv, unmade
<1>4. upNext' = upNext /\ Rotating' = Rotating
  BY <1>2 DEF upNext, Rotating
<1>5. ASSUME edits = 0, NEW q \in Reqs PROVE req'[q].pc # "driven" /\ TakesTurn(q)'
  <2>1. CASE q = r
    BY <1>3, <2>1 DEF TakesTurn
  <2>2. CASE q # r
    <3>1. TakesTurn(q) /\ req[q].pc # "driven" /\ req'[q] = req[q]
      BY <1>3, <1>5, <2>2 DEF TurnsTaken
    <3>2. ~(Active(r)') /\ \A p \in Reqs \ {q} : ~Active(p) => ~(Active(p)')
      BY <1>3 DEF Active
    <3> QED
      BY <1>4, <3>1, <3>2 DEF TakesTurn
  <2> QED
    BY <2>1, <2>2
<1> QED
  BY <1>2, <1>4, <1>5 DEF TurnsTaken

LEMMA PlanTurns ==
  ASSUME DriverSeats = {}, IInv, TurnsTaken, NEW r \in Reqs, Plan(r) PROVE TurnsTaken'
<1>0. /\ UNCHANGED <<group, cursor, edits, reachable, moved>> /\ req[r].pc = "reading"
      /\ RuntimeOK /\ req \in [Reqs -> Planned]
  BY DEF Plan, runtime, user, IInv
<1>1. upNext' = upNext /\ Rotating' = Rotating
  BY <1>0 DEF upNext, Rotating
<1>2. ASSUME edits = 0 PROVE \A q \in Reqs : req'[q].pc # "driven" /\ TakesTurn(q)'
  <2>0. group \in Configs /\ group # None /\ reachable = Seats
    BY <1>2, RoutingAssumption DEF TurnsTaken
  <2>1. members = group.members /\ members # << >>
    <3>1. members = group.members /\ Len(group.members) # 0
      BY <1>0, <2>0, MembersSound
    <3> QED
      BY <3>1
  <2>2. /\ req'[r].cand = plan(req[r].conv) /\ req'[r].conv = req[r].conv
        /\ req'[r].pc = "sent"
        /\ req'[r].solo <=> resting = {} /\ \A p \in Reqs \ {r} : ~Active(p)
        /\ \A q \in Reqs \ {r} : ~req'[q].solo /\ req'[q].pc = req[q].pc
    BY <1>0, <2>0, <2>1, PlanEffect, WithoutDrivers
  <2>3. ASSUME NEW q \in Reqs \ {r} PROVE req'[q].pc # "driven" /\ TakesTurn(q)'
    BY <1>2, <2>2 DEF TurnsTaken, TakesTurn
  <2>4. req'[r].solo => \A p \in Reqs \ {r} : ~(Active(p)')
    BY <2>2 DEF Active
  <2>5. ASSUME Rotating, req'[r].solo, req'[r].conv = None PROVE req'[r].cand[1] = upNext
    <3>1. plan(None) = planRoutingOrder(members, group.strategy, None, resting, ok, cursor)
      BY DEF plan
    <3>2. None \notin Seats /\ resting = {} /\ group.strategy = "rotate"
      BY <2>2, <2>5, RoutingAssumption DEF Rotating
    <3> QED
      BY <1>0, <2>0, <2>1, <2>2, <2>5, <3>1, <3>2, RotationStarts
  <2>6. TakesTurn(r)'
    BY <1>1, <2>2, <2>4, <2>5 DEF TakesTurn
  <2> QED
    BY <2>2, <2>3, <2>6
<1> QED
  BY <1>0, <1>1, <1>2 DEF TurnsTaken

LEMMA FailsTurns ==
  ASSUME DriverSeats = {}, IInv, TurnsTaken, NEW r \in Reqs,
         NEW status \in FailoverStatus \cup {"refused"}, Fails(r, status)
  PROVE  TurnsTaken'
<1>1. UNCHANGED <<group, cursor, edits, reachable>> /\ moved' = None /\ Active(r)
  BY DEF Fails, user, Active
<1>2. /\ \A q \in Reqs \ {r} : req'[q] = req[q]
      /\ \/ req'[r].pc = "done" /\ ~req'[r].solo
         \/ req'[r].at > 1 /\ req'[r].solo = req[r].solo /\ req'[r].pc = "sent"
  BY FailsEffect, WithoutDrivers
<1>3. ASSUME edits = 0 PROVE \A q \in Reqs : req'[q].pc # "driven" /\ TakesTurn(q)'
  <2>1. req'[r].pc # "driven" /\ (req'[r].solo => req[r].solo /\ req'[r].at # 1)
    BY <1>2
  <2> QED
    BY <1>1, <1>2, <1>3, <2>1, TurnKept
<1> QED
  BY <1>1, <1>3 DEF TurnsTaken

LEMMA FixesTurns == ASSUME IInv, TurnsTaken, NEW r \in Reqs, Fixes(r) PROVE TurnsTaken'
<1>1. UNCHANGED <<group, cursor, edits, reachable, moved>> /\ Active(r) /\ req[r].pc = "sent"
  BY DEF Fixes, runtime, user, Active
<1>2. /\ \A q \in Reqs \ {r} : req'[q] = req[q]
      /\ req'[r].pc = "fixed" /\ req'[r].solo = req[r].solo
      /\ req'[r].at = req[r].at /\ req'[r].cand = req[r].cand /\ req'[r].conv = req[r].conv
  BY FixesEffect
<1>3. ASSUME edits = 0 PROVE \A q \in Reqs : req'[q].pc # "driven" /\ TakesTurn(q)'
  BY <1>1, <1>2, <1>3, TurnKept
<1>4. upNext' = upNext /\ Rotating' = Rotating
  BY <1>1 DEF upNext, Rotating
<1> QED
  BY <1>1, <1>3, <1>4 DEF TurnsTaken

LEMMA EndsTurns ==
  ASSUME IInv, TurnsTaken, NEW r \in Reqs, Replied(r) \/ BreaksOff(r) \/ DriverEnds(r) \/ Stalls(r)
  PROVE  TurnsTaken'
<1>1. UNCHANGED <<group, cursor, edits, reachable>> /\ Active(r)
  BY DEF Replied, BreaksOff, DriverEnds, Stalls, runtime, user, Active
<1>2. /\ \A q \in Reqs \ {r} : req'[q] = req[q]
      /\ req'[r].pc \in {"done", "stuck"} /\ ~req'[r].solo
  BY RepliedEffect, StallsEffect
<1>3. ASSUME edits = 0 PROVE \A q \in Reqs : req'[q].pc # "driven" /\ TakesTurn(q)'
  BY <1>1, <1>2, <1>3, TurnKept
<1>4. upNext' = upNext /\ Rotating' = Rotating
  BY <1>1 DEF upNext, Rotating
<1>5. moved' # None => edits = 0 /\ req[r].pc = "body" /\ moved' = FirstChoice(r)
  <2>1. req[r].pc = "driven" => edits # 0
    BY DEF TurnsTaken
  <2> QED
    BY <2>1 DEF Replied, BreaksOff, DriverEnds, Stalls, FirstChoice
<1>6. ASSUME moved' # None, Rotating PROVE moved' # upNext
  <2>1. req[r].solo /\ req[r].conv = None /\ req[r].at = 1 /\ moved' = req[r].cand[1]
    BY <1>5, <1>6 DEF FirstChoice, seat
  <2>2. TakesTurn(r)
    BY <1>5, <1>6 DEF TurnsTaken
  <2> QED
    BY <1>5, <1>6, <2>1, <2>2 DEF TakesTurn
<1> QED
  BY <1>1, <1>3, <1>4, <1>5, <1>6 DEF TurnsTaken

LEMMA SucceedsTurns == ASSUME IInv, TurnsTaken, NEW r \in Reqs, Succeeds(r) PROVE TurnsTaken'
<1>1. /\ UNCHANGED <<group, edits, reachable>> /\ Active(r) /\ moved' = None
      /\ req[r].pc \in {"sent", "fixed"}
      /\ group # None /\ group.strategy = "rotate" => cursor' = (cursor + 1) % Len(group.members)
  BY DEF Succeeds, user, Active
<1>2. /\ \A q \in Reqs \ {r} : req'[q] = req[q]
      /\ \/ req'[r].pc = "done" /\ ~req'[r].solo
         \/ /\ req'[r].pc = "body" /\ req'[r].solo = req[r].solo
            /\ req'[r].at = req[r].at /\ req'[r].cand = req[r].cand /\ req'[r].conv = req[r].conv
  BY SucceedsEffect
<1>3. ASSUME edits = 0 PROVE \A q \in Reqs : req'[q].pc # "driven" /\ TakesTurn(q)'
  <2>1. /\ \A q \in Reqs \ {r} : ~req[q].solo
        /\ \A q \in Reqs : req'[q].solo => \A p \in Reqs \ {q} : ~(Active(p)')
    BY <1>1, <1>2, <1>3, SoloKept
  <2>2. ASSUME NEW q \in Reqs \ {r} PROVE req'[q].pc # "driven" /\ TakesTurn(q)'
    BY <1>2, <1>3, <2>1 DEF TurnsTaken, TakesTurn
  <2>3. ASSUME Rotating', req'[r].solo, req'[r].conv = None, req'[r].at = 1, req'[r].pc = "body"
        PROVE  req'[r].cand[1] # upNext'
    <3>1. req[r].cand[1] = upNext /\ Rotating
      BY <1>1, <1>2, <1>3, <2>3 DEF TurnsTaken, TakesTurn, Rotating
    <3>2. group # None
      BY <1>3, RoutingAssumption DEF TurnsTaken
    <3>3. upNext' # upNext
      BY <1>1, <3>1, <3>2, CursorMovesOn DEF Rotating, IInv
    <3> QED
      BY <1>2, <2>3, <3>1, <3>3
  <2>4. TakesTurn(r)'
    BY <1>2, <2>1, <2>3 DEF TakesTurn
  <2> QED
    BY <1>2, <2>2, <2>4
<1> QED
  BY <1>1, <1>3 DEF TurnsTaken

LEMMA StepTurns ==
  ASSUME DriverSeats = {}, IInv, TurnsTaken, [Next]_vars
  PROVE  TurnsTaken'
<1>1. CASE \E r \in Reqs : Arrive(r) \/ Handle(r) \/ Stalls(r)
  BY <1>1, ArriveTurns, PlanTurns, FailsTurns, FixesTurns, SucceedsTurns, EndsTurns DEF Handle
<1>2. CASE edits' = edits + 1 /\ moved' = None
  BY <1>2 DEF TurnsTaken, IInv, RuntimeOK
<1>3. CASE UNCHANGED <<group, cursor, edits, reachable, req>> /\ moved' \in {None, moved}
  <2>1. upNext' = upNext /\ Rotating' = Rotating
    BY <1>3 DEF upNext, Rotating
  <2>2. \A r \in Reqs : TakesTurn(r) => TakesTurn(r)'
    BY <1>3, <2>1 DEF TakesTurn, Active
  <2> QED
    BY <1>3, <2>1, <2>2 DEF TurnsTaken
<1>4. RestEnds \/ StickExpires \/ UNCHANGED vars
      => UNCHANGED <<group, cursor, edits, reachable, req>> /\ moved' \in {None, moved}
  BY DEF RestEnds, StickExpires, vars, runtime, user
<1>5. EditGroup \/ RemoveGroup \/ EditProvider \/ RetryNow \/ Restart => edits' = edits + 1 /\ moved' = None
  BY DEF EditGroup, RemoveGroup, EditProvider, RetryNow, Restart, Edit
<1> QED
  BY <1>1, <1>2, <1>3, <1>4, <1>5 DEF Next

\* As long as no member is served by a driver: a request that follows one that ran
\* alone, with nothing in between, begins with another member, for groups of any size.
THEOREM RotationMovesOn == ASSUME DriverSeats = {} PROVE Spec => RotateMovesOn
<1>1. Init => TurnsTaken
  BY DEF Init, TurnsTaken, TakesTurn, unmade
<1>2. IInv /\ TurnsTaken /\ [Next]_vars => TurnsTaken'
  BY StepTurns
<1>3. ASSUME IInv, TurnsTaken, [Next]_vars, NEW r \in Reqs,
             Starts(r), req[r].conv = None, moved # None,
             group.strategy = "rotate", Len(members) > 1, members = group.members, resting = {}
      PROVE  req'[r].cand[1] # moved
  <2>1. Plan(r) /\ group # None /\ members # << >> /\ RuntimeOK /\ req \in [Reqs -> Planned]
    BY <1>3, OnlyPlanStarts DEF IInv
  <2>2. req'[r].cand = plan(None)
    BY <1>3, <2>1, PlanEffect
  <2>3. plan(None)[1] = upNext
    <3>1. plan(None) = planRoutingOrder(members, group.strategy, None, resting, ok, cursor)
      BY DEF plan
    <3> QED
      BY <1>3, <2>1, <3>1, RotationStarts, RoutingAssumption
  <2>4. moved # upNext
    BY <1>3 DEF TurnsTaken, Rotating
  <2> QED
    BY <2>2, <2>3, <2>4
<1>4. IInv /\ TurnsTaken /\ [Next]_vars =>
        [\A r \in Reqs :
           /\ Starts(r) /\ req[r].conv = None /\ moved # None
           /\ group.strategy = "rotate" /\ Len(members) > 1 /\ members = group.members
           /\ resting = {}
           => req'[r].cand[1] # moved]_vars
  BY <1>3
<1> QED
  BY <1>1, <1>2, <1>4, InvariantHolds, PTL DEF Spec, RotateMovesOn
=============================================================================
