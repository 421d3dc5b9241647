-------------------------- MODULE WorkFifo_proofs ---------------------------
(***************************************************************************)
(* The safety properties of WorkFifo, for any number and size of buckets,  *)
(* any kinds and sizes of items and any number of them.                    *)
(*                                                                         *)
(* The operators of the FIFO move single items, and Taken says that two    *)
(* contents of the buckets differ by one: the smaller is the larger        *)
(* without an item, and every other item is in both, in the same order.    *)
(* A pop leaves the smaller one, an append or a put-back makes the larger  *)
(* one, and the lemmas on Taken say what either does to the ids queued,    *)
(* to the order and to the size of the buckets.                            *)
(*                                                                         *)
(* The loops of appendToFifo and of decide are recursive functions.  For   *)
(* each of them a function that solves its equation is shown to exist for  *)
(* any number of rounds, and what holds after every round is shown from    *)
(* the least round after which it would not.                               *)
(***************************************************************************)
EXTENDS WorkFifo, SequenceTheorems, FiniteSetTheorems, WellFoundedInduction, TLAPS

-----------------------------------------------------------------------------
(* Of some numbers one is the least: the induction of this module.          *)
LEMMA LeastNumber ==
  ASSUME NEW T \in SUBSET Nat, T # {}
  PROVE  \E n \in T : \A m \in T : n <= m
<1>1. PICK n \in T : \A m \in T : ~(<<m, n>> \in OpToRel(<, Nat))
  BY WFMin, NatLessThanWellFounded, Zenon
<1>2. \A m \in T : m \in Nat /\ n \in Nat /\ ~(m < n)
  BY <1>1 DEF OpToRel
<1> QED
  BY <1>2

(* And of some bucket numbers one is the greatest.                          *)
LEMMA GreatestBucket ==
  ASSUME NEW T \in SUBSET Buckets, T # {}
  PROVE  \E n \in T : \A m \in T : n >= m
<1> DEFINE U == {BucketCount - n : n \in T}
<1>1. \A n \in T : n \in Nat /\ BucketCount - n \in Nat
  BY WorkFifoConstants DEF Buckets
<1>2. U \in SUBSET Nat /\ U # {}
  BY <1>1
<1> HIDE DEF U
<1>3. PICK u \in U : \A v \in U : u <= v
  BY <1>2, LeastNumber
<1> USE DEF U
<1>4. PICK n \in T : u = BucketCount - n
  BY <1>3
<1>5. \A m \in T : BucketCount - n <= BucketCount - m
  BY <1>3, <1>4
<1> QED
  BY <1>1, <1>5, WorkFifoConstants

(* Ids and sizes are numbers, whatever sizes items may have.                *)
LEMMA ItemTypes == \A x \in Item : x.id \in Nat /\ x.size \in Nat /\ x.id \in 1 .. MaxItems
<1> SUFFICES ASSUME NEW x \in Item PROVE x.id \in Nat /\ x.size \in Nat /\ x.id \in 1 .. MaxItems
  OBVIOUS
<1>1. x.id \in 1 .. MaxItems /\ x.size \in Sizes
  BY DEF Item
<1>2. x.id \in Nat
  BY <1>1
<1>3. x.size \in Nat
  BY <1>1, WorkFifoConstants
<1> QED
  BY <1>1, <1>2, <1>3

-----------------------------------------------------------------------------
(* The size of a bucket.                                                    *)
Sums(f, s, n) == f = [m \in 0 .. n |-> IF m = 0 THEN 0 ELSE f[m - 1] + s[m].size]

(* The function that Bytes computes a size with.                            *)
Sum(s) == CHOOSE f : Sums(f, s, Len(s))

(* A size is the value of that function at the last item.                   *)
LEMMA BytesIsSum == \A s : Bytes(s) = Sum(s)[Len(s)]
BY Zenon DEF Bytes, Sum, Sums

(* The recursive equation has a solution for any length: one for a length   *)
(* extends to the next.                                                     *)
LEMMA SumsExist ==
  ASSUME NEW s
  PROVE  \A n \in Nat : \E f : Sums(f, s, n)
<1> DEFINE T == {n \in Nat : ~\E f : Sums(f, s, n)}
<1> SUFFICES ASSUME T # {} PROVE FALSE
  OBVIOUS
<1>1. T \in SUBSET Nat
  OBVIOUS
<1> HIDE DEF T
<1>2. PICK n \in T : \A m \in T : n <= m
  BY <1>1, LeastNumber
<1>3. n \in Nat /\ ~\E f : Sums(f, s, n)
  BY <1>2 DEF T
<1>4. CASE n = 0
  <2> DEFINE f == [m \in 0 .. 0 |-> 0]
  <2>1. Sums(f, s, 0)
    BY DEF Sums
  <2> QED
    BY <1>3, <1>4, <2>1
<1>5. CASE n # 0
  <2>1. n - 1 \in Nat /\ n - 1 \notin T
    BY <1>2, <1>3, <1>5
  <2>2. PICK f : Sums(f, s, n - 1)
    BY <2>1 DEF T
  <2> DEFINE g == [m \in 0 .. n |-> IF m = 0 THEN 0 ELSE f[m - 1] + s[m].size]
  <2>3. \A m \in 0 .. n - 1 : g[m] = f[m]
    BY <1>3, <2>2 DEF Sums
  <2>4. \A m \in 0 .. n : m # 0 => m - 1 \in 0 .. n - 1
    BY <1>3
  <2>5. \A m \in 0 .. n : m # 0 => g[m - 1] = f[m - 1]
    BY <2>3, <2>4
  <2>6. g = [m \in 0 .. n |-> IF m = 0 THEN 0 ELSE g[m - 1] + s[m].size]
    BY <2>5
  <2>7. Sums(g, s, n)
    BY <2>6 DEF Sums
  <2> QED
    BY <1>3, <2>7
<1> QED
  BY <1>4, <1>5

(* What a sum of sizes computes.                                            *)
LEMMA SumSteps ==
  ASSUME NEW s, Len(s) \in Nat
  PROVE  /\ Sum(s)[0] = 0
         /\ \A n \in 1 .. Len(s) : Sum(s)[n] = Sum(s)[n - 1] + s[n].size
<1>1. \E f : Sums(f, s, Len(s))
  BY SumsExist
<1>2. Sums(Sum(s), s, Len(s))
  BY <1>1, Zenon DEF Sum
<1> HIDE DEF Sum
<1> QED
  BY <1>2 DEF Sums

(* Sums of sizes are numbers.                                               *)
LEMMA SumNat ==
  ASSUME NEW s \in Seq(Item)
  PROVE  \A n \in 0 .. Len(s) : Sum(s)[n] \in Nat
<1> DEFINE T == {n \in 0 .. Len(s) : Sum(s)[n] \notin Nat}
<1> SUFFICES ASSUME T # {} PROVE FALSE
  OBVIOUS
<1>1. T \in SUBSET Nat
  OBVIOUS
<1> HIDE DEF T
<1>2. PICK n \in T : \A m \in T : n <= m
  BY <1>1, LeastNumber
<1>3. n \in 0 .. Len(s) /\ Sum(s)[n] \notin Nat /\ Len(s) \in Nat
  BY <1>2 DEF T
<1>4. n # 0
  BY <1>3, SumSteps
<1>5. n - 1 \in 0 .. Len(s) /\ n - 1 \notin T /\ n \in 1 .. Len(s)
  BY <1>2, <1>3, <1>4
<1>6. Sum(s)[n - 1] \in Nat
  BY <1>5 DEF T
<1>7. s[n].size \in Nat
  BY <1>5, ItemTypes
<1>8. Sum(s)[n] = Sum(s)[n - 1] + s[n].size
  BY <1>3, <1>5, SumSteps
<1> QED
  BY <1>3, <1>6, <1>7, <1>8

(* r is s without its k-th item.                                            *)
Without(r, s, k) ==
  /\ Len(r) = Len(s) - 1
  /\ \A m \in 1 .. k - 1 : r[m] = s[m]
  /\ \A m \in k .. Len(r) : r[m] = s[m + 1]

(* Taking an item out never makes a bucket larger.                          *)
LEMMA FewerBytes ==
  ASSUME NEW r \in Seq(Item), NEW s \in Seq(Item), NEW k \in 1 .. Len(s), Without(r, s, k)
  PROVE  Bytes(r) <= Bytes(s) /\ Bytes(r) \in Nat /\ Bytes(s) \in Nat
<1> DEFINE le(n) == (n < k => Sum(r)[n] <= Sum(s)[n]) /\ (n >= k => Sum(r)[n] <= Sum(s)[n + 1])
           T == {n \in 0 .. Len(r) : ~le(n)}
<1>1. Len(r) \in Nat /\ Len(s) = Len(r) + 1 /\ Len(s) \in Nat
  BY DEF Without
<1>2. T = {}
  <2> SUFFICES ASSUME T # {} PROVE FALSE
    OBVIOUS
  <2>1. T \in SUBSET Nat
    OBVIOUS
  <2> HIDE DEF T
  <2>2. PICK n \in T : \A m \in T : n <= m
    BY <2>1, LeastNumber
  <2> USE DEF T
  <2>3. n \in 0 .. Len(r) /\ ~le(n)
    BY <2>2
  <2>4. /\ Sum(r)[n] \in Nat /\ Sum(s)[n] \in Nat /\ Sum(s)[n + 1] \in Nat
        /\ Sum(s)[n + 1] = Sum(s)[n] + s[n + 1].size /\ s[n + 1].size \in Nat
    <3>1. n + 1 \in 1 .. Len(s) /\ n \in 0 .. Len(s) /\ (n + 1) - 1 = n /\ n + 1 \in 0 .. Len(s)
      BY <1>1, <2>3
    <3>2. s[n + 1] \in Item
      BY <3>1, ElementOfSeq
    <3>3. Sum(s)[n + 1] = Sum(s)[(n + 1) - 1] + s[n + 1].size
      BY <1>1, <3>1, SumSteps
    <3> QED
      BY <2>3, <3>1, <3>2, <3>3, SumNat, ItemTypes
  <2>5. CASE n = 0
    BY <2>3, <2>4, <2>5, <1>1, SumSteps
  <2>6. CASE n # 0
    <3>1. n - 1 \in 0 .. Len(r) /\ n \in 1 .. Len(r) /\ n \in 1 .. Len(s)
      BY <1>1, <2>3, <2>6
    <3>2. le(n - 1)
      BY <2>2, <3>1
    <3>3. Sum(r)[n] = Sum(r)[n - 1] + r[n].size /\ Sum(s)[n] = Sum(s)[n - 1] + s[n].size
      BY <1>1, <3>1, SumSteps
    <3>4. Sum(r)[n - 1] \in Nat /\ Sum(s)[n - 1] \in Nat /\ r[n].size \in Nat /\ s[n].size \in Nat
      <4>1. n - 1 \in 0 .. Len(s) /\ r[n] \in Item /\ s[n] \in Item
        BY <1>1, <3>1, ElementOfSeq
      <4> QED
        BY <3>1, <4>1, SumNat, ItemTypes
    <3>5. CASE n < k
      <4>1. r[n].size = s[n].size
        BY <3>1, <3>5 DEF Without
      <4> QED
        <5>1. n - 1 < k
          BY <2>3, <3>5
        <5>2. Sum(r)[n - 1] <= Sum(s)[n - 1]
          BY <3>2, <5>1
        <5>3. Sum(r)[n] <= Sum(s)[n]
          BY <3>3, <3>4, <4>1, <5>2
        <5> QED
          BY <2>3, <3>5, <5>3
    <3>6. CASE n >= k
      <4>1. r[n].size = s[n + 1].size
        BY <3>1, <3>6 DEF Without
      <4>2. Sum(r)[n - 1] <= Sum(s)[n]
        <5>1. CASE n - 1 >= k
          BY <3>2, <5>1, <2>3
        <5>2. CASE n - 1 < k
          <6>1. Sum(r)[n - 1] <= Sum(s)[n - 1]
            BY <3>2, <5>2
          <6> QED
            BY <3>3, <3>4, <6>1
        <5> QED
          BY <5>1, <5>2, <2>3
      <4>3. Sum(r)[n] <= Sum(s)[n + 1]
        BY <2>4, <3>3, <3>4, <4>1, <4>2
      <4> QED
        BY <2>3, <3>6, <4>3
    <3> QED
      BY <2>3, <3>5, <3>6
  <2> QED
    BY <2>5, <2>6
<1>3. Len(r) \in 0 .. Len(r) /\ Len(r) \in 0 .. Len(s) /\ Len(s) \in 0 .. Len(s)
  BY <1>1
<1>4. le(Len(r))
  BY <1>2, <1>3
<1>5. Sum(r)[Len(r)] \in Nat /\ Sum(s)[Len(r)] \in Nat /\ Sum(s)[Len(s)] \in Nat
  BY <1>3, SumNat
<1>6. Sum(s)[Len(s)] = Sum(s)[Len(r)] + s[Len(s)].size /\ s[Len(s)].size \in Nat
  <2>1. Len(s) \in 1 .. Len(s) /\ Len(s) - 1 = Len(r)
    BY <1>1
  <2>2. s[Len(s)] \in Item
    BY <2>1, ElementOfSeq
  <2> QED
    BY <1>1, <2>1, <2>2, SumSteps, ItemTypes
<1>7. Sum(r)[Len(r)] <= Sum(s)[Len(s)]
  <2>1. CASE Len(r) < k
    BY <1>4, <1>5, <1>6, <2>1
  <2>2. CASE Len(r) >= k
    BY <1>1, <1>4, <2>2
  <2> QED
    BY <1>1, <2>1, <2>2
<1> QED
  BY <1>5, <1>7, BytesIsSum

-----------------------------------------------------------------------------
(* Taking an item out of the buckets, and putting one in.                   *)
Store == [Buckets -> Seq(Item)]

(* small is big without the k-th item of bucket i.                          *)
Taken(big, small, i, k) ==
  /\ big \in Store /\ small \in Store
  /\ i \in Buckets /\ k \in 1 .. Len(big[i])
  /\ \A j \in Buckets : j # i => small[j] = big[j]
  /\ Without(small[i], big[i], k)

(* Where an item of small is in big, and one of big in small.               *)
Up(i, k, j, m) == IF j = i /\ m >= k THEN m + 1 ELSE m
Down(i, k, j, m) == IF j = i /\ m > k THEN m - 1 ELSE m

(* What a bucket holds.                                                     *)
LEMMA StoreTypes ==
  ASSUME NEW b \in Store, NEW j \in Buckets
  PROVE  /\ b[j] \in Seq(Item) /\ Len(b[j]) \in Nat /\ DOMAIN b[j] = 1 .. Len(b[j])
         /\ \A m \in DOMAIN b[j] : b[j][m] \in Item
<1>1. b[j] \in Seq(Item)
  BY DEF Store
<1> QED
  BY <1>1

(* Each item of small is in big, not at the place of the one taken out.     *)
LEMMA TakenUp ==
  ASSUME NEW big, NEW small, NEW i, NEW k, Taken(big, small, i, k),
         NEW j \in Buckets, NEW m \in DOMAIN small[j]
  PROVE  /\ Up(i, k, j, m) \in DOMAIN big[j] /\ Up(i, k, j, m) \in Nat /\ m \in Nat
         /\ small[j][m] = big[j][Up(i, k, j, m)]
         /\ ~(j = i /\ Up(i, k, j, m) = k)
<1>1. /\ big \in Store /\ small \in Store /\ i \in Buckets /\ k \in 1 .. Len(big[i])
      /\ (j # i => small[j] = big[j]) /\ Without(small[i], big[i], k)
  BY DEF Taken
<1>2. /\ DOMAIN big[j] = 1 .. Len(big[j]) /\ DOMAIN small[j] = 1 .. Len(small[j])
      /\ Len(big[j]) \in Nat /\ Len(small[j]) \in Nat
  BY <1>1, StoreTypes
<1>3. CASE j # i
  BY <1>1, <1>2, <1>3 DEF Up
<1>4. CASE j = i /\ m >= k
  <2>1. small[j][m] = big[j][m + 1] /\ Len(small[j]) = Len(big[j]) - 1
    BY <1>1, <1>2, <1>4 DEF Without
  <2> QED
    BY <1>1, <1>2, <1>4, <2>1 DEF Up
<1>5. CASE j = i /\ m < k
  <2>1. small[j][m] = big[j][m] /\ Len(small[j]) = Len(big[j]) - 1
    BY <1>1, <1>2, <1>5 DEF Without
  <2> QED
    BY <1>1, <1>2, <1>5, <2>1 DEF Up
<1> QED
  BY <1>1, <1>2, <1>3, <1>4, <1>5

(* Each other item of big is in small.                                      *)
LEMMA TakenDown ==
  ASSUME NEW big, NEW small, NEW i, NEW k, Taken(big, small, i, k),
         NEW j \in Buckets, NEW m \in DOMAIN big[j], ~(j = i /\ m = k)
  PROVE  /\ Down(i, k, j, m) \in DOMAIN small[j]
         /\ big[j][m] = small[j][Down(i, k, j, m)]
         /\ Up(i, k, j, Down(i, k, j, m)) = m
<1>1. /\ big \in Store /\ small \in Store /\ i \in Buckets /\ k \in 1 .. Len(big[i])
      /\ (j # i => small[j] = big[j]) /\ Without(small[i], big[i], k)
  BY DEF Taken
<1>2. /\ DOMAIN big[j] = 1 .. Len(big[j]) /\ DOMAIN small[j] = 1 .. Len(small[j])
      /\ Len(big[j]) \in Nat /\ Len(small[j]) \in Nat
  BY <1>1, StoreTypes
<1>3. CASE j # i
  BY <1>1, <1>2, <1>3 DEF Up, Down
<1>4. CASE j = i /\ m > k
  <2>1. m - 1 \in k .. Len(small[i]) /\ Len(small[j]) = Len(big[j]) - 1
    BY <1>1, <1>2, <1>4 DEF Without
  <2>2. small[j][m - 1] = big[j][(m - 1) + 1]
    BY <1>1, <1>4, <2>1 DEF Without
  <2>3. (m - 1) + 1 = m /\ m \in Nat /\ m - 1 >= k
    BY <1>1, <1>2, <1>4
  <2> QED
    BY <1>1, <1>2, <1>4, <2>1, <2>2, <2>3 DEF Up, Down
<1>5. CASE j = i /\ m < k
  <2>1. small[j][m] = big[j][m] /\ Len(small[j]) = Len(big[j]) - 1
    BY <1>1, <1>2, <1>5 DEF Without
  <2> QED
    BY <1>1, <1>2, <1>5, <2>1 DEF Up, Down
<1> QED
  BY <1>1, <1>2, <1>3, <1>4, <1>5

(* The items are those of small and the one that is taken.                  *)
LEMMA TakenQueued ==
  ASSUME NEW big, NEW small, NEW i, NEW k, Taken(big, small, i, k)
  PROVE  Queued(big) = Queued(small) \union {big[i][k].id}
<1>1. big \in Store /\ small \in Store /\ i \in Buckets /\ k \in DOMAIN big[i]
  BY StoreTypes DEF Taken
<1>2. ASSUME NEW x \in Queued(big) PROVE x \in Queued(small) \union {big[i][k].id}
  <2>1. PICK j \in Buckets : x \in Ids(big[j])
    BY <1>2 DEF Queued
  <2>2. PICK m \in DOMAIN big[j] : x = big[j][m].id
    BY <2>1 DEF Ids
  <2>3. CASE j = i /\ m = k
    BY <2>2, <2>3
  <2>4. CASE ~(j = i /\ m = k)
    <3>1. Down(i, k, j, m) \in DOMAIN small[j] /\ big[j][m] = small[j][Down(i, k, j, m)]
      BY <2>4, TakenDown
    <3> HIDE DEF Down
    <3> QED
      BY <2>2, <3>1 DEF Queued, Ids
  <2> QED
    BY <2>3, <2>4
<1>3. ASSUME NEW x \in Queued(small) PROVE x \in Queued(big)
  <2>1. PICK j \in Buckets : x \in Ids(small[j])
    BY <1>3 DEF Queued
  <2>2. PICK m \in DOMAIN small[j] : x = small[j][m].id
    BY <2>1 DEF Ids
  <2>3. Up(i, k, j, m) \in DOMAIN big[j] /\ small[j][m] = big[j][Up(i, k, j, m)]
    BY TakenUp
  <2> QED
    BY <2>2, <2>3 DEF Queued, Ids
<1>4. big[i][k].id \in Queued(big)
  BY <1>1 DEF Queued, Ids
<1> QED
  BY <1>2, <1>3, <1>4

(* An item taken out was there once only, and the others still are.         *)
LEMMA TakenApart ==
  ASSUME NEW big, NEW small, NEW i, NEW k, Taken(big, small, i, k), OnceQueued(big)
  PROVE  OnceQueued(small) /\ big[i][k].id \notin Queued(small)
<1>1. i \in Buckets /\ k \in DOMAIN big[i]
  BY StoreTypes DEF Taken
<1>2. ASSUME NEW j \in Buckets, NEW l \in Buckets, NEW m \in DOMAIN small[j], NEW n \in DOMAIN small[l],
             small[j][m].id = small[l][n].id
      PROVE  j = l /\ m = n
  <2>1. /\ Up(i, k, j, m) \in DOMAIN big[j] /\ small[j][m] = big[j][Up(i, k, j, m)]
        /\ Up(i, k, l, n) \in DOMAIN big[l] /\ small[l][n] = big[l][Up(i, k, l, n)]
        /\ m \in Nat /\ n \in Nat
    BY TakenUp
  <2>2. j = l /\ Up(i, k, j, m) = Up(i, k, l, n)
    BY <1>2, <2>1 DEF OnceQueued
  <2>3. k \in Nat
    BY DEF Taken
  <2> QED
    BY <2>1, <2>2, <2>3 DEF Up
<1>3. ASSUME NEW j \in Buckets, NEW m \in DOMAIN small[j] PROVE small[j][m].id # big[i][k].id
  <2>1. /\ Up(i, k, j, m) \in DOMAIN big[j] /\ small[j][m] = big[j][Up(i, k, j, m)]
        /\ ~(j = i /\ Up(i, k, j, m) = k)
    BY TakenUp
  <2> QED
    BY <1>1, <2>1 DEF OnceQueued
<1> QED
  BY <1>2, <1>3 DEF OnceQueued, Queued, Ids

(* An item put in that was not there is there once.                         *)
LEMMA PutApart ==
  ASSUME NEW big, NEW small, NEW i, NEW k, Taken(big, small, i, k), OnceQueued(small),
         big[i][k].id \notin Queued(small)
  PROVE  OnceQueued(big)
<1>1. i \in Buckets /\ k \in DOMAIN big[i] /\ k \in Nat
  BY StoreTypes DEF Taken
<1>2. ASSUME NEW j \in Buckets, NEW m \in DOMAIN big[j], ~(j = i /\ m = k)
      PROVE  /\ Down(i, k, j, m) \in DOMAIN small[j] /\ big[j][m] = small[j][Down(i, k, j, m)]
             /\ big[j][m].id \in Queued(small) /\ big[j][m].id # big[i][k].id
             /\ Up(i, k, j, Down(i, k, j, m)) = m
  <2>1. /\ Down(i, k, j, m) \in DOMAIN small[j] /\ big[j][m] = small[j][Down(i, k, j, m)]
        /\ Up(i, k, j, Down(i, k, j, m)) = m
    BY <1>2, TakenDown
  <2>2. big[j][m].id \in Queued(small)
    BY <2>1 DEF Queued, Ids
  <2> QED
    BY <2>1, <2>2
<1>3. ASSUME NEW j \in Buckets, NEW l \in Buckets, NEW m \in DOMAIN big[j], NEW n \in DOMAIN big[l],
             big[j][m].id = big[l][n].id
      PROVE  j = l /\ m = n
  <2>1. CASE (j = i /\ m = k) \/ (l = i /\ n = k)
    BY <1>2, <1>3, <2>1
  <2>2. CASE ~(j = i /\ m = k) /\ ~(l = i /\ n = k)
    <3>1. j = l /\ Down(i, k, j, m) = Down(i, k, l, n)
      BY <1>2, <1>3, <2>2 DEF OnceQueued
    <3>2. Up(i, k, j, Down(i, k, j, m)) = m /\ Up(i, k, l, Down(i, k, l, n)) = n
      BY <1>2, <2>2
    <3> QED
      BY <3>1, <3>2
  <2> QED
    BY <2>1, <2>2
<1> QED
  BY <1>3 DEF OnceQueued

-----------------------------------------------------------------------------
(* The order of the items.                                                  *)
Ahead(i, k, j, m) == i < j \/ (i = j /\ k < m)

(* The order of places is kept by putting an item in ...                    *)
LEMMA UpAhead ==
  ASSUME NEW big, NEW small, NEW i, NEW k, Taken(big, small, i, k),
         NEW j \in Buckets, NEW l \in Buckets, NEW m \in DOMAIN small[j], NEW n \in DOMAIN small[l],
         Ahead(j, m, l, n)
  PROVE  Ahead(j, Up(i, k, j, m), l, Up(i, k, l, n))
<1>1. m \in Nat /\ n \in Nat
  BY TakenUp
<1>2. k \in Nat
  BY DEF Taken
<1> QED
  BY <1>1, <1>2 DEF Ahead, Up

(* ... and by taking one out.                                               *)
LEMMA DownAhead ==
  ASSUME NEW big, NEW small, NEW i, NEW k, Taken(big, small, i, k),
         NEW j \in Buckets, NEW l \in Buckets, NEW m \in DOMAIN big[j], NEW n \in DOMAIN big[l],
         ~(j = i /\ m = k), ~(l = i /\ n = k), Ahead(j, m, l, n)
  PROVE  Ahead(j, Down(i, k, j, m), l, Down(i, k, l, n))
<1>1. m \in Nat /\ n \in Nat /\ k \in Nat
  BY StoreTypes DEF Taken
<1> QED
  BY <1>1 DEF Ahead, Down

(* Two places are the same or one is ahead of the other.                    *)
LEMMA SomeAhead ==
  ASSUME NEW b \in Store, NEW i \in Buckets, NEW j \in Buckets, NEW k \in DOMAIN b[i], NEW m \in DOMAIN b[j]
  PROVE  Ahead(i, k, j, m) \/ Ahead(j, m, i, k) \/ (i = j /\ k = m)
<1>1. k \in Nat /\ m \in Nat /\ i \in Int /\ j \in Int
  BY StoreTypes, WorkFifoConstants DEF Buckets
<1> QED
  BY <1>1 DEF Ahead

(* What an append to a sequence is, place by place.                         *)
LEMMA AppendTypes ==
  ASSUME NEW s \in Seq(Item), NEW x \in Item
  PROVE  /\ Append(s, x) \in Seq(Item) /\ Len(s) \in Nat
         /\ DOMAIN s = 1 .. Len(s) /\ DOMAIN Append(s, x) = 1 .. Len(s) + 1
         /\ \A n \in 1 .. Len(s) : Append(s, x)[n] = s[n]
         /\ Append(s, x)[Len(s) + 1] = x
OBVIOUS

(* The first of its class may be dispatched next.                           *)
LEMMA TakenInOrder ==
  ASSUME NEW big, NEW small, NEW i, NEW k, Taken(big, small, i, k), NEW s \in Seq(Item),
         InOrder(s, big),
         \A j \in Buckets : \A m \in DOMAIN big[j] :
           Ahead(j, m, i, k) => ~(Interactive(big[j][m]) <=> Interactive(big[i][k]))
  PROVE  InOrder(Append(s, big[i][k]), small)
<1> DEFINE x == big[i][k]
           t == Append(s, x)
<1>1. /\ big \in Store /\ small \in Store /\ i \in Buckets /\ k \in DOMAIN big[i] /\ x \in Item
  BY StoreTypes DEF Taken
<1>2. /\ t \in Seq(Item) /\ Len(s) \in Nat
      /\ DOMAIN s = 1 .. Len(s) /\ DOMAIN t = 1 .. Len(s) + 1
      /\ \A n \in 1 .. Len(s) : t[n] = s[n]
      /\ t[Len(s) + 1] = x
  BY <1>1, AppendTypes
<1> HIDE DEF t
<1>3. \A m, n \in DOMAIN t : m < n => InTurn(t[m], t[n])
  <2> SUFFICES ASSUME NEW m \in DOMAIN t, NEW n \in DOMAIN t, m < n PROVE InTurn(t[m], t[n])
    OBVIOUS
  <2>1. m \in DOMAIN s /\ t[m] = s[m]
    BY <1>2
  <2>2. CASE n \in DOMAIN s
    BY <1>2, <2>1, <2>2 DEF InOrder
  <2>3. CASE n = Len(s) + 1
    BY <1>1, <1>2, <2>1, <2>3 DEF InOrder
  <2> QED
    BY <1>2, <2>2, <2>3
<1>4. ASSUME NEW j \in Buckets, NEW m \in DOMAIN small[j]
      PROVE  /\ Up(i, k, j, m) \in DOMAIN big[j] /\ small[j][m] = big[j][Up(i, k, j, m)]
             /\ ~(j = i /\ Up(i, k, j, m) = k)
  BY TakenUp
<1>5. ASSUME NEW n \in DOMAIN t, NEW j \in Buckets, NEW m \in DOMAIN small[j]
      PROVE  InTurn(t[n], small[j][m])
  <2>1. PICK u \in DOMAIN big[j] : small[j][m] = big[j][u] /\ ~(j = i /\ u = k)
    BY <1>4
  <2>2. CASE n \in DOMAIN s
    BY <1>2, <2>1, <2>2 DEF InOrder
  <2>3. CASE n = Len(s) + 1
    <3>1. CASE Ahead(j, u, i, k)
      BY <1>2, <2>1, <2>3, <3>1 DEF InTurn
    <3>2. CASE Ahead(i, k, j, u)
      BY <1>1, <1>2, <2>1, <2>3, <3>2 DEF InOrder, Ahead
    <3> QED
      BY <1>1, <2>1, <3>1, <3>2, SomeAhead
  <2> QED
    BY <1>2, <2>2, <2>3
<1>6. ASSUME NEW j \in Buckets, NEW l \in Buckets, NEW m \in DOMAIN small[j], NEW n \in DOMAIN small[l],
             j < l \/ (j = l /\ m < n)
      PROVE  InTurn(small[j][m], small[l][n])
  <2>1. Ahead(j, Up(i, k, j, m), l, Up(i, k, l, n))
    BY <1>6, UpAhead DEF Ahead
  <2> HIDE DEF Up
  <2> QED
    BY <1>4, <2>1 DEF InOrder, Ahead
<1>7. InOrder(t, small)
  BY <1>3, <1>5, <1>6 DEF InOrder
<1> QED
  BY <1>7 DEF t

(* An item that arrived after all others may be put at the end.             *)
LEMMA LastInOrder ==
  ASSUME NEW big, NEW small, NEW i, NEW k, Taken(big, small, i, k), NEW s \in Seq(Item),
         InOrder(s, small),
         \A n \in DOMAIN s : s[n].id < big[i][k].id,
         \A j \in Buckets : \A m \in DOMAIN big[j] :
           ~(j = i /\ m = k) => Ahead(j, m, i, k) /\ big[j][m].id < big[i][k].id
  PROVE  InOrder(s, big)
<1>1. /\ big \in Store /\ small \in Store /\ i \in Buckets /\ k \in DOMAIN big[i]
  BY StoreTypes DEF Taken
<1>2. ASSUME NEW j \in Buckets, NEW m \in DOMAIN big[j], ~(j = i /\ m = k)
      PROVE  Down(i, k, j, m) \in DOMAIN small[j] /\ big[j][m] = small[j][Down(i, k, j, m)]
  BY <1>2, TakenDown
<1>3. \A n \in DOMAIN s, j \in Buckets : \A m \in DOMAIN big[j] : InTurn(s[n], big[j][m])
  <2> SUFFICES ASSUME NEW n \in DOMAIN s, NEW j \in Buckets, NEW m \in DOMAIN big[j]
               PROVE  InTurn(s[n], big[j][m])
    OBVIOUS
  <2>1. CASE j = i /\ m = k
    BY <2>1 DEF InTurn
  <2>2. CASE ~(j = i /\ m = k)
    BY <1>2, <2>2 DEF InOrder
  <2> QED
    BY <2>1, <2>2
<1>4. ASSUME NEW j \in Buckets, NEW l \in Buckets, NEW m \in DOMAIN big[j], NEW n \in DOMAIN big[l],
             j < l \/ (j = l /\ m < n)
      PROVE  InTurn(big[j][m], big[l][n])
  <2>1. ~(j = i /\ m = k)
    <3>1. m \in Nat /\ n \in Nat /\ k \in Nat
      BY <1>1, StoreTypes
    <3>2. j \in Int /\ l \in Int /\ i \in Int
      BY <1>1, WorkFifoConstants DEF Buckets
    <3> QED
      BY <1>4, <3>1, <3>2 DEF Ahead
  <2>2. CASE l = i /\ n = k
    BY <2>1, <2>2 DEF InTurn
  <2>3. CASE ~(l = i /\ n = k)
    <3>1. Ahead(j, Down(i, k, j, m), l, Down(i, k, l, n))
      BY <1>4, <2>1, <2>3, DownAhead DEF Ahead
    <3> HIDE DEF Down
    <3> QED
      BY <1>2, <2>1, <2>3, <3>1 DEF InOrder, Ahead
  <2> QED
    BY <2>2, <2>3
<1> QED
  BY <1>3, <1>4 DEF InOrder

(* An item that would be dispatched next may be put at the head.            *)
LEMMA HeadInOrder ==
  ASSUME NEW big, NEW small, NEW i, NEW k, Taken(big, small, i, k), NEW s \in Seq(Item),
         InOrder(Append(s, big[i][k]), small),
         \A j \in Buckets : \A m \in DOMAIN big[j] : ~(j = i /\ m = k) => Ahead(i, k, j, m)
  PROVE  InOrder(s, big)
<1> DEFINE x == big[i][k]
           t == Append(s, x)
<1>1. /\ big \in Store /\ small \in Store /\ i \in Buckets /\ k \in DOMAIN big[i] /\ x \in Item
  BY StoreTypes DEF Taken
<1>2. /\ t \in Seq(Item) /\ Len(s) \in Nat
      /\ DOMAIN s = 1 .. Len(s) /\ DOMAIN t = 1 .. Len(s) + 1
      /\ \A n \in 1 .. Len(s) : t[n] = s[n]
      /\ t[Len(s) + 1] = x
  BY <1>1, AppendTypes
<1>3. InOrder(t, small)
  OBVIOUS
<1> HIDE DEF t, x
<1>4. ASSUME NEW j \in Buckets, NEW m \in DOMAIN big[j], ~(j = i /\ m = k)
      PROVE  Down(i, k, j, m) \in DOMAIN small[j] /\ big[j][m] = small[j][Down(i, k, j, m)]
  BY <1>4, TakenDown
<1>5. \A m, n \in DOMAIN s : m < n => InTurn(s[m], s[n])
  BY <1>2, <1>3 DEF InOrder
<1>6. \A n \in DOMAIN s : InTurn(s[n], x)
  BY <1>2, <1>3 DEF InOrder
<1>7. ASSUME NEW n \in DOMAIN s, NEW j \in Buckets, NEW m \in DOMAIN big[j]
      PROVE  InTurn(s[n], big[j][m])
  <2>1. CASE j = i /\ m = k
    BY <1>6, <2>1 DEF x
  <2>2. CASE ~(j = i /\ m = k)
    <3>1. InTurn(t[n], big[j][m]) /\ t[n] = s[n]
      BY <1>2, <1>3, <1>4, <2>2 DEF InOrder
    <3> QED
      BY <3>1
  <2> QED
    BY <2>1, <2>2
<1>8. ASSUME NEW j \in Buckets, NEW m \in DOMAIN big[j], ~(j = i /\ m = k)
      PROVE  InTurn(x, big[j][m])
  <2>1. Len(s) + 1 \in DOMAIN t
    BY <1>2
  <2> QED
    BY <1>2, <1>3, <1>4, <1>8, <2>1 DEF InOrder
<1>9. ASSUME NEW j \in Buckets, NEW l \in Buckets, NEW m \in DOMAIN big[j], NEW n \in DOMAIN big[l],
             j < l \/ (j = l /\ m < n)
      PROVE  InTurn(big[j][m], big[l][n])
  <2>1. ~(l = i /\ n = k)
    <3>1. m \in Nat /\ n \in Nat /\ k \in Nat
      BY <1>1, StoreTypes
    <3>2. j \in Int /\ l \in Int /\ i \in Int
      BY <1>1, WorkFifoConstants DEF Buckets
    <3> QED
      BY <1>9, <3>1, <3>2 DEF Ahead
  <2>2. CASE j = i /\ m = k
    BY <1>8, <2>1, <2>2 DEF x
  <2>3. CASE ~(j = i /\ m = k)
    <3>1. Ahead(j, Down(i, k, j, m), l, Down(i, k, l, n))
      BY <1>9, <2>1, <2>3, DownAhead DEF Ahead
    <3> HIDE DEF Down
    <3> QED
      BY <1>3, <1>4, <2>1, <2>3, <3>1 DEF InOrder, Ahead
  <2> QED
    BY <2>2, <2>3
<1> QED
  BY <1>5, <1>7, <1>9 DEF InOrder

-----------------------------------------------------------------------------
(* What holds of the items between two steps, and in the middle of one: s   *)
(* are the items dispatched, b the buckets, d the ids dropped.              *)
Placed(s, b, d, all) ==
  /\ Queued(b) \union Ids(s) \union d = all
  /\ OnceQueued(b) /\ OnceIn(s)
  /\ Queued(b) \intersect Ids(s) = {}
  /\ (Queued(b) \union Ids(s)) \intersect d = {}

(* The buckets as TypeOK has them.                                          *)
Stored(b) == b \in Store /\ \A i \in Buckets : Bytes(b[i]) > BucketBytes => Len(b[i]) = 1

(* An item dispatched adds its id,                                          *)
LEMMA AppendIds ==
  ASSUME NEW s \in Seq(Item), NEW x \in Item
  PROVE  Ids(Append(s, x)) = Ids(s) \union {x.id}
<1> DEFINE t == Append(s, x)
<1>1. /\ t \in Seq(Item) /\ Len(s) \in Nat
      /\ DOMAIN s = 1 .. Len(s) /\ DOMAIN t = 1 .. Len(s) + 1
      /\ \A n \in 1 .. Len(s) : t[n] = s[n]
      /\ t[Len(s) + 1] = x
  BY AppendTypes
<1> HIDE DEF t
<1>2. Ids(t) = Ids(s) \union {x.id}
  BY <1>1 DEF Ids
<1> QED
  BY <1>2 DEF t

(* and is there once exactly if it was not there before.                    *)
LEMMA AppendOnce ==
  ASSUME NEW s \in Seq(Item), NEW x \in Item
  PROVE  OnceIn(Append(s, x)) <=> OnceIn(s) /\ x.id \notin Ids(s)
<1> DEFINE t == Append(s, x)
<1>1. /\ t \in Seq(Item) /\ Len(s) \in Nat
      /\ DOMAIN s = 1 .. Len(s) /\ DOMAIN t = 1 .. Len(s) + 1
      /\ \A n \in 1 .. Len(s) : t[n] = s[n]
      /\ t[Len(s) + 1] = x
  BY AppendTypes
<1> HIDE DEF t
<1>2. ASSUME OnceIn(t) PROVE OnceIn(s) /\ x.id \notin Ids(s)
  <2>1. \A i, j \in DOMAIN s : s[i].id = s[j].id => i = j
    BY <1>1, <1>2 DEF OnceIn
  <2>2. \A i \in DOMAIN s : s[i].id # x.id
    <3> SUFFICES ASSUME NEW i \in DOMAIN s, s[i].id = x.id PROVE FALSE
      OBVIOUS
    <3>1. i \in DOMAIN t /\ Len(s) + 1 \in DOMAIN t /\ t[i].id = t[Len(s) + 1].id /\ i # Len(s) + 1
      BY <1>1
    <3> QED
      BY <1>2, <3>1 DEF OnceIn
  <2> QED
    BY <2>1, <2>2 DEF OnceIn, Ids
<1>3. ASSUME OnceIn(s), x.id \notin Ids(s) PROVE OnceIn(t)
  <2>1. \A i \in DOMAIN s : s[i].id # x.id
    BY <1>3 DEF Ids
  <2> SUFFICES ASSUME NEW i \in DOMAIN t, NEW j \in DOMAIN t, t[i].id = t[j].id PROVE i = j
    BY DEF OnceIn
  <2>2. CASE i \in DOMAIN s /\ j \in DOMAIN s
    BY <1>1, <1>3, <2>2 DEF OnceIn
  <2>3. CASE i \notin DOMAIN s \/ j \notin DOMAIN s
    BY <1>1, <2>1, <2>3
  <2> QED
    BY <2>2, <2>3
<1> QED
  BY <1>2, <1>3 DEF t

(* Dispatching an item that is taken out.                                   *)
LEMMA TakePlaced ==
  ASSUME NEW big, NEW small, NEW i, NEW k, Taken(big, small, i, k), NEW s \in Seq(Item), NEW d, NEW all,
         Placed(s, big, d, all)
  PROVE  Placed(Append(s, big[i][k]), small, d, all)
<1> DEFINE x == big[i][k]
<1>1. x \in Item
  BY StoreTypes DEF Taken
<1>2. Queued(big) = Queued(small) \union {x.id}
  BY TakenQueued
<1>3. OnceQueued(small) /\ x.id \notin Queued(small)
  BY TakenApart DEF Placed
<1> HIDE DEF x
<1>4. Ids(Append(s, x)) = Ids(s) \union {x.id}
  BY <1>1, AppendIds
<1>5. OnceIn(Append(s, x))
  BY <1>1, <1>2, AppendOnce DEF Placed
<1>6. Placed(Append(s, x), small, d, all)
  BY <1>2, <1>3, <1>4, <1>5 DEF Placed
<1> QED
  BY <1>6 DEF x

(* Putting an item in that is nowhere else.                                 *)
LEMMA PutPlaced ==
  ASSUME NEW big, NEW small, NEW i, NEW k, Taken(big, small, i, k), NEW s, NEW d, NEW all,
         Placed(s, small, d, all), big[i][k].id \notin all
  PROVE  Placed(s, big, d, all \union {big[i][k].id})
<1>1. Queued(big) = Queued(small) \union {big[i][k].id}
  BY TakenQueued
<1>2. OnceQueued(big)
  BY PutApart DEF Placed
<1> QED
  BY <1>1, <1>2 DEF Placed

(* The last item dispatched is taken back.                                  *)
LEMMA Untaken ==
  ASSUME NEW s \in Seq(Item), NEW x \in Item, NEW b, NEW d, NEW all, Placed(Append(s, x), b, d, all)
  PROVE  Placed(s, b, d, all \ {x.id}) /\ x.id \in all
<1>1. Ids(Append(s, x)) = Ids(s) \union {x.id}
  BY AppendIds
<1>2. OnceIn(s) /\ x.id \notin Ids(s)
  BY AppendOnce DEF Placed
<1> QED
  BY <1>1, <1>2 DEF Placed

(* An empty bucket has no size.                                             *)
LEMMA EmptyBytes == Bytes(<<>>) = 0
<1>1. Len(<<>>) = 0
  OBVIOUS
<1>2. Sum(<<>>)[0] = 0
  BY <1>1, SumSteps
<1> QED
  BY <1>1, <1>2, BytesIsSum

(* A bucket an item is taken out of is still one TypeOK allows: above the   *)
(* limit it held one item, and is now empty.                                *)
LEMMA TakeStored ==
  ASSUME NEW big, NEW small, NEW i, NEW k, Taken(big, small, i, k), Stored(big)
  PROVE  Stored(small)
<1>1. /\ big \in Store /\ small \in Store /\ i \in Buckets /\ k \in 1 .. Len(big[i])
      /\ \A j \in Buckets : j # i => small[j] = big[j]
      /\ Without(small[i], big[i], k)
  BY DEF Taken
<1>2. small[i] \in Seq(Item) /\ big[i] \in Seq(Item)
  BY <1>1, StoreTypes
<1>3. Bytes(small[i]) <= Bytes(big[i]) /\ Bytes(small[i]) \in Nat /\ Bytes(big[i]) \in Nat
  BY <1>1, <1>2, FewerBytes
<1>4. ASSUME Bytes(small[i]) > BucketBytes PROVE FALSE
  <2>1. Len(big[i]) = 1
    BY <1>1, <1>3, <1>4, WorkFifoConstants DEF Stored
  <2>2. Len(small[i]) = 0
    BY <1>1, <2>1 DEF Without
  <2>3. small[i] = <<>>
    BY <1>2, <2>2
  <2> QED
    BY <1>4, <2>3, EmptyBytes, WorkFifoConstants
<1> QED
  BY <1>1, <1>4 DEF Stored

-----------------------------------------------------------------------------
(* The first and the last bucket in use.                                    *)
LEMMA FirstBucketIs ==
  ASSUME NEW b \in Store
  PROVE  /\ FirstBucket(b) \in Buckets
         /\ Occupied(b) # {} => b[FirstBucket(b)] # <<>>
         /\ \A j \in Buckets : b[j] # <<>> => FirstBucket(b) <= j
<1>1. CASE Occupied(b) = {}
  BY <1>1, WorkFifoConstants DEF FirstBucket, Occupied, Buckets
<1>2. CASE Occupied(b) # {}
  <2>1. Occupied(b) \in SUBSET Nat
    BY WorkFifoConstants DEF Occupied, Buckets
  <2>2. \E i \in Occupied(b) : \A j \in Occupied(b) : i <= j
    BY <1>2, <2>1, LeastNumber
  <2>3. FirstBucket(b) \in Occupied(b) /\ \A j \in Occupied(b) : FirstBucket(b) <= j
    BY <1>2, <2>2, Zenon DEF FirstBucket
  <2> QED
    BY <2>3 DEF Occupied
<1> QED
  BY <1>1, <1>2

(* The last bucket in use, which an append looks at.                        *)
LEMMA LastBucketIs ==
  ASSUME NEW b \in Store
  PROVE  /\ LastBucket(b) \in Buckets
         /\ \A j \in Buckets : b[j] # <<>> => LastBucket(b) >= j
<1>1. CASE Occupied(b) = {}
  BY <1>1, WorkFifoConstants DEF LastBucket, Occupied, Buckets
<1>2. CASE Occupied(b) # {}
  <2>1. Occupied(b) \in SUBSET Buckets
    BY DEF Occupied
  <2>2. \E i \in Occupied(b) : \A j \in Occupied(b) : i >= j
    BY <1>2, <2>1, GreatestBucket
  <2>3. LastBucket(b) \in Occupied(b) /\ \A j \in Occupied(b) : LastBucket(b) >= j
    BY <1>2, <2>2, Zenon DEF LastBucket
  <2> QED
    BY <2>3 DEF Occupied
<1> QED
  BY <1>1, <1>2

(* The head of the buckets is taken out.                                    *)
LEMMA PopTakes ==
  ASSUME NEW b \in Store, Occupied(b) # {}
  PROVE  LET i == FirstBucket(b)
             p == popFifoItem(b)
         IN  /\ Taken(b, p.b, i, 1) /\ p.item = b[i][1] /\ p.item \in Item /\ p.b \in Store
             /\ \A j \in Buckets : \A m \in DOMAIN b[j] : ~Ahead(j, m, i, 1)
<1> DEFINE i == FirstBucket(b)
           p == popFifoItem(b)
<1>1. /\ i \in Buckets /\ b[i] # <<>>
      /\ \A j \in Buckets : b[j] # <<>> => i <= j
  BY FirstBucketIs
<1>2. p.item = Head(b[i]) /\ p.b = [b EXCEPT ![i] = Tail(@)]
  BY DEF popFifoItem
<1> HIDE DEF i, p
<1>3. b[i] \in Seq(Item)
  BY <1>1, StoreTypes
<1>4. p.item = b[i][1] /\ p.item \in Item /\ 1 \in 1 .. Len(b[i]) /\ Tail(b[i]) \in Seq(Item)
  BY <1>1, <1>2, <1>3
<1>5. Without(Tail(b[i]), b[i], 1)
  BY <1>1, <1>3 DEF Without
<1>6. p.b \in Store /\ p.b[i] = Tail(b[i]) /\ \A j \in Buckets : j # i => p.b[j] = b[j]
  BY <1>1, <1>2, <1>4 DEF Store
<1>7. Taken(b, p.b, i, 1)
  BY <1>1, <1>4, <1>5, <1>6 DEF Taken
<1>8. ASSUME NEW j \in Buckets, NEW m \in DOMAIN b[j] PROVE ~Ahead(j, m, i, 1)
  <2>1. b[j] # <<>> /\ m \in Nat /\ m >= 1
    BY StoreTypes
  <2>2. i <= j /\ i \in Int /\ j \in Int
    BY <1>1, <2>1, WorkFifoConstants DEF Buckets
  <2> QED
    BY <2>1, <2>2 DEF Ahead
<1> QED
  BY <1>4, <1>6, <1>7, <1>8 DEF i, p

(* What RemoveAt removes.                                                   *)
LEMMA RemoveAtWithout ==
  ASSUME NEW s \in Seq(Item), NEW k \in 1 .. Len(s)
  PROVE  RemoveAt(s, k) \in Seq(Item) /\ Without(RemoveAt(s, k), s, k)
<1> DEFINE u == SubSeq(s, 1, k - 1)
           v == SubSeq(s, k + 1, Len(s))
<1>1. Len(s) \in Nat /\ k \in Nat /\ k - 1 \in Nat
  OBVIOUS
<1>2. /\ u \in Seq(Item) /\ Len(u) = k - 1
      /\ \A m \in 1 .. k - 1 : u[m] = s[m]
  <2>1. \A m \in 1 .. k - 1 : m \in 1 .. Len(s)
    BY <1>1
  <2> QED
    BY <1>1, <2>1
<1>3. /\ v \in Seq(Item) /\ Len(v) = Len(s) - k
      /\ \A m \in 1 .. Len(s) - k : v[m] = s[k + m]
  <2>1. \A m \in k + 1 .. Len(s) : m \in 1 .. Len(s)
    BY <1>1
  <2> QED
    BY <1>1, <2>1
<1>4. RemoveAt(s, k) = u \o v
  BY DEF RemoveAt
<1> HIDE DEF u, v
<1>5. /\ u \o v \in Seq(Item) /\ Len(u \o v) = Len(s) - 1
      /\ \A m \in 1 .. k - 1 : (u \o v)[m] = s[m]
      /\ \A m \in k .. Len(s) - 1 : (u \o v)[m] = s[m + 1]
  <2>1. u \o v \in Seq(Item) /\ Len(u \o v) = Len(s) - 1
    <3>1. u \in Seq(Item) /\ v \in Seq(Item)
      BY <1>2, <1>3
    <3>2. u \o v \in Seq(Item) /\ Len(u \o v) = Len(u) + Len(v)
      BY <3>1
    <3> QED
      BY <1>1, <1>2, <1>3, <3>2
  <2>2. ASSUME NEW m \in 1 .. k - 1 PROVE (u \o v)[m] = s[m]
    BY <1>1, <1>2, <1>3
  <2>3. ASSUME NEW m \in k .. Len(s) - 1 PROVE (u \o v)[m] = s[m + 1]
    <3>1. m - (k - 1) \in 1 .. Len(s) - k /\ k + (m - (k - 1)) = m + 1
      BY <1>1
    <3>2. (u \o v)[m] = v[m - (k - 1)]
      BY <1>1, <1>2, <1>3, <3>1
    <3> QED
      BY <1>3, <3>1, <3>2
  <2> QED
    BY <2>1, <2>2, <2>3
<1> QED
  BY <1>4, <1>5 DEF Without

(* The first interactive item is taken out.                                 *)
LEMMA InteractiveTaken ==
  ASSUME NEW b \in Store, \E i \in Buckets : \E k \in DOMAIN b[i] : Interactive(b[i][k])
  PROVE  \E i \in Buckets : \E k \in DOMAIN b[i] :
           /\ popFirstInteractive(b).item = b[i][k]
           /\ Taken(b, popFirstInteractive(b).b, i, k)
           /\ Interactive(b[i][k])
           /\ \A j \in Buckets : \A m \in DOMAIN b[j] : Ahead(j, m, i, k) => ~Interactive(b[j][m])
<1> DEFINE has(j) == \E k \in DOMAIN b[j] : Interactive(b[j][k])
           B == {j \in Buckets : has(j)}
           i == CHOOSE j \in Buckets : has(j) /\ \A l \in 0 .. j - 1 : ~has(l)
           K == {m \in DOMAIN b[i] : Interactive(b[i][m])}
           k == CHOOSE m \in DOMAIN b[i] : Interactive(b[i][m]) /\ \A n \in 1 .. m - 1 : ~Interactive(b[i][n])
<1>1. Buckets \subseteq Nat /\ \A j \in Buckets : \A l \in 0 .. j - 1 : l \in Buckets
  BY WorkFifoConstants DEF Buckets
<1>2. i \in Buckets /\ has(i) /\ \A l \in 0 .. i - 1 : ~has(l)
  <2>1. B \in SUBSET Nat /\ B # {}
    BY <1>1
  <2> HIDE DEF B
  <2>2. PICK n \in B : \A m \in B : n <= m
    BY <2>1, LeastNumber
  <2> USE DEF B
  <2>3. n \in Buckets /\ has(n) /\ \A l \in Buckets : has(l) => n <= l
    BY <2>2
  <2>4. \A l \in 0 .. n - 1 : ~has(l)
    <3> HIDE DEF has
    <3> QED
      BY <1>1, <2>3
  <2> HIDE DEF has, B
  <2> QED
    BY <2>3, <2>4, Zenon
<1> HIDE DEF i, has
<1>3. b[i] \in Seq(Item) /\ DOMAIN b[i] = 1 .. Len(b[i]) /\ Len(b[i]) \in Nat
  BY <1>2, StoreTypes
<1>4. k \in DOMAIN b[i] /\ Interactive(b[i][k]) /\ \A n \in 1 .. k - 1 : ~Interactive(b[i][n])
  <2>1. K \in SUBSET Nat /\ K # {}
    BY <1>2, <1>3 DEF has
  <2> HIDE DEF K
  <2>2. PICK m \in K : \A n \in K : m <= n
    BY <2>1, LeastNumber
  <2>3. m \in DOMAIN b[i] /\ Interactive(b[i][m]) /\ \A n \in DOMAIN b[i] : Interactive(b[i][n]) => m <= n
    BY <2>2 DEF K
  <2>4. \A n \in 1 .. m - 1 : ~Interactive(b[i][n])
    BY <1>3, <2>3
  <2> QED
    BY <2>3, <2>4, Zenon
<1>5. popFirstInteractive(b) = [item |-> b[i][k], b |-> [b EXCEPT ![i] = RemoveAt(@, k)]]
  BY Zenon DEF popFirstInteractive, i, k, has
<1> HIDE DEF k
<1> DEFINE small == [b EXCEPT ![i] = RemoveAt(@, k)]
<1>6. RemoveAt(b[i], k) \in Seq(Item) /\ Without(RemoveAt(b[i], k), b[i], k)
  BY <1>3, <1>4, RemoveAtWithout
<1>7. small \in Store /\ small[i] = RemoveAt(b[i], k) /\ \A j \in Buckets : j # i => small[j] = b[j]
  BY <1>2, <1>6 DEF Store
<1> HIDE DEF small
<1>8. Taken(b, small, i, k)
  BY <1>2, <1>3, <1>4, <1>6, <1>7 DEF Taken
<1>9. ASSUME NEW j \in Buckets, NEW m \in DOMAIN b[j], Ahead(j, m, i, k) PROVE ~Interactive(b[j][m])
  <2>1. m \in Nat /\ m >= 1 /\ k \in Nat
    BY <1>3, <1>4, StoreTypes
  <2>2. CASE j < i
    <3>1. j \in 0 .. i - 1
      BY <1>1, <1>2, <2>2
    <3> QED
      BY <1>2, <3>1 DEF has
  <2>3. CASE j = i /\ m < k
    <3>1. m \in 1 .. k - 1
      BY <2>1, <2>3
    <3> QED
      BY <1>4, <2>3, <3>1
  <2> QED
    BY <1>9, <2>2, <2>3 DEF Ahead
<1>10. popFirstInteractive(b).item = b[i][k] /\ popFirstInteractive(b).b = small
  BY <1>5 DEF small
<1> QED
  BY <1>2, <1>4, <1>8, <1>9, <1>10

(* What is dispatched next is the first of its class.                       *)
LEMMA NextTaken ==
  ASSUME NEW b \in Store, Occupied(b) # {}
  PROVE  \E i \in Buckets : \E k \in DOMAIN b[i] :
           /\ popNextDispatchFifoItem(b).item = b[i][k]
           /\ Taken(b, popNextDispatchFifoItem(b).b, i, k)
           /\ \A j \in Buckets : \A m \in DOMAIN b[j] :
                Ahead(j, m, i, k) => ~(Interactive(b[j][m]) <=> Interactive(b[i][k]))
<1>1. CASE \E i \in Buckets : \E k \in DOMAIN b[i] : Interactive(b[i][k])
  <2>1. popNextDispatchFifoItem(b) = popFirstInteractive(b)
    BY <1>1 DEF popNextDispatchFifoItem
  <2> QED
    BY <1>1, <2>1, InteractiveTaken
<1>2. CASE ~\E i \in Buckets : \E k \in DOMAIN b[i] : Interactive(b[i][k])
  <2>1. popNextDispatchFifoItem(b) = popFifoItem(b)
    BY <1>2 DEF popNextDispatchFifoItem
  <2>2. PICK i : i = FirstBucket(b)
    OBVIOUS
  <2>3. /\ Taken(b, popFifoItem(b).b, i, 1) /\ popFifoItem(b).item = b[i][1]
        /\ \A j \in Buckets : \A m \in DOMAIN b[j] : ~Ahead(j, m, i, 1)
    BY <2>2, PopTakes
  <2>4. i \in Buckets /\ 1 \in DOMAIN b[i]
    BY <2>3, StoreTypes DEF Taken
  <2> QED
    BY <2>1, <2>3, <2>4
<1> QED
  BY <1>1, <1>2

-----------------------------------------------------------------------------
(* appendToFifo.                                                            *)
Accumulator == [b : Store, left : Seq(Item)]

(* What an append makes of its accumulator a: s, d and all are the items    *)
(* dispatched, the ids dropped before and all ids.                          *)
Holds(a, s, d, all) ==
  /\ a \in Accumulator /\ Stored(a.b)
  /\ Placed(s, a.b, d \union Ids(a.left), all)

(* Nothing left out, no ids.                                                *)
LEMMA EmptyIds == Ids(<<>>) = {}
BY DEF Ids

(* An item appended to the last bucket in use, or to the one behind it, is  *)
(* behind all others.                                                       *)
LEMMA AddedLast ==
  ASSUME NEW b \in Store, NEW x \in Item, NEW w \in Buckets, NEW c \in Store,
         c[w] = Append(b[w], x), \A j \in Buckets : j # w => c[j] = b[j],
         \A j \in Buckets : b[j] # <<>> => j <= w
  PROVE  /\ Taken(c, b, w, Len(b[w]) + 1) /\ c[w][Len(b[w]) + 1] = x
         /\ \A j \in Buckets : \A m \in DOMAIN c[j] :
              ~(j = w /\ m = Len(b[w]) + 1) => Ahead(j, m, w, Len(b[w]) + 1)
<1>1. b[w] \in Seq(Item) /\ c[w] = Append(b[w], x) /\ \A j \in Buckets : j # w => c[j] = b[j]
  BY StoreTypes
<1>2. /\ Len(b[w]) \in Nat /\ DOMAIN c[w] = 1 .. Len(b[w]) + 1 /\ Len(c[w]) = Len(b[w]) + 1
      /\ c[w][Len(b[w]) + 1] = x
      /\ \A n \in 1 .. Len(b[w]) : c[w][n] = b[w][n]
  BY <1>1
<1>3. Without(b[w], c[w], Len(b[w]) + 1)
  BY <1>2 DEF Without
<1>4. Taken(c, b, w, Len(b[w]) + 1)
  BY <1>1, <1>2, <1>3 DEF Taken
<1>5. ASSUME NEW j \in Buckets, NEW m \in DOMAIN c[j], ~(j = w /\ m = Len(b[w]) + 1)
      PROVE  Ahead(j, m, w, Len(b[w]) + 1)
  <2>1. CASE j = w
    BY <1>2, <1>5, <2>1 DEF Ahead
  <2>2. CASE j # w
    <3>1. b[j] # <<>>
      BY <1>1, <1>5, <2>2
    <3>2. j <= w /\ j \in Int /\ w \in Int
      BY <3>1, WorkFifoConstants DEF Buckets
    <3> QED
      BY <2>2, <3>2 DEF Ahead
  <2> QED
    BY <2>1, <2>2
<1> QED
  BY <1>2, <1>4, <1>5

(* All ids of the items dispatched and queued.                              *)
LEMMA PlacedIds ==
  ASSUME NEW s, NEW b, NEW d, NEW all, Placed(s, b, d, all)
  PROVE  /\ \A n \in DOMAIN s : s[n].id \in all
         /\ \A j \in Buckets : \A m \in DOMAIN b[j] : b[j][m].id \in all
<1>1. \A n \in DOMAIN s : s[n].id \in Ids(s)
  BY DEF Ids
<1>2. \A j \in Buckets : \A m \in DOMAIN b[j] : b[j][m].id \in Queued(b)
  BY DEF Queued, Ids
<1> QED
  BY <1>1, <1>2 DEF Placed

(* An item put at the end.                                                  *)
LEMMA PutLast ==
  ASSUME NEW c, NEW b, NEW i, NEW k, Taken(c, b, i, k), NEW s \in Seq(Item), NEW d, NEW all,
         Placed(s, b, d, all), c[i][k].id \notin all,
         \A j \in Buckets : \A m \in DOMAIN c[j] : ~(j = i /\ m = k) => Ahead(j, m, i, k)
  PROVE  /\ Placed(s, c, d, all \union {c[i][k].id})
         /\ (\A n \in all : n < c[i][k].id) /\ InOrder(s, b) => InOrder(s, c)
<1>1. Placed(s, c, d, all \union {c[i][k].id})
  BY PutPlaced
<1>2. ASSUME \A n \in all : n < c[i][k].id, InOrder(s, b) PROVE InOrder(s, c)
  <2>1. \A n \in DOMAIN s : s[n].id < c[i][k].id
    BY <1>2, PlacedIds
  <2>2. ASSUME NEW j \in Buckets, NEW m \in DOMAIN c[j], ~(j = i /\ m = k)
        PROVE  Ahead(j, m, i, k) /\ c[j][m].id < c[i][k].id
    <3>1. Down(i, k, j, m) \in DOMAIN b[j] /\ c[j][m] = b[j][Down(i, k, j, m)]
      BY <2>2, TakenDown
    <3> HIDE DEF Down
    <3> QED
      BY <1>2, <2>2, <3>1, PlacedIds
  <2> QED
    BY <1>2, <2>1, <2>2, LastInOrder
<1> QED
  BY <1>1, <1>2

(* Sizes are numbers.                                                       *)
LEMMA BytesNat == \A s \in Seq(Item) : Bytes(s) \in Nat
<1> SUFFICES ASSUME NEW s \in Seq(Item) PROVE Bytes(s) \in Nat
  OBVIOUS
<1>1. Len(s) \in 0 .. Len(s)
  OBVIOUS
<1> QED
  BY <1>1, SumNat, BytesIsSum

(* Appending to a bucket with room, and to the one behind the last.         *)
LEMMA AppendedHolds ==
  ASSUME NEW b, NEW x \in Item, NEW s \in Seq(Item), NEW d, NEW all,
         Stored(b), Placed(s, b, d, all), x.id \notin all,
         NEW w \in Buckets, \A j \in Buckets : b[j] # <<>> => j <= w,
         b[w] = <<>> \/ Bytes(Append(b[w], x)) <= BucketBytes,
         NEW c \in Store, c[w] = Append(b[w], x), \A j \in Buckets : j # w => c[j] = b[j]
  PROVE  /\ Stored(c) /\ Placed(s, c, d, all \union {x.id})
         /\ (\A n \in all : n < x.id) /\ InOrder(s, b) => InOrder(s, c)
<1>1. b \in Store /\ b[w] \in Seq(Item)
  BY StoreTypes DEF Stored
<1>2. Bytes(c[w]) \in Nat
  BY StoreTypes, BytesNat
<1>3. b[w] = <<>> => Len(c[w]) = 1
  BY <1>1
<1>4. Bytes(c[w]) > BucketBytes => Len(c[w]) = 1
  <2>1. CASE Bytes(c[w]) <= BucketBytes
    BY <1>2, <2>1, WorkFifoConstants
  <2> QED
    BY <1>3, <2>1
<1>5. ASSUME NEW j \in Buckets, Bytes(c[j]) > BucketBytes PROVE Len(c[j]) = 1
  BY <1>4, <1>5 DEF Stored
<1>6. Stored(c)
  BY <1>5 DEF Stored
<1>7. PICK k : k = Len(b[w]) + 1
  OBVIOUS
<1>8. /\ Taken(c, b, w, k) /\ c[w][k] = x
      /\ \A j \in Buckets : \A m \in DOMAIN c[j] : ~(j = w /\ m = k) => Ahead(j, m, w, k)
  BY <1>1, <1>7, AddedLast
<1>9. /\ Placed(s, c, d, all \union {x.id})
      /\ (\A n \in all : n < x.id) /\ InOrder(s, b) => InOrder(s, c)
  BY <1>8, PutLast
<1> QED
  BY <1>6, <1>9

(* Items that are left out stay in their order.                             *)
LEMMA LeftHolds ==
  ASSUME NEW a, NEW x \in Item, NEW s \in Seq(Item), NEW d, NEW all, Holds(a, s, d, all), x.id \notin all,
         NEW r, r = [a EXCEPT !.left = Append(@, x)]
  PROVE  Holds(r, s, d, all \union {x.id}) /\ r.b = a.b
<1>1. /\ a \in Accumulator /\ a.b \in Store /\ a.left \in Seq(Item) /\ Stored(a.b)
      /\ Placed(s, a.b, d \union Ids(a.left), all)
  BY DEF Holds, Accumulator
<1>2. Append(a.left, x) \in Seq(Item) /\ Ids(Append(a.left, x)) = Ids(a.left) \union {x.id}
  BY <1>1, AppendIds
<1>3. r \in Accumulator /\ r.b = a.b /\ r.left = Append(a.left, x)
  BY <1>1, <1>2 DEF Accumulator
<1>4. Placed(s, r.b, d \union Ids(r.left), all \union {x.id})
  BY <1>1, <1>2, <1>3 DEF Placed
<1> QED
  BY <1>1, <1>3, <1>4 DEF Holds

(* One item of an append.                                                   *)
LEMMA AppendOneHolds ==
  ASSUME NEW a, NEW x \in Item, NEW s \in Seq(Item), NEW d, NEW all, Holds(a, s, d, all), x.id \notin all
  PROVE  /\ Holds(AppendOne(a, x), s, d, all \union {x.id})
         /\ (\A n \in all : n < x.id) /\ InOrder(s, a.b) => InOrder(s, AppendOne(a, x).b)
<1> DEFINE r == AppendOne(a, x)
           w == LastBucket(a.b)
<1>1. a.b \in Store /\ a.left \in Seq(Item) /\ a \in Accumulator
  BY DEF Holds, Accumulator
<1>2. w \in Buckets /\ \A j \in Buckets : a.b[j] # <<>> => w >= j
  BY <1>1, LastBucketIs
<1>3. w \in Int /\ \A j \in Buckets : a.b[j] # <<>> => j <= w
  BY <1>2, WorkFifoConstants DEF Buckets
<1>4. a.b[w] \in Seq(Item) /\ Append(a.b[w], x) \in Seq(Item)
  BY <1>1, <1>2, StoreTypes
<1>5. Bytes(Append(a.b[w], x)) \in Nat
  BY <1>4, BytesNat
<1>6. CASE a.left # <<>>
  <2>1. r = [a EXCEPT !.left = Append(@, x)]
    BY <1>6 DEF AppendOne
  <2> QED
    BY <2>1, LeftHolds
<1>7. PICK b : b = a.b
  OBVIOUS
<1>8. PICK v : v = w
  OBVIOUS
<1>9. b \in Store /\ Stored(b) /\ Placed(s, b, d \union Ids(a.left), all) /\ v \in Buckets /\ v \in Int
  BY <1>2, <1>3, <1>7, <1>8 DEF Holds, Stored
<1>10. ASSUME NEW y \in Buckets, r.left = a.left, r \in Accumulator,
              r.b[y] = Append(b[y], x), \A j \in Buckets : j # y => r.b[j] = b[j],
              \A j \in Buckets : b[j] # <<>> => j <= y,
              b[y] = <<>> \/ Bytes(Append(b[y], x)) <= BucketBytes
       PROVE  /\ Holds(r, s, d, all \union {x.id})
              /\ (\A n \in all : n < x.id) /\ InOrder(s, a.b) => InOrder(s, r.b)
  <2> HIDE DEF r
  <2>1. PICK c \in Store : c = r.b
    BY <1>10 DEF Accumulator
  <2>2. PICK D : D = d \union Ids(a.left)
    OBVIOUS
  <2>3. Stored(b) /\ Placed(s, b, D, all)
    BY <1>9, <2>2
  <2>4. c[y] = Append(b[y], x) /\ \A j \in Buckets : j # y => c[j] = b[j]
    BY <1>10, <2>1
  <2>5. /\ Stored(c) /\ Placed(s, c, D, all \union {x.id})
        /\ (\A n \in all : n < x.id) /\ InOrder(s, b) => InOrder(s, c)
    BY <1>10, <2>3, <2>4, AppendedHolds
  <2> QED
    BY <1>7, <1>10, <2>1, <2>2, <2>5 DEF Holds
<1>11. CASE a.left = <<>> /\ Bytes(Append(a.b[w], x)) <= BucketBytes
  <2>1. r = [a EXCEPT !.b[v] = Append(@, x)]
    BY <1>5, <1>7, <1>8, <1>11, WorkFifoConstants DEF AppendOne
  <2>2. /\ Append(b[v], x) \in Seq(Item) /\ Bytes(Append(b[v], x)) <= BucketBytes
        /\ \A j \in Buckets : b[j] # <<>> => j <= v
    BY <1>3, <1>4, <1>7, <1>8, <1>11
  <2>3. r \in Accumulator /\ r.left = a.left /\ r.b = [b EXCEPT ![v] = Append(@, x)]
    BY <1>1, <1>7, <1>9, <2>1, <2>2 DEF Accumulator, Store
  <2> HIDE DEF r
  <2>4. r.b[v] = Append(b[v], x) /\ \A j \in Buckets : j # v => r.b[j] = b[j]
    BY <1>9, <2>3 DEF Store
  <2>5. v \in Buckets
    BY <1>9
  <2> QED
    BY <1>10, <2>2, <2>3, <2>4, <2>5 DEF r
<1>12. CASE a.left = <<>> /\ ~(Bytes(Append(a.b[w], x)) <= BucketBytes) /\ w + 1 \in Buckets
  <2>1. r = [a EXCEPT !.b[v + 1] = <<x>>]
    BY <1>5, <1>8, <1>12, WorkFifoConstants DEF AppendOne
  <2>2. v + 1 \in Buckets /\ \A j \in Buckets : b[j] # <<>> => j <= v
    BY <1>3, <1>7, <1>8, <1>12
  <2>3. \A j \in Buckets : b[j] # <<>> => j <= v + 1
    BY <1>9, <2>2, WorkFifoConstants DEF Buckets
  <2>4. ~(v + 1 <= v)
    BY <1>9
  <2>5. b[v + 1] = <<>>
    BY <2>2, <2>4
  <2>6. <<x>> = Append(b[v + 1], x) /\ <<x>> \in Seq(Item)
    BY <2>5
  <2>7. PICK y \in Buckets : y = v + 1
    BY <2>2
  <2>8. r \in Accumulator /\ r.left = a.left /\ r.b = [b EXCEPT ![y] = <<x>>]
    BY <1>1, <1>7, <1>9, <2>1, <2>6, <2>7 DEF Accumulator, Store
  <2> HIDE DEF r
  <2>9. r.b[y] = Append(b[y], x) /\ \A j \in Buckets : j # y => r.b[j] = b[j]
    BY <1>9, <2>6, <2>7, <2>8 DEF Store
  <2>10. b[y] = <<>> /\ \A j \in Buckets : b[j] # <<>> => j <= y
    BY <2>3, <2>5, <2>7
  <2> QED
    BY <1>10, <2>8, <2>9, <2>10 DEF r
<1>13. CASE a.left = <<>> /\ ~(Bytes(Append(a.b[w], x)) <= BucketBytes) /\ w + 1 \notin Buckets
  <2>1. r = [a EXCEPT !.left = <<x>>]
    BY <1>5, <1>13, WorkFifoConstants DEF AppendOne
  <2>2. r = [a EXCEPT !.left = Append(@, x)]
    BY <1>1, <1>13, <2>1
  <2> QED
    BY <2>2, LeftHolds
<1> QED
  BY <1>6, <1>11, <1>12, <1>13

(* The loop of appendToFifo.                                                *)
Appends(f, b, items, n) ==
  f = [m \in 0 .. n |-> IF m = 0 THEN [b |-> b, left |-> <<>>] ELSE AppendOne(f[m - 1], items[m])]

(* The function that appendToFifo computes its result with.                 *)
Appending(b, items) == CHOOSE f : Appends(f, b, items, Len(items))

(* The result is its value after the last item.                             *)
LEMMA AppendIsLoop == \A b, items : appendToFifo(b, items) = Appending(b, items)[Len(items)]
BY Zenon DEF appendToFifo, Appending, Appends

(* There is such a function for any number of items.                        *)
LEMMA AppendsExist ==
  ASSUME NEW b, NEW items
  PROVE  \A n \in Nat : \E f : Appends(f, b, items, n)
<1> DEFINE T == {n \in Nat : ~\E f : Appends(f, b, items, n)}
<1> SUFFICES ASSUME T # {} PROVE FALSE
  OBVIOUS
<1>1. T \in SUBSET Nat
  OBVIOUS
<1> HIDE DEF T
<1>2. PICK n \in T : \A m \in T : n <= m
  BY <1>1, LeastNumber
<1>3. n \in Nat /\ ~\E f : Appends(f, b, items, n)
  BY <1>2 DEF T
<1>4. CASE n = 0
  <2> DEFINE f == [m \in 0 .. 0 |-> [b |-> b, left |-> <<>>]]
  <2>1. Appends(f, b, items, 0)
    BY DEF Appends
  <2> QED
    BY <1>3, <1>4, <2>1
<1>5. CASE n # 0
  <2>1. n - 1 \in Nat /\ n - 1 \notin T
    BY <1>2, <1>3, <1>5
  <2>2. PICK f : Appends(f, b, items, n - 1)
    BY <2>1 DEF T
  <2> DEFINE g == [m \in 0 .. n |-> IF m = 0 THEN [b |-> b, left |-> <<>>]
                                             ELSE AppendOne(f[m - 1], items[m])]
  <2>3. \A m \in 0 .. n - 1 : g[m] = f[m]
    BY <1>3, <2>2 DEF Appends
  <2>4. \A m \in 0 .. n : m # 0 => m - 1 \in 0 .. n - 1
    BY <1>3
  <2>5. \A m \in 0 .. n : m # 0 => g[m - 1] = f[m - 1]
    BY <2>3, <2>4
  <2>6. g = [m \in 0 .. n |-> IF m = 0 THEN [b |-> b, left |-> <<>>]
                                       ELSE AppendOne(g[m - 1], items[m])]
    BY <2>5
  <2>7. Appends(g, b, items, n)
    BY <2>6 DEF Appends
  <2> QED
    BY <1>3, <2>7
<1> QED
  BY <1>4, <1>5

(* What the loop does, item by item.                                        *)
LEMMA AppendSteps ==
  ASSUME NEW b, NEW items, Len(items) \in Nat
  PROVE  /\ Appending(b, items)[0] = [b |-> b, left |-> <<>>]
         /\ \A n \in 1 .. Len(items) :
              Appending(b, items)[n] = AppendOne(Appending(b, items)[n - 1], items[n])
<1>1. \E f : Appends(f, b, items, Len(items))
  BY AppendsExist
<1>2. Appends(Appending(b, items), b, items, Len(items))
  BY <1>1, Zenon DEF Appending
<1> HIDE DEF Appending
<1> QED
  BY <1>2 DEF Appends

(* The accumulator the loop starts with.                                    *)
LEMMA StartHolds ==
  ASSUME NEW b, Stored(b), NEW s, NEW d, NEW all, Placed(s, b, d, all)
  PROVE  Holds([b |-> b, left |-> <<>>], s, d, all)
<1>1. [b |-> b, left |-> <<>>] \in Accumulator
  BY DEF Stored, Accumulator
<1>2. d \union Ids(<<>>) = d
  BY EmptyIds
<1> QED
  BY <1>1, <1>2 DEF Holds

(* An append of items that arrive after all others.                         *)
LEMMA AppendHolds ==
  ASSUME NEW b, Stored(b), NEW s \in Seq(Item), NEW d, NEW c \in Nat, Placed(s, b, d, 1 .. c),
         NEW items \in Seq(Item), \A n \in 1 .. Len(items) : items[n].id = c + n
  PROVE  /\ Holds(appendToFifo(b, items), s, d, 1 .. c + Len(items))
         /\ InOrder(s, b) => InOrder(s, appendToFifo(b, items).b)
<1> DEFINE a == Appending(b, items)
           good(n) == /\ Holds(a[n], s, d, 1 .. c + n)
                      /\ InOrder(s, b) => InOrder(s, a[n].b)
           T == {n \in 0 .. Len(items) : ~good(n)}
<1>1. Len(items) \in Nat
  OBVIOUS
<1>2. /\ a[0] = [b |-> b, left |-> <<>>]
      /\ \A n \in 1 .. Len(items) : a[n] = AppendOne(a[n - 1], items[n])
  BY <1>1, AppendSteps
<1>3. appendToFifo(b, items) = a[Len(items)]
  BY AppendIsLoop
<1> HIDE DEF a
<1>4. good(0)
  BY <1>2, StartHolds
<1>5. ASSUME NEW n \in 1 .. Len(items), good(n - 1) PROVE good(n)
  <2>1. items[n] \in Item /\ items[n].id = c + n
    OBVIOUS
  <2>2. n \in Nat /\ items[n].id \notin 1 .. c + (n - 1) /\ \A m \in 1 .. c + (n - 1) : m < items[n].id
    BY <2>1
  <2>3. (1 .. c + (n - 1)) \union {items[n].id} = 1 .. c + n
    BY <2>1
  <2>4. a[n] = AppendOne(a[n - 1], items[n])
    BY <1>2
  <2>5. PICK x \in Item : x = items[n]
    BY <2>1
  <2>6. PICK all : all = 1 .. c + (n - 1)
    OBVIOUS
  <2>7. PICK e : e = a[n - 1]
    OBVIOUS
  <2>8. Holds(e, s, d, all) /\ x.id \notin all
    BY <1>5, <2>2, <2>5, <2>6, <2>7
  <2>9. /\ Holds(AppendOne(e, x), s, d, all \union {x.id})
        /\ (\A m \in all : m < x.id) /\ InOrder(s, e.b) => InOrder(s, AppendOne(e, x).b)
    BY <2>8, AppendOneHolds
  <2>10. all \union {x.id} = 1 .. c + n /\ \A m \in all : m < x.id
    BY <2>2, <2>3, <2>5, <2>6
  <2>11. Holds(a[n], s, d, 1 .. c + n)
    BY <2>4, <2>5, <2>7, <2>9, <2>10
  <2>12. InOrder(s, b) => InOrder(s, a[n].b)
    BY <1>5, <2>4, <2>5, <2>7, <2>9, <2>10
  <2> QED
    BY <2>11, <2>12
<1>6. T = {}
  <2> SUFFICES ASSUME T # {} PROVE FALSE
    OBVIOUS
  <2>1. T \in SUBSET Nat
    OBVIOUS
  <2> HIDE DEF T
  <2>2. PICK n \in T : \A m \in T : n <= m
    BY <2>1, LeastNumber
  <2>3. n \in 0 .. Len(items) /\ ~good(n)
    BY <2>2 DEF T
  <2> HIDE DEF good
  <2>4. n # 0
    BY <1>4, <2>3
  <2>5. n \in 1 .. Len(items) /\ n - 1 \in 0 .. Len(items) /\ ~(n <= n - 1)
    BY <1>1, <2>3, <2>4
  <2>6. good(n - 1)
    BY <2>2, <2>5 DEF T
  <2> QED
    BY <1>5, <2>3, <2>5, <2>6
<1>7. good(Len(items))
  BY <1>1, <1>6
<1> QED
  BY <1>3, <1>7

(* An append of one item is one round, as in a put-back.                    *)
LEMMA AppendSingle ==
  ASSUME NEW b, NEW x \in Item
  PROVE  appendToFifo(b, <<x>>) = AppendOne([b |-> b, left |-> <<>>], x)
<1>1. Len(<<x>>) = 1 /\ <<x>>[1] = x
  OBVIOUS
<1>2. PICK items : items = <<x>>
  OBVIOUS
<1>3. Len(items) = 1 /\ items[1] = x
  BY <1>1, <1>2
<1>4. /\ Appending(b, items)[0] = [b |-> b, left |-> <<>>]
      /\ Appending(b, items)[1] = AppendOne(Appending(b, items)[0], items[1])
  <2>1. Len(items) \in Nat /\ 1 \in 1 .. Len(items) /\ 1 - 1 = 0
    BY <1>3
  <2>2. /\ Appending(b, items)[0] = [b |-> b, left |-> <<>>]
        /\ \A n \in 1 .. Len(items) :
             Appending(b, items)[n] = AppendOne(Appending(b, items)[n - 1], items[n])
    BY <2>1, AppendSteps
  <2>3. Appending(b, items)[1] = AppendOne(Appending(b, items)[1 - 1], items[1])
    BY <2>1, <2>2
  <2> QED
    BY <2>1, <2>2, <2>3
<1>5. appendToFifo(b, items) = Appending(b, items)[1]
  BY <1>3, AppendIsLoop
<1> QED
  BY <1>2, <1>3, <1>4, <1>5

-----------------------------------------------------------------------------
(* prependToFifo.                                                           *)
LEMMA PrependHead ==
  ASSUME NEW b, Stored(b), NEW x \in Item, Fits(b, x)
  PROVE  /\ prependToFifo(b, x).left = <<>>
         /\ Stored(prependToFifo(b, x).b)
         /\ \E i \in Buckets :
              /\ Taken(prependToFifo(b, x).b, b, i, 1)
              /\ prependToFifo(b, x).b[i][1] = x
              /\ \A j \in Buckets : \A m \in DOMAIN prependToFifo(b, x).b[j] :
                   ~(j = i /\ m = 1) => Ahead(i, 1, j, m)
<1> DEFINE i == FirstBucket(b)
           c == [b EXCEPT ![i] = <<x>> \o @]
<1>1. b \in Store
  BY DEF Stored
<1>2. i \in Buckets /\ \A j \in Buckets : b[j] # <<>> => i <= j
  BY <1>1, FirstBucketIs
<1>3. prependToFifo(b, x) = [b |-> c, left |-> <<>>]
  BY DEF prependToFifo
<1>4. b[i] \in Seq(Item)
  BY <1>1, <1>2, StoreTypes
<1> DEFINE q == <<x>> \o b[i]
<1>5. /\ q \in Seq(Item) /\ Len(q) = Len(b[i]) + 1 /\ q[1] = x /\ Len(b[i]) \in Nat
      /\ \A m \in 1 .. Len(b[i]) : q[m + 1] = b[i][m]
  <2>1. PICK u \in Seq(Item) : u = b[i]
    BY <1>4
  <2>2. /\ <<x>> \o u \in Seq(Item) /\ Len(<<x>> \o u) = Len(u) + 1 /\ Len(u) \in Nat
        /\ (<<x>> \o u)[1] = x
    OBVIOUS
  <2>3. \A m \in 1 .. Len(u) : (<<x>> \o u)[m + 1] = u[m]
    OBVIOUS
  <2> QED
    BY <2>1, <2>2, <2>3
<1>6. c \in Store /\ c[i] = q /\ \A j \in Buckets : j # i => c[j] = b[j]
  BY <1>1, <1>2, <1>5 DEF Store
<1>7. Bytes(q) <= BucketBytes /\ Bytes(q) \in Nat
  BY <1>5, BytesNat DEF Fits
<1> HIDE DEF i, c, q
<1>8. Stored(c)
  <2>1. ASSUME NEW j \in Buckets, Bytes(c[j]) > BucketBytes PROVE Len(c[j]) = 1
    <3>1. j # i
      BY <1>6, <1>7, <2>1, WorkFifoConstants
    <3> QED
      BY <1>6, <2>1, <3>1 DEF Stored
  <2> QED
    BY <1>6, <2>1 DEF Stored
<1>9. Without(b[i], c[i], 1)
  BY <1>5, <1>6 DEF Without
<1>10. Taken(c, b, i, 1)
  <2>1. 1 \in 1 .. Len(c[i])
    BY <1>5, <1>6
  <2> QED
    BY <1>1, <1>2, <1>6, <1>9, <2>1 DEF Taken
<1>11. ASSUME NEW j \in Buckets, NEW m \in DOMAIN c[j], ~(j = i /\ m = 1) PROVE Ahead(i, 1, j, m)
  <2>1. m \in Nat /\ m >= 1
    BY <1>6, StoreTypes
  <2>2. CASE j = i
    BY <1>11, <2>1, <2>2 DEF Ahead
  <2>3. CASE j # i
    <3>1. b[j] # <<>>
      BY <1>6, <2>3
    <3>2. i <= j /\ i \in Int /\ j \in Int
      BY <1>2, <3>1, WorkFifoConstants DEF Buckets
    <3> QED
      BY <2>3, <3>2 DEF Ahead
  <2> QED
    BY <2>2, <2>3
<1> QED
  BY <1>2, <1>3, <1>5, <1>6, <1>8, <1>10, <1>11

-----------------------------------------------------------------------------
(* The merge loop of decide.                                                *)
Merger == [b : Store, taken : Seq(Item), left : Seq(Item), done : BOOLEAN, appended : BOOLEAN]

(* What a round makes of its accumulator: s are the items dispatched before *)
(* and ordered says that all was in order.                                  *)
Merging(acc, s, d, all, ordered) ==
  /\ acc \in Merger /\ Stored(acc.b)
  /\ Placed(s \o acc.taken, acc.b, d \union Ids(acc.left), all)
  /\ acc.left # <<>> \/ acc.appended => acc.done
  /\ acc.left # <<>> => acc.appended
  /\ ordered /\ ~acc.appended => InOrder(s \o acc.taken, acc.b)

(* Concatenation is associative, as far as it is used here.                 *)
LEMMA ConcatAppend ==
  ASSUME NEW s \in Seq(Item), NEW t \in Seq(Item), NEW x \in Item
  PROVE  s \o Append(t, x) = Append(s \o t, x) /\ s \o t \in Seq(Item)
OBVIOUS

(* A round of the merge loop.  A head that merges moves from the buckets to *)
(* the items dispatched.  One that does not is put back where it was, if it *)
(* fits there, so that the order is the one before it was popped; if not,   *)
(* it is appended, and may be left out when no bucket has room.             *)
LEMMA PeekMerges ==
  ASSUME NEW acc, NEW first, NEW s \in Seq(Item), NEW d, NEW all, NEW ordered,
         Merging(acc, s, d, all, ordered)
  PROVE  Merging(Peek(first, acc), s, d, all, ordered)
<1> DEFINE r == Peek(first, acc)
<1>1. /\ acc \in Merger /\ acc.b \in Store /\ acc.taken \in Seq(Item) /\ acc.left \in Seq(Item)
      /\ Stored(acc.b) /\ Placed(s \o acc.taken, acc.b, d \union Ids(acc.left), all)
  BY DEF Merging, Merger
<1>2. CASE acc.done \/ Occupied(acc.b) = {}
  <2>1. r = [acc EXCEPT !.done = TRUE]
    BY <1>2 DEF Peek
  <2>2. /\ r \in Merger /\ r.b = acc.b /\ r.taken = acc.taken /\ r.left = acc.left
        /\ r.done = TRUE /\ r.appended = acc.appended
    BY <1>1, <2>1 DEF Merger
  <2> HIDE DEF r
  <2>3. Merging(r, s, d, all, ordered)
    BY <2>2 DEF Merging
  <2> QED
    BY <2>3 DEF r
<1>3. CASE ~acc.done /\ Occupied(acc.b) # {}
  <2>1. PICK p : p = popFifoItem(acc.b)
    OBVIOUS
  <2>2. PICK x : x = p.item
    OBVIOUS
  <2>3. PICK b : b = p.b
    OBVIOUS
  <2>4. PICK i : /\ Taken(acc.b, b, i, 1) /\ x = acc.b[i][1] /\ x \in Item /\ b \in Store
                 /\ \A j \in Buckets : \A m \in DOMAIN acc.b[j] : ~Ahead(j, m, i, 1)
    BY <1>1, <1>3, <2>1, <2>2, <2>3, PopTakes
  <2>5. acc.left = <<>> /\ ~acc.appended /\ Ids(acc.left) = {}
    BY <1>3, EmptyIds DEF Merging, Merger
  <2>6. PICK u \in Seq(Item) : u = s \o acc.taken
    <3>1. PICK t \in Seq(Item) : t = acc.taken
      BY <1>1
    <3>2. s \o t \in Seq(Item)
      OBVIOUS
    <3> QED
      BY <3>1, <3>2
  <2>7. Placed(u, acc.b, d, all) /\ (ordered => InOrder(u, acc.b))
    BY <1>1, <2>5, <2>6 DEF Merging
  <2>8. Placed(Append(u, x), b, d, all)
    BY <2>4, <2>7, TakePlaced
  <2>9. ordered => InOrder(Append(u, x), b)
    BY <2>4, <2>7, TakenInOrder
  <2>10. Stored(b)
    BY <1>1, <2>4, TakeStored
  <2>11. CASE x.kind = first.kind
    <3>1. r = [acc EXCEPT !.b = b, !.taken = Append(@, x)]
      BY <1>3, <2>1, <2>2, <2>3, <2>11 DEF Peek
    <3>2. Append(acc.taken, x) \in Seq(Item) /\ s \o Append(acc.taken, x) = Append(u, x)
      BY <1>1, <2>4, <2>6, ConcatAppend
    <3>3. /\ r \in Merger /\ r.b = b /\ r.taken = Append(acc.taken, x) /\ r.left = acc.left
          /\ r.done = acc.done /\ r.appended = acc.appended
      BY <1>1, <2>4, <3>1, <3>2 DEF Merger
    <3> HIDE DEF r
    <3>4. d \union Ids(r.left) = d
      BY <2>5, <3>3
    <3>5. Merging(r, s, d, all, ordered)
      BY <1>3, <2>5, <2>8, <2>9, <2>10, <3>2, <3>3, <3>4 DEF Merging
    <3> QED
      BY <3>5 DEF r
  <2>12. CASE x.kind # first.kind
    <3>1. PICK back : back = prependToFifo(b, x)
      OBVIOUS
    <3>2. r = [acc EXCEPT !.b = back.b, !.left = back.left, !.done = TRUE, !.appended = ~Fits(b, x)]
      BY <1>3, <2>1, <2>2, <2>3, <2>12, <3>1 DEF Peek
    <3>3. Placed(u, b, d, all \ {x.id}) /\ x.id \in all
      BY <2>4, <2>8, Untaken
    <3>4. CASE Fits(b, x)
      <4>1. PICK c : c = back.b
        OBVIOUS
      <4>2. PICK h \in Buckets :
              /\ back.left = <<>> /\ Stored(c) /\ Taken(c, b, h, 1) /\ c[h][1] = x
              /\ \A j \in Buckets : \A m \in DOMAIN c[j] : ~(j = h /\ m = 1) => Ahead(h, 1, j, m)
        BY <2>4, <2>10, <3>1, <3>4, <4>1, PrependHead
      <4>3. Placed(u, c, d, (all \ {x.id}) \union {x.id})
        BY <3>3, <4>2, PutPlaced
      <4>4. (all \ {x.id}) \union {x.id} = all
        BY <3>3
      <4>5. ordered => InOrder(u, c)
        BY <2>9, <4>2, HeadInOrder
      <4>6. /\ r \in Merger /\ r.b = c /\ r.taken = acc.taken /\ r.left = <<>>
            /\ r.done = TRUE /\ r.appended = FALSE
        <5>1. c \in Store /\ <<>> \in Seq(Item)
          BY <4>2 DEF Stored
        <5>2. r = [acc EXCEPT !.b = c, !.left = <<>>, !.done = TRUE, !.appended = FALSE]
          BY <3>2, <3>4, <4>1, <4>2
        <5> QED
          BY <1>1, <5>1, <5>2 DEF Merger
      <4> HIDE DEF r
      <4>7. d \union Ids(r.left) = d
        BY <4>6, EmptyIds
      <4>8. Merging(r, s, d, all, ordered)
        BY <2>6, <4>2, <4>3, <4>4, <4>5, <4>6, <4>7 DEF Merging
      <4> QED
        BY <4>8 DEF r
    <3>5. CASE ~Fits(b, x)
      <4>1. back = AppendOne([b |-> b, left |-> <<>>], x)
        BY <2>4, <3>1, <3>5, AppendSingle DEF prependToFifo
      <4>2. Holds([b |-> b, left |-> <<>>], u, d, all \ {x.id})
        BY <2>10, <3>3, StartHolds
      <4>3. Holds(back, u, d, (all \ {x.id}) \union {x.id})
        BY <2>4, <4>1, <4>2, AppendOneHolds
      <4>4. (all \ {x.id}) \union {x.id} = all
        BY <3>3
      <4>5. /\ back.b \in Store /\ back.left \in Seq(Item) /\ Stored(back.b)
            /\ Placed(u, back.b, d \union Ids(back.left), all)
        BY <4>3, <4>4 DEF Holds, Accumulator
      <4>6. /\ r \in Merger /\ r.b = back.b /\ r.taken = acc.taken /\ r.left = back.left
            /\ r.done = TRUE /\ r.appended = TRUE
        BY <1>1, <3>2, <3>5, <4>5 DEF Merger
      <4> HIDE DEF r
      <4>7. Merging(r, s, d, all, ordered)
        BY <2>6, <4>5, <4>6 DEF Merging
      <4> QED
        BY <4>7 DEF r
    <3> QED
      BY <3>4, <3>5
  <2> QED
    BY <2>11, <2>12
<1> QED
  BY <1>1, <1>2, <1>3 DEF Merger

(* The rounds of the loop.                                                  *)
Beginning(first, b) ==
  [b |-> b, taken |-> <<first>>, left |-> <<>>, done |-> FALSE, appended |-> FALSE]

(* f computes n rounds.                                                     *)
Peeks(f, first, b, n) ==
  f = [m \in 0 .. n |-> IF m = 0 THEN Beginning(first, b) ELSE Peek(first, f[m - 1])]

(* The function that MergePrompts computes its result with.                 *)
Peeking(first, b) == CHOOSE f : Peeks(f, first, b, Cardinality(Queued(b)) + 1)

(* The result is its value after the last round.                            *)
LEMMA MergeIsLoop ==
  \A first, b : MergePrompts(first, b) = Peeking(first, b)[Cardinality(Queued(b)) + 1]
BY Zenon DEF MergePrompts, Peeking, Peeks, Beginning

(* There is such a function for any number of rounds.                       *)
LEMMA PeeksExist ==
  ASSUME NEW first, NEW b
  PROVE  \A n \in Nat : \E f : Peeks(f, first, b, n)
<1> DEFINE T == {n \in Nat : ~\E f : Peeks(f, first, b, n)}
<1> SUFFICES ASSUME T # {} PROVE FALSE
  OBVIOUS
<1>1. T \in SUBSET Nat
  OBVIOUS
<1> HIDE DEF T
<1>2. PICK n \in T : \A m \in T : n <= m
  BY <1>1, LeastNumber
<1>3. n \in Nat /\ ~\E f : Peeks(f, first, b, n)
  BY <1>2 DEF T
<1>4. CASE n = 0
  <2> DEFINE f == [m \in 0 .. 0 |-> Beginning(first, b)]
  <2>1. Peeks(f, first, b, 0)
    BY DEF Peeks
  <2> QED
    BY <1>3, <1>4, <2>1
<1>5. CASE n # 0
  <2>1. n - 1 \in Nat /\ n - 1 \notin T
    BY <1>2, <1>3, <1>5
  <2>2. PICK f : Peeks(f, first, b, n - 1)
    BY <2>1 DEF T
  <2> DEFINE g == [m \in 0 .. n |-> IF m = 0 THEN Beginning(first, b) ELSE Peek(first, f[m - 1])]
  <2>3. \A m \in 0 .. n - 1 : g[m] = f[m]
    BY <1>3, <2>2 DEF Peeks
  <2>4. \A m \in 0 .. n : m # 0 => m - 1 \in 0 .. n - 1
    BY <1>3
  <2>5. \A m \in 0 .. n : m # 0 => g[m - 1] = f[m - 1]
    BY <2>3, <2>4
  <2>6. g = [m \in 0 .. n |-> IF m = 0 THEN Beginning(first, b) ELSE Peek(first, g[m - 1])]
    BY <2>5
  <2>7. Peeks(g, first, b, n)
    BY <2>6 DEF Peeks
  <2> QED
    BY <1>3, <2>7
<1> QED
  BY <1>4, <1>5

(* The merge loop of decide, however many items are queued.                 *)
LEMMA MergeMerges ==
  ASSUME NEW first, NEW b, NEW s \in Seq(Item), NEW d, NEW all, NEW ordered,
         Merging(Beginning(first, b), s, d, all, ordered)
  PROVE  Merging(MergePrompts(first, b), s, d, all, ordered)
<1>1. b \in Store
  BY DEF Merging, Merger, Beginning
<1>2. PICK rounds \in Nat : rounds = Cardinality(Queued(b)) + 1
  <2>1. \A x \in Queued(b) : x \in 1 .. MaxItems
    <3> SUFFICES ASSUME NEW x \in Queued(b) PROVE x \in 1 .. MaxItems
      OBVIOUS
    <3>1. PICK i \in Buckets : x \in Ids(b[i])
      BY DEF Queued
    <3>2. PICK m \in DOMAIN b[i] : x = b[i][m].id
      BY <3>1 DEF Ids
    <3>3. b[i][m] \in Item
      BY <1>1, StoreTypes
    <3> QED
      BY <3>2, <3>3, ItemTypes
  <2>2. IsFiniteSet(1 .. MaxItems)
    BY FS_Interval, WorkFifoConstants
  <2>3. IsFiniteSet(Queued(b))
    BY <2>1, <2>2, FS_Subset
  <2>4. Cardinality(Queued(b)) \in Nat
    BY <2>3, FS_CardinalityType
  <2> QED
    BY <2>4
<1> DEFINE a == Peeking(first, b)
           T == {n \in 0 .. rounds : ~Merging(a[n], s, d, all, ordered)}
<1>3. a[0] = Beginning(first, b) /\ \A n \in 1 .. rounds : a[n] = Peek(first, a[n - 1])
  <2>1. \E f : Peeks(f, first, b, rounds)
    BY PeeksExist
  <2>2. Peeks(a, first, b, rounds)
    BY <1>2, <2>1, Zenon DEF Peeking
  <2> HIDE DEF a
  <2> QED
    BY <2>2 DEF Peeks
<1>4. MergePrompts(first, b) = a[rounds]
  BY <1>2, MergeIsLoop
<1> HIDE DEF a
<1>5. T = {}
  <2> SUFFICES ASSUME T # {} PROVE FALSE
    OBVIOUS
  <2>1. T \in SUBSET Nat
    OBVIOUS
  <2> HIDE DEF T
  <2>2. PICK n \in T : \A m \in T : n <= m
    BY <2>1, LeastNumber
  <2>3. n \in 0 .. rounds /\ ~Merging(a[n], s, d, all, ordered)
    BY <2>2 DEF T
  <2>4. n # 0
    BY <1>3, <2>3
  <2>5. n \in 1 .. rounds /\ n - 1 \in 0 .. rounds /\ ~(n <= n - 1)
    BY <2>3, <2>4
  <2>6. Merging(a[n - 1], s, d, all, ordered)
    BY <2>2, <2>5 DEF T
  <2>7. a[n] = Peek(first, a[n - 1])
    BY <1>3, <2>5
  <2> QED
    BY <2>3, <2>6, <2>7, PeekMerges
<1> QED
  BY <1>4, <1>5

-----------------------------------------------------------------------------
(* The three invariants together are inductive: the types say that an item  *)
(* popped is one, the places say that its id is nowhere else, and the order *)
(* says that the head is the first of its class.                            *)
Inv == TypeOK /\ EachItemInOnePlace /\ DispatchedInArrivalOrder

(* Its parts, in the terms of the lemmas above.                             *)
LEMMA InvParts ==
  ASSUME Inv
  PROVE  /\ Stored(bucket) /\ bucket \in Store /\ dispatched \in Seq(Item) /\ arrived \in 0 .. MaxItems
         /\ arrived \in Nat /\ putBack \in {"head", "appended", "lost"}
         /\ Placed(dispatched, bucket, dropped, 1 .. arrived)
         /\ putBack = "head" => InOrder(dispatched, bucket)
BY DEF Inv, TypeOK, EachItemInOnePlace, DispatchedInArrivalOrder, Stored, Store, Placed

(* A step that ends in such parts ends in Inv.                              *)
LEMMA InvNext ==
  ASSUME Stored(bucket'), dispatched' \in Seq(Item), arrived' \in 0 .. MaxItems,
         putBack' \in {"head", "appended", "lost"},
         Placed(dispatched', bucket', dropped', 1 .. arrived'),
         putBack' = "head" => InOrder(dispatched', bucket')
  PROVE  Inv'
<1>1. dropped' \subseteq 1 .. MaxItems
  <2>1. dropped' \subseteq 1 .. arrived'
    BY DEF Placed
  <2> QED
    BY <2>1, WorkFifoConstants
<1>2. TypeOK'
  BY <1>1 DEF TypeOK, Stored, Store
<1>3. EachItemInOnePlace'
  BY DEF EachItemInOnePlace, Placed
<1>4. DispatchedInArrivalOrder'
  BY DEF DispatchedInArrivalOrder
<1> QED
  BY <1>2, <1>3, <1>4 DEF Inv

(* Nothing has arrived at the start.                                        *)
LEMMA InitInv == Init => Inv
<1> SUFFICES ASSUME Init PROVE Inv
  OBVIOUS
<1>1. /\ bucket = [i \in Buckets |-> <<>>] /\ arrived = 0 /\ dispatched = <<>>
      /\ dropped = {} /\ putBack = "head"
  BY DEF Init
<1>2. <<>> \in Seq(Item) /\ Len(<<>>) = 0 /\ DOMAIN <<>> = {}
  OBVIOUS
<1>3. Stored(bucket)
  <2>1. \A i \in Buckets : Bytes(bucket[i]) = 0
    BY <1>1, EmptyBytes
  <2>2. bucket \in Store
    BY <1>1, <1>2 DEF Store
  <2> QED
    BY <2>1, <2>2, WorkFifoConstants DEF Stored
<1>4. Queued(bucket) = {} /\ Ids(dispatched) = {}
  BY <1>1, EmptyIds DEF Queued
<1>5. OnceQueued(bucket) /\ OnceIn(dispatched)
  BY <1>1, <1>2 DEF OnceQueued, OnceIn
<1>6. Placed(dispatched, bucket, dropped, 1 .. arrived)
  BY <1>1, <1>4, <1>5 DEF Placed
<1>7. InOrder(dispatched, bucket)
  BY <1>1, <1>2 DEF InOrder
<1>8. arrived \in 0 .. MaxItems
  BY <1>1, WorkFifoConstants
<1>9. dropped \subseteq 1 .. MaxItems
  BY <1>1
<1> QED
  BY <1>1, <1>2, <1>3, <1>6, <1>7, <1>8, <1>9
     DEF Inv, TypeOK, EachItemInOnePlace, DispatchedInArrivalOrder, Stored, Store, Placed

(* A drain's stash is appended behind everything; what overflows is         *)
(* dropped.                                                                 *)
LEMMA DrainInv ==
  ASSUME Inv, Drain
  PROVE  Inv'
<1>1. PICK n \in 1 .. MaxBatch :
        \E stash \in [1 .. n -> [kind : Kinds, size : Sizes]] :
          /\ arrived + n <= MaxItems
          /\ LET items == [i \in 1 .. n |-> [id |-> arrived + i, kind |-> stash[i].kind,
                                             size |-> stash[i].size]]
                 r == appendToFifo(bucket, items)
             IN /\ bucket' = r.b
                /\ dropped' = dropped \union Ids(r.left)
          /\ arrived' = arrived + n
          /\ UNCHANGED <<dispatched, putBack>>
  BY DEF Drain
<1>2. PICK stash \in [1 .. n -> [kind : Kinds, size : Sizes]] :
          /\ arrived + n <= MaxItems
          /\ LET items == [i \in 1 .. n |-> [id |-> arrived + i, kind |-> stash[i].kind,
                                             size |-> stash[i].size]]
                 r == appendToFifo(bucket, items)
             IN /\ bucket' = r.b
                /\ dropped' = dropped \union Ids(r.left)
          /\ arrived' = arrived + n
          /\ UNCHANGED <<dispatched, putBack>>
  BY <1>1
<1> DEFINE items == [i \in 1 .. n |-> [id |-> arrived + i, kind |-> stash[i].kind,
                                       size |-> stash[i].size]]
           r == appendToFifo(bucket, items)
<1>3. bucket' = r.b /\ dropped' = dropped \union Ids(r.left)
  BY <1>2
<1>4. /\ arrived + n <= MaxItems /\ arrived' = arrived + n /\ n \in Nat
      /\ dispatched' = dispatched /\ putBack' = putBack
  BY <1>2
<1>5. \A i \in 1 .. n : items[i] \in Item /\ items[i].id = arrived + i
  <2> SUFFICES ASSUME NEW i \in 1 .. n PROVE items[i] \in Item /\ items[i].id = arrived + i
    OBVIOUS
  <2>1. stash[i] \in [kind : Kinds, size : Sizes]
    BY <1>2
  <2>2. arrived + i \in 1 .. MaxItems
    BY <1>4, InvParts, WorkFifoConstants
  <2>3. items[i] = [id |-> arrived + i, kind |-> stash[i].kind, size |-> stash[i].size]
    OBVIOUS
  <2> QED
    BY <2>1, <2>2, <2>3 DEF Item
<1>6. DOMAIN items = 1 .. n
  OBVIOUS
<1> HIDE DEF items
<1>7. items \in Seq(Item) /\ Len(items) = n
  <2>1. items = [i \in 1 .. n |-> items[i]]
    BY <1>6 DEF items
  <2> QED
    BY <1>4, <1>5, <2>1
<1>8. /\ Holds(r, dispatched, dropped, 1 .. arrived + n)
      /\ InOrder(dispatched, bucket) => InOrder(dispatched, r.b)
  <2>1. /\ Stored(bucket) /\ dispatched \in Seq(Item) /\ arrived \in Nat
        /\ Placed(dispatched, bucket, dropped, 1 .. arrived)
    BY InvParts
  <2>2. \A i \in 1 .. Len(items) : items[i].id = arrived + i
    BY <1>5, <1>7
  <2>3. /\ Holds(r, dispatched, dropped, 1 .. arrived + Len(items))
        /\ InOrder(dispatched, bucket) => InOrder(dispatched, r.b)
    BY <1>7, <2>1, <2>2, AppendHolds
  <2> QED
    BY <1>7, <2>3
<1> HIDE DEF r
<1>9. Stored(bucket') /\ Placed(dispatched', bucket', dropped', 1 .. arrived')
  BY <1>3, <1>4, <1>8 DEF Holds
<1>10. putBack' = "head" => InOrder(dispatched', bucket')
  BY <1>3, <1>4, <1>8, InvParts
<1>11. /\ dispatched' \in Seq(Item) /\ arrived' \in 0 .. MaxItems
       /\ putBack' \in {"head", "appended", "lost"}
  BY <1>4, InvParts, WorkFifoConstants
<1> QED
  BY <1>9, <1>10, <1>11, InvNext

(* What decide takes out of the buckets, and what it leaves.                *)
LEMMA NextDispatched ==
  ASSUME Inv, Occupied(bucket) # {}
  PROVE  LET p == popNextDispatchFifoItem(bucket)
         IN  /\ p.item \in Item /\ Stored(p.b) /\ Append(dispatched, p.item) \in Seq(Item)
             /\ Placed(Append(dispatched, p.item), p.b, dropped, 1 .. arrived)
             /\ putBack = "head" => InOrder(Append(dispatched, p.item), p.b)
<1> DEFINE p == popNextDispatchFifoItem(bucket)
<1>1. /\ Stored(bucket) /\ bucket \in Store /\ dispatched \in Seq(Item)
      /\ Placed(dispatched, bucket, dropped, 1 .. arrived)
      /\ putBack = "head" => InOrder(dispatched, bucket)
  BY InvParts
<1>2. PICK i \in Buckets : \E k \in DOMAIN bucket[i] :
        /\ p.item = bucket[i][k]
        /\ Taken(bucket, p.b, i, k)
        /\ \A j \in Buckets : \A m \in DOMAIN bucket[j] :
             Ahead(j, m, i, k) => ~(Interactive(bucket[j][m]) <=> Interactive(bucket[i][k]))
  BY <1>1, NextTaken
<1> HIDE DEF p
<1>3. PICK k \in DOMAIN bucket[i] :
        /\ p.item = bucket[i][k]
        /\ Taken(bucket, p.b, i, k)
        /\ \A j \in Buckets : \A m \in DOMAIN bucket[j] :
             Ahead(j, m, i, k) => ~(Interactive(bucket[j][m]) <=> Interactive(bucket[i][k]))
  BY <1>2
<1>4. p.item \in Item
  BY <1>1, <1>3, StoreTypes
<1>5. Append(dispatched, p.item) \in Seq(Item)
  BY <1>1, <1>4, AppendTypes
<1>6. Stored(p.b)
  BY <1>1, <1>3, TakeStored
<1>7. Placed(Append(dispatched, p.item), p.b, dropped, 1 .. arrived)
  BY <1>1, <1>3, TakePlaced
<1>8. putBack = "head" => InOrder(Append(dispatched, p.item), p.b)
  BY <1>1, <1>3, TakenInOrder
<1> QED
  BY <1>4, <1>5, <1>6, <1>7, <1>8 DEF p

(* A turn for a run of prompts: the item popped, then the merge loop.       *)
LEMMA DecidePromptInv ==
  ASSUME Inv, DecidePrompt
  PROVE  Inv'
<1> DEFINE p == popNextDispatchFifoItem(bucket)
           m == MergePrompts(p.item, p.b)
<1>1. /\ Occupied(bucket) # {} /\ bucket' = m.b /\ dispatched' = dispatched \o m.taken
      /\ dropped' = dropped \union Ids(m.left) /\ arrived' = arrived
      /\ putBack' = CASE m.left # <<>> -> "lost"
                       [] m.left = <<>> /\ m.appended /\ putBack = "head" -> "appended"
                       [] OTHER -> putBack
  BY DEF DecidePrompt
<1>2. /\ p.item \in Item /\ Stored(p.b) /\ Append(dispatched, p.item) \in Seq(Item)
      /\ Placed(Append(dispatched, p.item), p.b, dropped, 1 .. arrived)
      /\ putBack = "head" => InOrder(Append(dispatched, p.item), p.b)
  BY <1>1, NextDispatched
<1>3. /\ dispatched \in Seq(Item) /\ arrived \in 0 .. MaxItems
      /\ putBack \in {"head", "appended", "lost"}
  BY InvParts
<1>4. Merging(Beginning(p.item, p.b), dispatched, dropped, 1 .. arrived, putBack = "head")
  <2>1. PICK x \in Item : x = p.item
    BY <1>2
  <2>2. PICK b \in Store : b = p.b
    BY <1>2 DEF Stored
  <2>3. PICK a : a = Beginning(x, b)
    OBVIOUS
  <2>4. /\ a.b = b /\ a.taken = <<x>> /\ a.left = <<>> /\ a.done = FALSE /\ a.appended = FALSE
        /\ a \in Merger
    BY <2>3 DEF Beginning, Merger
  <2>5. dispatched \o <<x>> = Append(dispatched, x)
    BY <1>3
  <2>6. dropped \union Ids(a.left) = dropped
    BY <2>4, EmptyIds
  <2>7. Merging(a, dispatched, dropped, 1 .. arrived, putBack = "head")
    BY <1>2, <2>1, <2>2, <2>4, <2>5, <2>6 DEF Merging
  <2> QED
    BY <2>1, <2>2, <2>3, <2>7
<1> HIDE DEF p
<1>5. Merging(m, dispatched, dropped, 1 .. arrived, putBack = "head")
  BY <1>3, <1>4, MergeMerges
<1> HIDE DEF m
<1>6. /\ m \in Merger /\ Stored(m.b) /\ m.taken \in Seq(Item) /\ m.appended \in BOOLEAN
      /\ Placed(dispatched \o m.taken, m.b, dropped \union Ids(m.left), 1 .. arrived)
      /\ putBack = "head" /\ ~m.appended => InOrder(dispatched \o m.taken, m.b)
  BY <1>5 DEF Merging, Merger
<1>7. dispatched' \in Seq(Item)
  <2>1. PICK t \in Seq(Item) : t = m.taken
    BY <1>6
  <2>2. dispatched \o t \in Seq(Item)
    BY <1>3
  <2> QED
    BY <1>1, <2>1, <2>2
<1>8. putBack' \in {"head", "appended", "lost"} /\ (putBack' = "head" => putBack = "head" /\ ~m.appended)
  <2>1. m.left = <<>> \/ m.left # <<>>
    OBVIOUS
  <2>2. CASE m.left # <<>>
    BY <1>1, <2>2
  <2>3. CASE m.left = <<>> /\ m.appended /\ putBack = "head"
    BY <1>1, <2>3
  <2>4. CASE m.left = <<>> /\ ~(m.appended /\ putBack = "head")
    BY <1>1, <1>3, <2>4
  <2> QED
    BY <2>2, <2>3, <2>4
<1> QED
  BY <1>1, <1>3, <1>6, <1>7, <1>8, InvNext

(* A turn for an answer or a fired timer.                                   *)
LEMMA DecideOtherInv ==
  ASSUME Inv, DecideOther
  PROVE  Inv'
<1> DEFINE p == popNextDispatchFifoItem(bucket)
<1>1. /\ Occupied(bucket) # {} /\ bucket' = p.b /\ dispatched' = Append(dispatched, p.item)
      /\ arrived' = arrived /\ dropped' = dropped /\ putBack' = putBack
  BY DEF DecideOther
<1>2. /\ p.item \in Item /\ Stored(p.b) /\ Append(dispatched, p.item) \in Seq(Item)
      /\ Placed(Append(dispatched, p.item), p.b, dropped, 1 .. arrived)
      /\ putBack = "head" => InOrder(Append(dispatched, p.item), p.b)
  BY <1>1, NextDispatched
<1>3. arrived \in 0 .. MaxItems /\ putBack \in {"head", "appended", "lost"}
  BY InvParts
<1> HIDE DEF p
<1> QED
  BY <1>1, <1>2, <1>3, InvNext

(* Inv is inductive as it stands.                                           *)
LEMMA NextInv == Inv /\ [Next]_vars => Inv'
<1> SUFFICES ASSUME Inv, [Next]_vars PROVE Inv'
  OBVIOUS
<1>1. CASE Drain
  BY <1>1, DrainInv
<1>2. CASE DecidePrompt
  BY <1>2, DecidePromptInv
<1>3. CASE DecideOther
  BY <1>3, DecideOtherInv
<1>4. CASE UNCHANGED vars
  <2>1. /\ bucket' = bucket /\ arrived' = arrived /\ dispatched' = dispatched
        /\ dropped' = dropped /\ putBack' = putBack
    BY <1>4 DEF vars
  <2> QED
    BY <2>1, InvParts, InvNext
<1> QED
  BY <1>1, <1>2, <1>3, <1>4 DEF Next

(* Every reachable state satisfies Inv.                                     *)
LEMMA Invariance == Spec => []Inv
BY InitInv, NextInv, PTL DEF Spec

(* No write of the FIFO leaves a bucket longer than MAX_BUCKET_BYTES,       *)
(* unless the bucket is a single item that is: appendToFifo, prependToFifo  *)
(* and the pops, however often decide has put items back.                   *)
THEOREM Typed == Spec => []TypeOK
<1>1. Inv => TypeOK
  BY DEF Inv
<1> QED
  BY <1>1, Invariance, PTL

(* The drain's append, the pop of decide, its merge loop and the put-back   *)
(* neither duplicate nor forget an item: it is queued, dispatched or        *)
(* dropped by an overflow, and only one of these.                           *)
THEOREM NothingLostOrDoubled == Spec => []EachItemInOnePlace
<1>1. Inv => EachItemInOnePlace
  BY DEF Inv
<1> QED
  BY <1>1, Invariance, PTL

(* While every put-back of decide finds room at the head, what was          *)
(* dispatched and what is queued are in the order of arrival, people's      *)
(* words among themselves and timers among themselves, however long the     *)
(* queue, and whichever buckets its items spill into.                       *)
THEOREM FirstComeFirstServed == Spec => []DispatchedInArrivalOrder
<1>1. Inv => DispatchedInArrivalOrder
  BY DEF Inv
<1> QED
  BY <1>1, Invariance, PTL
=============================================================================
