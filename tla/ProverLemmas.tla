----------------------------- MODULE ProverLemmas -----------------------------
(***************************************************************************)
(* What the proofs about the plonky2 provers share: powers of two and the  *)
(* subtrees they count, the work queue, and the writes of a script; and    *)
(* the proofs about the numbers in their circuits, that the gadgets of     *)
(* biguint.rs and utils.rs compute with the integers their limbs and bits  *)
(* stand for.                                                              *)
(***************************************************************************)
EXTENDS Integers, FiniteSets, WorkQueue, ScriptWrites, NumberCircuits,
        FiniteSetTheorems, SequenceTheorems, WellFoundedInduction, TLAPS

-----------------------------------------------------------------------------
(* Numbers *)

\* A set of naturals has a least element.
LEMMA LeastIsThere ==
  ASSUME NEW S, S # {}, S \subseteq Nat
  PROVE  Min(S) \in S /\ \A x \in S : Min(S) <= x
<1>. DEFINE Less == {pair \in Nat \X Nat : pair[1] < pair[2]}
<1>1. IsWellFoundedOn(Less, Nat)
  BY NatLessThanWellFounded DEF OpToRel
<1>2. PICK x \in S : \A y \in S : ~(<<y, x>> \in Less)
  BY <1>1, WFMin
<1>3. ASSUME NEW y \in S PROVE x <= y
  <2>1. ~(<<y, x>> \in Less) /\ x \in Nat /\ y \in Nat
    BY <1>2
  <2>2. QED
    BY <2>1
<1>. QED
  BY <1>3 DEF Min

\* Quotient and remainder.
LEMMA Div ==
  ASSUME NEW b \in Nat \ {0}, NEW x \in Nat
  PROVE  /\ x \div b \in Nat
         /\ x % b \in 0 .. b - 1
         /\ x = (x \div b) * b + (x % b)
  OBVIOUS

\* More times a number is not less.
LEMMA TimesMono ==
  ASSUME NEW p \in Nat, NEW q \in Nat, NEW b \in Nat, p <= q
  PROVE  p * b <= q * b
<1>1. PICK d \in Nat : q = p + d
  <2>1. q - p \in Nat /\ q = p + (q - p)
    OBVIOUS
  <2>2. QED
    BY <2>1
<1>2. q * b = p * b + d * b
  BY <1>1
<1>3. p * b \in Nat /\ d * b \in Nat
  BY <1>1
<1>. QED
  BY <1>2, <1>3

\* Below a multiple the quotient is below its factor.
LEMMA DivLess ==
  ASSUME NEW b \in Nat \ {0}, NEW x \in Nat, NEW k \in Nat, x < k * b
  PROVE  x \div b < k
<1>. DEFINE q == x \div b
<1>1. q \in Nat /\ x % b \in Nat /\ x = q * b + (x % b)
  BY Div
<1>2. SUFFICES ASSUME k <= q PROVE FALSE
  BY <1>1
<1>. HIDE DEF q
<1>3. k * b <= q * b
  BY <1>1, <1>2, TimesMono
<1>4. k * b \in Nat /\ q * b \in Nat
  BY <1>1
<1>. QED
  BY <1>1, <1>3, <1>4

-----------------------------------------------------------------------------
(* Powers of two *)

\* The levels of a tree: below one node there is one, and a node has twice
\* the leaves of its children.
LEMMA PowerOfTwo ==
  ASSUME NEW n \in Nat
  PROVE  /\ 2 ^ 0 = 1
         /\ 2 ^ n \in Nat \ {0}
         /\ 2 ^ (n + 1) = 2 * 2 ^ n
<1>. DEFINE A == SUBSET (1 .. n)
            B == {T \cup {n + 1} : T \in A}
            f == [T \in A |-> T \cup {n + 1}]
<1>1. 2 ^ 0 = 1
  <2>1. IsFiniteSet({}) /\ Cardinality({}) = 0
    BY FS_EmptySet
  <2>2. Cardinality(SUBSET {}) = 2 ^ 0
    BY <2>1, FS_SUBSET
  <2>3. SUBSET {} = {{}}
    OBVIOUS
  <2>4. Cardinality({{}}) = 1
    BY FS_Singleton
  <2>. QED
    BY <2>2, <2>3, <2>4
<1>2. IsFiniteSet(1 .. n) /\ Cardinality(1 .. n) = n
  BY FS_Interval
<1>3. IsFiniteSet(1 .. n + 1) /\ Cardinality(1 .. n + 1) = n + 1
  BY FS_Interval
<1>4. IsFiniteSet(A) /\ Cardinality(A) = 2 ^ n
  BY <1>2, FS_SUBSET
<1>5. 2 ^ n \in Nat \ {0}
  <2>1. Cardinality(A) \in Nat
    BY <1>4, FS_CardinalityType
  <2>2. A # {}
    OBVIOUS
  <2>3. Cardinality(A) # 0
    BY <1>4, <2>2, FS_EmptySet
  <2>. QED
    BY <1>4, <2>1, <2>3
<1>6. IsFiniteSet(B) /\ Cardinality(B) = 2 ^ n
  <2>1. f \in Injection(A, B)
    <3>1. f \in [A -> B]
      OBVIOUS
    <3>2. ASSUME NEW S \in A, NEW T \in A, f[S] = f[T] PROVE S = T
      <4>1. n + 1 \notin S /\ n + 1 \notin T
        OBVIOUS
      <4>2. S \cup {n + 1} = T \cup {n + 1}
        BY <3>2
      <4>. QED
        BY <4>1, <4>2
    <3>. QED
      BY <3>1, <3>2 DEF Injection, IsInjective
  <2>2. f \in Surjection(A, B)
    BY DEF Surjection
  <2>3. ExistsBijection(A, B)
    BY <2>1, <2>2 DEF ExistsBijection, Bijection
  <2>. QED
    BY <2>3, <1>4, FS_Bijection
<1>7. SUBSET (1 .. n + 1) = A \cup B
  <2>1. ASSUME NEW S \in SUBSET (1 .. n + 1) PROVE S \in A \cup B
    <3>1. CASE n + 1 \in S
      <4>1. S \ {n + 1} \in A
        OBVIOUS
      <4>2. S = (S \ {n + 1}) \cup {n + 1}
        BY <3>1
      <4>. QED
        BY <4>1, <4>2
    <3>2. CASE n + 1 \notin S
      BY <3>2
    <3>. QED
      BY <3>1, <3>2
  <2>2. A \cup B \subseteq SUBSET (1 .. n + 1)
    <3>1. 1 .. n \subseteq 1 .. n + 1 /\ n + 1 \in 1 .. n + 1
      OBVIOUS
    <3>. QED
      BY <3>1
  <2>. QED
    BY <2>1, <2>2
<1>8. A \cap B = {}
  <2>1. \A S \in A : n + 1 \notin S
    OBVIOUS
  <2>2. \A S \in B : n + 1 \in S
    OBVIOUS
  <2>. QED
    BY <2>1, <2>2
<1>9. 2 ^ (n + 1) = 2 * 2 ^ n
  <2>1. Cardinality(SUBSET (1 .. n + 1)) = 2 ^ (n + 1)
    BY <1>3, FS_SUBSET
  <2>2. Cardinality(A \cup B) = Cardinality(A) + Cardinality(B) - Cardinality(A \cap B)
    BY <1>4, <1>6, FS_Union
  <2>3. Cardinality(A \cap B) = 0
    BY <1>8, FS_EmptySet
  <2>4. Cardinality(A \cup B) = 2 ^ n + 2 ^ n - 0
    BY <1>4, <1>6, <2>2, <2>3
  <2>5. Cardinality(A \cup B) = 2 ^ (n + 1)
    BY <1>7, <2>1
  <2>. DEFINE p == 2 ^ n
  <2>6. p \in Nat /\ 2 ^ (n + 1) = p + p - 0
    BY <1>5, <2>4, <2>5
  <2>. HIDE DEF p
  <2>7. 2 ^ (n + 1) = 2 * p
    BY <2>6
  <2>. QED
    BY <2>7 DEF p
<1>. QED
  BY <1>1, <1>5, <1>9

\* Subtrees of a lower level fill one of a higher level.
LEMMA PowerDivides ==
  ASSUME NEW m \in Nat, NEW d \in Nat, m <= d
  PROVE  \E c \in Nat \ {0} : 2 ^ d = c * 2 ^ m
<1>. DEFINE Divides(n) == \E c \in Nat \ {0} : 2 ^ n = c * 2 ^ m
            Wrong == {n \in Nat : m <= n /\ ~Divides(n)}
            n == Min(Wrong)
<1>1. SUFFICES ASSUME Wrong # {} PROVE FALSE
  OBVIOUS
<1>2. n \in Wrong /\ \A x \in Wrong : n <= x
  BY <1>1, LeastIsThere
<1>3. n # m
  <2>1. 2 ^ m \in Nat
    BY PowerOfTwo
  <2>2. 2 ^ m = 1 * 2 ^ m
    BY <2>1
  <2>3. Divides(m)
    BY <2>2
  <2>. QED
    BY <1>2, <2>3
<1>. DEFINE b == 2 ^ m
            k == n - 1
<1>4. Divides(k)
  <2>. HIDE DEF n, Divides
  <2>1. n \in Nat /\ m <= n
    BY <1>2
  <2>2. k \in Nat /\ m <= k /\ k < n
    BY <2>1, <1>3
  <2>3. k \notin Wrong
    BY <1>2, <2>2
  <2>. QED
    BY <2>2, <2>3
<1>. HIDE DEF n
<1>5. PICK c \in Nat \ {0} : 2 ^ k = c * b
  BY <1>4
<1>6. 2 ^ (k + 1) = 2 * 2 ^ k
  <2>1. k \in Nat
    BY <1>2, <1>3
  <2>. QED
    BY <2>1, PowerOfTwo
<1>7. k + 1 = n
  BY <1>2
<1>8. b \in Nat
  BY PowerOfTwo
<1>9. 2 ^ n = 2 * (c * b)
  BY <1>5, <1>6, <1>7
<1>. HIDE DEF b, k
<1>10. 2 ^ n = (2 * c) * b
  BY <1>8, <1>9
<1>11. Divides(n)
  <2>1. 2 * c \in Nat \ {0}
    BY <1>5
  <2>2. 2 ^ n = (2 * c) * 2 ^ m
    BY <1>10 DEF b
  <2>. QED
    BY <2>1, <2>2
<1>. QED
  BY <1>2, <1>11

\* What is rounded down to the first leaf of a subtree of the tree, as
\* calculateIndexes does, is in the tree with the whole subtree.
LEMMA SubtreeFits ==
  ASSUME NEW d \in Nat, NEW D \in Nat, d <= D, NEW x \in 0 .. 2 ^ D - 1
  PROVE  /\ x - (x % 2 ^ d) \in 0 .. x
         /\ x - (x % 2 ^ d) + 2 ^ d <= 2 ^ D
<1>. DEFINE b == 2 ^ d
            q == x \div b
<1>1. PICK c \in Nat \ {0} : 2 ^ D = c * b
  BY PowerDivides
<1>2. b \in Nat \ {0} /\ 2 ^ D \in Nat
  BY PowerOfTwo
<1>3. x \in Nat /\ x < c * b
  BY <1>1, <1>2
<1>. HIDE DEF b
<1>4. q \in Nat /\ x % b \in 0 .. b - 1 /\ x = q * b + (x % b)
  BY <1>2, <1>3, Div
<1>5. q < c
  BY <1>2, <1>3, DivLess
<1>6. (q + 1) * b <= c * b
  BY <1>2, <1>4, <1>5, TimesMono
<1>7. (q + 1) * b = q * b + b /\ q * b \in Nat
  BY <1>2, <1>4
<1>. HIDE DEF q
<1>8. x - (x % b) = q * b
  BY <1>2, <1>4, <1>7
<1>9. x - (x % b) \in 0 .. x /\ x - (x % b) + b <= c * b
  BY <1>2, <1>3, <1>4, <1>6, <1>7, <1>8
<1>. QED
  BY <1>1, <1>9 DEF b

\* A multiple leaves no remainder.
LEMMA NoRemainder ==
  ASSUME NEW b \in Nat \ {0}, NEW k \in Nat
  PROVE  (k * b) % b = 0
<1>. DEFINE x == k * b
            q == x \div b
            r == x % b
<1>1. x \in Nat
  OBVIOUS
<1>2. q \in Nat /\ r \in 0 .. b - 1 /\ x = q * b + r
  BY <1>1, Div
<1>. HIDE DEF q, r
<1>3. q * b \in Nat
  BY <1>2
<1>4. ~(q + 1 <= k)
  <2>1. SUFFICES ASSUME q + 1 <= k PROVE FALSE
    OBVIOUS
  <2>2. (q + 1) * b <= k * b
    BY <1>2, <2>1, TimesMono
  <2>3. (q + 1) * b = q * b + b
    BY <1>2
  <2>. HIDE DEF x
  <2>. QED
    BY <1>1, <1>2, <1>3, <2>2, <2>3 DEF x
<1>5. ~(k + 1 <= q)
  <2>1. SUFFICES ASSUME k + 1 <= q PROVE FALSE
    OBVIOUS
  <2>2. (k + 1) * b <= q * b
    BY <1>2, <2>1, TimesMono
  <2>3. (k + 1) * b = k * b + b
    BY <1>2
  <2>. QED
    BY <1>1, <1>2, <1>3, <2>2, <2>3
<1>6. q = k
  BY <1>2, <1>4, <1>5
<1>7. r = 0
  BY <1>1, <1>2, <1>3, <1>6
<1>. QED
  BY <1>7 DEF r

\* What is rounded down to a multiple is one, and is the only one within reach.
LEMMA RoundedIsMultiple ==
  ASSUME NEW b \in Nat \ {0}, NEW x \in Nat
  PROVE  /\ x - (x % b) \in 0 .. x
         /\ (x - (x % b)) % b = 0
         /\ x < x - (x % b) + b
<1>. DEFINE q == x \div b
            m == q * b
<1>1. q \in Nat /\ x % b \in 0 .. b - 1 /\ x = m + (x % b)
  BY Div
<1>2. m \in Nat
  BY <1>1
<1>3. m % b = 0
  BY <1>1, NoRemainder
<1>. HIDE DEF m, q
<1>4. x - (x % b) = m
  BY <1>1, <1>2
<1>. QED
  BY <1>1, <1>2, <1>3, <1>4

\* A multiple of b less than b below x is x rounded down.
LEMMA OnlyMultiple ==
  ASSUME NEW b \in Nat \ {0}, NEW x \in Nat, NEW k \in 0 .. x, k % b = 0, x < k + b
  PROVE  k = x - (x % b)
<1>. DEFINE q == x \div b
            c == k \div b
            m == q * b
            n == c * b
<1>1. q \in Nat /\ x % b \in 0 .. b - 1 /\ x = m + (x % b)
  BY Div
<1>2. k \in Nat /\ c \in Nat /\ k = n
  <2>1. k \in Nat
    OBVIOUS
  <2>2. c \in Nat /\ k = n + (k % b)
    BY <2>1, Div
  <2>3. n \in Nat
    BY <2>2
  <2>. HIDE DEF n, c
  <2>. QED
    BY <2>1, <2>2, <2>3
<1>3. m \in Nat /\ n \in Nat
  BY <1>1, <1>2
<1>4. CASE q < c
  <2>1. (q + 1) * b <= n
    BY <1>1, <1>2, <1>4, TimesMono
  <2>2. (q + 1) * b = m + b
    BY <1>1
  <2>. HIDE DEF m, n, q, c
  <2>. QED
    BY <1>1, <1>2, <1>3, <2>1, <2>2
<1>5. CASE c < q
  <2>1. (c + 1) * b <= m
    BY <1>1, <1>2, <1>5, TimesMono
  <2>2. (c + 1) * b = n + b
    BY <1>2
  <2>. HIDE DEF m, n, q, c
  <2>. QED
    BY <1>1, <1>2, <1>3, <2>1, <2>2
<1>6. CASE c = q
  <2>. HIDE DEF q, c
  <2>1. m = n
    BY <1>6
  <2>. HIDE DEF m, n
  <2>. QED
    BY <1>1, <1>2, <1>3, <2>1
<1>. QED
  BY <1>1, <1>2, <1>4, <1>5, <1>6

\* A multiple of a power of two is one of every smaller power.
LEMMA MultipleOfLess ==
  ASSUME NEW m \in Nat, NEW d \in Nat, m <= d, NEW k \in Nat, k % 2 ^ d = 0
  PROVE  k % 2 ^ m = 0
<1>. DEFINE p == 2 ^ m
            q == 2 ^ d
<1>1. p \in Nat \ {0} /\ q \in Nat \ {0}
  BY PowerOfTwo
<1>2. PICK c \in Nat \ {0} : q = c * p
  BY PowerDivides
<1>. HIDE DEF p, q
<1>3. k \div q \in Nat /\ k = (k \div q) * q + (k % q)
  BY <1>1, Div
<1>4. k % q = 0
  BY DEF q
<1>. DEFINE e == k \div q
<1>5. e \in Nat
  BY <1>3
<1>6. k = e * q
  <2>1. e * q \in Nat
    BY <1>1, <1>5
  <2>2. k = e * q + (k % q)
    BY <1>3
  <2>. HIDE DEF e
  <2>. QED
    BY <1>4, <2>1, <2>2
<1>. HIDE DEF e
<1>7. e * (c * p) = (e * c) * p
  BY <1>1, <1>2, <1>5
<1>8. e * c \in Nat
  BY <1>2, <1>5
<1>9. ((e * c) * p) % p = 0
  BY <1>1, <1>8, NoRemainder
<1>. QED
  BY <1>2, <1>6, <1>7, <1>9 DEF p

\* A place rounded down to a subtree and then to a larger one is rounded down
\* to the larger one.
LEMMA RoundedTwice ==
  ASSUME NEW m \in Nat, NEW d \in Nat, m <= d, NEW x \in Nat
  PROVE  LET y == x - (x % 2 ^ m) IN y - (y % 2 ^ d) = x - (x % 2 ^ d)
<1>. DEFINE p == 2 ^ m
            q == 2 ^ d
            y == x - (x % p)
            z == x - (x % q)
<1>1. p \in Nat \ {0} /\ q \in Nat \ {0}
  BY PowerOfTwo
<1>2. y \in 0 .. x /\ y % p = 0 /\ x < y + p
  BY <1>1, RoundedIsMultiple
<1>3. z \in 0 .. x /\ z % q = 0 /\ x < z + q
  BY <1>1, RoundedIsMultiple
<1>4. z % p = 0
  BY <1>3, MultipleOfLess
<1>. HIDE DEF y, z, p, q
<1>5. z <= y
  <2>. SUFFICES ASSUME y < z PROVE FALSE
    BY <1>2, <1>3
  <2>1. z < y + p
    BY <1>1, <1>2, <1>3
  <2>2. y = z - (z % p)
    <3>1. z \in Nat /\ y \in 0 .. z
      BY <1>2, <1>3
    <3>. QED
      BY <1>1, <1>2, <2>1, <3>1, OnlyMultiple
  <2>. QED
    BY <1>2, <1>3, <1>4, <2>2
<1>6. z = y - (y % q)
  <2>1. y \in Nat /\ z \in 0 .. y /\ y < z + q
    BY <1>1, <1>2, <1>3, <1>5
  <2>. QED
    BY <1>1, <1>3, <2>1, OnlyMultiple
<1>. QED
  BY <1>6 DEF y, z, p, q

-----------------------------------------------------------------------------
(* The queue *)

\* A list without the first occurrence of an item is still a list of items.
LEMMA RemovedFirst ==
  ASSUME NEW S, NEW s \in Seq(S), NEW e
  PROVE  RemoveFirst(s, e) \in Seq(S)
<1>1. CASE \E i \in 1 .. Len(s) : s[i] = e
  <2>. DEFINE I == {i \in 1 .. Len(s) : s[i] = e}
              n == Min(I)
  <2>1. I # {} /\ I \subseteq Nat
    BY <1>1
  <2>2. n \in 1 .. Len(s)
    BY <2>1, LeastIsThere
  <2>3. RemoveFirst(s, e) = RemoveAt(s, n)
    BY <1>1, <2>1 DEF RemoveFirst, SelectInSeq
  <2>. HIDE DEF n
  <2>4. RemoveAt(s, n) \in Seq(S)
    BY <2>2 DEF RemoveAt
  <2>. QED
    BY <2>3, <2>4
<1>2. CASE ~\E i \in 1 .. Len(s) : s[i] = e
  BY <1>2 DEF RemoveFirst
<1>. QED
  BY <1>1, <1>2

\* The library never makes an item up: whatever set of items a queue is
\* over, it stays over it.
LEMMA EmptyQueueKeeps ==
  ASSUME NEW S
  PROVE  EmptyQueue \in WorkQueues(S)
  BY DEF EmptyQueue, WorkQueues

\* A queue over some items is one over more items.
LEMMA QueueOverMore ==
  ASSUME NEW S, NEW T, S \subseteq T, NEW q \in WorkQueues(S)
  PROVE  q \in WorkQueues(T)
<1>1. q.main \in Seq(T) /\ q.processing \in Seq(T)
  BY SeqMonotonic DEF WorkQueues
<1>. QED
  BY <1>1 DEF WorkQueues

\* `addItem', of an item of the set.
LEMMA AddItemKeeps ==
  ASSUME NEW S, NEW q \in WorkQueues(S), NEW item \in S
  PROVE  /\ AddItem(q, item) \in WorkQueues(S)
         /\ AddItem(q, item).data = q.data \cup {item}
<1>1. Append(q.main, item) \in Seq(S)
  BY AppendProperties DEF WorkQueues
<1>. QED
  BY <1>1 DEF AddItem, WorkQueues

\* `lease', whose item is one of the set.
LEMMA LeaseKeeps ==
  ASSUME NEW S, NEW q \in WorkQueues(S), CanLease(q)
  PROVE  /\ Head(q.main) \in S
         /\ Lease(q) \in WorkQueues(S)
         /\ Lease(q).data = q.data
<1>1. q.main \in Seq(S) /\ q.main # <<>> /\ q.processing \in Seq(S)
  BY DEF CanLease, WorkQueues
<1>2. Head(q.main) \in S /\ Tail(q.main) \in Seq(S)
  BY <1>1, HeadTailProperties
<1>3. Append(q.processing, Head(q.main)) \in Seq(S)
  BY <1>1, <1>2, AppendProperties
<1>. QED
  BY <1>2, <1>3 DEF Lease, WorkQueues

\* `complete', of any item.
LEMMA CompleteKeeps ==
  ASSUME NEW S, NEW q \in WorkQueues(S), NEW item
  PROVE  /\ Complete(q, item) \in WorkQueues(S)
         /\ Complete(q, item).data = q.data \ {item}
<1>1. RemoveFirst(q.processing, item) \in Seq(S)
  BY RemovedFirst DEF WorkQueues
<1>. QED
  BY <1>1 DEF Complete, WorkQueues

\* The end of a lease.
LEMMA ExpireKeeps ==
  ASSUME NEW S, NEW q \in WorkQueues(S)
  PROVE  /\ Expire(q) \in WorkQueues(S)
         /\ Expire(q).data = q.data
  BY DEF Expire, WorkQueues

\* `lightClean', of an item that lost its lease.
LEMMA PutBackKeeps ==
  ASSUME NEW S, NEW q \in WorkQueues(S), CanPutBack(q)
  PROVE  /\ PutBack(q) \in WorkQueues(S)
         /\ PutBack(q).data = q.data
<1>. DEFINE I == {i \in 1 .. Len(q.processing) : q.processing[i] \notin q.leased}
<1>1. q.processing \in Seq(S) /\ q.main \in Seq(S)
  BY DEF WorkQueues
<1>2. I # {} /\ I \subseteq Nat
  BY <1>1 DEF CanPutBack, ToSet
<1>3. Lapsed(q) = q.processing[Min(I)]
  BY <1>2 DEF Lapsed, SelectInSeq
<1>4. Min(I) \in I
  BY <1>2, LeastIsThere
<1>. DEFINE n == Min(I)
<1>. HIDE DEF n
<1>5. Lapsed(q) \in S
  <2>1. n \in 1 .. Len(q.processing) /\ Lapsed(q) = q.processing[n]
    BY <1>3, <1>4 DEF n
  <2>. QED
    BY <1>1, <2>1, ElementOfSeq
<1>6. RemoveFirst(q.processing, Lapsed(q)) \in Seq(S) /\ Append(q.main, Lapsed(q)) \in Seq(S)
  BY <1>1, <1>5, RemovedFirst
<1>. QED
  BY <1>6 DEF PutBack, WorkQueues

-----------------------------------------------------------------------------
(* No item is lost *)

\* Items with data wait in one of the lists: a job is not lost, whoever leases
\* it and loses the lease.
IsKept(q) == q.data \subseteq ToSet(q.main) \cup ToSet(q.processing)

\* The items of a list with one more.
LEMMA AppendedItems ==
  ASSUME NEW S, NEW s \in Seq(S), NEW e \in S
  PROVE  ToSet(Append(s, e)) = ToSet(s) \cup {e}
<1>. DEFINE n == Len(s)
            t == Append(s, e)
<1>1. n \in Nat /\ DOMAIN s = 1 .. n
  OBVIOUS
<1>2. t \in Seq(S) /\ Len(t) = n + 1 /\ t[n + 1] = e /\ \A i \in 1 .. n : t[i] = s[i]
  BY AppendProperties
<1>3. DOMAIN t = 1 .. n + 1
  BY <1>2
<1>. HIDE DEF n, t
<1>4. \A i \in 1 .. n : i \in 1 .. n + 1
  BY <1>1
<1>5. n + 1 \in 1 .. n + 1
  BY <1>1
<1>6. \A i \in 1 .. n + 1 : i = n + 1 \/ i \in 1 .. n
  BY <1>1
<1>7. ToSet(t) = ToSet(s) \cup {e}
  BY <1>1, <1>2, <1>3, <1>4, <1>5, <1>6 DEF ToSet
<1>. QED
  BY <1>7 DEF t

\* The items of a list without its head.
LEMMA TailItems ==
  ASSUME NEW S, NEW s \in Seq(S), s # <<>>
  PROVE  ToSet(s) = {Head(s)} \cup ToSet(Tail(s))
<1>. DEFINE n == Len(s)
            t == Tail(s)
<1>1. n \in Nat \ {0} /\ DOMAIN s = 1 .. n
  OBVIOUS
<1>2. t \in Seq(S) /\ Len(t) = n - 1 /\ Head(s) = s[1] /\ \A i \in 1 .. n - 1 : t[i] = s[i + 1]
  BY HeadTailProperties
<1>3. DOMAIN t = 1 .. n - 1
  BY <1>2
<1>. HIDE DEF n, t
<1>4. \A i \in 1 .. n : i = 1 \/ (i - 1 \in 1 .. n - 1 /\ (i - 1) + 1 = i)
  BY <1>1
<1>5. \A i \in 1 .. n - 1 : i + 1 \in 1 .. n
  BY <1>1
<1>6. 1 \in 1 .. n
  BY <1>1
<1>7. ASSUME NEW i \in 1 .. n PROVE s[i] = s[1] \/ s[i] = t[i - 1]
  <2>1. CASE i = 1
    BY <2>1
  <2>2. CASE i # 1
    <3>. DEFINE j == i - 1
    <3>1. j \in 1 .. n - 1 /\ j + 1 = i
      BY <1>4, <2>2
    <3>2. t[j] = s[j + 1]
      BY <1>2, <3>1
    <3>. QED
      BY <3>1, <3>2
  <2>. QED
    BY <2>1, <2>2
<1>8. ToSet(s) \subseteq {Head(s)} \cup ToSet(t)
  <2>1. ASSUME NEW x \in ToSet(s) PROVE x = Head(s) \/ x \in ToSet(t)
    <3>1. PICK i \in 1 .. n : s[i] = x
      BY <1>1 DEF ToSet
    <3>2. CASE s[i] = s[1]
      BY <1>2, <3>1, <3>2
    <3>3. CASE s[i] # s[1]
      <4>1. i - 1 \in 1 .. n - 1 /\ s[i] = t[i - 1]
        BY <1>4, <1>7, <3>3
      <4>. QED
        BY <1>3, <3>1, <4>1 DEF ToSet
    <3>. QED
      BY <3>2, <3>3
  <2>. QED
    BY <2>1
<1>9. {Head(s)} \cup ToSet(t) \subseteq ToSet(s)
  BY <1>1, <1>2, <1>3, <1>5, <1>6 DEF ToSet
<1>. QED
  BY <1>8, <1>9 DEF t

\* Only the one item is removed.
LEMMA OthersStay ==
  ASSUME NEW S, NEW s \in Seq(S), NEW e, NEW x \in ToSet(s), x # e
  PROVE  x \in ToSet(RemoveFirst(s, e))
<1>1. CASE ~\E i \in 1 .. Len(s) : s[i] = e
  BY <1>1 DEF RemoveFirst
<1>2. CASE \E i \in 1 .. Len(s) : s[i] = e
  <2>. DEFINE I == {i \in 1 .. Len(s) : s[i] = e}
              n == Min(I)
              N == Len(s)
              a == SubSeq(s, 1, n - 1)
              l == n + 1
              b == SubSeq(s, l, N)
  <2>1. I # {} /\ I \subseteq Nat
    BY <1>2
  <2>2. n \in 1 .. Len(s) /\ s[n] = e
    BY <2>1, LeastIsThere
  <2>3. RemoveFirst(s, e) = a \o b
    BY <1>2, <2>1 DEF RemoveFirst, SelectInSeq, RemoveAt
  <2>4. PICK i \in 1 .. N : s[i] = x
    BY DEF ToSet
  <2>. HIDE DEF n, I
  <2>5. i # n /\ N \in Nat /\ n \in 1 .. N
    BY <2>2, <2>4
  <2>6. a \in Seq(S) /\ Len(a) = n - 1 /\ \A k \in 1 .. n - 1 : a[k] = s[k]
    BY <2>5
  <2>7. b \in Seq(S) /\ Len(b) = N - n /\ \A k \in 1 .. N - n : b[k] = s[n + k]
    <3>1. l \in Nat /\ l = n + 1 /\ l <= N + 1 /\ N \in Nat /\ N = Len(s)
      BY <2>5
    <3>. HIDE DEF l, N
    <3>2. \A k \in l .. N : k \in 1 .. Len(s)
      BY <2>5, <3>1
    <3>3. /\ b \in Seq(S) /\ Len(b) = N - l + 1
          /\ \A k \in 1 .. N - l + 1 : b[k] = s[l + k - 1]
      BY <2>5, <3>1, <3>2, SubSeqProperties
    <3>4. N - l + 1 = N - n /\ \A k \in 1 .. N - n : l + k - 1 = n + k
      BY <2>5, <3>1
    <3>. HIDE DEF b
    <3>. QED
      BY <3>3, <3>4
  <2>. HIDE DEF a, b
  <2>8. /\ a \o b \in Seq(S) /\ Len(a \o b) = N - 1
        /\ \A k \in 1 .. N - 1 : (a \o b)[k] = IF k <= n - 1 THEN a[k] ELSE b[k - (n - 1)]
    <3>1. /\ a \o b \in Seq(S) /\ Len(a \o b) = Len(a) + Len(b)
          /\ \A k \in 1 .. Len(a) + Len(b) :
               (a \o b)[k] = IF k <= Len(a) THEN a[k] ELSE b[k - Len(a)]
      BY <2>6, <2>7, ConcatProperties
    <3>. HIDE DEF N
    <3>2. Len(a) + Len(b) = N - 1
      BY <2>5, <2>6, <2>7
    <3>. QED
      BY <2>6, <3>1, <3>2
  <2>9. \E k \in 1 .. N - 1 : (a \o b)[k] = x
    <3>. HIDE DEF N
    <3>1. CASE i < n
      <4>1. i \in 1 .. N - 1 /\ i \in 1 .. n - 1 /\ i <= n - 1
        BY <2>5, <3>1
      <4>2. (a \o b)[i] = x
        <5>1. (a \o b)[i] = a[i]
          BY <2>8, <4>1
        <5>. QED
          BY <2>4, <2>6, <4>1, <5>1
      <4>. QED
        BY <4>1, <4>2
    <3>2. CASE n < i
      <4>. DEFINE k == i - 1
      <4>1. /\ k \in 1 .. N - 1 /\ ~(k <= n - 1) /\ k - (n - 1) \in 1 .. N - n
            /\ n + (k - (n - 1)) = i
        BY <2>5, <3>2
      <4>2. (a \o b)[k] = s[n + (k - (n - 1))]
        BY <2>7, <2>8, <4>1
      <4>3. (a \o b)[k] = x
        BY <2>4, <4>1, <4>2
      <4>. QED
        BY <4>1, <4>3
    <3>3. i < n \/ n < i
      BY <2>4, <2>5
    <3>. QED
      BY <3>1, <3>2, <3>3
  <2>. DEFINE c == a \o b
  <2>. HIDE DEF c
  <2>10. c \in Seq(S) /\ Len(c) = N - 1 /\ \E k \in 1 .. N - 1 : c[k] = x
    BY <2>8, <2>9 DEF c
  <2>. HIDE DEF N
  <2>11. x \in ToSet(c)
    BY <2>10 DEF ToSet
  <2>. QED
    BY <2>3, <2>11 DEF c
<1>. QED
  BY <1>1, <1>2

\* The library loses no item that has data: whatever it does with a queue,
\* such an item is in one of its lists.
LEMMA EmptyQueueIsKept == IsKept(EmptyQueue)
  BY DEF IsKept, EmptyQueue

\* `addItem'.
LEMMA AddItemIsKept ==
  ASSUME NEW S, NEW q \in WorkQueues(S), IsKept(q), NEW item \in S
  PROVE  IsKept(AddItem(q, item))
<1>1. ToSet(Append(q.main, item)) = ToSet(q.main) \cup {item}
  BY AppendedItems DEF WorkQueues
<1>. QED
  BY <1>1 DEF AddItem, WorkQueues, IsKept

\* `lease'.
LEMMA LeaseIsKept ==
  ASSUME NEW S, NEW q \in WorkQueues(S), IsKept(q), CanLease(q)
  PROVE  IsKept(Lease(q))
<1>1. q.main \in Seq(S) /\ q.main # <<>> /\ q.processing \in Seq(S)
  BY DEF CanLease, WorkQueues
<1>2. Head(q.main) \in S
  BY <1>1, HeadTailProperties
<1>3. ToSet(q.main) = {Head(q.main)} \cup ToSet(Tail(q.main))
  BY <1>1, TailItems
<1>4. ToSet(Append(q.processing, Head(q.main))) = ToSet(q.processing) \cup {Head(q.main)}
  BY <1>1, <1>2, AppendedItems
<1>. QED
  BY <1>3, <1>4 DEF Lease, WorkQueues, IsKept

\* `complete'.
LEMMA CompleteIsKept ==
  ASSUME NEW S, NEW q \in WorkQueues(S), IsKept(q), NEW item
  PROVE  IsKept(Complete(q, item))
<1>. DEFINE p == q.processing
<1>1. p \in Seq(S)
  BY DEF WorkQueues
<1>. HIDE DEF p
<1>2. \A x \in ToSet(p) : x # item => x \in ToSet(RemoveFirst(p, item))
  BY <1>1, OthersStay
<1>. QED
  BY <1>2 DEF Complete, WorkQueues, IsKept, p

\* The end of a lease.
LEMMA ExpireIsKept ==
  ASSUME NEW S, NEW q \in WorkQueues(S), IsKept(q)
  PROVE  IsKept(Expire(q))
  BY DEF Expire, WorkQueues, IsKept

\* `lightClean'.
LEMMA PutBackIsKept ==
  ASSUME NEW S, NEW q \in WorkQueues(S), IsKept(q), CanPutBack(q)
  PROVE  IsKept(PutBack(q))
<1>. DEFINE p == q.processing
            e == Lapsed(q)
            I == {i \in 1 .. Len(p) : p[i] \notin q.leased}
<1>1. p \in Seq(S) /\ q.main \in Seq(S)
  BY DEF WorkQueues
<1>2. I # {} /\ I \subseteq Nat
  BY <1>1 DEF CanPutBack, ToSet
<1>3. e = p[Min(I)]
  BY <1>2 DEF Lapsed, SelectInSeq
<1>4. Min(I) \in 1 .. Len(p)
  BY <1>2, LeastIsThere
<1>5. e \in S
  <2>. DEFINE n == Min(I)
  <2>. HIDE DEF n, p, e
  <2>1. n \in 1 .. Len(p) /\ e = p[n]
    BY <1>3, <1>4 DEF n
  <2>. QED
    BY <1>1, <2>1, ElementOfSeq
<1>6. PutBack(q).main = Append(q.main, e) /\ PutBack(q).processing = RemoveFirst(p, e)
      /\ PutBack(q).data = q.data
  BY DEF PutBack, WorkQueues
<1>. HIDE DEF p, e
<1>7. \A x \in ToSet(p) : x # e => x \in ToSet(RemoveFirst(p, e))
  BY <1>1, OthersStay
<1>8. ToSet(Append(q.main, e)) = ToSet(q.main) \cup {e}
  BY <1>1, <1>5, AppendedItems
<1>. QED
  BY <1>6, <1>7, <1>8 DEF IsKept, p

-----------------------------------------------------------------------------
(* The writes of a script *)

\* Two writes are not each before the other: what the script makes next has
\* no write left before it.
LEMMA OneComesFirst ==
  ASSUME NEW a \in Place, NEW b \in Place, Precedes(a, b)
  PROVE  ~Precedes(b, a)
<1>1. SUFFICES ASSUME Precedes(b, a) PROVE FALSE
  OBVIOUS
<1>2. PICK m \in 1 .. 4 : a[m] < b[m] /\ \A k \in 1 .. m - 1 : a[k] = b[k]
  BY DEF Precedes
<1>3. PICK n \in 1 .. 4 : b[n] < a[n] /\ \A k \in 1 .. n - 1 : b[k] = a[k]
  BY <1>1 DEF Precedes
<1>4. a[m] \in Nat /\ b[m] \in Nat /\ a[n] \in Nat /\ b[n] \in Nat
  BY DEF Place
<1>5. m \in 1 .. n - 1 \/ n \in 1 .. m - 1 \/ m = n
  OBVIOUS
<1>. QED
  BY <1>2, <1>3, <1>4, <1>5

-----------------------------------------------------------------------------
(* Weights of limbs *)

\* A set of naturals that has zero and the next of each of its own has all.
LEMMA Induction ==
  ASSUME NEW S, 0 \in S, \A n \in Nat : n \in S => n + 1 \in S
  PROVE  Nat \subseteq S
<1>. DEFINE Wrong == {n \in Nat : n \notin S}
            m == Min(Wrong)
<1>1. SUFFICES ASSUME Wrong # {} PROVE FALSE
  OBVIOUS
<1>2. m \in Wrong /\ \A x \in Wrong : m <= x
  BY <1>1, LeastIsThere
<1>. HIDE DEF m
<1>3. m # 0 /\ m \in Nat /\ m \notin S
  BY <1>2
<1>. DEFINE k == m - 1
<1>4. k \in Nat /\ k + 1 = m
  BY <1>3
<1>. HIDE DEF k
<1>5. k \in S
  BY <1>2, <1>4
<1>. QED
  BY <1>3, <1>4, <1>5

\* Powers of two multiply.
LEMMA PowerSum ==
  ASSUME NEW m \in Nat, NEW n \in Nat
  PROVE  2 ^ (m + n) = 2 ^ m * 2 ^ n
<1>. DEFINE S == {k \in Nat : 2 ^ (m + k) = 2 ^ m * 2 ^ k}
<1>1. 0 \in S
  <2>1. 2 ^ m \in Nat /\ 2 ^ 0 = 1 /\ m + 0 = m
    BY PowerOfTwo
  <2>. QED
    BY <2>1
<1>2. ASSUME NEW k \in Nat, k \in S PROVE k + 1 \in S
  <2>. DEFINE p == 2 ^ m
              q == 2 ^ k
  <2>1. p \in Nat /\ q \in Nat /\ 2 ^ (k + 1) = 2 * q
    BY PowerOfTwo
  <2>2. 2 ^ ((m + k) + 1) = 2 * 2 ^ (m + k)
    <3>1. m + k \in Nat
      OBVIOUS
    <3>. QED
      BY <3>1, PowerOfTwo
  <2>3. m + (k + 1) = (m + k) + 1
    OBVIOUS
  <2>4. 2 ^ (m + k) = p * q
    BY <1>2
  <2>5. 2 ^ (m + (k + 1)) = 2 * (p * q)
    BY <2>2, <2>3, <2>4
  <2>. HIDE DEF p, q
  <2>6. 2 * (p * q) = p * (2 * q)
    BY <2>1
  <2>. QED
    BY <2>1, <2>5, <2>6 DEF p, q
<1>3. Nat \subseteq S
  <2>. HIDE DEF S
  <2>. QED
    BY <1>1, <1>2, Induction
<1>. QED
  BY <1>3

\* The weights of limbs.
LEMMA WeightLaws ==
  /\ Base \in Nat /\ Base >= 2
  /\ Weight(0) = 1
  /\ \A n \in Nat : Weight(n) \in Nat \ {0} /\ Weight(n + 1) = Weight(n) * Base
<1>1. LimbBits \in Nat \ {0}
  BY LimbAssumption
<1>2. Base \in Nat /\ Base >= 2
  <2>. DEFINE k == LimbBits - 1
  <2>1. k \in Nat /\ k + 1 = LimbBits
    BY <1>1
  <2>. HIDE DEF k
  <2>2. 2 ^ k \in Nat \ {0} /\ 2 ^ (k + 1) = 2 * 2 ^ k
    BY <2>1, PowerOfTwo
  <2>. QED
    BY <2>1, <2>2 DEF Base
<1>3. Weight(0) = 1
  <2>1. LimbBits * 0 = 0
    BY <1>1
  <2>. QED
    BY <2>1, PowerOfTwo DEF Weight
<1>4. ASSUME NEW n \in Nat
      PROVE  Weight(n) \in Nat \ {0} /\ Weight(n + 1) = Weight(n) * Base
  <2>1. LimbBits * n \in Nat /\ LimbBits \in Nat /\ LimbBits * (n + 1) = LimbBits * n + LimbBits
    BY <1>1
  <2>2. Weight(n) \in Nat \ {0}
    BY <2>1, PowerOfTwo DEF Weight
  <2>3. 2 ^ (LimbBits * n + LimbBits) = 2 ^ (LimbBits * n) * 2 ^ LimbBits
    BY <2>1, PowerSum
  <2>. QED
    BY <2>1, <2>2, <2>3 DEF Weight, Base
<1>. QED
  BY <1>2, <1>3, <1>4

\* They grow, by at least one for every limb, and multiply.
LEMMA WeightsGrow ==
  ASSUME NEW m \in Nat, NEW n \in Nat
  PROVE  /\ m <= n => Weight(m) <= Weight(n)
         /\ n < Weight(n)
         /\ Weight(m + n) = Weight(m) * Weight(n)
<1>1. Weight(m + n) = Weight(m) * Weight(n)
  <2>1. LimbBits * m \in Nat /\ LimbBits * n \in Nat
        /\ LimbBits * (m + n) = LimbBits * m + LimbBits * n
    BY LimbAssumption
  <2>2. 2 ^ (LimbBits * m + LimbBits * n) = 2 ^ (LimbBits * m) * 2 ^ (LimbBits * n)
    BY <2>1, PowerSum
  <2>. QED
    BY <2>1, <2>2 DEF Weight
<1>. DEFINE S == {k \in Nat : k < Weight(k) /\ Weight(m) <= Weight(m + k)}
<1>2. 0 \in S
  <2>1. m + 0 = m /\ Weight(m) \in Nat /\ Weight(0) = 1
    BY WeightLaws
  <2>. QED
    BY <2>1
<1>3. ASSUME NEW k \in Nat, k \in S PROVE k + 1 \in S
  <2>. DEFINE u == Weight(k)
              v == Weight(m + k)
  <2>1. u \in Nat /\ v \in Nat /\ Base \in Nat /\ Base >= 2 /\ Weight(m) \in Nat
        /\ Weight(k + 1) = u * Base
    BY WeightLaws
  <2>2. Weight((m + k) + 1) = v * Base
    <3>1. m + k \in Nat
      OBVIOUS
    <3>. QED
      BY <3>1, WeightLaws
  <2>3. m + (k + 1) = (m + k) + 1
    OBVIOUS
  <2>4. k < u /\ Weight(m) <= v
    BY <1>3
  <2>. HIDE DEF u, v
  <2>5. 2 * u <= Base * u /\ 2 * v <= Base * v
    BY <2>1, TimesMono
  <2>6. Base * u = u * Base /\ Base * v = v * Base
    BY <2>1
  <2>7. u * Base \in Nat /\ v * Base \in Nat
    BY <2>1
  <2>8. k + 1 < u * Base /\ Weight(m) <= v * Base
    BY <2>1, <2>4, <2>5, <2>6, <2>7
  <2>. QED
    BY <2>1, <2>2, <2>3, <2>8
<1>4. Nat \subseteq S
  <2>. HIDE DEF S
  <2>. QED
    BY <1>2, <1>3, Induction
<1>5. ASSUME m <= n PROVE Weight(m) <= Weight(n)
  <2>. DEFINE k == n - m
  <2>1. k \in Nat /\ m + k = n
    BY <1>5
  <2>. HIDE DEF k
  <2>2. k \in S
    BY <1>4, <2>1
  <2>. QED
    BY <2>1, <2>2
<1>6. n < Weight(n)
  BY <1>4
<1>. QED
  BY <1>1, <1>5, <1>6

-----------------------------------------------------------------------------
(* The folds of the library over limbs *)

\* The equation of the folds of the community modules, for the element that
\* c takes from a set and the step from one value to the next.
IsFold(g, D, base, c, step) ==
  /\ {} \in D => g[{}] = base
  /\ \A T \in D : T # {} => g[T] = step[<<c[T], g[T \ {c[T]}]>>]

\* The subsets with up to k elements.
UpTo(S, k) == {T \in SUBSET S : Cardinality(T) <= k}

\* A set without one of its elements.
LEMMA SmallerSet ==
  ASSUME NEW S, IsFiniteSet(S), NEW T \in SUBSET S, NEW e \in T
  PROVE  /\ T \ {e} \in SUBSET S
         /\ Cardinality(T) \in Nat
         /\ Cardinality(T \ {e}) = Cardinality(T) - 1
<1>1. IsFiniteSet(T)
  BY FS_Subset
<1>. QED
  BY <1>1, FS_CardinalityType, FS_RemoveElement

\* A fold exists: it is built from the small subsets up.
LEMMA FoldExists ==
  ASSUME NEW S, IsFiniteSet(S), NEW X, NEW base \in X,
         NEW c, \A T \in SUBSET S : T # {} => c[T] \in T,
         NEW step, \A e \in S : \A v \in X : step[<<e, v>>] \in X
  PROVE  \E g \in [SUBSET S -> X] : IsFold(g, SUBSET S, base, c, step)
<1>. DEFINE K == {k \in Nat : \E g \in [UpTo(S, k) -> X] : IsFold(g, UpTo(S, k), base, c, step)}
<1>1. \A T \in SUBSET S : Cardinality(T) \in Nat
  BY FS_Subset, FS_CardinalityType
<1>2. 0 \in K
  <2>. DEFINE g == [T \in UpTo(S, 0) |-> base]
  <2>1. \A T \in UpTo(S, 0) : T = {}
    <3>1. SUFFICES ASSUME NEW T \in UpTo(S, 0) PROVE T = {}
      OBVIOUS
    <3>2. T \in SUBSET S /\ IsFiniteSet(T) /\ Cardinality(T) = 0
      BY <1>1, FS_Subset DEF UpTo
    <3>. QED
      BY <3>2, FS_EmptySet
  <2>2. g \in [UpTo(S, 0) -> X] /\ IsFold(g, UpTo(S, 0), base, c, step)
    BY <2>1 DEF IsFold
  <2>. QED
    BY <2>2
<1>3. ASSUME NEW k \in Nat, k \in K PROVE k + 1 \in K
  <2>1. PICK g \in [UpTo(S, k) -> X] : IsFold(g, UpTo(S, k), base, c, step)
    BY <1>3
  <2>. DEFINE h == [T \in UpTo(S, k + 1) |->
                      IF T \in UpTo(S, k) THEN g[T] ELSE step[<<c[T], g[T \ {c[T]}]>>]]
  <2>2. ASSUME NEW T \in UpTo(S, k + 1), T # {}
        PROVE  c[T] \in S /\ T \ {c[T]} \in UpTo(S, k) /\ T \ {c[T]} \in UpTo(S, k + 1)
    <3>1. T \in SUBSET S /\ c[T] \in T /\ Cardinality(T) <= k + 1
      BY <2>2 DEF UpTo
    <3>2. T \ {c[T]} \in SUBSET S /\ Cardinality(T) \in Nat
          /\ Cardinality(T \ {c[T]}) = Cardinality(T) - 1
      BY <3>1, SmallerSet
    <3>. QED
      BY <3>1, <3>2 DEF UpTo
  <2>3. h \in [UpTo(S, k + 1) -> X]
    <3>1. ASSUME NEW T \in UpTo(S, k + 1), T \notin UpTo(S, k)
          PROVE  step[<<c[T], g[T \ {c[T]}]>>] \in X
      <4>1. T # {}
        <5>1. {} \in SUBSET S /\ Cardinality({}) <= k
          BY FS_EmptySet
        <5>. QED
          BY <3>1, <5>1 DEF UpTo
      <4>. QED
        BY <2>2, <4>1
    <3>. QED
      BY <3>1
  <2>4. {} \in UpTo(S, k)
    BY FS_EmptySet DEF UpTo
  <2>5. {} \in UpTo(S, k + 1)
    BY FS_EmptySet DEF UpTo
  <2>6. h[{}] = base
    BY <2>1, <2>4, <2>5 DEF IsFold
  <2>7. ASSUME NEW T \in UpTo(S, k + 1), T # {}
        PROVE  h[T] = step[<<c[T], h[T \ {c[T]}]>>]
    <3>1. h[T \ {c[T]}] = g[T \ {c[T]}]
      BY <2>2, <2>7
    <3>2. T \in UpTo(S, k) => g[T] = step[<<c[T], g[T \ {c[T]}]>>]
      BY <2>1, <2>7 DEF IsFold
    <3>3. h[T] = IF T \in UpTo(S, k) THEN g[T] ELSE step[<<c[T], g[T \ {c[T]}]>>]
      BY <2>7
    <3>. HIDE DEF h
    <3>. QED
      BY <3>1, <3>2, <3>3
  <2>8. IsFold(h, UpTo(S, k + 1), base, c, step)
    <3>. HIDE DEF h
    <3>. QED
      BY <2>6, <2>7 DEF IsFold
  <2>. HIDE DEF h
  <2>9. \E f \in [UpTo(S, k + 1) -> X] : IsFold(f, UpTo(S, k + 1), base, c, step)
    BY <2>3, <2>8
  <2>. QED
    BY <2>9
<1>4. Nat \subseteq K
  <2>. HIDE DEF K
  <2>. QED
    BY <1>2, <1>3, Induction
<1>5. UpTo(S, Cardinality(S)) = SUBSET S
  <2>1. \A T \in SUBSET S : Cardinality(T) <= Cardinality(S)
    BY FS_Subset
  <2>. QED
    BY <2>1 DEF UpTo
<1>6. Cardinality(S) \in K
  BY <1>1, <1>4
<1>. QED
  BY <1>5, <1>6

\* The ends of an interval of indices.
LEMMA IntervalEnds ==
  ASSUME NEW i \in Int, NEW n \in Int, i <= n
  PROVE  /\ i .. n # {} /\ i .. n \in SUBSET Int
         /\ Min(i .. n) = i /\ (i .. n) \ {i} = (i + 1) .. n
         /\ Max(i .. n) = n /\ (i .. n) \ {n} = i .. (n - 1)
<1>1. i \in i .. n /\ \A x \in i .. n : i <= x
  OBVIOUS
<1>2. n \in i .. n /\ \A x \in i .. n : n >= x
  OBVIOUS
<1>3. \A x \in i .. n : (\A y \in i .. n : x <= y) => x = i
  BY <1>1
<1>4. \A x \in i .. n : (\A y \in i .. n : x >= y) => x = n
  BY <1>2
<1>5. Min(i .. n) = i
  BY <1>1, <1>3 DEF Min
<1>6. Max(i .. n) = n
  BY <1>2, <1>4 DEF Max
<1>. QED
  BY <1>1, <1>5, <1>6

\* Some index is the least, and some the greatest, of a set of them.
LEMMA IndexEnds ==
  ASSUME NEW n \in Nat, NEW T \in SUBSET (1 .. n), T # {}
  PROVE  Min(T) \in T /\ Max(T) \in T
<1>1. T \subseteq Nat
  OBVIOUS
<1>2. Min(T) \in T
  BY <1>1, LeastIsThere
<1>. DEFINE R == {n - x : x \in T}
<1>3. R # {} /\ R \subseteq Nat
  <2>1. \A x \in T : n - x \in Nat
    OBVIOUS
  <2>. QED
    BY <2>1
<1>4. Min(R) \in R /\ \A x \in R : Min(R) <= x
  BY <1>3, LeastIsThere
<1>5. PICK y \in T : Min(R) = n - y
  BY <1>4
<1>6. \A x \in T : y >= x
  <2>1. \A x \in T : n - y <= n - x
    BY <1>4, <1>5
  <2>. QED
    BY <2>1
<1>7. Max(T) \in T
  BY <1>6 DEF Max
<1>. QED
  BY <1>2, <1>7

\* Horner's rule: the value of the limbs from the i-th one up.
IsHorner(x, n, H) ==
  /\ H \in [1 .. n + 1 -> Int]
  /\ H[n + 1] = 0
  /\ \A i \in 1 .. n : H[i] = H[i + 1] * Base + x[i]

\* get_biguint_target goes by it.
LEMMA ValueIsHorner ==
  ASSUME NEW a \in Seq(Int)
  PROVE  \E H : IsHorner(a, Len(a), H) /\ Value(a) = H[1]
<1>. DEFINE n == Len(a)
            S == 1 .. n
            c == [T \in SUBSET S |-> Min(T)]
            step == [p \in S \X Int |-> p[2] * Base + a[p[1]]]
            F(iter) == [s \in SUBSET S |-> IF s = {} THEN 0
                                           ELSE iter[s \ {Min(s)}] * Base + a[Min(s)]]
            Iter == CHOOSE iter : iter = F(iter)
<1>1. n \in Nat /\ S = DOMAIN a /\ \A i \in S : a[i] \in Int
  OBVIOUS
<1>0. Base \in Int
  BY WeightLaws
<1>2. Value(a) = Iter[S]
  <2>1. Value(a) = (CHOOSE iter : iter = [s \in SUBSET DOMAIN a |->
                                            IF s = {} THEN 0
                                            ELSE iter[s \ {Min(s)}] * Base + a[Min(s)]])[DOMAIN a]
    BY DEF Value, FoldRight, MapThenFoldSet
  <2>. QED
    BY <1>1, <2>1
<1>3. \E g \in [SUBSET S -> Int] : IsFold(g, SUBSET S, 0, c, step)
  <2>1. IsFiniteSet(S)
    BY <1>1, FS_Interval
  <2>2. \A T \in SUBSET S : T # {} => c[T] \in T
    BY <1>1, IndexEnds
  <2>3. \A e \in S : \A v \in Int : step[<<e, v>>] \in Int
    BY <1>0, <1>1
  <2>4. 0 \in Int
    OBVIOUS
  <2>. HIDE DEF S, c, step
  <2>. QED
    BY <2>1, <2>2, <2>3, <2>4, FoldExists
<1>4. PICK g \in [SUBSET S -> Int] : IsFold(g, SUBSET S, 0, c, step)
  BY <1>3
<1>5. g = F(g)
  <2>1. ASSUME NEW s \in SUBSET S, s # {}
        PROVE  g[s] = g[s \ {Min(s)}] * Base + a[Min(s)]
    <3>1. g[s] = step[<<c[s], g[s \ {c[s]}]>>] /\ c[s] = Min(s) /\ Min(s) \in s
      BY <1>1, <1>4, <2>1, IndexEnds DEF IsFold
    <3>2. g[s \ {Min(s)}] \in Int /\ Min(s) \in S
      BY <2>1, <3>1
    <3>. QED
      BY <3>1, <3>2
  <2>2. g[{}] = 0
    BY <1>4 DEF IsFold
  <2>. QED
    BY <2>1, <2>2
<1>6. Iter = F(Iter)
  <2>. HIDE DEF F
  <2>. QED
    BY <1>5
<1>. HIDE DEF Iter
<1>7. Iter[{}] = 0
  BY <1>6
<1>8. \A s \in SUBSET S : s # {} => Iter[s] = Iter[s \ {Min(s)}] * Base + a[Min(s)]
  BY <1>6
<1>. DEFINE H == [i \in 1 .. n + 1 |-> Iter[i .. n]]
<1>9. H[n + 1] = 0
  <2>1. (n + 1) .. n = {}
    BY <1>1
  <2>. QED
    BY <1>1, <1>7, <2>1
<1>10. ASSUME NEW i \in 1 .. n
       PROVE  H[i] = H[i + 1] * Base + a[i]
  <2>1. i \in Int /\ n \in Int /\ i <= n
    BY <1>1
  <2>2. /\ i .. n # {} /\ Min(i .. n) = i /\ (i .. n) \ {i} = (i + 1) .. n
    BY <2>1, IntervalEnds
  <2>3. i .. n \in SUBSET S /\ i \in 1 .. n + 1 /\ i + 1 \in 1 .. n + 1
    BY <1>1
  <2>4. Iter[i .. n] = Iter[(i + 1) .. n] * Base + a[i]
    BY <1>8, <2>2, <2>3
  <2>. QED
    BY <2>3, <2>4
<1>11. H \in [1 .. n + 1 -> Int]
  <2>. DEFINE K == {k \in Nat : k <= n => H[(n + 1) - k] \in Int}
  <2>1. 0 \in K
    BY <1>1, <1>9
  <2>2. ASSUME NEW k \in Nat, k \in K PROVE k + 1 \in K
    <3>1. SUFFICES ASSUME k + 1 <= n PROVE H[(n + 1) - (k + 1)] \in Int
      OBVIOUS
    <3>. DEFINE i == (n + 1) - (k + 1)
    <3>2. i \in 1 .. n /\ i + 1 = (n + 1) - k
      BY <1>1, <3>1
    <3>. HIDE DEF H, i
    <3>3. H[i + 1] \in Int
      BY <1>1, <2>2, <3>1, <3>2
    <3>4. H[i] = H[i + 1] * Base + a[i] /\ a[i] \in Int
      BY <1>1, <1>10, <3>2
    <3>5. H[i] \in Int
      BY <1>0, <3>3, <3>4
    <3>. QED
      BY <3>5 DEF i
  <2>3. Nat \subseteq K
    <3>. HIDE DEF K
    <3>. QED
      BY <2>1, <2>2, Induction
  <2>4. ASSUME NEW i \in 1 .. n + 1 PROVE H[i] \in Int
    <3>1. (n + 1) - i \in Nat /\ (n + 1) - i <= n /\ (n + 1) - ((n + 1) - i) = i
      BY <1>1
    <3>. HIDE DEF H
    <3>2. (n + 1) - i \in K
      BY <2>3, <3>1
    <3>. QED
      BY <3>1, <3>2
  <2>. QED
    BY <2>4
<1>12. Value(a) = H[1]
  BY <1>1, <1>2
<1>. HIDE DEF H
<1>. QED
  BY <1>9, <1>10, <1>11, <1>12 DEF IsHorner

-----------------------------------------------------------------------------
(* Values of the lowest limbs *)

\* The value of the lowest k limbs.
LowValue(x, k) == Value([i \in 1 .. k |-> x[i]])

\* That of all of them is the value.
LEMMA LowOfAll ==
  ASSUME NEW a, a = [i \in 1 .. Len(a) |-> a[i]]
  PROVE  LowValue(a, Len(a)) = Value(a)
BY DEF LowValue

\* The lowest limbs as a sequence.
LEMMA LowestAre ==
  ASSUME NEW x, NEW k \in Nat, \A i \in 1 .. k : x[i] \in Int,
         NEW a, a = [i \in 1 .. k |-> x[i]]
  PROVE  /\ a \in Seq(Int) /\ Len(a) = k
         /\ \A i \in 1 .. k : a[i] = x[i]
OBVIOUS

\* Integers have an integer for value, and none have zero.
LEMMA LowIsInt ==
  ASSUME NEW x, NEW k \in Nat, \A i \in 1 .. k : x[i] \in Int
  PROVE  LowValue(x, k) \in Int /\ LowValue(x, 0) = 0
<1>1. LowValue(x, k) \in Int
  <2>. DEFINE a == [i \in 1 .. k |-> x[i]]
  <2>1. a \in Seq(Int) /\ Len(a) = k
    BY LowestAre
  <2>. HIDE DEF a
  <2>2. PICK H : IsHorner(a, k, H) /\ Value(a) = H[1]
    BY <2>1, ValueIsHorner
  <2>3. H[1] \in Int
    BY <2>2 DEF IsHorner
  <2>. QED
    BY <2>2, <2>3 DEF LowValue, a
<1>2. LowValue(x, 0) = 0
  <2>. DEFINE a == [i \in 1 .. 0 |-> x[i]]
  <2>1. a \in Seq(Int) /\ Len(a) = 0
    OBVIOUS
  <2>. HIDE DEF a
  <2>2. PICK H : IsHorner(a, 0, H) /\ Value(a) = H[1]
    BY <2>1, ValueIsHorner
  <2>3. H[0 + 1] = 0
    BY <2>2 DEF IsHorner
  <2>. QED
    BY <2>2, <2>3 DEF LowValue, a
<1>. QED
  BY <1>1, <1>2

\* A limb above k others counts for the weight.
LEMMA LowNext ==
  ASSUME NEW x, NEW k \in Nat, \A i \in 1 .. k + 1 : x[i] \in Int
  PROVE  LowValue(x, k + 1) = LowValue(x, k) + x[k + 1] * Weight(k)
<1>. DEFINE a == [i \in 1 .. k |-> x[i]]
            b == [i \in 1 .. k + 1 |-> x[i]]
            v == x[k + 1]
<1>1. a \in Seq(Int) /\ Len(a) = k /\ \A i \in 1 .. k : a[i] = x[i]
  BY LowestAre
<1>2. b \in Seq(Int) /\ Len(b) = k + 1 /\ \A i \in 1 .. k + 1 : b[i] = x[i]
  <2>1. k + 1 \in Nat
    OBVIOUS
  <2>. QED
    BY <2>1, LowestAre
<1>3. v \in Int
  OBVIOUS
<1>. HIDE DEF a, b
<1>4. PICK G : IsHorner(a, k, G) /\ Value(a) = G[1]
  BY <1>1, ValueIsHorner
<1>5. PICK H : IsHorner(b, k + 1, H) /\ Value(b) = H[1]
  BY <1>2, ValueIsHorner
<1>6. /\ \A i \in 1 .. k + 1 : G[i] \in Int
      /\ G[k + 1] = 0
      /\ \A i \in 1 .. k : G[i] = G[i + 1] * Base + x[i]
  BY <1>1, <1>4 DEF IsHorner
<1>7. /\ \A i \in 1 .. k + 1 : H[i] \in Int
      /\ H[k + 1] = v
      /\ \A i \in 1 .. k : H[i] = H[i + 1] * Base + x[i]
  <2>1. /\ H \in [1 .. (k + 1) + 1 -> Int]
        /\ H[(k + 1) + 1] = 0
        /\ \A i \in 1 .. k + 1 : H[i] = H[i + 1] * Base + x[i]
    BY <1>2, <1>5 DEF IsHorner
  <2>2. k + 1 \in 1 .. k + 1 /\ Base \in Int
    BY WeightLaws
  <2>3. H[k + 1] = 0 * Base + x[k + 1]
    BY <2>1, <2>2
  <2>4. H[k + 1] = v
    BY <1>3, <2>2, <2>3
  <2>. QED
    BY <2>1, <2>4
<1>. DEFINE K == {d \in Nat : d <= k =>
                    H[(k + 1) - d] = G[(k + 1) - d] + v * Weight(d)}
<1>8. 0 \in K
  <2>1. (k + 1) - 0 = k + 1 /\ Weight(0) = 1
    BY WeightLaws
  <2>. QED
    BY <1>3, <1>6, <1>7, <2>1
<1>9. ASSUME NEW d \in Nat, d \in K PROVE d + 1 \in K
  <2>1. SUFFICES ASSUME d + 1 <= k
                 PROVE  H[(k + 1) - (d + 1)] = G[(k + 1) - (d + 1)] + v * Weight(d + 1)
    OBVIOUS
  <2>. DEFINE i == (k + 1) - (d + 1)
              w == Weight(d)
  <2>2. i \in 1 .. k /\ i + 1 = (k + 1) - d /\ i + 1 \in 1 .. k + 1
    BY <2>1
  <2>3. H[i + 1] = G[i + 1] + v * w
    BY <1>9, <2>1, <2>2
  <2>4. w \in Int /\ Base \in Int /\ Weight(d + 1) = w * Base
    BY WeightLaws
  <2>5. /\ H[i] = H[i + 1] * Base + x[i] /\ G[i] = G[i + 1] * Base + x[i]
        /\ G[i + 1] \in Int /\ x[i] \in Int
    BY <1>6, <1>7, <2>2
  <2>. HIDE DEF i, w, v
  <2>6. H[i] = (G[i + 1] + v * w) * Base + x[i]
    BY <2>3, <2>5
  <2>7. (G[i + 1] + v * w) * Base = G[i + 1] * Base + v * (w * Base)
        /\ G[i + 1] * Base \in Int /\ v * (w * Base) \in Int
    BY <1>3, <2>4, <2>5
  <2>8. H[i] = G[i] + v * (w * Base)
    BY <2>5, <2>6, <2>7
  <2>. QED
    BY <2>4, <2>8 DEF i, w
<1>10. Nat \subseteq K
  <2>. HIDE DEF K
  <2>. QED
    BY <1>8, <1>9, Induction
<1>11. H[1] = G[1] + v * Weight(k)
  <2>1. (k + 1) - k = 1 /\ k \in K /\ k <= k
    BY <1>10
  <2>. QED
    BY <2>1
<1>. QED
  BY <1>4, <1>5, <1>11 DEF LowValue, a, b

\* The laws of the value, limb by limb.
LEMMA LowLaws ==
  ASSUME NEW x, NEW n \in Nat, \A i \in 1 .. n : x[i] \in Int
  PROVE  /\ LowValue(x, 0) = 0
         /\ \A k \in 0 .. n : LowValue(x, k) \in Int
         /\ \A k \in 0 .. n - 1 :
              /\ LowValue(x, k + 1) = LowValue(x, k) + x[k + 1] * Weight(k)
              /\ x[k + 1] \in Int /\ x[k + 1] * Weight(k) \in Int
<1>1. LowValue(x, 0) = 0
  BY LowIsInt
<1>2. ASSUME NEW k \in 0 .. n PROVE LowValue(x, k) \in Int
  <2>1. k \in Nat /\ \A i \in 1 .. k : x[i] \in Int
    OBVIOUS
  <2>. QED
    BY <2>1, LowIsInt
<1>3. ASSUME NEW k \in 0 .. n - 1
      PROVE  /\ LowValue(x, k + 1) = LowValue(x, k) + x[k + 1] * Weight(k)
             /\ x[k + 1] \in Int /\ x[k + 1] * Weight(k) \in Int
  <2>1. k \in Nat /\ (\A i \in 1 .. k + 1 : x[i] \in Int) /\ k + 1 \in 1 .. n
    OBVIOUS
  <2>2. LowValue(x, k + 1) = LowValue(x, k) + x[k + 1] * Weight(k)
    BY <2>1, LowNext
  <2>3. x[k + 1] \in Int /\ Weight(k) \in Int
    BY <2>1, WeightLaws
  <2>4. x[k + 1] * Weight(k) \in Int
    BY <2>3
  <2>. QED
    BY <2>2, <2>3, <2>4
<1>. QED
  BY <1>1, <1>2, <1>3

\* The value is that of the limbs.
LEMMA LowAgree ==
  ASSUME NEW x, NEW y, NEW n \in Nat, \A i \in 1 .. n : x[i] = y[i]
  PROVE  LowValue(x, n) = LowValue(y, n)
<1>1. [i \in 1 .. n |-> x[i]] = [i \in 1 .. n |-> y[i]]
  OBVIOUS
<1>. QED
  BY <1>1 DEF LowValue

\* It is linear.
LEMMA LowOfSum ==
  ASSUME NEW x, NEW y, NEW z, NEW s \in Int, NEW n \in Nat,
         \A i \in 1 .. n : x[i] \in Int /\ y[i] \in Int /\ z[i] = x[i] + s * y[i]
  PROVE  LowValue(z, n) = LowValue(x, n) + s * LowValue(y, n)
<1>. DEFINE X(k) == LowValue(x, k)
            Y(k) == LowValue(y, k)
            Z(k) == LowValue(z, k)
            K == {k \in Nat : k <= n => Z(k) = X(k) + s * Y(k)}
<1>1. \A i \in 1 .. n : z[i] \in Int
  <2>1. \A i \in 1 .. n : s * y[i] \in Int
    OBVIOUS
  <2>. QED
    BY <2>1
<1>2. /\ X(0) = 0 /\ \A k \in 0 .. n : X(k) \in Int
      /\ \A k \in 0 .. n - 1 : X(k + 1) = X(k) + x[k + 1] * Weight(k)
  BY LowLaws
<1>3. /\ Y(0) = 0 /\ \A k \in 0 .. n : Y(k) \in Int
      /\ \A k \in 0 .. n - 1 : Y(k + 1) = Y(k) + y[k + 1] * Weight(k)
  BY LowLaws
<1>4. /\ Z(0) = 0 /\ \A k \in 0 .. n - 1 : Z(k + 1) = Z(k) + z[k + 1] * Weight(k)
  BY <1>1, LowLaws
<1>. HIDE DEF X, Y, Z
<1>5. 0 \in K
  BY <1>2, <1>3, <1>4
<1>6. ASSUME NEW k \in Nat, k \in K PROVE k + 1 \in K
  <2>1. SUFFICES ASSUME k + 1 <= n PROVE Z(k + 1) = X(k + 1) + s * Y(k + 1)
    OBVIOUS
  <2>2. k \in 0 .. n - 1 /\ k \in 0 .. n /\ k + 1 \in 1 .. n
    BY <2>1
  <2>. DEFINE w == Weight(k)
              p == X(k)
              q == Y(k)
              u == x[k + 1]
              v == y[k + 1]
  <2>3. w \in Int /\ p \in Int /\ q \in Int /\ u \in Int /\ v \in Int
    BY <1>2, <1>3, <2>2, WeightLaws
  <2>4. X(k + 1) = p + u * w /\ Y(k + 1) = q + v * w
    BY <1>2, <1>3, <2>2
  <2>5. Z(k + 1) = (p + s * q) + (u + s * v) * w
    <3>1. z[k + 1] = u + s * v /\ Z(k) = p + s * q
      BY <1>6, <2>1, <2>2
    <3>. QED
      BY <1>4, <2>2, <3>1
  <2>. HIDE DEF w, p, q, u, v
  <2>6. (p + s * q) + (u + s * v) * w = (p + u * w) + s * (q + v * w)
    BY <2>3
  <2>. QED
    BY <2>4, <2>5, <2>6
<1>7. Nat \subseteq K
  <2>. HIDE DEF K
  <2>. QED
    BY <1>5, <1>6, Induction
<1>8. Z(n) = X(n) + s * Y(n)
  BY <1>7
<1>. QED
  BY <1>8 DEF X, Y, Z

\* Zeros above do not count.
LEMMA LowOfMore ==
  ASSUME NEW x, NEW m \in Nat, NEW n \in Nat, m <= n,
         \A i \in 1 .. n : x[i] \in Int, \A i \in m + 1 .. n : x[i] = 0
  PROVE  LowValue(x, n) = LowValue(x, m)
<1>. DEFINE X(k) == LowValue(x, k)
            K == {k \in Nat : m + k <= n => X(m + k) = X(m)}
<1>1. /\ \A k \in 0 .. n : X(k) \in Int
      /\ \A k \in 0 .. n - 1 : X(k + 1) = X(k) + x[k + 1] * Weight(k)
  BY LowLaws
<1>. HIDE DEF X
<1>2. 0 \in K
  <2>1. m + 0 = m
    OBVIOUS
  <2>. QED
    BY <2>1
<1>3. ASSUME NEW k \in Nat, k \in K PROVE k + 1 \in K
  <2>1. SUFFICES ASSUME m + (k + 1) <= n PROVE X(m + (k + 1)) = X(m)
    OBVIOUS
  <2>. DEFINE j == m + k
  <2>2. j \in 0 .. n - 1 /\ j \in 0 .. n /\ j + 1 \in m + 1 .. n /\ m + (k + 1) = j + 1
        /\ j \in Nat
    BY <2>1
  <2>3. X(j) = X(m)
    BY <1>3, <2>1, <2>2
  <2>. HIDE DEF j
  <2>4. X(j + 1) = X(j) + 0 * Weight(j)
    BY <1>1, <2>2
  <2>5. Weight(j) \in Int
    BY <2>2, WeightLaws
  <2>6. X(j + 1) = X(j)
    BY <1>1, <2>2, <2>4, <2>5
  <2>. QED
    BY <2>2, <2>3, <2>6
<1>4. Nat \subseteq K
  <2>. HIDE DEF K
  <2>. QED
    BY <1>2, <1>3, Induction
<1>5. X(n) = X(m)
  <2>1. n - m \in K /\ m + (n - m) = n
    BY <1>4
  <2>. QED
    BY <2>1
<1>. QED
  BY <1>5 DEF X

\* The lowest n limbs are below the weight of the next one.
LEMMA LowBound ==
  ASSUME NEW x, NEW n \in Nat, \A i \in 1 .. n : x[i] \in Limb
  PROVE  LowValue(x, n) \in 0 .. Weight(n) - 1
<1>. DEFINE X(k) == LowValue(x, k)
            K == {k \in Nat : k <= n => X(k) \in 0 .. Weight(k) - 1}
<1>1. Base \in Nat /\ \A i \in 1 .. n : x[i] \in Int /\ 0 <= x[i] /\ x[i] <= Base - 1
  BY WeightLaws DEF Limb
<1>2. /\ X(0) = 0 /\ \A k \in 0 .. n : X(k) \in Int
      /\ \A k \in 0 .. n - 1 : X(k + 1) = X(k) + x[k + 1] * Weight(k)
  BY <1>1, LowLaws
<1>. HIDE DEF X
<1>3. 0 \in K
  BY <1>2, WeightLaws
<1>4. ASSUME NEW k \in Nat, k \in K PROVE k + 1 \in K
  <2>1. SUFFICES ASSUME k + 1 <= n PROVE X(k + 1) \in 0 .. Weight(k + 1) - 1
    OBVIOUS
  <2>2. k \in 0 .. n - 1 /\ k \in 0 .. n /\ k + 1 \in 1 .. n
    BY <2>1
  <2>. DEFINE w == Weight(k)
              u == x[k + 1]
              d == (Base - 1) - u
              t == X(k)
  <2>3. w \in Nat \ {0} /\ Weight(k + 1) = w * Base
    BY WeightLaws
  <2>4. u \in Nat /\ d \in Nat /\ u + d = Base - 1
    BY <1>1, <2>2
  <2>5. t \in 0 .. w - 1 /\ X(k + 1) = t + u * w
    BY <1>2, <1>4, <2>1, <2>2
  <2>. HIDE DEF w, u, d, t
  <2>6. u * w + d * w = w * Base - w /\ u * w \in Nat /\ d * w \in Nat /\ w * Base \in Nat
    <3>1. Base = u + d + 1
      BY <1>1, <2>4
    <3>2. w * (u + d + 1) = u * w + d * w + w
      BY <2>3, <2>4
    <3>. QED
      BY <2>3, <2>4, <3>1, <3>2
  <2>7. X(k + 1) \in 0 .. w * Base - 1
    BY <2>3, <2>5, <2>6
  <2>. QED
    BY <2>3, <2>7
<1>5. Nat \subseteq K
  <2>. HIDE DEF K
  <2>. QED
    BY <1>3, <1>4, Induction
<1>6. X(n) \in 0 .. Weight(n) - 1
  BY <1>5
<1>. QED
  BY <1>6 DEF X

\* What is above decides, whatever is below.
LEMMA TopDecides ==
  ASSUME NEW w \in Nat \ {0}, NEW u \in 0 .. w - 1, NEW v \in 0 .. w - 1,
         NEW d \in Int, NEW e \in Int
  PROVE  /\ u + d * w <= v + e * w <=> (d < e \/ (d = e /\ u <= v))
         /\ u + d * w = v + e * w <=> (d = e /\ u = v)
<1>1. d * w \in Int /\ e * w \in Int
  OBVIOUS
<1>2. CASE d = e
  BY <1>1, <1>2
<1>3. CASE d < e
  <2>. DEFINE k == (e - d) - 1
  <2>1. k \in Nat /\ e = d + 1 + k
    BY <1>3
  <2>. HIDE DEF k
  <2>2. e * w = d * w + w + k * w /\ k * w \in Nat
    BY <2>1
  <2>3. u + d * w < v + e * w
    BY <1>1, <2>2
  <2>. QED
    BY <1>1, <1>3, <2>3
<1>4. CASE e < d
  <2>. DEFINE k == (d - e) - 1
  <2>1. k \in Nat /\ d = e + 1 + k
    BY <1>4
  <2>. HIDE DEF k
  <2>2. d * w = e * w + w + k * w /\ k * w \in Nat
    BY <2>1
  <2>3. v + e * w < u + d * w
    BY <1>1, <2>2
  <2>. QED
    BY <1>1, <1>4, <2>3
<1>. QED
  BY <1>2, <1>3, <1>4

\* cmp_biguint on the lowest n limbs.
IsBelow(x, y, n) == \A i \in 1 .. n : x[i] > y[i] => \E j \in i + 1 .. n : x[j] < y[j]

\* It compares the values, and so does equality of the limbs.
LEMMA LowCompares ==
  ASSUME NEW x, NEW y, NEW n \in Nat, \A i \in 1 .. n : x[i] \in Limb /\ y[i] \in Limb
  PROVE  /\ IsBelow(x, y, n) <=> LowValue(x, n) <= LowValue(y, n)
         /\ (\A i \in 1 .. n : x[i] = y[i]) <=> LowValue(x, n) = LowValue(y, n)
<1>. DEFINE X(k) == LowValue(x, k)
            Y(k) == LowValue(y, k)
            Same(k) == \A i \in 1 .. k : x[i] = y[i]
            K == {k \in Nat : k <= n => /\ IsBelow(x, y, k) <=> X(k) <= Y(k)
                                        /\ Same(k) <=> X(k) = Y(k)}
<1>1. \A i \in 1 .. n : x[i] \in Int /\ y[i] \in Int
  <2>1. Limb \subseteq Int
    BY WeightLaws DEF Limb
  <2>. QED
    BY <2>1
<1>2. X(0) = 0 /\ \A k \in 0 .. n - 1 : X(k + 1) = X(k) + x[k + 1] * Weight(k)
  BY <1>1, LowLaws
<1>3. Y(0) = 0 /\ \A k \in 0 .. n - 1 : Y(k + 1) = Y(k) + y[k + 1] * Weight(k)
  BY <1>1, LowLaws
<1>4. ASSUME NEW k \in 0 .. n
      PROVE  X(k) \in 0 .. Weight(k) - 1 /\ Y(k) \in 0 .. Weight(k) - 1
  <2>1. k \in Nat /\ \A i \in 1 .. k : x[i] \in Limb /\ y[i] \in Limb
    OBVIOUS
  <2>. QED
    BY <2>1, LowBound
<1>. HIDE DEF X, Y
<1>5. 0 \in K
  BY <1>2, <1>3 DEF IsBelow
<1>6. ASSUME NEW k \in Nat, k \in K PROVE k + 1 \in K
  <2>1. SUFFICES ASSUME k + 1 <= n
                 PROVE  /\ IsBelow(x, y, k + 1) <=> X(k + 1) <= Y(k + 1)
                        /\ Same(k + 1) <=> X(k + 1) = Y(k + 1)
    OBVIOUS
  <2>2. k \in 0 .. n - 1 /\ k \in 0 .. n /\ k + 1 \in 1 .. n
    BY <2>1
  <2>. DEFINE w == Weight(k)
              d == x[k + 1]
              e == y[k + 1]
  <2>3. d \in Int /\ e \in Int /\ w \in Nat \ {0}
    BY <1>1, <2>2, WeightLaws
  <2>4. X(k + 1) = X(k) + d * w /\ Y(k + 1) = Y(k) + e * w
    BY <1>2, <1>3, <2>2
  <2>5. X(k) \in 0 .. w - 1 /\ Y(k) \in 0 .. w - 1
    BY <1>4, <2>2
  <2>6. (IsBelow(x, y, k) <=> X(k) <= Y(k)) /\ (Same(k) <=> X(k) = Y(k))
    BY <1>6, <2>1
  <2>7. /\ X(k + 1) <= Y(k + 1) <=> (d < e \/ (d = e /\ X(k) <= Y(k)))
        /\ X(k + 1) = Y(k + 1) <=> (d = e /\ X(k) = Y(k))
    <3>. HIDE DEF w, d, e
    <3>. QED
      BY <2>3, <2>4, <2>5, TopDecides
  <2>8. Same(k + 1) <=> (d = e /\ Same(k))
    <3>1. \A i \in 1 .. k + 1 : i = k + 1 \/ i \in 1 .. k
      OBVIOUS
    <3>. QED
      BY <3>1
  <2>9. IsBelow(x, y, k + 1) <=> (d < e \/ (d = e /\ IsBelow(x, y, k)))
    <3>1. \A i \in 1 .. k + 1 : i = k + 1 \/ i \in 1 .. k
      OBVIOUS
    <3>2. (k + 1) + 1 .. k + 1 = {}
      OBVIOUS
    <3>3. CASE d < e
      <4>1. ASSUME NEW i \in 1 .. k + 1, x[i] > y[i]
            PROVE  \E j \in i + 1 .. k + 1 : x[j] < y[j]
        <5>1. i # k + 1
          BY <2>3, <3>3, <4>1
        <5>2. k + 1 \in i + 1 .. k + 1
          BY <5>1
        <5>. QED
          BY <3>3, <5>2
      <4>. QED
        BY <3>3, <4>1 DEF IsBelow
    <3>4. CASE d > e
      <4>1. ~IsBelow(x, y, k + 1)
        BY <3>2, <3>4 DEF IsBelow
      <4>. QED
        BY <2>3, <3>4, <4>1
    <3>5. CASE d = e
      <4>1. ASSUME NEW i \in 1 .. k
            PROVE  (\E j \in i + 1 .. k + 1 : x[j] < y[j]) <=> (\E j \in i + 1 .. k : x[j] < y[j])
        <5>1. \A j \in i + 1 .. k + 1 : j = k + 1 \/ j \in i + 1 .. k
          OBVIOUS
        <5>2. ~(x[k + 1] < y[k + 1])
          BY <2>3, <3>5
        <5>3. i + 1 .. k \subseteq i + 1 .. k + 1
          OBVIOUS
        <5>. QED
          BY <5>1, <5>2, <5>3
      <4>2. ~(x[k + 1] > y[k + 1])
        BY <2>3, <3>5
      <4>3. 1 .. k \subseteq 1 .. k + 1
        OBVIOUS
      <4>4. IsBelow(x, y, k + 1) <=> IsBelow(x, y, k)
        BY <3>1, <4>1, <4>2, <4>3 DEF IsBelow
      <4>. QED
        BY <2>3, <3>5, <4>4
    <3>. QED
      BY <2>3, <3>3, <3>4, <3>5
  <2>. QED
    BY <2>6, <2>7, <2>8, <2>9
<1>7. Nat \subseteq K
  <2>. HIDE DEF K
  <2>. QED
    BY <1>5, <1>6, Induction
<1>8. (IsBelow(x, y, n) <=> X(n) <= Y(n)) /\ (Same(n) <=> X(n) = Y(n))
  BY <1>7
<1>. QED
  BY <1>8 DEF X, Y

-----------------------------------------------------------------------------
(* Numbers and their comparison *)

\* The longer one's length.
LEMMA MaxLenIs ==
  ASSUME NEW a \in Seq(Int), NEW b \in Seq(Int)
  PROVE  /\ MaxLen(a, b) \in Nat
         /\ Len(a) <= MaxLen(a, b) /\ Len(b) <= MaxLen(a, b)
         /\ MaxLen(a, b) = Len(a) \/ MaxLen(a, b) = Len(b)
<1>. DEFINE m == Len(a)
            n == Len(b)
            S == {m, n}
<1>1. m \in Nat /\ n \in Nat
  OBVIOUS
<1>. HIDE DEF m, n
<1>2. \E x \in S : \A y \in S : x >= y
  BY <1>1
<1>3. Max(S) \in S /\ \A y \in S : Max(S) >= y
  BY <1>2 DEF Max
<1>. QED
  BY <1>1, <1>3 DEF MaxLen, m, n

\* A number in a circuit.
LEMMA Limbs ==
  ASSUME NEW a \in Seq(Limb)
  PROVE  /\ a \in Seq(Int) /\ Len(a) \in Nat /\ DOMAIN a = 1 .. Len(a)
         /\ a = [i \in 1 .. Len(a) |-> a[i]]
         /\ \A i \in 1 .. Len(a) : a[i] \in Limb /\ LimbAt(a, i) = a[i]
         /\ \A i : LimbAt(a, i) \in Limb
         /\ \A i \in Int : i > Len(a) => LimbAt(a, i) = 0
<1>1. Limb \subseteq Int /\ 0 \in Limb
  BY WeightLaws DEF Limb
<1>2. /\ Len(a) \in Nat /\ DOMAIN a = 1 .. Len(a)
      /\ a = [i \in 1 .. Len(a) |-> a[i]]
      /\ \A i \in 1 .. Len(a) : a[i] \in Limb
  OBVIOUS
<1>3. a \in Seq(Int)
  <2>1. \A i \in 1 .. Len(a) : a[i] \in Int
    BY <1>1, <1>2
  <2>. QED
    BY <1>2, <2>1, LowestAre
<1>4. /\ \A i \in 1 .. Len(a) : LimbAt(a, i) = a[i]
      /\ \A i : LimbAt(a, i) \in Limb
  BY <1>1, <1>2 DEF LimbAt
<1>5. \A i \in Int : i > Len(a) => LimbAt(a, i) = 0
  BY <1>2 DEF LimbAt
<1>. QED
  BY <1>2, <1>3, <1>4, <1>5

\* pad_biguints: a number with limbs of zero above.
LEMMA Padded ==
  ASSUME NEW a \in Seq(Limb), NEW n \in Nat, Len(a) <= n
  PROVE  /\ PaddedTo(a, n) \in Seq(Limb) /\ Len(PaddedTo(a, n)) = n
         /\ \A i \in 1 .. n : PaddedTo(a, n)[i] = LimbAt(a, i)
         /\ LowValue(PaddedTo(a, n), n) = Value(a)
         /\ Value(PaddedTo(a, n)) = Value(a)
         /\ Value(a) \in 0 .. Weight(n) - 1
<1>. DEFINE p == PaddedTo(a, n)
            m == Len(a)
<1>1. /\ p \in Seq(Limb) /\ Len(p) = n /\ p = [i \in 1 .. Len(p) |-> p[i]]
      /\ \A i \in 1 .. n : p[i] = LimbAt(a, i) /\ p[i] \in Limb
  <2>1. \A i : LimbAt(a, i) \in Limb
    BY Limbs
  <2>. QED
    BY <2>1 DEF PaddedTo
<1>2. \A i \in 1 .. n : p[i] \in Int
  <2>1. Limb \subseteq Int
    BY WeightLaws DEF Limb
  <2>. QED
    BY <1>1, <2>1
<1>3. m \in Nat /\ m <= n /\ \A i \in 1 .. m : p[i] = a[i]
  BY <1>1, Limbs
<1>4. \A i \in m + 1 .. n : p[i] = 0
  <2>1. ASSUME NEW i \in m + 1 .. n PROVE p[i] = 0
    <3>1. i \in 1 .. n /\ i \in Int /\ i > m
      BY <1>3
    <3>. QED
      BY <1>1, <3>1, Limbs
  <2>. QED
    BY <2>1
<1>. HIDE DEF p
<1>5. LowValue(p, n) = LowValue(p, m)
  BY <1>2, <1>3, <1>4, LowOfMore
<1>6. LowValue(p, m) = LowValue(a, m)
  BY <1>3, LowAgree
<1>7. LowValue(a, m) = Value(a)
  BY Limbs, LowOfAll
<1>8. LowValue(p, n) = Value(p)
  BY <1>1, LowOfAll
<1>9. LowValue(p, n) \in 0 .. Weight(n) - 1
  BY <1>1, LowBound
<1>. QED
  BY <1>1, <1>5, <1>6, <1>7, <1>8, <1>9 DEF p

\* A number is below the weight of one limb more.
LEMMA NumberBound ==
  ASSUME NEW a \in Seq(Limb)
  PROVE  Value(a) \in Nat /\ Value(a) < Weight(Len(a)) /\ LowValue(a, Len(a)) = Value(a)
<1>1. Len(a) \in Nat /\ Len(a) <= Len(a) /\ Weight(Len(a)) \in Nat
  BY WeightLaws
<1>2. Value(a) \in 0 .. Weight(Len(a)) - 1
  BY <1>1, Padded
<1>3. LowValue(a, Len(a)) = Value(a)
  BY Limbs, LowOfAll
<1>. QED
  BY <1>1, <1>2, <1>3

\* cmp_biguint and connect_biguint are about the values.
LEMMA ComparedByValue ==
  ASSUME NEW a \in Seq(Limb), NEW b \in Seq(Limb)
  PROVE  /\ Cmp(a, b) <=> Value(a) <= Value(b)
         /\ Connected(a, b) <=> Value(a) = Value(b)
<1>. DEFINE m == MaxLen(a, b)
            p == PaddedTo(a, m)
            q == PaddedTo(b, m)
<1>1. m \in Nat /\ Len(a) <= m /\ Len(b) <= m /\ (m = Len(a) \/ m = Len(b))
  BY Limbs, MaxLenIs
<1>2. /\ p \in Seq(Limb) /\ Len(p) = m /\ LowValue(p, m) = Value(a)
      /\ \A i \in 1 .. m : p[i] = LimbAt(a, i) /\ p[i] \in Limb
  BY <1>1, Padded, Limbs
<1>3. /\ q \in Seq(Limb) /\ Len(q) = m /\ LowValue(q, m) = Value(b)
      /\ \A i \in 1 .. m : q[i] = LimbAt(b, i) /\ q[i] \in Limb
  BY <1>1, Padded, Limbs
<1>4. Cmp(a, b) <=> IsBelow(p, q, m)
  <2>1. PadBiguints(a, b)[1] = p /\ PadBiguints(a, b)[2] = q
    BY DEF PadBiguints
  <2>2. DOMAIN p = 1 .. m
    BY <1>2
  <2>. HIDE DEF p, q, m
  <2>. QED
    BY <1>2, <2>1, <2>2 DEF Cmp, IsBelow
<1>. HIDE DEF p, q, m
<1>5. Connected(a, b) <=> \A i \in 1 .. m : p[i] = q[i]
  <2>1. DOMAIN a = 1 .. Len(a) /\ DOMAIN b = 1 .. Len(b) /\ Len(a) \in Nat /\ Len(b) \in Nat
    OBVIOUS
  <2>2. \A i \in 1 .. m : /\ p[i] = IF i \in DOMAIN a THEN a[i] ELSE 0
                          /\ q[i] = IF i \in DOMAIN b THEN b[i] ELSE 0
    BY <1>2, <1>3 DEF LimbAt
  <2>3. 1 .. m = DOMAIN a \cup DOMAIN b
    <3>1. 1 .. Len(a) \subseteq 1 .. m /\ 1 .. Len(b) \subseteq 1 .. m
      <4>1. \A k, l \in Nat : k <= l => 1 .. k \subseteq 1 .. l
        OBVIOUS
      <4>. QED
        BY <1>1, <2>1, <4>1
    <3>2. 1 .. m = 1 .. Len(a) \/ 1 .. m = 1 .. Len(b)
      BY <1>1
    <3>. QED
      BY <2>1, <3>1, <3>2
  <2>. QED
    BY <2>2, <2>3 DEF Connected
<1>. QED
  BY <1>1, <1>2, <1>3, <1>4, <1>5, LowCompares

\* Of one length there is one number for each value.
LEMMA OneForm ==
  ASSUME NEW a \in Seq(Limb), NEW b \in Seq(Limb), Len(a) = Len(b)
  PROVE  /\ Value(a) = Value(b) <=> a = b
         /\ BiguintIsEqual(a, b) <=> Value(a) = Value(b)
<1>. DEFINE n == Len(a)
<1>1. /\ n \in Nat /\ DOMAIN a = 1 .. n
      /\ a = [i \in 1 .. n |-> a[i]] /\ b = [i \in 1 .. n |-> b[i]]
      /\ \A i \in 1 .. n : a[i] \in Limb /\ b[i] \in Limb
  BY Limbs
<1>2. LowValue(a, n) = Value(a) /\ LowValue(b, n) = Value(b)
  BY NumberBound
<1>. HIDE DEF n
<1>3. (\A i \in 1 .. n : a[i] = b[i]) <=> Value(a) = Value(b)
  BY <1>1, <1>2, LowCompares
<1>4. (\A i \in 1 .. n : a[i] = b[i]) <=> a = b
  BY <1>1
<1>. QED
  BY <1>1, <1>3, <1>4 DEF BiguintIsEqual

-----------------------------------------------------------------------------
(* Carrying *)

\* Quotient and remainder, below zero too.
LEMMA DivInt ==
  ASSUME NEW b \in Nat \ {0}, NEW x \in Int
  PROVE  /\ x \div b \in Int /\ x % b \in 0 .. b - 1
         /\ x = (x \div b) * b + (x % b)
  OBVIOUS

\* They are the only ones.
LEMMA DivUnique ==
  ASSUME NEW b \in Nat \ {0}, NEW x \in Int, NEW q \in Int, NEW r \in 0 .. b - 1,
         x = q * b + r
  PROVE  x \div b = q /\ x % b = r
<1>. DEFINE p == x \div b
            s == x % b
<1>1. p \in Int /\ s \in 0 .. b - 1 /\ x = p * b + s
  BY DivInt
<1>. HIDE DEF p, s
<1>2. s + p * b = r + q * b
  <2>1. p * b \in Int /\ q * b \in Int
    BY <1>1
  <2>. QED
    BY <1>1, <2>1
<1>3. p = q /\ s = r
  BY <1>1, <1>2, TopDecides
<1>. QED
  BY <1>3 DEF p, s

\* The limbs and the carry after a column.
SweepStep(s, column) ==
  [limbs |-> Append(s.limbs, (column + s.carry) % Base),
   carry |-> (column + s.carry) \div Base]

\* Those after every number of columns.
IsSweep(columns, n, R) ==
  /\ R[0] = [limbs |-> <<>>, carry |-> 0]
  /\ \A k \in 1 .. n : R[k] = SweepStep(R[k - 1], columns[k])

\* The loop of add_biguint goes through them.
LEMMA SweepIsLoop ==
  ASSUME NEW a \in Seq(Int)
  PROVE  \E R : IsSweep(a, Len(a), R) /\ Sweep(a) = R[Len(a)]
<1>. DEFINE n == Len(a)
            S == 1 .. n
            X == [limbs : Seq(Int), carry : Int]
            zero == [limbs |-> <<>>, carry |-> 0]
            c == [T \in SUBSET S |-> Max(T)]
            step == [p \in S \X X |-> SweepStep(p[2], a[p[1]])]
            F(iter) == [s \in SUBSET S |-> IF s = {} THEN zero
                                           ELSE SweepStep(iter[s \ {Max(s)}], a[Max(s)])]
            Iter == CHOOSE iter : iter = F(iter)
<1>1. n \in Nat /\ S = DOMAIN a /\ \A i \in S : a[i] \in Int
  OBVIOUS
<1>2. Sweep(a) = Iter[S]
  <2>1. Sweep(a) =
          (CHOOSE iter : iter = [s \in SUBSET DOMAIN a |->
                                   IF s = {} THEN zero
                                   ELSE SweepStep(iter[s \ {Max(s)}], a[Max(s)])])[DOMAIN a]
    BY DEF Sweep, FoldLeft, MapThenFoldSet, SweepStep
  <2>. QED
    BY <1>1, <2>1
<1>3. \E g \in [SUBSET S -> X] : IsFold(g, SUBSET S, zero, c, step)
  <2>1. IsFiniteSet(S)
    BY <1>1, FS_Interval
  <2>2. \A T \in SUBSET S : T # {} => c[T] \in T
    BY <1>1, IndexEnds
  <2>3. ASSUME NEW e \in S, NEW v \in X PROVE step[<<e, v>>] \in X
    <3>. DEFINE t == a[e] + v.carry
    <3>1. t \in Int /\ v.limbs \in Seq(Int)
      BY <1>1
    <3>. HIDE DEF t
    <3>2. t % Base \in Int /\ t \div Base \in Int
      BY <3>1, DivInt, WeightLaws
    <3>3. step[<<e, v>>] = [limbs |-> Append(v.limbs, t % Base), carry |-> t \div Base]
      BY DEF SweepStep, t
    <3>. HIDE DEF step
    <3>. QED
      BY <3>1, <3>2, <3>3
  <2>4. zero \in X
    OBVIOUS
  <2>. HIDE DEF S, c, step, X, zero
  <2>. QED
    BY <2>1, <2>2, <2>3, <2>4, FoldExists
<1>4. PICK g \in [SUBSET S -> X] : IsFold(g, SUBSET S, zero, c, step)
  BY <1>3
<1>5. g = F(g)
  <2>. HIDE DEF zero, X
  <2>1. ASSUME NEW s \in SUBSET S, s # {}
        PROVE  g[s] = SweepStep(g[s \ {Max(s)}], a[Max(s)])
    <3>1. g[s] = step[<<c[s], g[s \ {c[s]}]>>] /\ c[s] = Max(s) /\ Max(s) \in s
      BY <1>1, <1>4, <2>1, IndexEnds DEF IsFold
    <3>2. g[s \ {Max(s)}] \in X /\ Max(s) \in S
      BY <2>1, <3>1
    <3>. QED
      BY <3>1, <3>2
  <2>2. g[{}] = zero
    BY <1>4 DEF IsFold
  <2>. QED
    BY <2>1, <2>2
<1>6. Iter = F(Iter)
  <2>. HIDE DEF F
  <2>. QED
    BY <1>5
<1>. HIDE DEF Iter, zero
<1>7. Iter[{}] = zero
  BY <1>6
<1>8. \A s \in SUBSET S : s # {} => Iter[s] = SweepStep(Iter[s \ {Max(s)}], a[Max(s)])
  BY <1>6
<1>. DEFINE R == [k \in 0 .. n |-> Iter[1 .. k]]
<1>9. R[0] = zero
  <2>1. 1 .. 0 = {} /\ 0 \in 0 .. n
    BY <1>1
  <2>. QED
    BY <1>7, <2>1
<1>10. ASSUME NEW k \in 1 .. n PROVE R[k] = SweepStep(R[k - 1], a[k])
  <2>1. 1 \in Int /\ k \in Int /\ 1 <= k
    BY <1>1
  <2>2. 1 .. k # {} /\ Max(1 .. k) = k /\ (1 .. k) \ {k} = 1 .. (k - 1)
    BY <2>1, IntervalEnds
  <2>3. 1 .. k \in SUBSET S /\ k \in 0 .. n /\ k - 1 \in 0 .. n
    BY <1>1
  <2>4. Iter[1 .. k] = SweepStep(Iter[1 .. (k - 1)], a[k])
    BY <1>8, <2>2, <2>3
  <2>. QED
    BY <2>3, <2>4
<1>11. R[n] = Sweep(a)
  BY <1>1, <1>2
<1>. HIDE DEF R
<1>12. IsSweep(a, n, R)
  BY <1>9, <1>10 DEF IsSweep, zero
<1>. QED
  BY <1>11, <1>12

\* A limb more.
LEMMA ValueOfAppend ==
  ASSUME NEW a \in Seq(Int), NEW d \in Int
  PROVE  Value(Append(a, d)) = Value(a) + d * Weight(Len(a))
<1>. DEFINE b == Append(a, d)
            n == Len(a)
<1>1. /\ n \in Nat /\ b \in Seq(Int) /\ Len(b) = n + 1
      /\ b = [i \in 1 .. Len(b) |-> b[i]] /\ a = [i \in 1 .. n |-> a[i]]
      /\ \A i \in 1 .. n + 1 : b[i] \in Int
      /\ b[n + 1] = d
      /\ \A i \in 1 .. n : b[i] = a[i]
  <2>1. n \in Nat /\ b \in Seq(Int) /\ Len(b) = n + 1
    OBVIOUS
  <2>2. b[n + 1] = d /\ \A i \in 1 .. n : b[i] = a[i]
    OBVIOUS
  <2>3. a = [i \in 1 .. n |-> a[i]]
    OBVIOUS
  <2>. HIDE DEF b, n
  <2>4. b = [i \in 1 .. Len(b) |-> b[i]] /\ \A i \in 1 .. n + 1 : b[i] \in Int
    BY <2>1
  <2>. QED
    BY <2>1, <2>2, <2>3, <2>4
<1>. HIDE DEF b
<1>2. LowValue(b, n + 1) = LowValue(b, n) + b[n + 1] * Weight(n)
  BY <1>1, LowNext
<1>3. LowValue(b, n) = LowValue(a, n)
  BY <1>1, LowAgree
<1>4. LowValue(b, n + 1) = Value(b)
  BY <1>1, LowOfAll
<1>5. LowValue(a, n) = Value(a)
  BY <1>1, LowOfAll
<1>. QED
  BY <1>1, <1>2, <1>3, <1>4, <1>5 DEF b

\* Nothing of the columns is lost.
LEMMA SweepIsExact ==
  ASSUME NEW a \in Seq(Int)
  PROVE  /\ Sweep(a).limbs \in Seq(Limb) /\ Len(Sweep(a).limbs) = Len(a)
         /\ Sweep(a).carry \in Int
         /\ Value(Sweep(a).limbs) + Sweep(a).carry * Weight(Len(a)) = LowValue(a, Len(a))
<1>. DEFINE n == Len(a)
            A(k) == LowValue(a, k)
<1>1. n \in Nat /\ \A i \in 1 .. n : a[i] \in Int
  OBVIOUS
<1>2. PICK R : IsSweep(a, n, R) /\ Sweep(a) = R[n]
  BY SweepIsLoop
<1>3. A(0) = 0 /\ \A k \in 0 .. n - 1 : A(k + 1) = A(k) + a[k + 1] * Weight(k)
  BY <1>1, LowLaws
<1>. HIDE DEF A, n
<1>. DEFINE Good(k) == /\ R[k].limbs \in Seq(Limb) /\ Len(R[k].limbs) = k
                       /\ R[k].carry \in Int
                       /\ Value(R[k].limbs) + R[k].carry * Weight(k) = A(k)
            K == {k \in Nat : k <= n => Good(k)}
<1>4. 0 \in K
  <2>1. R[0].limbs = <<>> /\ R[0].carry = 0
    BY <1>2 DEF IsSweep
  <2>2. <<>> \in Seq(Limb) /\ Len(<<>>) = 0
    OBVIOUS
  <2>3. Value(<<>>) = 0
    <3>1. Value(<<>>) \in Nat /\ Value(<<>>) < Weight(0)
      BY <2>2, NumberBound
    <3>. QED
      BY <3>1, WeightLaws
  <2>4. 0 + 0 * Weight(0) = 0
    BY WeightLaws
  <2>5. Good(0)
    BY <1>3, <2>1, <2>2, <2>3, <2>4
  <2>. HIDE DEF Good
  <2>. QED
    BY <2>5
<1>5. ASSUME NEW k \in Nat, k \in K PROVE k + 1 \in K
  <2>1. SUFFICES ASSUME k + 1 <= n PROVE Good(k + 1)
    OBVIOUS
  <2>. DEFINE l == R[k].limbs
              c == R[k].carry
              t == a[k + 1] + c
              w == Weight(k)
              d == t % Base
              e == t \div Base
  <2>2. k \in 0 .. n - 1 /\ k + 1 \in 1 .. n /\ (k + 1) - 1 = k
    BY <1>1, <2>1
  <2>3. l \in Seq(Limb) /\ Len(l) = k /\ c \in Int /\ Value(l) + c * w = A(k)
    <3>1. k <= n
      BY <1>1, <2>1
    <3>. QED
      BY <1>5, <3>1
  <2>4. R[k + 1] = SweepStep(R[k], a[k + 1])
    BY <1>2, <2>2 DEF IsSweep
  <2>5. R[k + 1].limbs = Append(l, d) /\ R[k + 1].carry = e
    BY <2>4 DEF SweepStep
  <2>6. Base \in Nat \ {0} /\ w \in Nat \ {0} /\ Weight(k + 1) = w * Base
    <3>1. w \in Nat \ {0} /\ Weight(k + 1) = w * Base
      BY WeightLaws
    <3>2. Base \in Nat \ {0}
      BY WeightLaws
    <3>. QED
      BY <3>1, <3>2
  <2>7. a[k + 1] \in Int /\ t \in Int
    BY <1>1, <2>2, <2>3
  <2>8. A(k + 1) = A(k) + a[k + 1] * w
    BY <1>3, <2>2
  <2>9. l \in Seq(Int) /\ Value(l) \in Int
    BY <2>3, Limbs, NumberBound
  <2>. HIDE DEF l, c, w
  <2>10. d \in 0 .. Base - 1 /\ e \in Int /\ t = e * Base + d
    <3>. HIDE DEF t
    <3>. QED
      BY <2>6, <2>7, DivInt
  <2>. HIDE DEF d, e
  <2>11. Append(l, d) \in Seq(Limb) /\ Len(Append(l, d)) = k + 1
    BY <2>3, <2>10 DEF Limb
  <2>12. Value(Append(l, d)) = Value(l) + d * w
    <3>1. d \in Int
      BY <2>6, <2>10
    <3>. QED
      BY <2>3, <2>9, <3>1, ValueOfAppend DEF w
  <2>13. (Value(l) + d * w) + e * (w * Base) = A(k + 1)
    <3>1. d * w + e * (w * Base) = t * w
      <4>. HIDE DEF t
      <4>. QED
        BY <2>6, <2>7, <2>10
    <3>2. t * w = a[k + 1] * w + c * w
      BY <2>3, <2>6, <2>7
    <3>3. /\ d * w \in Int /\ e * (w * Base) \in Int
          /\ a[k + 1] * w \in Int /\ c * w \in Int
      BY <2>3, <2>6, <2>7, <2>10
    <3>. DEFINE P == d * w
                Q == e * (w * Base)
                U == a[k + 1] * w
                V == c * w
    <3>4. P + Q = U + V
      BY <3>1, <3>2
    <3>5. Value(l) + V = A(k) /\ A(k + 1) = A(k) + U
      BY <2>3, <2>8
    <3>6. P \in Int /\ Q \in Int /\ U \in Int /\ V \in Int
      BY <3>3
    <3>7. (Value(l) + P) + Q = A(k + 1)
      <4>. DEFINE v == Value(l)
                  x == A(k)
                  y == A(k + 1)
      <4>1. v + V = x /\ y = x + U /\ v \in Int
        BY <2>9, <3>5
      <4>. HIDE DEF P, Q, U, V, v, x, y
      <4>2. (v + P) + Q = y
        BY <3>4, <3>6, <4>1
      <4>. QED
        BY <4>2 DEF v, y
    <3>. QED
      BY <3>7
  <2>. QED
    BY <2>5, <2>6, <2>10, <2>11, <2>12, <2>13
<1>6. Nat \subseteq K
  <2>. HIDE DEF K
  <2>. QED
    BY <1>4, <1>5, Induction
<1>7. n \in K /\ n <= n
  BY <1>1, <1>6
<1>8. Good(n)
  BY <1>7
<1>. QED
  BY <1>2, <1>8 DEF n, A

-----------------------------------------------------------------------------
(* Sums, differences and choices *)

\* What is left to carry, for a total within k weights.
LEMMA CarryIs ==
  ASSUME NEW w \in Nat \ {0}, NEW u \in 0 .. w - 1, NEW c \in Int, NEW v \in Nat,
         u + c * w = v
  PROVE  /\ v \div w = c /\ v % w = u /\ c \in Nat
         /\ \A k \in Nat : v < k * w => c < k
<1>1. v = c * w + u
  <2>1. c * w \in Int
    OBVIOUS
  <2>. QED
    BY <2>1
<1>2. v \div w = c /\ v % w = u
  BY <1>1, DivUnique
<1>3. c \in Nat
  BY <1>2, Div
<1>. QED
  BY <1>2, <1>3, DivLess

\* Columns of integers are a sequence of them.
LEMMA ColumnsAre ==
  ASSUME NEW m \in Nat, NEW x, x = [i \in 1 .. m |-> x[i]], \A i \in 1 .. m : x[i] \in Int
  PROVE  x \in Seq(Int) /\ Len(x) = m
  OBVIOUS

\* The columns of a sum, or of a difference.
LEMMA Columns ==
  ASSUME NEW a \in Seq(Limb), NEW b \in Seq(Limb), NEW s \in Int,
         NEW columns, columns = [i \in 1 .. MaxLen(a, b) |-> LimbAt(a, i) + s * LimbAt(b, i)]
  PROVE  /\ columns \in Seq(Int) /\ Len(columns) = MaxLen(a, b) /\ MaxLen(a, b) \in Nat
         /\ LowValue(columns, MaxLen(a, b)) = Value(a) + s * Value(b)
         /\ Value(a) \in 0 .. Weight(MaxLen(a, b)) - 1
         /\ Value(b) \in 0 .. Weight(MaxLen(a, b)) - 1
<1>. DEFINE m == MaxLen(a, b)
            p == PaddedTo(a, m)
            q == PaddedTo(b, m)
<1>1. m \in Nat /\ Len(a) <= m /\ Len(b) <= m
  BY Limbs, MaxLenIs
<1>2. /\ p \in Seq(Limb) /\ Len(p) = m /\ \A i \in 1 .. m : p[i] = LimbAt(a, i)
      /\ LowValue(p, m) = Value(a) /\ Value(a) \in 0 .. Weight(m) - 1
  BY <1>1, Padded
<1>3. /\ q \in Seq(Limb) /\ Len(q) = m /\ \A i \in 1 .. m : q[i] = LimbAt(b, i)
      /\ LowValue(q, m) = Value(b) /\ Value(b) \in 0 .. Weight(m) - 1
  BY <1>1, Padded
<1>4. \A i \in 1 .. m : LimbAt(a, i) \in Int /\ LimbAt(b, i) \in Int
  <2>1. Limb \subseteq Int
    BY WeightLaws DEF Limb
  <2>. QED
    BY <2>1, Limbs
<1>5. columns = [i \in 1 .. m |-> LimbAt(a, i) + s * LimbAt(b, i)]
  OBVIOUS
<1>. HIDE DEF m, p, q
<1>6. columns \in Seq(Int) /\ Len(columns) = m
  <2>1. \A i \in 1 .. m : LimbAt(a, i) + s * LimbAt(b, i) \in Int
    BY <1>4
  <2>2. columns = [i \in 1 .. m |-> columns[i]] /\ \A i \in 1 .. m : columns[i] \in Int
    BY <1>5, <2>1
  <2>. QED
    BY <1>1, <2>2, ColumnsAre
<1>7. \A i \in 1 .. m : p[i] \in Int /\ q[i] \in Int /\ columns[i] = p[i] + s * q[i]
  BY <1>2, <1>3, <1>4, <1>5
<1>8. LowValue(columns, m) = LowValue(p, m) + s * LowValue(q, m)
  <2>1. \A x, y, z : (\A i \in 1 .. m : x[i] \in Int /\ y[i] \in Int /\ z[i] = x[i] + s * y[i])
                     => LowValue(z, m) = LowValue(x, m) + s * LowValue(y, m)
    BY <1>1, LowOfSum
  <2>. QED
    BY <1>7, <2>1
<1>. QED
  BY <1>1, <1>2, <1>3, <1>6, <1>8 DEF m

\* add_biguint: the sum, as a number with a limb more than the longer one.
\* Without that limb it is still the sum if that has no more than the others.
LEMMA AddIsExact ==
  ASSUME NEW a \in Seq(Limb), NEW b \in Seq(Limb)
  PROVE  /\ Add(a, b) \in Seq(Limb) /\ Len(Add(a, b)) = MaxLen(a, b) + 1
         /\ Value(Add(a, b)) = Value(a) + Value(b)
         /\ Value(a) + Value(b) < Weight(MaxLen(a, b)) =>
              Value(Front(Add(a, b))) = Value(a) + Value(b)
<1>. DEFINE m == MaxLen(a, b)
            columns == [i \in 1 .. m |-> LimbAt(a, i) + LimbAt(b, i)]
            l == Sweep(columns).limbs
            c == Sweep(columns).carry
            v == Value(a) + Value(b)
            w == Weight(m)
<1>1. columns = [i \in 1 .. m |-> LimbAt(a, i) + 1 * LimbAt(b, i)]
  <2>1. \A i \in 1 .. m : LimbAt(b, i) \in Int
    BY Limbs, WeightLaws DEF Limb
  <2>. QED
    BY <2>1
<1>2. Add(a, b) = Append(l, c)
  BY DEF Add
<1>. HIDE DEF columns
<1>3. /\ columns \in Seq(Int) /\ Len(columns) = m /\ m \in Nat
      /\ LowValue(columns, m) = Value(a) + 1 * Value(b)
      /\ Value(a) \in 0 .. w - 1 /\ Value(b) \in 0 .. w - 1
  <2>1. \A s \in Int : columns = [i \in 1 .. MaxLen(a, b) |-> LimbAt(a, i) + s * LimbAt(b, i)]
                       => /\ columns \in Seq(Int) /\ Len(columns) = m /\ m \in Nat
                          /\ LowValue(columns, m) = Value(a) + s * Value(b)
                          /\ Value(a) \in 0 .. w - 1 /\ Value(b) \in 0 .. w - 1
    BY Columns
  <2>. HIDE DEF w
  <2>. QED
    BY <1>1, <2>1
<1>4. /\ l \in Seq(Limb) /\ Len(l) = m /\ c \in Int
      /\ Value(l) + c * w = LowValue(columns, m)
  BY <1>3, SweepIsExact
<1>5. w \in Nat \ {0} /\ v \in Nat /\ v < 2 * w /\ Base \in Nat /\ Base >= 2
  <2>1. w \in Nat \ {0} /\ Base \in Nat /\ Base >= 2
    BY <1>3, WeightLaws
  <2>. HIDE DEF w
  <2>. QED
    BY <1>3, <2>1
<1>6. Value(l) \in 0 .. w - 1
  BY <1>3, <1>4, Padded
<1>. HIDE DEF l, c, m, w
<1>7. Value(l) + c * w = v
  BY <1>3, <1>4
<1>. HIDE DEF v
<1>8. c \in Nat /\ \A k \in Nat : v < k * w => c < k
  BY <1>4, <1>5, <1>6, <1>7, CarryIs
<1>9. c \in Limb
  <2>1. c < 2
    BY <1>5, <1>8
  <2>. QED
    BY <1>5, <1>8, <2>1 DEF Limb
<1>10. Append(l, c) \in Seq(Limb) /\ Len(Append(l, c)) = m + 1
  BY <1>4, <1>9
<1>11. Value(Append(l, c)) = v
  BY <1>4, <1>7, Limbs, ValueOfAppend DEF w
<1>12. Front(Append(l, c)) = l
  BY <1>4 DEF Front
<1>13. v < w => Value(l) = v
  <2>1. SUFFICES ASSUME v < w PROVE Value(l) = v
    OBVIOUS
  <2>2. v < 1 * w
    BY <1>5, <2>1
  <2>3. c = 0
    BY <1>8, <2>2
  <2>. QED
    BY <1>5, <1>6, <1>7, <2>3
<1>. QED
  BY <1>2, <1>10, <1>11, <1>12, <1>13 DEF v, w, m

\* sub_biguint: the difference, or what it lacks to the weight.
LEMMA SubIsExact ==
  ASSUME NEW a \in Seq(Limb), NEW b \in Seq(Limb)
  PROVE  Value(Sub(a, b)) = (Value(a) - Value(b)) % Weight(MaxLen(a, b))
<1>. DEFINE m == MaxLen(a, b)
            columns == [i \in 1 .. m |-> LimbAt(a, i) - LimbAt(b, i)]
            l == Sweep(columns).limbs
            c == Sweep(columns).carry
            v == Value(a) - Value(b)
            w == Weight(m)
<1>1. columns = [i \in 1 .. m |-> LimbAt(a, i) + (0 - 1) * LimbAt(b, i)]
  <2>1. \A i \in 1 .. m : LimbAt(a, i) \in Int /\ LimbAt(b, i) \in Int
    BY Limbs, WeightLaws DEF Limb
  <2>. QED
    BY <2>1
<1>2. Sub(a, b) = l
  BY DEF Sub
<1>. HIDE DEF columns
<1>3. /\ columns \in Seq(Int) /\ Len(columns) = m /\ m \in Nat
      /\ LowValue(columns, m) = Value(a) + (0 - 1) * Value(b)
      /\ Value(a) \in 0 .. w - 1 /\ Value(b) \in 0 .. w - 1
  <2>1. \A s \in Int : columns = [i \in 1 .. MaxLen(a, b) |-> LimbAt(a, i) + s * LimbAt(b, i)]
                       => /\ columns \in Seq(Int) /\ Len(columns) = m /\ m \in Nat
                          /\ LowValue(columns, m) = Value(a) + s * Value(b)
                          /\ Value(a) \in 0 .. w - 1 /\ Value(b) \in 0 .. w - 1
    BY Columns
  <2>2. 0 - 1 \in Int
    OBVIOUS
  <2>. HIDE DEF w
  <2>. QED
    BY <1>1, <2>1, <2>2
<1>4. /\ l \in Seq(Limb) /\ Len(l) = m /\ c \in Int
      /\ Value(l) + c * w = LowValue(columns, m)
  BY <1>3, SweepIsExact
<1>5. w \in Nat \ {0} /\ v \in Int
  <2>1. w \in Nat \ {0}
    BY <1>3, WeightLaws
  <2>. HIDE DEF w
  <2>. QED
    BY <1>3, <2>1
<1>6. Value(l) \in 0 .. w - 1
  BY <1>3, <1>4, Padded
<1>. HIDE DEF l, c, m, w
<1>7. v = c * w + Value(l)
  <2>1. c * w \in Int
    BY <1>4, <1>5
  <2>. QED
    BY <1>3, <1>4, <1>6, <2>1
<1>. HIDE DEF v
<1>8. v % w = Value(l)
  BY <1>4, <1>5, <1>6, <1>7, DivUnique
<1>. QED
  BY <1>2, <1>8 DEF v, w, m

\* mul_biguint_by_bool: the number or zero.
LEMMA MulByBoolIs ==
  ASSUME NEW a \in Seq(Limb)
  PROVE  /\ MulByBool(a, 1) = a
         /\ MulByBool(a, 0) \in Seq(Limb) /\ Len(MulByBool(a, 0)) = Len(a)
         /\ Value(MulByBool(a, 0)) = 0
<1>. DEFINE n == Len(a)
            z == MulByBool(a, 0)
<1>1. n \in Nat /\ DOMAIN a = 1 .. n /\ a = [i \in 1 .. n |-> a[i]] /\ 0 \in Limb
  BY Limbs, WeightLaws DEF Limb
<1>2. \A i \in 1 .. n : a[i] \in Int
  BY Limbs, WeightLaws DEF Limb
<1>. HIDE DEF n
<1>3. MulByBool(a, 1) = a
  BY <1>1, <1>2 DEF MulByBool
<1>4. z = [i \in 1 .. n |-> 0]
  BY <1>1, <1>2 DEF MulByBool
<1>. HIDE DEF z
<1>5. z \in Seq(Limb) /\ Len(z) = n /\ z = [i \in 1 .. Len(z) |-> z[i]]
  BY <1>1, <1>4
<1>6. \A i \in 1 .. n : z[i] \in Int /\ z[i] = 0
  BY <1>4
<1>7. LowValue(z, n) = LowValue(z, 0)
  <2>1. 0 \in Nat /\ 0 <= n /\ \A i \in 0 + 1 .. n : z[i] = 0
    BY <1>1, <1>6
  <2>. QED
    BY <1>1, <1>6, <2>1, LowOfMore
<1>8. LowValue(z, 0) = 0
  BY <1>1, <1>6, LowIsInt
<1>9. Value(z) = 0
  BY <1>5, <1>7, <1>8, LowOfAll
<1>. QED
  BY <1>3, <1>5, <1>9 DEF n, z

\* if_biguint and is_active_validator.
LEMMA ChoicesExact ==
  ASSUME NEW a \in Seq(Limb), NEW b \in Seq(Limb), NEW c \in Seq(Limb)
  PROVE  ChoicesAreExact(a, b, c)
<1>1. SUFFICES ASSUME Len(a) = Len(b) PROVE ChoicesAreExact(a, b, c)
  BY DEF ChoicesAreExact
<1>2. ASSUME NEW x \in Seq(Limb), NEW y \in Seq(Limb), Len(x) = Len(y),
             Value(x) = 0 \/ Value(y) = 0
      PROVE  Value(Front(Add(x, y))) = Value(x) + Value(y)
  <2>. DEFINE m == MaxLen(x, y)
  <2>1. m = Len(x)
    BY <1>2, Limbs, MaxLenIs
  <2>2. /\ Value(x) \in Nat /\ Value(x) < Weight(Len(x))
        /\ Value(y) \in Nat /\ Value(y) < Weight(Len(x))
    BY <1>2, NumberBound
  <2>3. Value(x) + Value(y) < Weight(m)
    BY <1>2, <2>1, <2>2
  <2>. QED
    BY <2>3, AddIsExact
<1>3. Value(IfBiguint(1, a, b)) = Value(a)
  <2>1. IfBiguint(1, a, b) = Front(Add(MulByBool(b, 0), a))
    <3>1. 1 - 1 = 0
      OBVIOUS
    <3>. QED
      BY <3>1, MulByBoolIs DEF IfBiguint
  <2>2. Value(Front(Add(MulByBool(b, 0), a))) = Value(MulByBool(b, 0)) + Value(a)
    BY <1>1, <1>2, MulByBoolIs
  <2>. QED
    BY <2>1, <2>2, MulByBoolIs, NumberBound
<1>4. Value(IfBiguint(0, a, b)) = Value(b)
  <2>1. IfBiguint(0, a, b) = Front(Add(b, MulByBool(a, 0)))
    <3>1. 1 - 0 = 1
      OBVIOUS
    <3>. QED
      BY <3>1, MulByBoolIs DEF IfBiguint
  <2>2. Value(Front(Add(b, MulByBool(a, 0)))) = Value(b) + Value(MulByBool(a, 0))
    BY <1>1, <1>2, MulByBoolIs
  <2>. QED
    BY <2>1, <2>2, MulByBoolIs, NumberBound
<1>5. ASSUME Len(b) = Len(c)
      PROVE  IsActiveValidator(a, b, c) <=> Value(a) <= Value(b) /\ Value(b) < Value(c)
  <2>1. Cmp(a, b) <=> Value(a) <= Value(b)
    BY ComparedByValue
  <2>2. Cmp(b, c) <=> Value(b) <= Value(c)
    BY ComparedByValue
  <2>3. BiguintIsEqual(b, c) <=> Value(b) = Value(c)
    BY <1>5, OneForm
  <2>4. Value(b) \in Nat /\ Value(c) \in Nat
    BY NumberBound
  <2>. QED
    BY <2>1, <2>2, <2>3, <2>4 DEF IsActiveValidator
<1>. QED
  BY <1>3, <1>4, <1>5 DEF ChoicesAreExact

-----------------------------------------------------------------------------
(* The columns of a product *)

\* The sums of a function over the sets of its arguments, one argument after
\* the other in whatever order.
IsSumOver(g, f, S) ==
  /\ g \in [SUBSET S -> Int]
  /\ g[{}] = 0
  /\ \A T \in SUBSET S : \A p \in T : g[T] = g[T \ {p}] + f[p]

\* There are such sums.
LEMMA SumExists ==
  ASSUME NEW S, IsFiniteSet(S), NEW f, \A x \in S : f[x] \in Int
  PROVE  \E g : IsSumOver(g, f, S)
<1>. DEFINE c == [T \in SUBSET S |-> CHOOSE x \in T : TRUE]
            step == [q \in S \X Int |-> q[2] + f[q[1]]]
<1>1. \A T \in SUBSET S : T # {} => c[T] \in T
  OBVIOUS
<1>2. \A e \in S : \A v \in Int : step[<<e, v>>] = v + f[e]
  OBVIOUS
<1>3. \A e \in S : \A v \in Int : step[<<e, v>>] \in Int
  OBVIOUS
<1>. HIDE DEF c, step
<1>4. PICK g \in [SUBSET S -> Int] : IsFold(g, SUBSET S, 0, c, step)
  <2>1. 0 \in Int
    OBVIOUS
  <2>. QED
    BY <1>1, <1>3, <2>1, FoldExists
<1>5. \A T \in SUBSET S : T # {} => g[T] = g[T \ {c[T]}] + f[c[T]]
  BY <1>1, <1>2, <1>4 DEF IsFold
<1>. DEFINE K == {k \in Nat : \A T \in SUBSET S : Cardinality(T) <= k =>
                                \A p \in T : g[T] = g[T \ {p}] + f[p]}
<1>6. 0 \in K
  <2>1. \A T \in SUBSET S : Cardinality(T) <= 0 => T = {}
    <3>1. SUFFICES ASSUME NEW T \in SUBSET S, Cardinality(T) <= 0 PROVE T = {}
      OBVIOUS
    <3>2. IsFiniteSet(T) /\ Cardinality(T) \in Nat
      BY FS_Subset, FS_CardinalityType
    <3>. QED
      BY <3>1, <3>2, FS_EmptySet
  <2>. QED
    BY <2>1
<1>7. ASSUME NEW k \in Nat, k \in K PROVE k + 1 \in K
  <2>1. SUFFICES ASSUME NEW T \in SUBSET S, Cardinality(T) <= k + 1, NEW p \in T
                 PROVE  g[T] = g[T \ {p}] + f[p]
    OBVIOUS
  <2>. DEFINE e == c[T]
  <2>2. e \in T /\ g[T] = g[T \ {e}] + f[e]
    BY <1>1, <1>5
  <2>. HIDE DEF e
  <2>3. CASE p = e
    BY <2>2, <2>3
  <2>4. CASE p # e
    <3>1. /\ T \ {e} \in SUBSET S /\ Cardinality(T \ {e}) <= k
          /\ T \ {p} \in SUBSET S /\ Cardinality(T \ {p}) <= k
      BY <2>1, <2>2, SmallerSet
    <3>2. p \in T \ {e} /\ e \in T \ {p} /\ (T \ {e}) \ {p} = (T \ {p}) \ {e}
      BY <2>2, <2>4
    <3>3. g[T \ {e}] = g[(T \ {e}) \ {p}] + f[p]
      BY <1>7, <3>1, <3>2
    <3>4. g[T \ {p}] = g[(T \ {e}) \ {p}] + f[e]
      BY <1>7, <3>1, <3>2
    <3>5. f[p] \in Int /\ f[e] \in Int /\ g[(T \ {e}) \ {p}] \in Int
      BY <2>2
    <3>. QED
      BY <2>2, <3>3, <3>4, <3>5
  <2>. QED
    BY <2>3, <2>4
<1>8. Nat \subseteq K
  <2>. HIDE DEF K
  <2>. QED
    BY <1>6, <1>7, Induction
<1>9. \A T \in SUBSET S : \A p \in T : g[T] = g[T \ {p}] + f[p]
  <2>1. \A T \in SUBSET S : Cardinality(T) \in K
    BY <1>8, FS_Subset, FS_CardinalityType
  <2>2. \A T \in SUBSET S : Cardinality(T) \in Nat /\ Cardinality(T) <= Cardinality(T)
    BY FS_Subset, FS_CardinalityType
  <2>. QED
    BY <2>1, <2>2
<1>10. g[{}] = 0
  BY <1>4 DEF IsFold
<1>. QED
  BY <1>4, <1>9, <1>10 DEF IsSumOver

\* The element that MapThenSumSet takes next.
NextOf(s) == CHOOSE x \in s : TRUE

\* The equations of its fold over a set.
IsFoldSum(h, f, T) ==
  /\ h[{}] = 0
  /\ \A s \in SUBSET T : s # {} => h[s] = f[NextOf(s)] + h[s \ {NextOf(s)}]

\* What a fold over a part of the arguments gives is their sum.
LEMMA SumAgrees ==
  ASSUME NEW S, IsFiniteSet(S), NEW f, \A x \in S : f[x] \in Int, NEW g, IsSumOver(g, f, S),
         NEW T \in SUBSET S, NEW h, IsFoldSum(h, f, T)
  PROVE  h[T] = g[T]
<1>. DEFINE K == {k \in Nat : \A s \in SUBSET T : Cardinality(s) <= k => h[s] = g[s]}
<1>1. \A s \in SUBSET T : IsFiniteSet(s) /\ Cardinality(s) \in Nat /\ s \in SUBSET S
  BY FS_Subset, FS_CardinalityType
<1>2. 0 \in K
  <2>1. \A s \in SUBSET T : Cardinality(s) <= 0 => s = {}
    BY <1>1, FS_EmptySet
  <2>. QED
    BY <2>1 DEF IsSumOver, IsFoldSum
<1>3. ASSUME NEW k \in Nat, k \in K PROVE k + 1 \in K
  <2>1. SUFFICES ASSUME NEW s \in SUBSET T, Cardinality(s) <= k + 1 PROVE h[s] = g[s]
    OBVIOUS
  <2>2. CASE s = {}
    BY <2>2 DEF IsSumOver, IsFoldSum
  <2>3. CASE s # {}
    <3>. DEFINE e == NextOf(s)
    <3>1. e \in s /\ h[s] = f[e] + h[s \ {e}]
      BY <2>3 DEF NextOf, IsFoldSum
    <3>. HIDE DEF e
    <3>2. s \ {e} \in SUBSET T /\ Cardinality(s \ {e}) <= k
      BY <1>1, <2>1, <3>1, SmallerSet
    <3>3. h[s \ {e}] = g[s \ {e}]
      BY <1>3, <3>2
    <3>4. g[s] = g[s \ {e}] + f[e] /\ g[s \ {e}] \in Int /\ f[e] \in Int
      BY <1>1, <3>1, <3>2 DEF IsSumOver
    <3>. QED
      BY <3>1, <3>3, <3>4
  <2>. QED
    BY <2>2, <2>3
<1>4. Nat \subseteq K
  <2>. HIDE DEF K
  <2>. QED
    BY <1>2, <1>3, Induction
<1>5. T \in SUBSET T /\ Cardinality(T) \in K /\ Cardinality(T) <= Cardinality(T)
  BY <1>1, <1>4
<1>. QED
  BY <1>5

\* The places of the limbs that mul_biguint multiplies.
PairsOf(a, b) == (1 .. Len(a)) \X (1 .. Len(b))

\* The pairs of limbs whose places have this sum.
PairsAt(a, b, k) == {p \in PairsOf(a, b) : p[1] + p[2] = k}

\* The low or the high halves of the products of pairs.
LowHalves(a, b, S) == [p \in S |-> (a[p[1]] * b[p[2]]) % Base]

HighHalves(a, b, S) == [p \in S |-> (a[p[1]] * b[p[2]]) \div Base]

\* The columns that mul_biguint sums up: the low halves of the products in
\* them, and the high halves.
LowSum(a, b, T) == MapThenSumSet(LAMBDA p : (a[p[1]] * b[p[2]]) % Base, T)

HighSum(a, b, T) == MapThenSumSet(LAMBDA p : (a[p[1]] * b[p[2]]) \div Base, T)

\* The low halves of the products of a column.
LEMMA LowSumIs ==
  ASSUME NEW a, NEW b, NEW S, IsFiniteSet(S), \A x \in S : LowHalves(a, b, S)[x] \in Int,
         NEW g, IsSumOver(g, LowHalves(a, b, S), S), NEW T \in SUBSET S
  PROVE  LowSum(a, b, T) = g[T]
<1>. DEFINE f == LowHalves(a, b, S)
            F(iter) == [s \in SUBSET T |->
                          IF s = {} THEN 0
                          ELSE ((a[NextOf(s)[1]] * b[NextOf(s)[2]]) % Base)
                                 + iter[s \ {NextOf(s)}]]
            Iter == CHOOSE iter : iter = F(iter)
            h == [s \in SUBSET T |-> g[s]]
<1>1. \A p \in S : f[p] = (a[p[1]] * b[p[2]]) % Base
  BY DEF LowHalves
<1>. HIDE DEF f
<1>2. LowSum(a, b, T) = Iter[T]
  BY DEF LowSum, MapThenSumSet, MapThenFoldSet, NextOf
<1>3. h = F(h)
  <2>1. ASSUME NEW s \in SUBSET T, s # {}
        PROVE  h[s] = ((a[NextOf(s)[1]] * b[NextOf(s)[2]]) % Base) + h[s \ {NextOf(s)}]
    <3>1. NextOf(s) \in s
      BY <2>1 DEF NextOf
    <3>2. /\ g[s] = g[s \ {NextOf(s)}] + f[NextOf(s)]
          /\ g[s \ {NextOf(s)}] \in Int /\ f[NextOf(s)] \in Int
      BY <3>1 DEF IsSumOver, f
    <3>3. s \ {NextOf(s)} \in SUBSET T
      OBVIOUS
    <3>4. f[NextOf(s)] = (a[NextOf(s)[1]] * b[NextOf(s)[2]]) % Base
      BY <1>1, <3>1
    <3>. QED
      BY <3>2, <3>3, <3>4
  <2>2. h[{}] = 0
    BY DEF IsSumOver
  <2>. QED
    BY <2>1, <2>2
<1>4. Iter = F(Iter)
  <2>. HIDE DEF F
  <2>. QED
    BY <1>3
<1>5. ASSUME NEW s \in SUBSET T, s # {}
      PROVE  Iter[s] = f[NextOf(s)] + Iter[s \ {NextOf(s)}]
  <2>1. NextOf(s) \in s
    BY <1>5 DEF NextOf
  <2>. HIDE DEF Iter
  <2>2. f[NextOf(s)] = (a[NextOf(s)[1]] * b[NextOf(s)[2]]) % Base
    BY <1>1, <2>1
  <2>. QED
    BY <1>4, <1>5, <2>2
<1>6. Iter[{}] = 0
  BY <1>4
<1>. HIDE DEF Iter
<1>7. IsFoldSum(Iter, f, T)
  BY <1>5, <1>6 DEF IsFoldSum
<1>8. Iter[T] = g[T]
  BY <1>7, SumAgrees DEF f
<1>. QED
  BY <1>2, <1>8

\* Likewise, the high halves.
LEMMA HighSumIs ==
  ASSUME NEW a, NEW b, NEW S, IsFiniteSet(S), \A x \in S : HighHalves(a, b, S)[x] \in Int,
         NEW g, IsSumOver(g, HighHalves(a, b, S), S), NEW T \in SUBSET S
  PROVE  HighSum(a, b, T) = g[T]
<1>. DEFINE f == HighHalves(a, b, S)
            F(iter) == [s \in SUBSET T |->
                          IF s = {} THEN 0
                          ELSE ((a[NextOf(s)[1]] * b[NextOf(s)[2]]) \div Base)
                                 + iter[s \ {NextOf(s)}]]
            Iter == CHOOSE iter : iter = F(iter)
            h == [s \in SUBSET T |-> g[s]]
<1>1. \A p \in S : f[p] = (a[p[1]] * b[p[2]]) \div Base
  BY DEF HighHalves
<1>. HIDE DEF f
<1>2. HighSum(a, b, T) = Iter[T]
  BY DEF HighSum, MapThenSumSet, MapThenFoldSet, NextOf
<1>3. h = F(h)
  <2>1. ASSUME NEW s \in SUBSET T, s # {}
        PROVE  h[s] = ((a[NextOf(s)[1]] * b[NextOf(s)[2]]) \div Base) + h[s \ {NextOf(s)}]
    <3>1. NextOf(s) \in s
      BY <2>1 DEF NextOf
    <3>2. /\ g[s] = g[s \ {NextOf(s)}] + f[NextOf(s)]
          /\ g[s \ {NextOf(s)}] \in Int /\ f[NextOf(s)] \in Int
      BY <3>1 DEF IsSumOver, f
    <3>3. s \ {NextOf(s)} \in SUBSET T
      OBVIOUS
    <3>4. f[NextOf(s)] = (a[NextOf(s)[1]] * b[NextOf(s)[2]]) \div Base
      BY <1>1, <3>1
    <3>. QED
      BY <3>2, <3>3, <3>4
  <2>2. h[{}] = 0
    BY DEF IsSumOver
  <2>. QED
    BY <2>1, <2>2
<1>4. Iter = F(Iter)
  <2>. HIDE DEF F
  <2>. QED
    BY <1>3
<1>5. ASSUME NEW s \in SUBSET T, s # {}
      PROVE  Iter[s] = f[NextOf(s)] + Iter[s \ {NextOf(s)}]
  <2>1. NextOf(s) \in s
    BY <1>5 DEF NextOf
  <2>. HIDE DEF Iter
  <2>2. f[NextOf(s)] = (a[NextOf(s)[1]] * b[NextOf(s)[2]]) \div Base
    BY <1>1, <2>1
  <2>. QED
    BY <1>4, <1>5, <2>2
<1>6. Iter[{}] = 0
  BY <1>4
<1>. HIDE DEF Iter
<1>7. IsFoldSum(Iter, f, T)
  BY <1>5, <1>6 DEF IsFoldSum
<1>8. Iter[T] = g[T]
  BY <1>7, SumAgrees DEF f
<1>. QED
  BY <1>2, <1>8

\* The columns for some of the pairs.
ColumnsFor(a, b, T) ==
  [k \in 1 .. Len(a) + Len(b) |-> LowSum(a, b, T \cap PairsAt(a, b, k + 1))
                                   + HighSum(a, b, T \cap PairsAt(a, b, k))]

\* mul_biguint sweeps those for all of them.
LEMMA MulIs ==
  ASSUME NEW a, NEW b
  PROVE  Mul(a, b) = Append(Sweep(ColumnsFor(a, b, PairsOf(a, b))).limbs,
                            Sweep(ColumnsFor(a, b, PairsOf(a, b))).carry)
<1>1. \A k : PairsOf(a, b) \cap PairsAt(a, b, k) = PairsAt(a, b, k)
  BY DEF PairsAt
<1>. DEFINE columns == [k \in 1 .. Len(a) + Len(b) |-> LowSum(a, b, PairsAt(a, b, k + 1))
                                                       + HighSum(a, b, PairsAt(a, b, k))]
<1>2. ColumnsFor(a, b, PairsOf(a, b)) = columns
  BY <1>1 DEF ColumnsFor
<1>3. Mul(a, b) = Append(Sweep(columns).limbs, Sweep(columns).carry)
  BY DEF Mul, PairsAt, PairsOf, LowSum, HighSum, MapThenSumSet, MapThenFoldSet
<1>. QED
  BY <1>2, <1>3

\* A column with more in it.
IsRaised(x, y, n, k, v) ==
  \A i \in 1 .. n : x[i] \in Int /\ y[i] = IF i = k THEN x[i] + v ELSE x[i]

\* What is added to it counts for as much as the column.
LEMMA OneColumn ==
  ASSUME NEW n \in Nat, NEW k \in 1 .. n, NEW v \in Int, NEW x, NEW y,
         IsRaised(x, y, n, k, v)
  PROVE  LowValue(y, n) = LowValue(x, n) + v * Weight(k - 1)
<1>. DEFINE e == [i \in 1 .. n |-> IF i = k THEN 1 ELSE 0]
<1>1. \A i \in 1 .. n : e[i] \in Int /\ e[i] = IF i = k THEN 1 ELSE 0
  OBVIOUS
<1>. HIDE DEF e
<1>2. LowValue(y, n) = LowValue(x, n) + v * LowValue(e, n)
  <2>1. \A i \in 1 .. n : x[i] \in Int /\ e[i] \in Int /\ y[i] = x[i] + v * e[i]
    BY <1>1 DEF IsRaised
  <2>. QED
    BY <2>1, LowOfSum
<1>3. LowValue(e, n) = LowValue(e, k)
  <2>1. \A i \in k + 1 .. n : e[i] = 0
    BY <1>1
  <2>2. k \in Nat /\ k <= n
    OBVIOUS
  <2>. QED
    BY <1>1, <2>1, <2>2, LowOfMore
<1>. DEFINE m == k - 1
<1>4. m \in Nat /\ m + 1 = k
  OBVIOUS
<1>. HIDE DEF m
<1>5. LowValue(e, m + 1) = LowValue(e, m) + e[m + 1] * Weight(m)
  <2>1. \A i \in 1 .. m + 1 : e[i] \in Int
    BY <1>1, <1>4
  <2>. QED
    BY <1>4, <2>1, LowNext
<1>6. LowValue(e, m) = LowValue(e, 0) /\ LowValue(e, 0) = 0
  <2>1. \A i \in 1 .. m : e[i] \in Int
    BY <1>1, <1>4
  <2>2. \A i \in 0 + 1 .. m : e[i] = 0
    BY <1>1, <1>4
  <2>3. 0 \in Nat /\ 0 <= m
    BY <1>4
  <2>. QED
    BY <1>4, <2>1, <2>2, <2>3, LowOfMore, LowIsInt
<1>7. LowValue(e, n) = Weight(m)
  <2>1. Weight(m) \in Nat /\ e[m + 1] = 1
    BY <1>1, <1>4, WeightLaws
  <2>. HIDE DEF m
  <2>2. LowValue(e, n) = LowValue(e, m + 1)
    BY <1>3, <1>4
  <2>. QED
    BY <1>5, <1>6, <2>1, <2>2
<1>. QED
  BY <1>2, <1>7 DEF m

\* The product of two limbs.
ProductOf(a, b, p) == a[p[1]] * b[p[2]]

\* The sums of a column, pair by pair.
LEMMA HalvesAddUp ==
  ASSUME NEW a \in Seq(Limb), NEW b \in Seq(Limb)
  PROVE  /\ LowSum(a, b, {}) = 0 /\ HighSum(a, b, {}) = 0
         /\ \A T \in SUBSET PairsOf(a, b) :
              /\ LowSum(a, b, T) \in Int /\ HighSum(a, b, T) \in Int
              /\ \A p \in T :
                   /\ LowSum(a, b, T) = LowSum(a, b, T \ {p}) + (ProductOf(a, b, p) % Base)
                   /\ HighSum(a, b, T) = HighSum(a, b, T \ {p}) + (ProductOf(a, b, p) \div Base)
<1>. DEFINE S == PairsOf(a, b)
            f == LowHalves(a, b, S)
            h == HighHalves(a, b, S)
<1>1. IsFiniteSet(S)
  <2>1. IsFiniteSet(1 .. Len(a)) /\ IsFiniteSet(1 .. Len(b))
    <3>1. 1 \in Int /\ Len(a) \in Int /\ Len(b) \in Int
      OBVIOUS
    <3>. QED
      BY <3>1, FS_Interval
  <2>. QED
    BY <2>1, FS_Product DEF PairsOf
<1>2. ASSUME NEW p \in S
      PROVE  /\ ProductOf(a, b, p) \in Int
             /\ ProductOf(a, b, p) % Base \in Int /\ ProductOf(a, b, p) \div Base \in Int
  <2>1. Limb \subseteq Int /\ Base \in Nat \ {0}
    BY WeightLaws DEF Limb
  <2>2. a[p[1]] \in Int /\ b[p[2]] \in Int
    BY <2>1, Limbs DEF PairsOf
  <2>. DEFINE u == ProductOf(a, b, p)
  <2>3. u \in Int
    BY <2>2 DEF ProductOf
  <2>. HIDE DEF u
  <2>4. u % Base \in Int /\ u \div Base \in Int
    BY <2>1, <2>3, DivInt
  <2>. QED
    BY <2>3, <2>4 DEF u
<1>3. /\ \A x \in S : f[x] \in Int /\ f[x] = ProductOf(a, b, x) % Base
      /\ \A x \in S : h[x] \in Int /\ h[x] = ProductOf(a, b, x) \div Base
  BY <1>2 DEF LowHalves, HighHalves, ProductOf
<1>. HIDE DEF f, h, S
<1>4. PICK g0 : IsSumOver(g0, f, S)
  BY <1>1, <1>3, SumExists
<1>5. PICK g1 : IsSumOver(g1, h, S)
  BY <1>1, <1>3, SumExists
<1>6. ASSUME NEW T \in SUBSET S PROVE LowSum(a, b, T) = g0[T] /\ HighSum(a, b, T) = g1[T]
  <2>1. LowSum(a, b, T) = g0[T]
    BY <1>1, <1>3, <1>4, LowSumIs DEF f
  <2>2. HighSum(a, b, T) = g1[T]
    BY <1>1, <1>3, <1>5, HighSumIs DEF h
  <2>. QED
    BY <2>1, <2>2
<1>7. LowSum(a, b, {}) = 0 /\ HighSum(a, b, {}) = 0
  BY <1>4, <1>5, <1>6 DEF IsSumOver
<1>8. ASSUME NEW T \in SUBSET S
      PROVE  LowSum(a, b, T) \in Int /\ HighSum(a, b, T) \in Int
  BY <1>4, <1>5, <1>6 DEF IsSumOver
<1>9. ASSUME NEW T \in SUBSET S, NEW p \in T
      PROVE  /\ LowSum(a, b, T) = LowSum(a, b, T \ {p}) + (ProductOf(a, b, p) % Base)
             /\ HighSum(a, b, T) = HighSum(a, b, T \ {p}) + (ProductOf(a, b, p) \div Base)
  <2>1. g0[T] = g0[T \ {p}] + f[p] /\ g1[T] = g1[T \ {p}] + h[p]
    BY <1>4, <1>5 DEF IsSumOver
  <2>2. T \ {p} \in SUBSET S /\ p \in S
    OBVIOUS
  <2>3. f[p] = ProductOf(a, b, p) % Base /\ h[p] = ProductOf(a, b, p) \div Base
    BY <1>3, <2>2
  <2>. QED
    BY <1>6, <2>1, <2>2, <2>3
<1>. QED
  BY <1>7, <1>8, <1>9 DEF S

\* The columns are integers, and empty ones are zero.
LEMMA ColumnsAreInts ==
  ASSUME NEW a \in Seq(Limb), NEW b \in Seq(Limb), NEW T \in SUBSET PairsOf(a, b)
  PROVE  LET n == Len(a) + Len(b)
             x == ColumnsFor(a, b, T)
         IN  /\ n \in Nat /\ x \in Seq(Int) /\ Len(x) = n
             /\ \A k \in 1 .. n : x[k] \in Int
             /\ T = {} => LowValue(x, n) = 0
<1>. DEFINE n == Len(a) + Len(b)
            x == ColumnsFor(a, b, T)
<1>1. n \in Nat
  BY Limbs
<1>2. \A k \in 1 .. n : /\ x[k] \in Int
                        /\ x[k] = LowSum(a, b, T \cap PairsAt(a, b, k + 1))
                                    + HighSum(a, b, T \cap PairsAt(a, b, k))
  BY HalvesAddUp DEF ColumnsFor
<1>3. x = [k \in 1 .. n |-> x[k]]
  BY DEF ColumnsFor
<1>. HIDE DEF n, x
<1>4. x \in Seq(Int) /\ Len(x) = n
  BY <1>1, <1>2, <1>3, ColumnsAre
<1>5. ASSUME T = {} PROVE LowValue(x, n) = 0
  <2>1. \A k \in 0 + 1 .. n : x[k] = 0
    <3>1. \A k \in 1 .. n : x[k] = LowSum(a, b, {}) + HighSum(a, b, {})
      BY <1>2, <1>5
    <3>. QED
      BY <3>1, HalvesAddUp
  <2>2. 0 \in Nat /\ 0 <= n
    BY <1>1
  <2>3. LowValue(x, n) = LowValue(x, 0)
    BY <1>1, <1>2, <2>1, <2>2, LowOfMore
  <2>. QED
    BY <1>1, <1>2, <2>3, LowIsInt
<1>. QED
  BY <1>1, <1>2, <1>4, <1>5 DEF n, x

\* A pair more counts for the product of its limbs.
LEMMA PairCounts ==
  ASSUME NEW a \in Seq(Limb), NEW b \in Seq(Limb),
         NEW T \in SUBSET PairsOf(a, b), NEW p \in T
  PROVE  LET n == Len(a) + Len(b)
         IN  LowValue(ColumnsFor(a, b, T), n)
               = LowValue(ColumnsFor(a, b, T \ {p}), n)
                   + ProductOf(a, b, p) * Weight(p[1] + p[2] - 2)
<1>. DEFINE n == Len(a) + Len(b)
            x == ColumnsFor(a, b, T \ {p})
            y == ColumnsFor(a, b, T)
            v == ProductOf(a, b, p)
            low == v % Base
            high == v \div Base
            k1 == p[1] + p[2] - 1
            k2 == p[1] + p[2]
            z == [k \in 1 .. n |-> IF k = k1 THEN x[k] + low ELSE x[k]]
<1>1. n \in Nat /\ k1 \in 1 .. n /\ k2 \in 1 .. n /\ k2 = k1 + 1
  BY Limbs DEF PairsOf
<1>2. T \ {p} \in SUBSET PairsOf(a, b)
  OBVIOUS
<1>3. \A k \in 1 .. n : x[k] \in Int
  BY <1>2, ColumnsAreInts
<1>4. Base \in Nat \ {0} /\ v \in Int
  <2>1. Base \in Nat \ {0} /\ Limb \subseteq Int
    BY WeightLaws DEF Limb
  <2>2. a[p[1]] \in Int /\ b[p[2]] \in Int
    BY <2>1, Limbs DEF PairsOf
  <2>. QED
    BY <2>1, <2>2 DEF ProductOf
<1>5. low \in Int /\ high \in Int /\ v = high * Base + low
  <2>. HIDE DEF v
  <2>. QED
    BY <1>4, DivInt
<1>6. ASSUME NEW k \in 1 .. n
      PROVE  y[k] = IF k = k1 THEN x[k] + low
                    ELSE IF k = k2 THEN x[k] + high ELSE x[k]
  <2>. DEFINE A == T \cap PairsAt(a, b, k + 1)
              B == T \cap PairsAt(a, b, k)
  <2>1. /\ (T \ {p}) \cap PairsAt(a, b, k + 1) = A \ {p}
        /\ (T \ {p}) \cap PairsAt(a, b, k) = B \ {p}
    OBVIOUS
  <2>2. p[1] \in Int /\ p[2] \in Int /\ p \in PairsOf(a, b)
    BY DEF PairsOf
  <2>3. (p \in A <=> k = k1) /\ (p \in B <=> k = k2)
    BY <2>2 DEF PairsAt
  <2>4. A \in SUBSET PairsOf(a, b) /\ B \in SUBSET PairsOf(a, b)
    OBVIOUS
  <2>5. y[k] = LowSum(a, b, A) + HighSum(a, b, B)
    BY DEF ColumnsFor
  <2>6. x[k] = LowSum(a, b, A \ {p}) + HighSum(a, b, B \ {p})
    BY <2>1 DEF ColumnsFor
  <2>7. LowSum(a, b, A \ {p}) \in Int /\ HighSum(a, b, B \ {p}) \in Int
    <3>1. A \ {p} \in SUBSET PairsOf(a, b) /\ B \ {p} \in SUBSET PairsOf(a, b)
      BY <2>4
    <3>. QED
      BY <3>1, HalvesAddUp
  <2>8. LowSum(a, b, A) = LowSum(a, b, A \ {p}) + (IF k = k1 THEN low ELSE 0)
    <3>1. CASE p \in A
      BY <2>3, <2>4, <3>1, HalvesAddUp
    <3>2. CASE p \notin A
      <4>1. A \ {p} = A
        BY <3>2
      <4>2. LowSum(a, b, A) = LowSum(a, b, A \ {p})
        BY <4>1
      <4>. HIDE DEF A, B, low, high, k1, k2
      <4>. QED
        BY <2>3, <2>7, <3>2, <4>2
    <3>. QED
      BY <3>1, <3>2
  <2>9. HighSum(a, b, B) = HighSum(a, b, B \ {p}) + (IF k = k2 THEN high ELSE 0)
    <3>1. CASE p \in B
      BY <2>3, <2>4, <3>1, HalvesAddUp
    <3>2. CASE p \notin B
      <4>1. B \ {p} = B
        BY <3>2
      <4>2. HighSum(a, b, B) = HighSum(a, b, B \ {p})
        BY <4>1
      <4>. HIDE DEF A, B, low, high, k1, k2
      <4>. QED
        BY <2>3, <2>7, <3>2, <4>2
    <3>. QED
      BY <3>1, <3>2
  <2>. HIDE DEF x, y, A, B, low, high, n, k1, k2
  <2>. QED
    BY <1>1, <1>5, <2>5, <2>6, <2>7, <2>8, <2>9
<1>. HIDE DEF x, y, low, high, n, k1, k2
<1>7. \A k \in 1 .. n : /\ z[k] \in Int
                        /\ z[k] = IF k = k1 THEN x[k] + low ELSE x[k]
                        /\ y[k] = IF k = k2 THEN z[k] + high ELSE z[k]
  BY <1>1, <1>3, <1>5, <1>6
<1>. HIDE DEF z
<1>8. LowValue(z, n) = LowValue(x, n) + low * Weight(k1 - 1)
  <2>1. IsRaised(x, z, n, k1, low)
    BY <1>3, <1>7 DEF IsRaised
  <2>. QED
    BY <1>1, <1>5, <2>1, OneColumn
<1>9. LowValue(y, n) = LowValue(z, n) + high * Weight(k2 - 1)
  <2>1. IsRaised(z, y, n, k2, high)
    BY <1>7 DEF IsRaised
  <2>. QED
    BY <1>1, <1>5, <2>1, OneColumn
<1>. DEFINE m == k1 - 1
            w == Weight(m)
<1>10. m \in Nat /\ k1 - 1 = m /\ k2 - 1 = m + 1 /\ p[1] + p[2] - 2 = m
  <2>1. k1 - 1 = p[1] + p[2] - 2
    <3>1. p[1] \in Int /\ p[2] \in Int
      BY DEF PairsOf
    <3>. QED
      BY <3>1 DEF k1
  <2>. QED
    BY <1>1, <2>1
<1>11. w \in Nat /\ Weight(k1 - 1) = w /\ Weight(k2 - 1) = w * Base
  BY <1>10, WeightLaws
<1>12. LowValue(x, n) \in Int
  BY <1>1, <1>3, LowIsInt
<1>. HIDE DEF w, m
<1>13. LowValue(y, n) = LowValue(x, n) + v * w
  <2>. HIDE DEF v
  <2>1. LowValue(y, n) = LowValue(x, n) + low * w + high * (w * Base)
    BY <1>8, <1>9, <1>11
  <2>2. low * w + high * (w * Base) = v * w /\ low * w \in Int /\ high * (w * Base) \in Int
    BY <1>4, <1>5, <1>11
  <2>. QED
    BY <1>12, <2>1, <2>2
<1>. QED
  BY <1>10, <1>13 DEF x, y, n, w

\* The pairs in the rows before the i-th one, and in the first j places of it.
RowsTo(a, b, i, j) == {p \in PairsOf(a, b) : p[1] < i \/ (p[1] = i /\ p[2] <= j)}

\* What they count for.
RowsValue(a, b, i, j) == LowValue(ColumnsFor(a, b, RowsTo(a, b, i, j)), Len(a) + Len(b))

\* The pairs of a row one after the other, and the next row.
LEMMA NextPair ==
  ASSUME NEW a \in Seq(Limb), NEW b \in Seq(Limb), NEW i \in 1 .. Len(a)
  PROVE  /\ RowsValue(a, b, i + 1, 0) = RowsValue(a, b, i, Len(b))
         /\ \A j \in 0 .. Len(b) : RowsValue(a, b, i, j) \in Int
         /\ \A j \in 0 .. Len(b) - 1 :
              RowsValue(a, b, i, j + 1)
                = RowsValue(a, b, i, j) + (a[i] * b[j + 1]) * (Weight(i - 1) * Weight(j))
<1>1. \A p \in PairsOf(a, b) : /\ p[1] \in 1 .. Len(a) /\ p[2] \in 1 .. Len(b)
                               /\ p = <<p[1], p[2]>>
  BY DEF PairsOf
<1>2. RowsTo(a, b, i + 1, 0) = RowsTo(a, b, i, Len(b))
  BY <1>1 DEF RowsTo
<1>3. \A j \in 0 .. Len(b) : RowsValue(a, b, i, j) \in Int
  <2>1. SUFFICES ASSUME NEW j \in 0 .. Len(b) PROVE RowsValue(a, b, i, j) \in Int
    OBVIOUS
  <2>2. RowsTo(a, b, i, j) \in SUBSET PairsOf(a, b)
    BY DEF RowsTo
  <2>. QED
    BY <2>2, ColumnsAreInts, LowIsInt DEF RowsValue
<1>4. ASSUME NEW j \in 0 .. Len(b) - 1
      PROVE  RowsValue(a, b, i, j + 1)
               = RowsValue(a, b, i, j) + (a[i] * b[j + 1]) * (Weight(i - 1) * Weight(j))
  <2>. DEFINE T == RowsTo(a, b, i, j + 1)
              p == <<i, j + 1>>
  <2>1. p \in PairsOf(a, b) /\ p \in T
    BY Limbs DEF PairsOf, RowsTo
  <2>2. RowsTo(a, b, i, j) = T \ {p}
    <3>1. ASSUME NEW q \in PairsOf(a, b)
          PROVE  q \in RowsTo(a, b, i, j) <=> q \in T /\ q # p
      <4>1. q[1] \in Int /\ q[2] \in Int /\ (q = p <=> q[1] = i /\ q[2] = j + 1)
        BY <1>1
      <4>. QED
        BY <4>1 DEF RowsTo
    <3>. QED
      BY <3>1 DEF RowsTo
  <2>3. T \in SUBSET PairsOf(a, b)
    BY DEF RowsTo
  <2>. DEFINE n == Len(a) + Len(b)
              m == i - 1
  <2>4. LowValue(ColumnsFor(a, b, T), n)
          = LowValue(ColumnsFor(a, b, T \ {p}), n)
              + ProductOf(a, b, p) * Weight(p[1] + p[2] - 2)
    BY <2>1, <2>3, PairCounts
  <2>5. p[1] + p[2] - 2 = m + j /\ m \in Nat /\ j \in Nat
    BY Limbs
  <2>6. Weight(p[1] + p[2] - 2) = Weight(m) * Weight(j)
    BY <2>5, WeightsGrow
  <2>7. ProductOf(a, b, p) = a[i] * b[j + 1]
    BY DEF ProductOf
  <2>. QED
    BY <2>2, <2>4, <2>6, <2>7 DEF RowsValue
<1>. QED
  BY <1>2, <1>3, <1>4 DEF RowsValue

\* A row counts for its limb times the second number.
LEMMA RowIs ==
  ASSUME NEW a \in Seq(Limb), NEW b \in Seq(Limb), NEW i \in 1 .. Len(a)
  PROVE  RowsValue(a, b, i + 1, 0)
           = RowsValue(a, b, i, 0) + (a[i] * Weight(i - 1)) * Value(b)
<1>. DEFINE n == Len(b)
            V(j) == RowsValue(a, b, i, j)
            c == a[i]
            w == Weight(i - 1)
            K == {j \in Nat : j <= n => V(j) = V(0) + (c * w) * LowValue(b, j)}
<1>1. n \in Nat /\ c \in Int /\ (\A j \in 1 .. n : b[j] \in Int)
  <2>1. Limb \subseteq Int
    BY WeightLaws DEF Limb
  <2>. QED
    BY <2>1, Limbs
<1>2. w \in Int
  <2>1. i - 1 \in Nat
    OBVIOUS
  <2>. QED
    BY <2>1, WeightLaws
<1>3. /\ \A j \in 0 .. n : V(j) \in Int
      /\ \A j \in 0 .. n - 1 : V(j + 1) = V(j) + (c * b[j + 1]) * (w * Weight(j))
  BY NextPair
<1>. HIDE DEF V, c, w, n
<1>4. 0 \in K
  <2>1. LowValue(b, 0) = 0
    BY <1>1, LowLaws
  <2>2. V(0) \in Int
    BY <1>1, <1>3
  <2>. QED
    BY <1>1, <1>2, <2>1, <2>2
<1>5. ASSUME NEW j \in Nat, j \in K PROVE j + 1 \in K
  <2>1. SUFFICES ASSUME j + 1 <= n PROVE V(j + 1) = V(0) + (c * w) * LowValue(b, j + 1)
    OBVIOUS
  <2>. DEFINE d == b[j + 1]
              u == Weight(j)
              l == LowValue(b, j)
  <2>2. V(j + 1) = V(j) + (c * d) * (w * u) /\ V(j) = V(0) + (c * w) * l
    BY <1>1, <1>3, <1>5, <2>1
  <2>3. u \in Int
    BY WeightLaws
  <2>4. j \in 0 .. n - 1 /\ j \in 0 .. n /\ j + 1 \in 1 .. n
    BY <1>1, <2>1
  <2>5. LowValue(b, j + 1) = l + d * u /\ l \in Int
    BY <1>1, <2>4, LowLaws
  <2>6. d \in Int /\ V(0) \in Int
    BY <1>1, <1>3, <2>4
  <2>. HIDE DEF d, u, l
  <2>7. (c * d) * (w * u) + (c * w) * l = (c * w) * (l + d * u)
        /\ (c * w) * l \in Int /\ (c * d) * (w * u) \in Int
    BY <1>1, <1>2, <2>3, <2>5, <2>6
  <2>. QED
    BY <2>2, <2>5, <2>6, <2>7
<1>6. Nat \subseteq K
  <2>. HIDE DEF K
  <2>. QED
    BY <1>4, <1>5, Induction
<1>7. V(n) = V(0) + (c * w) * LowValue(b, n)
  BY <1>1, <1>6
<1>8. RowsValue(a, b, i + 1, 0) = V(n)
  BY NextPair DEF V, n
<1>9. LowValue(b, n) = Value(b)
  BY NumberBound DEF n
<1>. QED
  BY <1>7, <1>8, <1>9 DEF V, c, w

\* All rows count for the product.
LEMMA ColumnsOfProduct ==
  ASSUME NEW a \in Seq(Limb), NEW b \in Seq(Limb)
  PROVE  LowValue(ColumnsFor(a, b, PairsOf(a, b)), Len(a) + Len(b)) = Value(a) * Value(b)
<1>. DEFINE n == Len(a)
            v == Value(b)
            V(i) == RowsValue(a, b, i + 1, 0)
            K == {i \in Nat : i <= n => V(i) = LowValue(a, i) * v}
<1>1. n \in Nat /\ v \in Int /\ (\A i \in 1 .. n : a[i] \in Int)
  <2>1. Limb \subseteq Int
    BY WeightLaws DEF Limb
  <2>. QED
    BY <2>1, Limbs, NumberBound
<1>2. LowValue(a, 0) = 0
  BY <1>1, LowLaws
<1>3. V(0) = 0
  <2>1. RowsTo(a, b, 1, 0) = {}
    BY DEF RowsTo, PairsOf
  <2>2. {} \in SUBSET PairsOf(a, b)
    OBVIOUS
  <2>. QED
    BY <2>1, <2>2, ColumnsAreInts DEF RowsValue
<1>4. 0 \in K
  BY <1>1, <1>2, <1>3
<1>5. ASSUME NEW i \in Nat, i \in K PROVE i + 1 \in K
  <2>1. SUFFICES ASSUME i + 1 <= n PROVE V(i + 1) = LowValue(a, i + 1) * v
    OBVIOUS
  <2>. DEFINE c == a[i + 1]
              w == Weight(i)
              l == LowValue(a, i)
  <2>2. i + 1 \in 1 .. n /\ (i + 1) - 1 = i /\ i \in 0 .. n /\ i \in 0 .. n - 1
    BY <1>1, <2>1
  <2>3. V(i + 1) = V(i) + (c * w) * v
    <3>1. \A k \in 1 .. n : RowsValue(a, b, k + 1, 0)
                              = RowsValue(a, b, k, 0) + (a[k] * Weight(k - 1)) * v
      BY RowIs
    <3>. QED
      BY <2>2, <3>1
  <2>4. V(i) = l * v
    BY <1>5, <2>1
  <2>5. LowValue(a, i + 1) = l + c * w /\ l \in Int
    BY <1>1, <2>2, LowLaws
  <2>6. c \in Int /\ w \in Int
    BY <1>1, <2>2, WeightLaws
  <2>. HIDE DEF V, v, c, w, l
  <2>7. l * v + (c * w) * v = (l + c * w) * v
    BY <1>1, <2>5, <2>6
  <2>. QED
    BY <2>3, <2>4, <2>5, <2>7
<1>6. Nat \subseteq K
  <2>. HIDE DEF K
  <2>. QED
    BY <1>4, <1>5, Induction
<1>7. V(n) = LowValue(a, n) * v
  BY <1>1, <1>6
<1>8. RowsTo(a, b, n + 1, 0) = PairsOf(a, b)
  BY <1>1 DEF RowsTo, PairsOf
<1>9. LowValue(a, n) = Value(a)
  BY NumberBound
<1>. QED
  BY <1>7, <1>8, <1>9 DEF RowsValue

-----------------------------------------------------------------------------
(* Products *)

\* A product is below the product of what its factors are below.
LEMMA ProductBound ==
  ASSUME NEW X \in Nat \ {0}, NEW Y \in Nat \ {0}, NEW x \in 0 .. X - 1, NEW y \in 0 .. Y - 1
  PROVE  x * y \in Nat /\ x * y < X * Y
<1>. DEFINE u == X - 1 - x
            v == Y - 1 - y
<1>1. u \in Nat /\ v \in Nat /\ X = x + u + 1 /\ Y = y + v + 1
  OBVIOUS
<1>. HIDE DEF u, v
<1>2. X * Y = (x + u + 1) * (y + v + 1)
  BY <1>1
<1>3. (x + u + 1) * (y + v + 1) = x * y + x * v + x + u * y + u * v + u + y + v + 1
  BY <1>1
<1>4. x * y \in Nat /\ x * v \in Nat /\ u * y \in Nat /\ u * v \in Nat
  BY <1>1
<1>. QED
  BY <1>1, <1>2, <1>3, <1>4

\* mul_biguint: the product, as a number with a limb more than the two have.
LEMMA MulIsExact ==
  ASSUME NEW a \in Seq(Limb), NEW b \in Seq(Limb)
  PROVE  /\ Mul(a, b) \in Seq(Limb) /\ Len(Mul(a, b)) = Len(a) + Len(b) + 1
         /\ Value(Mul(a, b)) = Value(a) * Value(b)
<1>. DEFINE m == Len(a) + Len(b)
            columns == ColumnsFor(a, b, PairsOf(a, b))
            l == Sweep(columns).limbs
            c == Sweep(columns).carry
            v == Value(a) * Value(b)
            w == Weight(m)
<1>1. Mul(a, b) = Append(l, c)
  BY MulIs
<1>2. columns \in Seq(Int) /\ Len(columns) = m /\ m \in Nat
  <2>1. PairsOf(a, b) \in SUBSET PairsOf(a, b)
    OBVIOUS
  <2>. QED
    BY <2>1, ColumnsAreInts
<1>3. LowValue(columns, m) = v
  BY ColumnsOfProduct
<1>. HIDE DEF columns
<1>4. /\ l \in Seq(Limb) /\ Len(l) = m /\ c \in Int
      /\ Value(l) + c * w = LowValue(columns, m)
  BY <1>2, SweepIsExact
<1>5. w \in Nat \ {0} /\ v \in Nat /\ v < 1 * w
  <2>. DEFINE X == Weight(Len(a))
              Y == Weight(Len(b))
              x == Value(a)
              y == Value(b)
  <2>1. w = X * Y
    BY Limbs, WeightsGrow
  <2>2. X \in Nat \ {0} /\ Y \in Nat \ {0} /\ w \in Nat \ {0}
    BY <1>2, Limbs, WeightLaws
  <2>3. x \in Nat /\ x < X /\ y \in Nat /\ y < Y
    BY NumberBound
  <2>. HIDE DEF X, Y, x, y, w
  <2>4. x * y \in Nat /\ x * y < X * Y
    BY <2>2, <2>3, ProductBound
  <2>5. v = x * y
    BY DEF x, y
  <2>. HIDE DEF v
  <2>. QED
    BY <2>1, <2>2, <2>4, <2>5
<1>6. Value(l) \in 0 .. w - 1
  BY <1>2, <1>4, Padded
<1>. HIDE DEF l, c, m, w, v
<1>7. Value(l) + c * w = v
  BY <1>3, <1>4
<1>8. c = 0
  <2>1. c \in Nat /\ \A k \in Nat : v < k * w => c < k
    BY <1>4, <1>5, <1>6, <1>7, CarryIs
  <2>2. 1 \in Nat
    OBVIOUS
  <2>3. c < 1
    BY <1>5, <2>1, <2>2
  <2>. QED
    BY <2>1, <2>3
<1>9. c \in Limb
  <2>1. Base \in Nat /\ Base >= 2
    BY WeightLaws
  <2>. QED
    BY <1>8, <2>1 DEF Limb
<1>10. Append(l, c) \in Seq(Limb) /\ Len(Append(l, c)) = m + 1
  BY <1>4, <1>9
<1>11. Value(Append(l, c)) = v
  BY <1>4, <1>7, Limbs, ValueOfAppend DEF w
<1>. QED
  BY <1>1, <1>10, <1>11 DEF v, m

\* mul_add_biguint.
LEMMA MulAddIsExact ==
  ASSUME NEW a \in Seq(Limb), NEW b \in Seq(Limb), NEW c \in Seq(Limb)
  PROVE  /\ MulAdd(a, b, c) \in Seq(Limb)
         /\ Value(MulAdd(a, b, c)) = Value(a) * Value(b) + Value(c)
<1>1. Mul(a, b) \in Seq(Limb) /\ Value(Mul(a, b)) = Value(a) * Value(b)
  BY MulIsExact
<1>. DEFINE p == Mul(a, b)
<1>2. MulAdd(a, b, c) = Add(p, c)
  BY DEF MulAdd
<1>. HIDE DEF p
<1>3. p \in Seq(Limb)
  BY <1>1 DEF p
<1>4. Add(p, c) \in Seq(Limb) /\ Value(Add(p, c)) = Value(p) + Value(c)
  BY <1>3, AddIsExact
<1>. QED
  BY <1>1, <1>2, <1>4 DEF p

\* Sums, differences and products.
LEMMA ArithmeticExact ==
  ASSUME NEW a \in Seq(Limb), NEW b \in Seq(Limb), NEW c \in Seq(Limb)
  PROVE  ArithmeticIsExact(a, b, c)
BY AddIsExact, SubIsExact, MulIsExact, MulAddIsExact DEF ArithmeticIsExact

-----------------------------------------------------------------------------
(* Numbers as they are written *)

\* A number below a weight and one more digit.
LEMMA DigitStep ==
  ASSUME NEW w \in Nat \ {0}, NEW B \in Nat \ {0}, NEW v \in Nat
  PROVE  /\ v % (w * B) = (v % w) + ((v \div w) % B) * w
         /\ v \div (w * B) = (v \div w) \div B
<1>. DEFINE q == v \div w
            r == v % w
            p == q \div B
            d == q % B
<1>1. q \in Nat /\ r \in 0 .. w - 1 /\ v = q * w + r
  BY Div
<1>. HIDE DEF q, r
<1>2. p \in Nat /\ d \in 0 .. B - 1 /\ q = p * B + d
  BY <1>1, Div
<1>. HIDE DEF p, d
<1>3. w * B \in Nat \ {0} /\ p * (w * B) \in Nat /\ d * w \in Nat
  <2>1. w * B \in Nat /\ d * w \in Nat
    BY <1>2
  <2>2. 1 * B <= w * B /\ 1 * B = B
    BY TimesMono
  <2>. HIDE DEF d
  <2>3. w * B # 0
    BY <2>1, <2>2
  <2>. DEFINE W == w * B
  <2>4. W \in Nat
    BY <2>1
  <2>. HIDE DEF W
  <2>5. p * W \in Nat
    BY <1>2, <2>4
  <2>. QED
    BY <2>1, <2>3, <2>5 DEF W
<1>4. v = p * (w * B) + (r + d * w)
  <2>1. (p * B + d) * w = p * (w * B) + d * w
    BY <1>2
  <2>2. q * w = p * (w * B) + d * w
    BY <1>2, <2>1
  <2>. DEFINE P == p * (w * B)
              Q == d * w
              R == q * w
  <2>3. P \in Nat /\ Q \in Nat /\ R = P + Q /\ v = R + r
    BY <1>1, <1>3, <2>2
  <2>. HIDE DEF P, Q, R
  <2>4. v = P + (r + Q)
    BY <1>1, <2>3
  <2>. QED
    BY <2>4 DEF P, Q
<1>5. r + d * w \in 0 .. w * B - 1
  <2>1. d * w <= (B - 1) * w
    <3>1. d \in Nat /\ B - 1 \in Nat /\ d <= B - 1
      BY <1>2
    <3>. QED
      BY <3>1, TimesMono
  <2>2. (B - 1) * w = w * B - w
    OBVIOUS
  <2>. DEFINE Q == d * w
              W == w * B
  <2>3. Q \in Nat /\ W \in Nat /\ Q <= W - w
    BY <1>3, <2>1, <2>2
  <2>. HIDE DEF Q, W
  <2>4. r + Q \in 0 .. W - 1
    BY <1>1, <2>3
  <2>. QED
    BY <2>4 DEF Q, W
<1>6. v % (w * B) = r + d * w /\ v \div (w * B) = p
  <2>. DEFINE W == w * B
              x == r + d * w
  <2>1. W \in Nat \ {0} /\ x \in 0 .. W - 1 /\ v = p * W + x /\ p \in Int
    BY <1>2, <1>3, <1>4, <1>5
  <2>. HIDE DEF W, x
  <2>2. v % W = x /\ v \div W = p
    BY <2>1, DivUnique
  <2>. QED
    BY <2>2 DEF W, x
<1>. QED
  BY <1>6 DEF r, d, q, p

\* to_u32_digits: as many limbs as the number needs.
LEMMA DigitsAre ==
  ASSUME NEW v \in Nat
  PROVE  /\ Digits(v) \in Seq(Limb) /\ Value(Digits(v)) = v
         /\ v < Weight(Len(Digits(v)))
         /\ Len(Digits(v)) > 0 => Weight(Len(Digits(v)) - 1) <= v
<1>. DEFINE Enough == {k \in Nat : v < Weight(k)}
            Least(k) == Weight(k) > v /\ (k = 0 \/ Weight(k - 1) <= v)
            n == CHOOSE k \in 0 .. v : Least(k)
<1>1. \E k \in 0 .. v : Least(k)
  <2>. DEFINE m == Min(Enough)
  <2>1. v \in Enough
    BY WeightsGrow
  <2>2. m \in Enough /\ \A k \in Enough : m <= k
    BY <2>1, LeastIsThere
  <2>. HIDE DEF m
  <2>3. m \in 0 .. v /\ Weight(m) > v
    BY <2>1, <2>2, WeightLaws
  <2>4. m = 0 \/ Weight(m - 1) <= v
    <3>1. SUFFICES ASSUME m # 0 PROVE Weight(m - 1) <= v
      OBVIOUS
    <3>2. m - 1 \in Nat /\ m - 1 \notin Enough
      BY <2>2, <3>1
    <3>3. Weight(m - 1) \in Nat
      BY <3>2, WeightLaws
    <3>. QED
      BY <3>2, <3>3
  <2>. QED
    BY <2>3, <2>4
<1>2. n \in 0 .. v /\ Least(n)
  <2>. HIDE DEF Least
  <2>. QED
    BY <1>1
<1>3. Digits(v) = [i \in 1 .. n |-> (v \div Weight(i - 1)) % Base]
  BY DEF Digits
<1>4. n \in Nat /\ v < Weight(n) /\ (n > 0 => Weight(n - 1) <= v)
  <2>. HIDE DEF n
  <2>1. n \in Nat
    BY <1>2
  <2>2. Weight(n) \in Nat
    BY <2>1, WeightLaws
  <2>. QED
    BY <1>2, <2>1, <2>2
<1>. HIDE DEF n, Least
<1>5. ASSUME NEW k \in Nat
      PROVE  v \div Weight(k) \in Nat /\ (v \div Weight(k)) % Base \in Limb
  <2>1. Weight(k) \in Nat \ {0} /\ Base \in Nat \ {0}
    <3>1. Weight(k) \in Nat \ {0}
      BY WeightLaws
    <3>2. Base \in Nat \ {0}
      BY WeightLaws
    <3>. QED
      BY <3>1, <3>2
  <2>2. v \div Weight(k) \in Nat
    BY <2>1, Div
  <2>. QED
    BY <2>1, <2>2, Div DEF Limb
<1>. DEFINE d == Digits(v)
<1>6. d \in Seq(Limb) /\ Len(d) = n /\ \A i \in 1 .. n : d[i] = (v \div Weight(i - 1)) % Base
  <2>1. \A i \in 1 .. n : i - 1 \in Nat
    OBVIOUS
  <2>2. \A i \in 1 .. n : (v \div Weight(i - 1)) % Base \in Limb
    BY <1>5, <2>1
  <2>. QED
    BY <1>3, <1>4, <2>2
<1>. HIDE DEF d
<1>7. d \in Seq(Int) /\ \A i \in 1 .. n : d[i] \in Int
  BY <1>6, Limbs, LowestAre
<1>. DEFINE S == {k \in Nat : k <= n => LowValue(d, k) = v % Weight(k)}
<1>8. 0 \in S
  <2>1. LowValue(d, 0) = 0
    BY <1>4, <1>7, LowIsInt
  <2>2. v % 1 = 0
    OBVIOUS
  <2>. QED
    BY <2>1, <2>2, WeightLaws
<1>9. ASSUME NEW k \in Nat, k \in S PROVE k + 1 \in S
  <2>1. SUFFICES ASSUME k + 1 <= n PROVE LowValue(d, k + 1) = v % Weight(k + 1)
    OBVIOUS
  <2>2. k \in 0 .. n - 1 /\ k + 1 \in 1 .. n /\ (k + 1) - 1 = k /\ k <= n
    BY <1>4, <2>1
  <2>3. LowValue(d, k + 1) = LowValue(d, k) + d[k + 1] * Weight(k)
    BY <1>4, <1>7, <2>2, LowLaws
  <2>4. LowValue(d, k) = v % Weight(k)
    BY <1>9, <2>2
  <2>5. d[k + 1] = (v \div Weight(k)) % Base
    BY <1>6, <2>2
  <2>6. Weight(k) \in Nat \ {0} /\ Weight(k + 1) = Weight(k) * Base
    BY WeightLaws
  <2>7. Base \in Nat \ {0}
    BY WeightLaws
  <2>8. v % (Weight(k) * Base) = (v % Weight(k)) + ((v \div Weight(k)) % Base) * Weight(k)
    BY <2>6, <2>7, DigitStep
  <2>. QED
    BY <2>3, <2>4, <2>5, <2>6, <2>8
<1>10. Nat \subseteq S
  <2>. HIDE DEF S
  <2>. QED
    BY <1>8, <1>9, Induction
<1>11. LowValue(d, n) = v % Weight(n)
  <2>1. n \in S /\ n <= n
    BY <1>4, <1>10
  <2>. QED
    BY <2>1
<1>12. v % Weight(n) = v
  <2>1. Weight(n) \in Nat \ {0}
    BY <1>4, WeightLaws
  <2>. DEFINE w == Weight(n)
  <2>. HIDE DEF w
  <2>2. w \in Nat \ {0} /\ v < w
    BY <1>4, <2>1 DEF w
  <2>3. v = 0 * w + v /\ v \in 0 .. w - 1
    BY <2>2
  <2>4. v % w = v
    BY <2>2, <2>3, DivUnique
  <2>. QED
    BY <2>4 DEF w
<1>13. Value(d) = v
  BY <1>6, <1>11, <1>12, NumberBound
<1>. QED
  BY <1>4, <1>6, <1>13 DEF d

\* set_biguint_target: a number that is not too large is written as it is.
LEMMA WrittenAs ==
  ASSUME NEW v \in Nat, NEW l \in Nat
  PROVE  /\ Fits(v, l) <=> v < Weight(l)
         /\ Fits(v, l) => /\ SetBiguint(v, l) \in Seq(Limb) /\ Len(SetBiguint(v, l)) = l
                          /\ Value(SetBiguint(v, l)) = v
<1>. DEFINE d == Digits(v)
            n == Len(d)
<1>1. /\ d \in Seq(Limb) /\ Value(d) = v /\ v < Weight(n)
      /\ n > 0 => Weight(n - 1) <= v
  BY DigitsAre
<1>. HIDE DEF d
<1>2. n \in Nat
  BY <1>1, Limbs
<1>. HIDE DEF n
<1>3. n <= l => v < Weight(l)
  <2>1. SUFFICES ASSUME n <= l PROVE v < Weight(l)
    OBVIOUS
  <2>2. Weight(n) <= Weight(l) /\ Weight(n) \in Nat /\ Weight(l) \in Nat
    BY <1>2, <2>1, WeightsGrow, WeightLaws
  <2>. QED
    BY <1>1, <2>2
<1>4. v < Weight(l) => n <= l
  <2>1. SUFFICES ASSUME n > l PROVE Weight(l) <= v
    <3>1. Weight(l) \in Nat
      BY WeightLaws
    <3>. QED
      BY <1>2, <2>1, <3>1
  <2>2. n - 1 \in Nat /\ l <= n - 1 /\ n > 0
    BY <1>2, <2>1
  <2>3. Weight(l) <= Weight(n - 1) /\ Weight(l) \in Nat /\ Weight(n - 1) \in Nat
    BY <2>2, WeightsGrow, WeightLaws
  <2>. QED
    BY <1>1, <2>2, <2>3
<1>5. Fits(v, l) <=> n <= l
  BY DEF Fits, n, d
<1>6. n <= l => /\ PaddedTo(d, l) \in Seq(Limb) /\ Len(PaddedTo(d, l)) = l
                /\ Value(PaddedTo(d, l)) = v
  BY <1>1, Padded DEF n
<1>. QED
  BY <1>3, <1>4, <1>5, <1>6 DEF SetBiguint, d

\* Comparisons, and the one form of a number.
LEMMA ComparisonsExact ==
  ASSUME NEW a \in Seq(Limb), NEW b \in Seq(Limb)
  PROVE  ComparisonsAreExact(a, b)
<1>. DEFINE v == Value(a)
            l == Len(a)
            s == SetBiguint(v, l)
<1>1. v \in Nat /\ v < Weight(l) /\ l \in Nat
  BY NumberBound, Limbs
<1>2. s \in Seq(Limb) /\ Len(s) = l /\ Value(s) = v
  <2>. HIDE DEF v, l
  <2>. QED
    BY <1>1, WrittenAs
<1>3. s = a
  <2>. HIDE DEF s
  <2>. QED
    BY <1>2, OneForm
<1>. QED
  BY <1>3, ComparedByValue DEF ComparisonsAreExact

-----------------------------------------------------------------------------
(* Division *)

\* The two constraints of div_rem_biguint.
IsQuotient(x, y, d, r) == x = d * y + r /\ r <= y

\* What fits them: Euclid's quotient, or the other pair.
IsOneOfTwo(x, y, d, r) ==
  \/ d = x \div y /\ r = x % y
  \/ x % y = 0 /\ d = x \div y - 1 /\ r = y

\* The quotients and remainders that fit, where the remainder may be as large
\* as the divisor.
LEMMA TwoQuotients ==
  ASSUME NEW x \in Nat, NEW y \in Nat \ {0}, NEW d \in Nat, NEW r \in Nat
  PROVE  IsQuotient(x, y, d, r) <=> IsOneOfTwo(x, y, d, r)
<1>. DEFINE q == x \div y
            s == x % y
<1>1. q \in Nat /\ s \in 0 .. y - 1 /\ x = q * y + s
  BY Div
<1>2. d * y \in Nat /\ q * y \in Nat
  <2>. HIDE DEF q
  <2>. QED
    BY <1>1
<1>3. ASSUME x = d * y + r, r < y PROVE d = q /\ r = s
  <2>1. r \in 0 .. y - 1 /\ d \in Int
    BY <1>3
  <2>. QED
    BY <1>3, <2>1, DivUnique
<1>4. ASSUME x = d * y + r, r = y PROVE s = 0 /\ d = q - 1
  <2>1. (d + 1) * y = d * y + y
    OBVIOUS
  <2>2. x = (d + 1) * y + 0
    BY <1>2, <1>4, <2>1
  <2>3. d + 1 \in Int /\ 0 \in 0 .. y - 1
    OBVIOUS
  <2>4. q = d + 1 /\ s = 0
    BY <2>2, <2>3, DivUnique
  <2>. QED
    BY <2>4
<1>5. ASSUME d = q, r = s PROVE x = d * y + r /\ r <= y
  <2>. HIDE DEF q, s
  <2>. QED
    BY <1>1, <1>5
<1>6. ASSUME s = 0, d = q - 1, r = y PROVE x = d * y + r /\ r <= y
  <2>. HIDE DEF q, s
  <2>1. q = d + 1
    BY <1>1, <1>6
  <2>2. q * y = d * y + y
    BY <2>1
  <2>. QED
    BY <1>1, <1>2, <1>6, <2>2
<1>7. r <= y <=> r < y \/ r = y
  OBVIOUS
<1>. HIDE DEF q, s
<1>8. x = d * y + r /\ r <= y => (d = q /\ r = s) \/ (s = 0 /\ d = q - 1 /\ r = y)
  BY <1>3, <1>4, <1>7
<1>9. (d = q /\ r = s) \/ (s = 0 /\ d = q - 1 /\ r = y) => x = d * y + r /\ r <= y
  BY <1>5, <1>6
<1>. QED
  BY <1>8, <1>9 DEF q, s, IsQuotient, IsOneOfTwo

\* div_rem_biguint in terms of the values.
LEMMA AcceptedValues ==
  ASSUME NEW a \in Seq(Limb), NEW b \in Seq(Limb), NEW div \in Seq(Limb), NEW rem \in Seq(Limb)
  PROVE  DivRemAccepts(a, b, div, rem) <=>
           Value(a) = Value(div) * Value(b) + Value(rem) /\ Value(rem) <= Value(b)
<1>. DEFINE p == Mul(div, b)
            s == Add(p, rem)
<1>1. p \in Seq(Limb) /\ Value(p) = Value(div) * Value(b)
  BY MulIsExact
<1>. HIDE DEF p
<1>2. s \in Seq(Limb) /\ Value(s) = Value(p) + Value(rem)
  BY <1>1, AddIsExact
<1>3. DivRemAccepts(a, b, div, rem) <=> Connected(a, s) /\ Cmp(rem, b)
  BY DEF DivRemAccepts, p
<1>. HIDE DEF s
<1>4. Connected(a, s) <=> Value(a) = Value(s)
  BY <1>2, ComparedByValue
<1>5. Cmp(rem, b) <=> Value(rem) <= Value(b)
  BY ComparedByValue
<1>. QED
  BY <1>1, <1>2, <1>3, <1>4, <1>5

\* So many limbs.
LEMMA LimbsOfLength ==
  ASSUME NEW n \in Nat, NEW s \in [1 .. n -> Limb]
  PROVE  s \in Seq(Limb) /\ Len(s) = n
  OBVIOUS

\* BigUintDivRemGenerator writes the quotient and the remainder.
LEMMA GeneratedValues ==
  ASSUME NEW a \in Seq(Limb), NEW b \in Seq(Limb), CanDivide(a, b)
  PROVE  /\ DivLimbs(a, b) \in Nat
         /\ DivRemGenerated(a, b).div \in Seq(Limb)
         /\ Len(DivRemGenerated(a, b).div) = DivLimbs(a, b)
         /\ Value(DivRemGenerated(a, b).div) = Value(a) \div Value(b)
         /\ DivRemGenerated(a, b).rem \in Seq(Limb)
         /\ Len(DivRemGenerated(a, b).rem) = Len(b)
         /\ Value(DivRemGenerated(a, b).rem) = Value(a) % Value(b)
<1>. DEFINE q == Value(a) \div Value(b)
            r == Value(a) % Value(b)
            l == DivLimbs(a, b)
            m == Len(b)
<1>1. l \in Nat /\ m \in Nat
  BY Limbs DEF DivLimbs
<1>2. q \in Nat /\ r \in Nat
  <2>1. Value(a) \in Nat /\ Value(b) \in Nat \ {0}
    BY NumberBound DEF CanDivide
  <2>2. q \in Nat /\ r \in 0 .. Value(b) - 1
    BY <2>1, Div
  <2>. QED
    BY <2>1, <2>2
<1>3. Fits(q, l) /\ Fits(r, m)
  BY DEF CanDivide
<1>4. DivRemGenerated(a, b).div = SetBiguint(q, l) /\ DivRemGenerated(a, b).rem = SetBiguint(r, m)
  BY DEF DivRemGenerated
<1>. HIDE DEF q, r, l, m
<1>5. /\ SetBiguint(q, l) \in Seq(Limb) /\ Len(SetBiguint(q, l)) = l
      /\ Value(SetBiguint(q, l)) = q
  BY <1>1, <1>2, <1>3, WrittenAs
<1>6. /\ SetBiguint(r, m) \in Seq(Limb) /\ Len(SetBiguint(r, m)) = m
      /\ Value(SetBiguint(r, m)) = r
  BY <1>1, <1>2, <1>3, WrittenAs
<1>. QED
  BY <1>1, <1>4, <1>5, <1>6 DEF q, r, l, m

\* The slots of an epoch are a number of one limb.
LEMMA SlotsAreOneLimb ==
  /\ ConstantBiguint(SlotsPerEpoch) \in Seq(Limb)
  /\ Len(ConstantBiguint(SlotsPerEpoch)) = 1
  /\ Value(ConstantBiguint(SlotsPerEpoch)) = SlotsPerEpoch
  /\ SlotsPerEpoch \in Nat \ {0} /\ SlotsPerEpoch < Base /\ Weight(1) = Base
<1>. DEFINE v == SlotsPerEpoch
            n == Len(Digits(v))
<1>1. v \in Nat \ {0} /\ v < Base /\ Base \in Nat
  BY NumbersAssumption, WeightLaws
<1>2. /\ Digits(v) \in Seq(Limb) /\ Value(Digits(v)) = v /\ v < Weight(n)
      /\ n > 0 => Weight(n - 1) <= v
  <2>. HIDE DEF v
  <2>. QED
    BY <1>1, DigitsAre
<1>3. n \in Nat
  BY <1>2, Limbs
<1>4. Weight(1) = Base /\ Weight(0) = 1
  <2>1. Weight(0) = 1 /\ Weight(0 + 1) = Weight(0) * Base /\ Base \in Nat
    BY WeightLaws
  <2>2. 0 + 1 = 1
    OBVIOUS
  <2>. QED
    BY <2>1, <2>2
<1>. HIDE DEF n, v
<1>5. n # 0
  BY <1>1, <1>2, <1>4
<1>6. n <= 1
  <2>1. SUFFICES ASSUME n > 1 PROVE FALSE
    BY <1>3
  <2>2. n - 1 \in Nat /\ 1 \in Nat /\ 1 <= n - 1 /\ n > 0
    BY <1>3, <2>1
  <2>3. Weight(1) <= Weight(n - 1) /\ Weight(n - 1) \in Nat
    BY <2>2, WeightsGrow, WeightLaws
  <2>. QED
    BY <1>1, <1>2, <1>4, <2>2, <2>3
<1>7. n = 1
  BY <1>3, <1>5, <1>6
<1>. QED
  BY <1>1, <1>2, <1>4, <1>7 DEF ConstantBiguint, n, v

\* verify_slot_is_in_range accepts the epoch of the slot.
LEMMA EpochOfSlot ==
  ASSUME NEW a \in Seq(Limb), NEW b \in Seq(Limb), Len(a) = 2
  PROVE  SlotIsProvable(a, b) <=> Value(b) = Value(a) \div SlotsPerEpoch
<1>. DEFINE c == ConstantBiguint(SlotsPerEpoch)
            S == SlotsPerEpoch
            x == Value(a)
            g == DivRemGenerated(a, c)
<1>1. /\ c \in Seq(Limb) /\ Len(c) = 1 /\ Value(c) = S
      /\ S \in Nat \ {0} /\ S < Base /\ Weight(1) = Base /\ Base \in Nat
  BY SlotsAreOneLimb, WeightLaws
<1>. HIDE DEF c, S
<1>2. x \in Nat /\ x < Weight(2)
  BY NumberBound
<1>3. Weight(2) \in Nat
  BY WeightLaws
<1>. HIDE DEF x
<1>4. x \div S \in Nat /\ x % S \in 0 .. S - 1 /\ x = (x \div S) * S + (x % S)
  BY <1>1, <1>2, Div
<1>5. x \div S <= x
  <2>. DEFINE q == x \div S
              r == x % S
  <2>1. q \in Nat /\ r \in Nat /\ x = q * S + r
    BY <1>1, <1>4
  <2>. HIDE DEF q, r
  <2>2. 1 * q <= S * q /\ S * q = q * S /\ q * S \in Nat /\ 1 * q = q
    BY <1>1, <2>1, TimesMono
  <2>3. q <= x
    BY <1>2, <2>1, <2>2
  <2>. QED
    BY <2>3 DEF q
<1>6. CanDivide(a, c)
  <2>1. DivLimbs(a, c) = 2
    BY <1>1 DEF DivLimbs
  <2>2. Fits(x \div S, 2)
    <3>1. x \div S < Weight(2)
      BY <1>2, <1>3, <1>4, <1>5
    <3>. QED
      BY <1>4, <3>1, WrittenAs
  <2>3. Fits(x % S, 1)
    <3>1. x % S \in Nat /\ x % S < Weight(1)
      BY <1>1, <1>4
    <3>. QED
      BY <3>1, WrittenAs
  <2>. QED
    BY <1>1, <2>1, <2>2, <2>3 DEF CanDivide, x
<1>7. /\ g.div \in Seq(Limb) /\ Value(g.div) = x \div S
      /\ g.rem \in Seq(Limb) /\ Value(g.rem) = x % S
  BY <1>1, <1>6, GeneratedValues DEF x
<1>8. SlotIsProvable(a, b) <=> DivRemAccepts(a, c, g.div, g.rem) /\ Connected(g.div, b)
  BY DEF SlotIsProvable, c, S
<1>. DEFINE div == g.div
            rem == g.rem
<1>9. div \in Seq(Limb) /\ rem \in Seq(Limb)
  BY <1>7
<1>10. DivRemAccepts(a, c, div, rem)
  <2>1. x = Value(div) * Value(c) + Value(rem) /\ Value(rem) <= Value(c)
    BY <1>1, <1>4, <1>7
  <2>. HIDE DEF div, rem
  <2>. QED
    BY <1>1, <1>9, <2>1, AcceptedValues DEF x
<1>11. Connected(div, b) <=> Value(div) = Value(b)
  <2>. HIDE DEF div
  <2>. QED
    BY <1>9, ComparedByValue
<1>. QED
  BY <1>7, <1>8, <1>10, <1>11 DEF x, S

\* A division is that of the integers.
LEMMA QuotientExact ==
  ASSUME NEW a \in Seq(Limb), NEW b \in Seq(Limb)
  PROVE  QuotientIsExact(a, b)
<1>. DEFINE x == Value(a)
            y == Value(b)
            q == x \div y
            r == x % y
            l == DivLimbs(a, b)
            m == Len(b)
<1>1. SUFFICES ASSUME y # 0
               PROVE  /\ \A div \in [1 .. l -> Limb], rem \in [1 .. m -> Limb] :
                           DivRemAccepts(a, b, div, rem) <=>
                             \/ Value(div) = q /\ Value(rem) = r
                             \/ r = 0 /\ Value(div) = q - 1 /\ Value(rem) = y
                      /\ CanDivide(a, b) => /\ Value(DivRemGenerated(a, b).div) = q
                                            /\ Value(DivRemGenerated(a, b).rem) = r
                      /\ Len(a) = 2 /\ Len(b) = 2 =>
                           (SlotIsProvable(a, b) <=> y = x \div SlotsPerEpoch)
  BY DEF QuotientIsExact
<1>2. l \in Nat /\ m \in Nat
  BY Limbs DEF DivLimbs
<1>3. ASSUME NEW div \in [1 .. l -> Limb], NEW rem \in [1 .. m -> Limb]
      PROVE  DivRemAccepts(a, b, div, rem) <=>
               \/ Value(div) = q /\ Value(rem) = r
               \/ r = 0 /\ Value(div) = q - 1 /\ Value(rem) = y
  <2>1. div \in Seq(Limb) /\ rem \in Seq(Limb)
    <3>. HIDE DEF l, m
    <3>. QED
      BY <1>2, LimbsOfLength
  <2>2. x \in Nat /\ y \in Nat \ {0} /\ Value(div) \in Nat /\ Value(rem) \in Nat
    BY <1>1, <2>1, NumberBound
  <2>3. DivRemAccepts(a, b, div, rem) <=> x = Value(div) * y + Value(rem) /\ Value(rem) <= y
    BY <2>1, AcceptedValues
  <2>. HIDE DEF x, y
  <2>4. x = Value(div) * y + Value(rem) /\ Value(rem) <= y <=>
          \/ Value(div) = x \div y /\ Value(rem) = x % y
          \/ x % y = 0 /\ Value(div) = x \div y - 1 /\ Value(rem) = y
    <3>1. IsQuotient(x, y, Value(div), Value(rem)) <=> IsOneOfTwo(x, y, Value(div), Value(rem))
      BY <2>2, TwoQuotients
    <3>. QED
      BY <3>1 DEF IsQuotient, IsOneOfTwo
  <2>. QED
    BY <2>3, <2>4
<1>4. CanDivide(a, b) => /\ Value(DivRemGenerated(a, b).div) = q
                         /\ Value(DivRemGenerated(a, b).rem) = r
  BY GeneratedValues
<1>5. Len(a) = 2 => (SlotIsProvable(a, b) <=> y = x \div SlotsPerEpoch)
  BY EpochOfSlot
<1>. QED
  BY <1>3, <1>4, <1>5

\* DivisionIsExact
THEOREM DivisionExact == NumbersSpec => []DivisionIsExact
<1>1. operands = <<>> => DivisionIsExact
  BY DEF DivisionIsExact
<1>2. NumbersInit => DivisionIsExact
  <2>1. SUFFICES ASSUME NEW a \in Operands, NEW b \in Operands, NEW c \in Operands,
                        operands = <<a, b, c>>
                 PROVE  QuotientIsExact(a, b)
    BY DEF NumbersInit, DivisionIsExact
  <2>2. a \in Seq(Limb) /\ b \in Seq(Limb)
    BY OperandsAssumption
  <2>. QED
    BY <2>2, QuotientExact
<1>3. DivisionIsExact /\ [FALSE]_operands => DivisionIsExact'
  BY DEF DivisionIsExact, QuotientIsExact
<1>. QED
  BY <1>1, <1>2, <1>3, PTL DEF NumbersSpec, NoNumbers

-----------------------------------------------------------------------------
(* The generator of a division in a circuit file *)

\* How a number is written in a circuit file, and what reading it leaves.
CountAndLimbs(a) == <<Len(a)>> \o a
ReadFirst(buffer) == SubSeq(buffer, 2, buffer[1] + 1)
ReadRest(buffer) == SubSeq(buffer, buffer[1] + 2, Len(buffer))

\* A number that is written first is read first.
LEMMA NumberIsRead ==
  ASSUME NEW x \in Seq(Int), NEW y \in Seq(Int)
  PROVE  /\ CountAndLimbs(x) \in Seq(Int) /\ CountAndLimbs(x) \o y \in Seq(Int)
         /\ ReadFirst(CountAndLimbs(x) \o y) = x /\ ReadRest(CountAndLimbs(x) \o y) = y
<1>. DEFINE n == Len(x)
            m == Len(y)
            h == CountAndLimbs(x)
            z == h \o y
<1>1. n \in Nat /\ m \in Nat
  OBVIOUS
<1>2. <<n>> \in Seq(Int) /\ Len(<<n>>) = 1 /\ <<n>>[1] = n
  BY <1>1
<1>3. /\ h \in Seq(Int) /\ Len(h) = 1 + n
      /\ \A i \in 1 .. 1 + n : h[i] = IF i <= 1 THEN <<n>>[i] ELSE x[i - 1]
  <2>1. h = <<n>> \o x
    BY DEF CountAndLimbs
  <2>. DEFINE f == <<n>>
  <2>2. f \in Seq(Int) /\ Len(f) = 1
    BY <1>2
  <2>. HIDE DEF f, h
  <2>3. /\ f \o x \in Seq(Int) /\ Len(f \o x) = Len(f) + Len(x)
        /\ \A i \in 1 .. Len(f) + Len(x) :
             (f \o x)[i] = IF i <= Len(f) THEN f[i] ELSE x[i - Len(f)]
    BY <2>2, ConcatProperties
  <2>. QED
    BY <2>1, <2>2, <2>3 DEF f
<1>. HIDE DEF h
<1>4. /\ z \in Seq(Int) /\ Len(z) = 1 + n + m
      /\ \A i \in 1 .. 1 + n + m : z[i] = IF i <= 1 + n THEN h[i] ELSE y[i - (1 + n)]
  <2>1. /\ h \o y \in Seq(Int) /\ Len(h \o y) = Len(h) + Len(y)
        /\ \A i \in 1 .. Len(h) + Len(y) :
             (h \o y)[i] = IF i <= Len(h) THEN h[i] ELSE y[i - Len(h)]
    BY <1>3, ConcatProperties
  <2>. QED
    BY <1>1, <1>3, <2>1
<1>. HIDE DEF z
<1>5. \A i \in 1 .. 1 + n + m : z[i] \in Int
  BY <1>4
<1>6. z[1] = n
  BY <1>1, <1>2, <1>3, <1>4
<1>. HIDE DEF n, m
<1>7. /\ SubSeq(z, 2, n + 1) \in Seq(Int) /\ Len(SubSeq(z, 2, n + 1)) = n
      /\ \A i \in 1 .. n : SubSeq(z, 2, n + 1)[i] = x[i]
  <2>1. 2 \in Int /\ n + 1 \in Int /\ \A i \in 2 .. n + 1 : z[i] \in Int
    BY <1>1, <1>5
  <2>. DEFINE s == SubSeq(z, 2, n + 1)
  <2>2. /\ s \in Seq(Int) /\ Len(s) = IF 2 <= n + 1 THEN (n + 1) - 2 + 1 ELSE 0
        /\ \A i \in 1 .. (n + 1) - 2 + 1 : s[i] = z[2 + i - 1]
    BY <2>1, SubSeqProperties
  <2>. HIDE DEF s
  <2>3. \A i \in 1 .. n : z[2 + i - 1] = x[i]
    <3>1. SUFFICES ASSUME NEW i \in 1 .. n PROVE z[i + 1] = x[i]
      BY <1>1
    <3>2. i + 1 \in 1 .. 1 + n + m /\ i + 1 <= 1 + n /\ i + 1 \in 1 .. 1 + n /\ ~(i + 1 <= 1)
          /\ (i + 1) - 1 = i
      BY <1>1
    <3>3. z[i + 1] = h[i + 1]
      BY <1>4, <3>2
    <3>. QED
      BY <1>3, <3>2, <3>3
  <2>4. (n + 1) - 2 + 1 = n
    BY <1>1
  <2>5. Len(s) = n
    BY <1>1, <2>2, <2>4
  <2>. QED
    BY <2>2, <2>3, <2>4, <2>5 DEF s
<1>8. /\ SubSeq(z, n + 2, 1 + n + m) \in Seq(Int) /\ Len(SubSeq(z, n + 2, 1 + n + m)) = m
      /\ \A i \in 1 .. m : SubSeq(z, n + 2, 1 + n + m)[i] = y[i]
  <2>1. n + 2 \in Int /\ 1 + n + m \in Int /\ \A i \in n + 2 .. 1 + n + m : z[i] \in Int
    BY <1>1, <1>5
  <2>. DEFINE s == SubSeq(z, n + 2, 1 + n + m)
  <2>2. /\ s \in Seq(Int)
        /\ Len(s) = IF n + 2 <= 1 + n + m THEN (1 + n + m) - (n + 2) + 1 ELSE 0
        /\ \A i \in 1 .. (1 + n + m) - (n + 2) + 1 : s[i] = z[(n + 2) + i - 1]
    BY <2>1, SubSeqProperties
  <2>. HIDE DEF s
  <2>3. \A i \in 1 .. m : z[(n + 2) + i - 1] = y[i]
    <3>1. SUFFICES ASSUME NEW i \in 1 .. m PROVE z[(n + 2) + i - 1] = y[i]
      OBVIOUS
    <3>. DEFINE j == (n + 2) + i - 1
    <3>2. j \in 1 .. 1 + n + m /\ ~(j <= 1 + n) /\ j - (1 + n) = i
      BY <1>1
    <3>. HIDE DEF j
    <3>3. z[j] = y[i]
      BY <1>4, <3>2
    <3>. QED
      BY <3>3 DEF j
  <2>4. (1 + n + m) - (n + 2) + 1 = m
    BY <1>1
  <2>5. Len(s) = m
    BY <1>1, <2>2, <2>4
  <2>. QED
    BY <1>1, <2>2, <2>3, <2>4, <2>5 DEF s
<1>9. SubSeq(z, 2, n + 1) = x
  <2>. DEFINE s == SubSeq(z, 2, n + 1)
  <2>1. s \in Seq(Int) /\ Len(s) = Len(x) /\ \A i \in 1 .. Len(s) : s[i] = x[i]
    BY <1>7 DEF n
  <2>. HIDE DEF s
  <2>2. s = x
    BY <2>1, SeqEqual
  <2>. QED
    BY <2>2 DEF s
<1>10. SubSeq(z, n + 2, Len(z)) = y
  <2>. DEFINE s == SubSeq(z, n + 2, 1 + n + m)
  <2>1. s \in Seq(Int) /\ Len(s) = Len(y) /\ \A i \in 1 .. Len(s) : s[i] = y[i]
    BY <1>8 DEF m
  <2>. HIDE DEF s
  <2>2. s = y
    BY <2>1, SeqEqual
  <2>. QED
    BY <1>4, <2>2 DEF s
<1>. QED
  BY <1>3, <1>4, <1>6, <1>9, <1>10 DEF ReadFirst, ReadRest, h, z

\* The last limb of a number, written by itself.
LEMMA LastByItself ==
  ASSUME NEW r \in Seq(Int), r # <<>>
  PROVE  /\ Front(r) \in Seq(Int) /\ <<Last(r)>> \in Seq(Int)
         /\ Front(r) \o <<Last(r)>> = r
<1>. DEFINE n == Len(r)
            f == Front(r)
            t == <<Last(r)>>
<1>1. n \in Nat /\ n >= 1 /\ \A i \in 1 .. n : r[i] \in Int
  BY EmptySeq
<1>2. t \in Seq(Int) /\ Len(t) = 1 /\ t[1] = r[n]
  BY <1>1 DEF Last
<1>3. f \in Seq(Int) /\ Len(f) = n - 1 /\ \A i \in 1 .. n - 1 : f[i] = r[i]
  BY <1>1 DEF Front
<1>. HIDE DEF f, t
<1>4. /\ f \o t \in Seq(Int) /\ Len(f \o t) = Len(f) + Len(t)
      /\ \A i \in 1 .. Len(f) + Len(t) :
           (f \o t)[i] = IF i <= Len(f) THEN f[i] ELSE t[i - Len(f)]
  BY <1>2, <1>3, ConcatProperties
<1>5. Len(f \o t) = Len(r) /\ \A i \in 1 .. Len(f \o t) : (f \o t)[i] = r[i]
  <2>1. Len(f \o t) = n
    BY <1>1, <1>2, <1>3, <1>4
  <2>2. \A i \in 1 .. n : (f \o t)[i] = r[i]
    <3>. HIDE DEF n
    <3>. QED
      BY <1>1, <1>2, <1>3, <1>4
  <2>. QED
    BY <2>1, <2>2
<1>6. f \o t = r
  BY <1>4, <1>5, SeqEqual
<1>. QED
  BY <1>2, <1>3, <1>6 DEF f, t

\* Joining three parts.
SameJoined(x, y, z) == (x \o y) \o z = x \o (y \o z)

\* It does not matter which two are joined first.
LEMMA JoinedInAnyOrder ==
  \A x, y, z \in Seq(Int) : SameJoined(x, y, z)
BY ConcatAssociative DEF SameJoined

\* The generator as it is written: its four numbers in a row.
LEMMA WrittenInARow ==
  ASSUME NEW gen, gen.a \in Seq(Int), gen.b \in Seq(Int), gen.div \in Seq(Int),
         gen.rem \in Seq(Int), gen.rem # <<>>
  PROVE  Serialize(gen) = CountAndLimbs(gen.a) \o (CountAndLimbs(gen.b) \o (CountAndLimbs(gen.div)
                            \o (CountAndLimbs(gen.rem) \o <<>>)))
<1>. DEFINE A == CountAndLimbs(gen.a)
            B == CountAndLimbs(gen.b)
            D == CountAndLimbs(gen.div)
            R == CountAndLimbs(gen.rem)
            n == <<Len(gen.rem)>>
            f == Front(gen.rem)
            t == <<Last(gen.rem)>>
            Q == (A \o B) \o D
<1>1. Serialize(gen) = ((Q \o n) \o f) \o t
  BY DEF Serialize, CountAndLimbs
<1>2. A \in Seq(Int) /\ B \in Seq(Int) /\ D \in Seq(Int) /\ R \in Seq(Int) /\ <<>> \in Seq(Int)
  BY NumberIsRead, EmptySeq
<1>3. /\ n \in Seq(Int) /\ f \in Seq(Int) /\ t \in Seq(Int) /\ f \o t = gen.rem
      /\ R = n \o gen.rem
  BY LastByItself DEF CountAndLimbs
<1>. HIDE DEF A, B, D, R, n, f, t
<1>4. A \o B \in Seq(Int) /\ Q \in Seq(Int) /\ n \o f \in Seq(Int) /\ D \o R \in Seq(Int)
  BY <1>2, <1>3, ConcatProperties
<1>5. ((Q \o n) \o f) \o t = Q \o R
  <2>. HIDE DEF Q
  <2>1. SameJoined(Q, n, f)
    BY <1>3, <1>4, JoinedInAnyOrder
  <2>2. SameJoined(Q, n \o f, t)
    BY <1>3, <1>4, JoinedInAnyOrder
  <2>3. SameJoined(n, f, t)
    BY <1>3, JoinedInAnyOrder
  <2>. QED
    BY <1>3, <2>1, <2>2, <2>3 DEF SameJoined
<1>6. Q \o R = A \o (B \o (D \o R))
  <2>1. SameJoined(A \o B, D, R)
    BY <1>2, <1>4, JoinedInAnyOrder
  <2>2. SameJoined(A, B, D \o R)
    BY <1>2, <1>4, JoinedInAnyOrder
  <2>. QED
    BY <2>1, <2>2 DEF SameJoined
<1>7. R \o <<>> = R
  BY <1>2, ConcatEmptySeq
<1>. QED
  BY <1>1, <1>5, <1>6, <1>7 DEF A, B, D, R

\* BigUintDivRemGenerator comes back from a circuit file as it was.
LEMMA GeneratorReadBack ==
  ASSUME NEW a \in Seq(Limb), NEW b \in Seq(Limb)
  PROVE  GeneratorIsReadBack(a, b)
<1>. DEFINE generated == DivRemGenerated(a, b)
            gen == [a |-> a, b |-> b, div |-> generated.div, rem |-> generated.rem]
<1>1. SUFFICES ASSUME b # <<>>, CanDivide(a, b) PROVE Deserialize(Serialize(gen)) = gen
  BY DEF GeneratorIsReadBack
<1>. DEFINE d == generated.div
            r == generated.rem
<1>2. d \in Seq(Limb) /\ r \in Seq(Limb) /\ Len(r) = Len(b)
  BY <1>1, GeneratedValues
<1>. HIDE DEF generated
<1>3. a \in Seq(Int) /\ b \in Seq(Int) /\ d \in Seq(Int) /\ r \in Seq(Int) /\ r # <<>>
  <2>1. a \in Seq(Int) /\ b \in Seq(Int) /\ d \in Seq(Int) /\ r \in Seq(Int)
    <3>. HIDE DEF d, r
    <3>. QED
      BY <1>2, Limbs
  <2>2. Len(b) # 0
    BY <1>1, EmptySeq
  <2>. QED
    BY <1>2, <2>1, <2>2, EmptySeq
<1>. HIDE DEF d, r
<1>4. gen = [a |-> a, b |-> b, div |-> d, rem |-> r]
  BY DEF d, r
<1>. HIDE DEF gen
<1>. DEFINE z3 == CountAndLimbs(r) \o <<>>
            z2 == CountAndLimbs(d) \o z3
            z1 == CountAndLimbs(b) \o z2
            z == CountAndLimbs(a) \o z1
<1>5. Serialize(gen) = z
  <2>1. gen.a = a /\ gen.b = b /\ gen.div = d /\ gen.rem = r
    BY <1>4
  <2>. QED
    BY <1>3, <2>1, WrittenInARow
<1>6. z3 \in Seq(Int) /\ ReadFirst(z3) = r
  BY <1>3, EmptySeq, NumberIsRead
<1>. HIDE DEF z3
<1>7. z2 \in Seq(Int) /\ ReadFirst(z2) = d /\ ReadRest(z2) = z3
  BY <1>3, <1>6, NumberIsRead
<1>. HIDE DEF z2
<1>8. z1 \in Seq(Int) /\ ReadFirst(z1) = b /\ ReadRest(z1) = z2
  BY <1>3, <1>7, NumberIsRead
<1>. HIDE DEF z1
<1>9. ReadFirst(z) = a /\ ReadRest(z) = z1
  BY <1>3, <1>8, NumberIsRead
<1>. HIDE DEF z
<1>10. Deserialize(z) = [a |-> ReadFirst(z), b |-> ReadFirst(ReadRest(z)),
                         div |-> ReadFirst(ReadRest(ReadRest(z))),
                         rem |-> ReadFirst(ReadRest(ReadRest(ReadRest(z))))]
  BY DEF Deserialize, ReadFirst, ReadRest
<1>. QED
  BY <1>4, <1>5, <1>6, <1>7, <1>8, <1>9, <1>10

-----------------------------------------------------------------------------
(* Bits *)

\* The values of the first bits of a number.
IsRead(bits, n, V) ==
  /\ V[0] = 0
  /\ \A k \in 1 .. n : V[k] = 2 * V[k - 1] + bits[k]

\* le_sum goes through them.
LEMMA BitsAreRead ==
  ASSUME NEW a \in Seq(Int)
  PROVE  \E V : IsRead(a, Len(a), V) /\ BitsValue(a) = V[Len(a)]
<1>. DEFINE n == Len(a)
            S == 1 .. n
            c == [T \in SUBSET S |-> Max(T)]
            step == [p \in S \X Int |-> 2 * p[2] + a[p[1]]]
            F(iter) == [s \in SUBSET S |-> IF s = {} THEN 0
                                           ELSE 2 * iter[s \ {Max(s)}] + a[Max(s)]]
            Iter == CHOOSE iter : iter = F(iter)
<1>1. n \in Nat /\ S = DOMAIN a /\ \A i \in S : a[i] \in Int
  OBVIOUS
<1>2. BitsValue(a) = Iter[S]
  <2>1. BitsValue(a) = (CHOOSE iter : iter = [s \in SUBSET DOMAIN a |->
                                         IF s = {} THEN 0
                                         ELSE 2 * iter[s \ {Max(s)}] + a[Max(s)]])[DOMAIN a]
    BY DEF BitsValue, FoldLeft, MapThenFoldSet
  <2>. QED
    BY <1>1, <2>1
<1>3. \E g \in [SUBSET S -> Int] : IsFold(g, SUBSET S, 0, c, step)
  <2>1. IsFiniteSet(S)
    BY <1>1, FS_Interval
  <2>2. \A T \in SUBSET S : T # {} => c[T] \in T
    BY <1>1, IndexEnds
  <2>3. ASSUME NEW e \in S, NEW v \in Int PROVE step[<<e, v>>] \in Int
    <3>1. a[e] \in Int /\ step[<<e, v>>] = 2 * v + a[e]
      BY <1>1
    <3>. HIDE DEF step
    <3>. QED
      BY <3>1
  <2>4. 0 \in Int
    OBVIOUS
  <2>. HIDE DEF S, c, step
  <2>. QED
    BY <2>1, <2>2, <2>3, <2>4, FoldExists
<1>4. PICK g \in [SUBSET S -> Int] : IsFold(g, SUBSET S, 0, c, step)
  BY <1>3
<1>5. g = F(g)
  <2>1. ASSUME NEW s \in SUBSET S, s # {}
        PROVE  g[s] = 2 * g[s \ {Max(s)}] + a[Max(s)]
    <3>1. g[s] = step[<<c[s], g[s \ {c[s]}]>>] /\ c[s] = Max(s) /\ Max(s) \in s
      BY <1>1, <1>4, <2>1, IndexEnds DEF IsFold
    <3>2. g[s \ {Max(s)}] \in Int /\ Max(s) \in S
      BY <2>1, <3>1
    <3>. QED
      BY <3>1, <3>2
  <2>2. g[{}] = 0
    BY <1>4 DEF IsFold
  <2>. QED
    BY <2>1, <2>2
<1>6. Iter = F(Iter)
  <2>. HIDE DEF F
  <2>. QED
    BY <1>5
<1>. HIDE DEF Iter
<1>7. Iter[{}] = 0
  BY <1>6
<1>8. \A s \in SUBSET S : s # {} => Iter[s] = 2 * Iter[s \ {Max(s)}] + a[Max(s)]
  BY <1>6
<1>. DEFINE V == [k \in 0 .. n |-> Iter[1 .. k]]
<1>9. V[0] = 0
  <2>1. 1 .. 0 = {} /\ 0 \in 0 .. n
    BY <1>1
  <2>. QED
    BY <1>7, <2>1
<1>10. ASSUME NEW k \in 1 .. n PROVE V[k] = 2 * V[k - 1] + a[k]
  <2>1. 1 \in Int /\ k \in Int /\ 1 <= k
    BY <1>1
  <2>2. 1 .. k # {} /\ Max(1 .. k) = k /\ (1 .. k) \ {k} = 1 .. (k - 1)
    BY <2>1, IntervalEnds
  <2>3. 1 .. k \in SUBSET S /\ k \in 0 .. n /\ k - 1 \in 0 .. n
    BY <1>1
  <2>4. Iter[1 .. k] = 2 * Iter[1 .. (k - 1)] + a[k]
    BY <1>8, <2>2, <2>3
  <2>. QED
    BY <2>3, <2>4
<1>11. V[n] = BitsValue(a)
  BY <1>1, <1>2
<1>. HIDE DEF V
<1>12. IsRead(a, n, V)
  BY <1>9, <1>10 DEF IsRead
<1>. QED
  BY <1>11, <1>12

\* split_le_base: a bit is zero or one.
LEMMA BitsOfNumber ==
  ASSUME NEW v \in Nat, NEW n \in Nat
  PROVE  /\ BitsOf(v, n) \in Seq(Int) /\ Len(BitsOf(v, n)) = n
         /\ \A i \in 1 .. n : /\ n - i \in Nat
                              /\ BitsOf(v, n)[i] = (v \div 2 ^ (n - i)) % 2
                              /\ BitsOf(v, n)[i] \in 0 .. 1
<1>1. ASSUME NEW i \in 1 .. n PROVE n - i \in Nat /\ (v \div 2 ^ (n - i)) % 2 \in 0 .. 1
  <2>1. n - i \in Nat
    OBVIOUS
  <2>2. 2 ^ (n - i) \in Nat \ {0}
    BY <2>1, PowerOfTwo
  <2>3. v \div 2 ^ (n - i) \in Nat
    BY <2>2, Div
  <2>. DEFINE q == v \div 2 ^ (n - i)
  <2>. HIDE DEF q
  <2>4. q \in Nat
    BY <2>3 DEF q
  <2>5. q % 2 \in 0 .. 1
    BY <2>4
  <2>. QED
    BY <2>1, <2>5 DEF q
<1>. DEFINE b == BitsOf(v, n)
<1>2. b = [i \in 1 .. n |-> (v \div 2 ^ (n - i)) % 2]
  BY DEF BitsOf
<1>. HIDE DEF b
<1>3. \A i \in 1 .. n : b[i] = (v \div 2 ^ (n - i)) % 2
  BY <1>2
<1>4. \A i \in 1 .. n : b[i] \in 0 .. 1 /\ b[i] \in Int
  BY <1>1, <1>3
<1>5. b = [i \in 1 .. n |-> b[i]]
  BY <1>2
<1>6. b \in Seq(Int) /\ Len(b) = n
  BY <1>4, <1>5, LowestAre
<1>. QED
  BY <1>1, <1>3, <1>4, <1>6 DEF b

\* So many bits keep so much of a number.
LEMMA BitsKeep ==
  ASSUME NEW v \in Nat, NEW n \in Nat
  PROVE  BitsValue(BitsOf(v, n)) = v % 2 ^ n
<1>. DEFINE b == BitsOf(v, n)
<1>1. /\ b \in Seq(Int) /\ Len(b) = n
      /\ \A i \in 1 .. n : b[i] = (v \div 2 ^ (n - i)) % 2
  BY BitsOfNumber
<1>. HIDE DEF b
<1>2. PICK V : IsRead(b, n, V) /\ BitsValue(b) = V[n]
  BY <1>1, BitsAreRead
<1>. DEFINE K == {k \in Nat : k <= n => V[k] = (v \div 2 ^ (n - k)) % 2 ^ k}
<1>3. 0 \in K
  <2>1. 2 ^ (n - 0) \in Nat \ {0}
    BY PowerOfTwo
  <2>2. v \div 2 ^ (n - 0) \in Nat /\ 2 ^ 0 = 1
    BY <2>1, Div, PowerOfTwo
  <2>3. \A q \in Nat : q % 1 = 0
    OBVIOUS
  <2>. QED
    BY <1>2, <2>2, <2>3 DEF IsRead
<1>4. ASSUME NEW k \in Nat, k \in K PROVE k + 1 \in K
  <2>1. SUFFICES ASSUME k + 1 <= n
                 PROVE  V[k + 1] = (v \div 2 ^ (n - (k + 1))) % 2 ^ (k + 1)
    OBVIOUS
  <2>. DEFINE m == n - (k + 1)
              w == 2 ^ m
              u == v \div w
              x == 2 ^ k
  <2>2. m \in Nat /\ n - k = m + 1 /\ k + 1 \in 1 .. n /\ (k + 1) - 1 = k /\ k <= n
    BY <2>1
  <2>3. w \in Nat \ {0} /\ 2 ^ (m + 1) = 2 * w /\ x \in Nat \ {0} /\ 2 ^ (k + 1) = 2 * x
    <3>. HIDE DEF m
    <3>. QED
      BY <2>2, PowerOfTwo
  <2>4. V[k + 1] = 2 * V[k] + (u % 2)
    BY <1>1, <1>2, <2>2 DEF IsRead
  <2>5. V[k] = (v \div 2 ^ (m + 1)) % x
    BY <1>4, <2>2
  <2>. HIDE DEF w, x, m
  <2>6. v \div (w * 2) = u \div 2
    <3>1. 2 \in Nat \ {0}
      OBVIOUS
    <3>. QED
      BY <2>3, <3>1, DigitStep
  <2>7. w * 2 = 2 * w
    BY <2>3
  <2>8. u \in Nat
    BY <2>3, Div
  <2>. HIDE DEF u
  <2>9. u % (2 * x) = (u % 2) + ((u \div 2) % x) * 2
    <3>1. 2 \in Nat \ {0}
      OBVIOUS
    <3>. QED
      BY <2>3, <2>8, <3>1, DigitStep
  <2>10. V[k] = (u \div 2) % x
    BY <2>3, <2>5, <2>6, <2>7
  <2>11. V[k] \in Nat /\ u % 2 \in Nat
    <3>1. u \div 2 \in Nat /\ u % 2 \in Nat
      BY <2>8
    <3>2. (u \div 2) % x \in 0 .. x - 1
      BY <2>3, <3>1, Div
    <3>. QED
      BY <2>3, <2>10, <3>1, <3>2
  <2>12. V[k + 1] = u % (2 * x)
    <3>. DEFINE y == u % 2
                z == V[k]
                s == u % (2 * x)
    <3>1. V[k + 1] = 2 * z + y /\ s = y + z * 2 /\ z \in Nat /\ y \in Nat
      BY <2>4, <2>9, <2>10, <2>11
    <3>. HIDE DEF y, z, s
    <3>2. V[k + 1] = s
      BY <3>1
    <3>. QED
      BY <3>2 DEF s
  <2>. QED
    BY <2>3, <2>12 DEF u, w, m
<1>5. Nat \subseteq K
  <2>. HIDE DEF K
  <2>. QED
    BY <1>3, <1>4, Induction
<1>6. V[n] = (v \div 2 ^ (n - n)) % 2 ^ n
  <2>1. n \in K
    <3>. HIDE DEF K
    <3>. QED
      BY <1>5
  <2>. QED
    BY <2>1
<1>7. v \div 2 ^ (n - n) = v
  <2>1. n - n = 0 /\ 2 ^ 0 = 1 /\ v \div 1 = v
    BY PowerOfTwo
  <2>. QED
    BY <2>1
<1>. QED
  BY <1>2, <1>6, <1>7 DEF b

-----------------------------------------------------------------------------
(* Rows of pieces of one size *)

\* Place x of a row of pieces of size w, and place x in piece q + 1.
LEMMA PlaceIn ==
  ASSUME NEW w \in Nat \ {0}, NEW q \in Nat, NEW r \in 0 .. w - 1, NEW x \in Int,
         x = q * w + r + 1
  PROVE  (x - 1) \div w = q /\ (x - 1) % w = r
<1>1. q * w \in Int
  OBVIOUS
<1>2. x - 1 = q * w + r /\ x - 1 \in Int
  BY <1>1
<1>. QED
  BY <1>2, DivUnique

\* Every place is in a piece.
LEMMA PlacesAre ==
  ASSUME NEW w \in Nat \ {0}, NEW n \in Nat, NEW x \in 1 .. n * w
  PROVE  /\ (x - 1) \div w \in Nat /\ (x - 1) \div w < n /\ (x - 1) % w \in 0 .. w - 1
         /\ x = ((x - 1) \div w) * w + ((x - 1) % w) + 1
<1>1. n * w \in Nat
  OBVIOUS
<1>. DEFINE y == x - 1
<1>2. y \in Nat /\ y < n * w /\ x = y + 1
  BY <1>1
<1>. HIDE DEF y
<1>3. y \div w \in Nat /\ y % w \in 0 .. w - 1 /\ y = (y \div w) * w + (y % w)
  BY <1>2, Div
<1>4. y \div w < n
  BY <1>2, DivLess
<1>. QED
  BY <1>2, <1>3, <1>4 DEF y

\* A place in a piece is one in the row.
LEMMA PlaceInRow ==
  ASSUME NEW w \in Nat \ {0}, NEW n \in Nat, NEW q \in Nat, q < n, NEW r \in 0 .. w - 1
  PROVE  q * w + r + 1 \in 1 .. n * w
<1>1. (q + 1) * w <= n * w
  <2>1. q + 1 \in Nat /\ q + 1 <= n
    OBVIOUS
  <2>. QED
    BY <2>1, TimesMono
<1>2. (q + 1) * w = q * w + w
  OBVIOUS
<1>3. q * w \in Nat /\ n * w \in Nat
  OBVIOUS
<1>. DEFINE P == q * w
            Q == n * w
<1>4. P \in Nat /\ Q \in Nat /\ P + w <= Q
  BY <1>1, <1>2, <1>3
<1>. HIDE DEF P, Q
<1>5. P + r + 1 \in 1 .. Q
  BY <1>4
<1>. QED
  BY <1>5 DEF P, Q

\* Pieces of one size, and the row of the first k of them.
ArePieces(s, n, w) ==
  /\ s = [i \in 1 .. n |-> s[i]]
  /\ \A i \in 1 .. n : s[i] \in Seq(Int) /\ Len(s[i]) = w

CellOf(s, w, x) == s[((x - 1) \div w) + 1][((x - 1) % w) + 1]

RowOf(s, w, k) == [x \in 1 .. k * w |-> CellOf(s, w, x)]

\* The row is one of integers.
LEMMA RowsAre ==
  ASSUME NEW w \in Nat \ {0}, NEW n \in Nat, NEW s, ArePieces(s, n, w),
         NEW k \in Nat, k <= n
  PROVE  /\ RowOf(s, w, k) \in Seq(Int) /\ Len(RowOf(s, w, k)) = k * w
         /\ \A x \in 1 .. k * w : RowOf(s, w, k)[x] = CellOf(s, w, x)
<1>. DEFINE f == RowOf(s, w, k)
            K == k * w
<1>1. K \in Nat
  OBVIOUS
<1>2. f = [x \in 1 .. K |-> CellOf(s, w, x)]
  BY DEF RowOf
<1>3. ASSUME NEW x \in 1 .. K PROVE CellOf(s, w, x) \in Int
  <2>. DEFINE q == (x - 1) \div w
              r == (x - 1) % w
  <2>1. q \in Nat /\ q < k /\ r \in 0 .. w - 1
    BY PlacesAre
  <2>. HIDE DEF q, r
  <2>2. q + 1 \in 1 .. n /\ r + 1 \in 1 .. w
    BY <2>1
  <2>3. s[q + 1] \in Seq(Int) /\ Len(s[q + 1]) = w
    BY <2>2 DEF ArePieces
  <2>4. s[q + 1][r + 1] \in Int
    BY <2>2, <2>3
  <2>. QED
    BY <2>4 DEF CellOf, q, r
<1>. HIDE DEF f, K
<1>4. \A x \in 1 .. K : f[x] = CellOf(s, w, x) /\ f[x] \in Int
  BY <1>2, <1>3
<1>5. f = [x \in 1 .. K |-> f[x]]
  BY <1>2
<1>6. f \in Seq(Int) /\ Len(f) = K
  BY <1>1, <1>4, <1>5, LowestAre
<1>. QED
  BY <1>4, <1>6 DEF f, K

\* Place j of piece i in the row of all.
LEMMA RowPlaces ==
  ASSUME NEW w \in Nat \ {0}, NEW n \in Nat, NEW s, ArePieces(s, n, w)
  PROVE  \A i \in 1 .. n : \A j \in 1 .. w : RowOf(s, w, n)[(i - 1) * w + j] = s[i][j]
<1>. DEFINE c == RowOf(s, w, n)
<1>1. \A x \in 1 .. n * w : c[x] = CellOf(s, w, x)
  <2>1. n <= n
    OBVIOUS
  <2>. QED
    BY <2>1, RowsAre
<1>. HIDE DEF c
<1>2. ASSUME NEW i \in 1 .. n, NEW j \in 1 .. w PROVE c[(i - 1) * w + j] = s[i][j]
  <2>. DEFINE q == i - 1
              r == j - 1
              P == q * w
              x == P + r + 1
  <2>1. r \in 0 .. w - 1 /\ q \in Nat /\ q < n /\ q + 1 = i /\ r + 1 = j
    OBVIOUS
  <2>. HIDE DEF q, r
  <2>2. P \in Nat
    BY <2>1
  <2>3. x \in 1 .. n * w
    BY <2>1, PlaceInRow
  <2>4. x = P + j
    <3>. HIDE DEF P
    <3>. QED
      BY <2>1, <2>2
  <2>5. x \in Int /\ x = q * w + r + 1
    BY <2>1, <2>2
  <2>. HIDE DEF x
  <2>6. (x - 1) \div w = q /\ (x - 1) % w = r
    BY <2>1, <2>5, PlaceIn
  <2>7. c[x] = s[i][j]
    BY <1>1, <2>1, <2>3, <2>6 DEF CellOf
  <2>. QED
    BY <2>4, <2>7 DEF P, q
<1>. QED
  BY <1>2 DEF c

\* A piece more.
LEMMA RowNext ==
  ASSUME NEW w \in Nat \ {0}, NEW n \in Nat, NEW s, ArePieces(s, n, w), NEW k \in 1 .. n
  PROVE  RowOf(s, w, k - 1) \o s[k] = RowOf(s, w, k)
<1>. DEFINE m == k - 1
            P == m * w
            Q == k * w
            f == RowOf(s, w, m)
            g == RowOf(s, w, k)
            t == s[k]
<1>1. m \in Nat /\ m + 1 = k /\ m <= n /\ k \in Nat /\ k <= n
  OBVIOUS
<1>2. P \in Nat /\ Q = P + w /\ Q \in Nat
  <2>1. (m + 1) * w = m * w + w /\ m * w \in Nat
    BY <1>1
  <2>. QED
    BY <1>1, <2>1
<1>3. t \in Seq(Int) /\ Len(t) = w
  BY DEF ArePieces
<1>. HIDE DEF m
<1>4. f \in Seq(Int) /\ Len(f) = P /\ \A x \in 1 .. P : f[x] = CellOf(s, w, x)
  BY <1>1, RowsAre
<1>5. g \in Seq(Int) /\ Len(g) = Q /\ \A x \in 1 .. Q : g[x] = CellOf(s, w, x)
  BY <1>1, RowsAre
<1>6. ASSUME NEW x \in 1 .. Q, ~(x <= P) PROVE CellOf(s, w, x) = t[x - P]
  <2>. DEFINE r == (x - P) - 1
  <2>1. r \in 0 .. w - 1 /\ r + 1 = x - P /\ x = P + r + 1 /\ x \in Int
    <3>. HIDE DEF P, Q
    <3>. QED
      BY <1>2, <1>6
  <2>. HIDE DEF r
  <2>2. (x - 1) \div w = m /\ (x - 1) % w = r
    BY <1>1, <2>1, PlaceIn
  <2>. QED
    BY <1>1, <2>1, <2>2 DEF CellOf
<1>. HIDE DEF P, Q, f, g, t
<1>7. /\ f \o t \in Seq(Int) /\ Len(f \o t) = Len(f) + Len(t)
      /\ \A i \in 1 .. Len(f) + Len(t) :
           (f \o t)[i] = IF i <= Len(f) THEN f[i] ELSE t[i - Len(f)]
  BY <1>3, <1>4, ConcatProperties
<1>8. Len(f \o t) = Len(g) /\ \A i \in 1 .. Len(f \o t) : (f \o t)[i] = g[i]
  <2>1. Len(f \o t) = Q
    BY <1>2, <1>3, <1>4, <1>7
  <2>2. ASSUME NEW i \in 1 .. Q PROVE (f \o t)[i] = g[i]
    <3>1. (f \o t)[i] = IF i <= P THEN f[i] ELSE t[i - P]
      BY <1>2, <1>3, <1>4, <1>7
    <3>2. CASE i <= P
      <4>1. i \in 1 .. P
        BY <1>2, <3>2
      <4>. QED
        BY <1>4, <1>5, <3>1, <3>2, <4>1
    <3>3. CASE ~(i <= P)
      BY <1>5, <1>6, <3>1, <3>3
    <3>. QED
      BY <3>2, <3>3
  <2>. QED
    BY <1>5, <2>1, <2>2
<1>9. f \o t = g
  BY <1>5, <1>7, <1>8, SeqEqual
<1>. QED
  BY <1>9 DEF f, g, t, m

\* Joining pieces of one size gives their row.
LEMMA FlattenIs ==
  ASSUME NEW w \in Nat \ {0}, NEW n \in Nat, NEW s, ArePieces(s, n, w)
  PROVE  FlattenSeq(s) = RowOf(s, w, n)
<1>1. s = [i \in 1 .. n |-> s[i]] /\ Len(s) = n
  BY DEF ArePieces
<1>2. CASE n = 0
  <2>1. FlattenSeq(s) = s /\ s = <<>>
    BY <1>1, <1>2 DEF FlattenSeq
  <2>2. RowOf(s, w, 0) = <<>>
    <3>1. 0 * w = 0
      OBVIOUS
    <3>. QED
      BY <3>1 DEF RowOf
  <2>. QED
    BY <1>2, <2>1, <2>2
<1>3. CASE n # 0
  <2>. DEFINE F(h) == [i \in 1 .. n |-> IF i = 1 THEN s[i] ELSE h[i - 1] \o s[i]]
              h0 == CHOOSE h : h = F(h)
              g == [i \in 1 .. n |-> RowOf(s, w, i)]
  <2>1. FlattenSeq(s) = h0[n]
    BY <1>1, <1>3 DEF FlattenSeq
  <2>2. RowOf(s, w, 1) = s[1]
    <3>1. 1 \in 1 .. n /\ 1 - 1 = 0 /\ 0 * w = 0
      BY <1>3
    <3>2. RowOf(s, w, 1 - 1) \o s[1] = RowOf(s, w, 1)
      BY <3>1, RowNext
    <3>3. RowOf(s, w, 0) = <<>>
      BY <3>1 DEF RowOf
    <3>4. s[1] \in Seq(Int)
      BY <3>1 DEF ArePieces
    <3>5. <<>> \o s[1] = s[1]
      BY <3>4, ConcatEmptySeq
    <3>. QED
      BY <3>1, <3>2, <3>3, <3>5
  <2>3. g = F(g)
    <3>1. ASSUME NEW i \in 1 .. n, i # 1 PROVE RowOf(s, w, i) = g[i - 1] \o s[i]
      <4>1. i - 1 \in 1 .. n
        BY <3>1
      <4>2. g[i - 1] = RowOf(s, w, i - 1)
        BY <4>1
      <4>. HIDE DEF g
      <4>. QED
        BY <4>2, RowNext
    <3>. QED
      BY <2>2, <3>1
  <2>4. h0 = F(h0)
    <3>. HIDE DEF F
    <3>. QED
      BY <2>3
  <2>. HIDE DEF h0
  <2>5. \A i \in 1 .. n : h0[i] = IF i = 1 THEN s[i] ELSE h0[i - 1] \o s[i]
    BY <2>4
  <2>. DEFINE S == {k \in Nat : k + 1 <= n => h0[k + 1] = RowOf(s, w, k + 1)}
  <2>6. 0 \in S
    <3>1. 1 \in 1 .. n /\ 0 + 1 = 1
      BY <1>3
    <3>. QED
      BY <2>2, <2>5, <3>1
  <2>7. ASSUME NEW k \in Nat, k \in S PROVE k + 1 \in S
    <3>1. SUFFICES ASSUME (k + 1) + 1 <= n
                   PROVE  h0[(k + 1) + 1] = RowOf(s, w, (k + 1) + 1)
      OBVIOUS
    <3>2. h0[k + 1] = RowOf(s, w, k + 1)
      BY <2>7, <3>1
    <3>. DEFINE i == (k + 1) + 1
    <3>3. i \in 1 .. n /\ i # 1 /\ i - 1 = k + 1
      BY <3>1
    <3>. HIDE DEF i
    <3>4. h0[i] = RowOf(s, w, i)
      <4>1. h0[i] = h0[i - 1] \o s[i] /\ h0[i - 1] = RowOf(s, w, i - 1)
        BY <2>5, <3>2, <3>3
      <4>2. RowOf(s, w, i - 1) \o s[i] = RowOf(s, w, i)
        BY <3>3, RowNext
      <4>. QED
        BY <4>1, <4>2
    <3>. QED
      BY <3>4 DEF i
  <2>8. Nat \subseteq S
    <3>. HIDE DEF S
    <3>. QED
      BY <2>6, <2>7, Induction
  <2>9. h0[n] = RowOf(s, w, n)
    <3>. DEFINE k == n - 1
    <3>1. k \in Nat /\ k + 1 = n
      BY <1>3
    <3>. HIDE DEF k
    <3>2. k \in S
      <4>. HIDE DEF S
      <4>. QED
        BY <2>8, <3>1
    <3>. QED
      BY <3>1, <3>2
  <2>. QED
    BY <2>1, <2>9
<1>. QED
  BY <1>2, <1>3

\* The smaller of two.
LEMMA MinIs ==
  ASSUME NEW x \in Int, NEW y \in Int, x <= y
  PROVE  Min({x, y}) = x
<1>. DEFINE S == {x, y}
<1>1. x \in S /\ \A z \in S : x <= z
  OBVIOUS
<1>2. Min(S) \in S /\ \A z \in S : Min(S) <= z
  BY <1>1 DEF Min
<1>3. Min(S) \in Int
  BY <1>2
<1>. QED
  BY <1>1, <1>2, <1>3

\* chunks of a sequence whose length the size divides.
LEMMA ChunksAre ==
  ASSUME NEW w \in Nat \ {0}, NEW n \in Nat, NEW b \in Seq(Int), Len(b) = n * w
  PROVE  /\ ArePieces(ChunksOf(b, w), n, w) /\ Len(ChunksOf(b, w)) = n
         /\ \A i \in 1 .. n : \A j \in 1 .. w : ChunksOf(b, w)[i][j] = b[(i - 1) * w + j]
<1>. DEFINE c == ChunksOf(b, w)
            N == n * w
<1>1. N \in Nat
  OBVIOUS
<1>2. (N + w - 1) \div w = n
  <2>1. N + w - 1 = n * w + (w - 1) /\ w - 1 \in 0 .. w - 1 /\ N + w - 1 \in Int /\ n \in Int
    BY <1>1
  <2>. DEFINE x == N + w - 1
              r == w - 1
  <2>2. x \in Int /\ r \in 0 .. w - 1 /\ x = n * w + r /\ n \in Int
    BY <2>1
  <2>. HIDE DEF x, r
  <2>3. x \div w = n /\ x % w = r
    BY <2>2, DivUnique
  <2>. QED
    BY <2>3 DEF x
<1>3. c = [k \in 1 .. n |-> SubSeq(b, (k - 1) * w + 1, Min({k * w, N}))]
  BY <1>2 DEF ChunksOf
<1>4. ASSUME NEW k \in 1 .. n
      PROVE  /\ c[k] \in Seq(Int) /\ Len(c[k]) = w
             /\ \A j \in 1 .. w : c[k][j] = b[(k - 1) * w + j]
  <2>. DEFINE m == k - 1
              P == m * w
              Q == k * w
  <2>1. m \in Nat /\ m + 1 = k /\ k \in Nat /\ k <= n
    OBVIOUS
  <2>2. P \in Nat /\ Q = P + w /\ Q <= N
    <3>1. (m + 1) * w = m * w + w /\ m * w \in Nat
      BY <2>1
    <3>2. k * w <= n * w
      BY <2>1, TimesMono
    <3>. QED
      BY <2>1, <3>1, <3>2
  <2>3. c[k] = SubSeq(b, P + 1, Min({Q, N}))
    <3>. HIDE DEF c
    <3>. QED
      BY <1>3
  <2>. HIDE DEF m, P, Q, N, c
  <2>4. Min({Q, N}) = Q
    BY <1>1, <2>2, MinIs
  <2>5. \A i \in P + 1 .. Q : b[i] \in Int
    <3>1. \A i \in 1 .. N : b[i] \in Int
      BY DEF N
    <3>. QED
      BY <1>1, <2>2, <3>1
  <2>. DEFINE s == SubSeq(b, P + 1, Q)
  <2>6. /\ s \in Seq(Int) /\ Len(s) = IF P + 1 <= Q THEN Q - (P + 1) + 1 ELSE 0
        /\ \A i \in 1 .. Q - (P + 1) + 1 : s[i] = b[(P + 1) + i - 1]
    <3>1. P + 1 \in Int /\ Q \in Int
      BY <2>2
    <3>. QED
      BY <2>5, <3>1, SubSeqProperties
  <2>. HIDE DEF s
  <2>7. Len(s) = w
    BY <2>2, <2>6
  <2>8. \A j \in 1 .. w : s[j] = b[P + j]
    <3>1. Q - (P + 1) + 1 = w
      BY <2>2
    <3>2. \A j \in 1 .. w : (P + 1) + j - 1 = P + j
      BY <2>2
    <3>. QED
      BY <2>6, <3>1, <3>2
  <2>. QED
    BY <2>3, <2>4, <2>6, <2>7, <2>8 DEF s, P, m
<1>. HIDE DEF N, c
<1>5. c = [k \in 1 .. n |-> c[k]] /\ Len(c) = n
  <2>. DEFINE G(k) == SubSeq(b, (k - 1) * w + 1, Min({k * w, N}))
  <2>1. c = [k \in 1 .. n |-> G(k)]
    BY <1>3
  <2>. HIDE DEF G
  <2>. QED
    BY <2>1
<1>. QED
  BY <1>4, <1>5 DEF ArePieces, c

\* The pieces from the last one to the first.
LEMMA PiecesReversed ==
  ASSUME NEW w \in Nat \ {0}, NEW n \in Nat, NEW s, ArePieces(s, n, w)
  PROVE  /\ ArePieces(Reverse(s), n, w)
         /\ \A i \in 1 .. n : Reverse(s)[i] = s[n - i + 1]
<1>. DEFINE t == Reverse(s)
<1>1. Len(s) = n
  BY DEF ArePieces
<1>2. t = [i \in 1 .. n |-> s[(n - i) + 1]]
  BY <1>1 DEF Reverse
<1>. HIDE DEF t
<1>3. \A i \in 1 .. n : (n - i) + 1 \in 1 .. n /\ n - i + 1 = (n - i) + 1
  OBVIOUS
<1>4. \A i \in 1 .. n : t[i] = s[n - i + 1] /\ t[i] \in Seq(Int) /\ Len(t[i]) = w
  BY <1>2, <1>3 DEF ArePieces
<1>5. t = [i \in 1 .. n |-> t[i]]
  BY <1>2
<1>. QED
  BY <1>4, <1>5 DEF ArePieces, t

\* The row in which pieces of size w stand in the opposite order.
IsTurned(b, c, n, w) ==
  \A q \in 0 .. n - 1 : \A j \in 1 .. w : c[q * w + j] = b[(n - 1 - q) * w + j]

\* reverse_endianness: the bytes in the opposite order.
LEMMA Turned ==
  ASSUME NEW n \in Nat, NEW b \in Seq(Int), Len(b) = n * ByteBits
  PROVE  /\ ReverseEndianness(b) \in Seq(Int) /\ Len(ReverseEndianness(b)) = n * ByteBits
         /\ IsTurned(b, ReverseEndianness(b), n, ByteBits)
<1>. DEFINE w == ByteBits
            s == ChunksOf(b, w)
            t == Reverse(s)
            c == RowOf(t, w, n)
<1>1. w \in Nat \ {0}
  BY NumbersAssumption, LimbAssumption
<1>. HIDE DEF w
<1>2. /\ ArePieces(s, n, w)
      /\ \A i \in 1 .. n : \A j \in 1 .. w : s[i][j] = b[(i - 1) * w + j]
  BY <1>1, ChunksAre DEF w
<1>. HIDE DEF s
<1>3. ArePieces(t, n, w) /\ \A i \in 1 .. n : t[i] = s[n - i + 1]
  BY <1>1, <1>2, PiecesReversed
<1>. HIDE DEF t
<1>4. FlattenSeq(t) = c
  BY <1>1, <1>3, FlattenIs
<1>5. n <= n
  OBVIOUS
<1>6. /\ c \in Seq(Int) /\ Len(c) = n * w
      /\ \A i \in 1 .. n : \A j \in 1 .. w : c[(i - 1) * w + j] = t[i][j]
  <2>1. c \in Seq(Int) /\ Len(c) = n * w
    BY <1>1, <1>3, <1>5, RowsAre
  <2>2. \A i \in 1 .. n : \A j \in 1 .. w : c[(i - 1) * w + j] = t[i][j]
    BY <1>1, <1>3, RowPlaces
  <2>. QED
    BY <2>1, <2>2
<1>. HIDE DEF c
<1>7. ASSUME NEW q \in 0 .. n - 1, NEW j \in 1 .. w
      PROVE  c[q * w + j] = b[(n - 1 - q) * w + j]
  <2>. DEFINE i == q + 1
              m == n - i + 1
  <2>1. i \in 1 .. n /\ i - 1 = q /\ m \in 1 .. n /\ m - 1 = n - 1 - q
    OBVIOUS
  <2>. HIDE DEF i
  <2>2. c[(i - 1) * w + j] = t[i][j] /\ t[i] = s[m]
    BY <1>3, <1>6, <2>1
  <2>. HIDE DEF m
  <2>3. s[m][j] = b[(m - 1) * w + j]
    BY <1>2, <2>1
  <2>. QED
    BY <2>1, <2>2, <2>3
<1>8. IsTurned(b, c, n, w)
  BY <1>7 DEF IsTurned
<1>. QED
  BY <1>4, <1>6, <1>8 DEF ReverseEndianness, w, t, s

\* Turned twice it is as it was.
LEMMA TurnedTwice ==
  ASSUME NEW w \in Nat \ {0}, NEW n \in Nat, NEW b \in Seq(Int), Len(b) = n * w,
         NEW c, IsTurned(b, c, n, w), NEW d \in Seq(Int), Len(d) = n * w, IsTurned(c, d, n, w)
  PROVE  d = b
<1>1. ASSUME NEW x \in 1 .. Len(d) PROVE d[x] = b[x]
  <2>. DEFINE q == (x - 1) \div w
              r == (x - 1) % w
              m == n - 1 - q
              j == r + 1
  <2>1. q \in Nat /\ q < n /\ r \in 0 .. w - 1 /\ x = q * w + r + 1
    <3>1. x \in 1 .. n * w
      OBVIOUS
    <3>. QED
      BY <3>1, PlacesAre
  <2>. HIDE DEF q, r
  <2>2. q \in 0 .. n - 1 /\ m \in 0 .. n - 1 /\ j \in 1 .. w /\ n - 1 - m = q
    BY <2>1
  <2>3. x = q * w + j
    <3>. DEFINE P == q * w
    <3>1. P \in Nat /\ x = P + r + 1
      BY <2>1
    <3>. HIDE DEF P
    <3>2. x = P + j
      BY <2>1, <3>1
    <3>. QED
      BY <3>2 DEF P
  <2>. HIDE DEF j
  <2>4. d[q * w + j] = c[m * w + j]
    BY <2>2 DEF IsTurned
  <2>. HIDE DEF m
  <2>5. c[m * w + j] = b[(n - 1 - m) * w + j]
    BY <2>2 DEF IsTurned
  <2>. QED
    BY <2>2, <2>3, <2>4, <2>5
<1>. QED
  BY <1>1, SeqEqual

-----------------------------------------------------------------------------
(* The bits of limbs *)

\* biguint_to_bits: the bits of the limbs, the highest limb first.
LEMMA BitsOfLimbs ==
  ASSUME NEW a \in Seq(Limb)
  PROVE  /\ BiguintToBits(a) \in Seq(Int) /\ Len(BiguintToBits(a)) = Len(a) * LimbBits
         /\ \A i \in 1 .. Len(a) : \A j \in 1 .. LimbBits :
              BiguintToBits(a)[(i - 1) * LimbBits + j] = BitsOf(a[Len(a) + 1 - i], LimbBits)[j]
<1>. DEFINE n == Len(a)
            w == LimbBits
            s == [i \in DOMAIN a |-> BitsOf(a[n + 1 - i], w)]
            b == RowOf(s, w, n)
<1>1. n \in Nat /\ w \in Nat \ {0} /\ DOMAIN a = 1 .. n
  BY Limbs, LimbAssumption
<1>2. \A i \in 1 .. n : a[n + 1 - i] \in Nat
  <2>1. \A i \in 1 .. n : n + 1 - i \in 1 .. n
    BY <1>1
  <2>2. \A i \in 1 .. n : a[i] \in Nat
    BY Limbs, WeightLaws DEF Limb
  <2>. QED
    BY <2>1, <2>2
<1>3. BiguintToBits(a) = FlattenSeq(s)
  BY DEF BiguintToBits
<1>. HIDE DEF n, w
<1>4. s = [i \in 1 .. n |-> s[i]] /\ \A i \in 1 .. n : s[i] = BitsOf(a[n + 1 - i], w)
  BY <1>1
<1>. HIDE DEF s
<1>5. ArePieces(s, n, w)
  <2>1. ASSUME NEW i \in 1 .. n PROVE s[i] \in Seq(Int) /\ Len(s[i]) = w
    <3>. DEFINE v == a[n + 1 - i]
    <3>1. v \in Nat /\ s[i] = BitsOf(v, w)
      BY <1>2, <1>4
    <3>. HIDE DEF v
    <3>. QED
      BY <1>1, <3>1, BitsOfNumber
  <2>. QED
    BY <1>4, <2>1 DEF ArePieces
<1>6. FlattenSeq(s) = b
  BY <1>1, <1>5, FlattenIs
<1>7. /\ b \in Seq(Int) /\ Len(b) = n * w
      /\ \A i \in 1 .. n : \A j \in 1 .. w : b[(i - 1) * w + j] = s[i][j]
  <2>1. n <= n
    BY <1>1
  <2>. QED
    BY <1>1, <1>5, <2>1, RowsAre, RowPlaces
<1>. HIDE DEF b
<1>. QED
  BY <1>3, <1>4, <1>6, <1>7 DEF n, w

\* bits_to_biguint: they come back as the number.
LEMMA BitsComeBack ==
  ASSUME NEW a \in Seq(Limb)
  PROVE  BitsToBiguint(BiguintToBits(a)) = a
<1>. DEFINE n == Len(a)
            w == LimbBits
            b == BiguintToBits(a)
            c == ChunksOf(b, w)
            t == [i \in 1 .. Len(b) \div w |-> BitsValue(c[i])]
<1>1. n \in Nat /\ w \in Nat \ {0} /\ a = [i \in 1 .. n |-> a[i]]
  BY Limbs, LimbAssumption
<1>2. /\ b \in Seq(Int) /\ Len(b) = n * w
      /\ \A i \in 1 .. n : \A j \in 1 .. w : b[(i - 1) * w + j] = BitsOf(a[n + 1 - i], w)[j]
  BY BitsOfLimbs
<1>3. BitsToBiguint(b) = Reverse(t)
  BY DEF BitsToBiguint
<1>4. \A i \in 1 .. n : a[i] \in Nat /\ a[i] < 2 ^ w
  BY Limbs, WeightLaws DEF Limb, Base
<1>. HIDE DEF n, w, b
<1>5. Len(b) \div w = n
  <2>. DEFINE x == Len(b)
  <2>1. x \in Int /\ x = n * w + 0 /\ n \in Int /\ 0 \in 0 .. w - 1
    BY <1>1, <1>2
  <2>. HIDE DEF x
  <2>2. x \div w = n /\ x % w = 0
    BY <1>1, <2>1, DivUnique
  <2>. QED
    BY <2>2 DEF x
<1>6. /\ ArePieces(c, n, w)
      /\ \A i \in 1 .. n : \A j \in 1 .. w : c[i][j] = b[(i - 1) * w + j]
  BY <1>1, <1>2, ChunksAre
<1>. HIDE DEF c
<1>7. ASSUME NEW i \in 1 .. n PROVE BitsValue(c[i]) = a[n + 1 - i]
  <2>. DEFINE d == a[n + 1 - i]
              x == BitsOf(d, w)
              y == c[i]
  <2>1. d \in Nat /\ d < 2 ^ w
    BY <1>1, <1>4
  <2>. HIDE DEF d
  <2>2. x \in Seq(Int) /\ Len(x) = w
    BY <1>1, <2>1, BitsOfNumber
  <2>3. y \in Seq(Int) /\ Len(y) = w /\ \A j \in 1 .. w : y[j] = x[j]
    BY <1>2, <1>6 DEF ArePieces, d
  <2>. HIDE DEF x, y
  <2>4. y = x
    BY <2>2, <2>3, SeqEqual
  <2>5. BitsValue(x) = d % 2 ^ w
    BY <1>1, <2>1, BitsKeep DEF x
  <2>6. d % 2 ^ w = d
    <3>. DEFINE p == 2 ^ w
    <3>1. p \in Nat \ {0}
      BY <1>1, PowerOfTwo
    <3>2. d < p
      BY <2>1
    <3>. HIDE DEF p
    <3>3. d \in 0 .. p - 1 /\ d = 0 * p + d /\ d \in Int /\ 0 \in Int
      BY <2>1, <3>1, <3>2
    <3>4. d % p = d /\ d \div p = 0
      BY <3>1, <3>3, DivUnique
    <3>. QED
      BY <3>4 DEF p
  <2>. QED
    BY <2>4, <2>5, <2>6 DEF y, d
<1>8. t = [i \in 1 .. n |-> a[n + 1 - i]]
  BY <1>5, <1>7
<1>. HIDE DEF t
<1>9. Len(t) = n
  BY <1>1, <1>8
<1>10. Reverse(t) = a
  <2>1. Reverse(t) = [i \in 1 .. n |-> t[(n - i) + 1]]
    BY <1>9 DEF Reverse
  <2>2. \A i \in 1 .. n : (n - i) + 1 \in 1 .. n /\ n + 1 - ((n - i) + 1) = i
    BY <1>1
  <2>3. \A i \in 1 .. n : t[(n - i) + 1] = a[i]
    BY <1>8, <2>2
  <2>. QED
    BY <1>1, <2>1, <2>3
<1>. QED
  BY <1>3, <1>10 DEF b

\* A limb is a number of bytes.
LEMMA BytesOfLimb ==
  /\ ByteBits \in Nat \ {0} /\ LimbBits \in Nat \ {0}
  /\ \E k \in Nat : LimbBits = k * ByteBits
<1>1. ByteBits \in Nat \ {0} /\ LimbBits \in Nat \ {0} /\ LimbBits % ByteBits = 0
  BY NumbersAssumption, LimbAssumption
<1>. DEFINE w == ByteBits
            l == LimbBits
<1>. HIDE DEF w, l
<1>2. w \in Nat \ {0} /\ l \in Nat \ {0} /\ l % w = 0
  BY <1>1 DEF w, l
<1>3. l \div w \in Nat /\ l = (l \div w) * w + (l % w)
  BY <1>2, Div
<1>4. \E k \in Nat : l = k * w
  <2>. DEFINE k == l \div w
  <2>1. k \in Nat /\ l = k * w + 0
    BY <1>2, <1>3
  <2>. HIDE DEF k
  <2>2. k * w \in Nat
    BY <1>2, <2>1
  <2>3. l = k * w
    BY <2>1, <2>2
  <2>. QED
    BY <2>1, <2>3
<1>. QED
  BY <1>2, <1>4 DEF w, l

\* What stands above some bits does not change the lowest of the others.
LEMMA UpperBits ==
  ASSUME NEW p \in Nat \ {0}, NEW f \in Nat, NEW x \in Nat, NEW y \in Nat
  PROVE  ((x + y * (p * (2 * f))) \div p) % 2 = (x \div p) % 2
<1>. DEFINE q == x \div p
            r == x % p
            v == x + y * (p * (2 * f))
            z == y * f
<1>1. q \in Nat /\ r \in 0 .. p - 1 /\ x = q * p + r
  BY Div
<1>2. z \in Nat
  OBVIOUS
<1>. HIDE DEF q, r
<1>3. v = (q + 2 * z) * p + r
  <2>1. y * (p * (2 * f)) = (2 * (y * f)) * p
    OBVIOUS
  <2>. HIDE DEF z
  <2>2. (q + 2 * z) * p = q * p + (2 * z) * p
    BY <1>1, <1>2
  <2>. DEFINE A == q * p
              C == (2 * z) * p
              D == (q + 2 * z) * p
  <2>3. A \in Nat /\ C \in Nat
    BY <1>1, <1>2
  <2>4. D = A + C /\ x = A + r /\ v = x + C
    BY <1>1, <2>1, <2>2 DEF z
  <2>. HIDE DEF A, C, D, v
  <2>5. v = D + r
    BY <1>1, <2>3, <2>4
  <2>. QED
    BY <2>5 DEF D
<1>. HIDE DEF z, v
<1>4. v \div p = q + 2 * z
  <2>. DEFINE u == q + 2 * z
  <2>1. u \in Nat /\ v = u * p + r
    BY <1>1, <1>2, <1>3
  <2>. HIDE DEF u
  <2>2. u * p \in Nat
    BY <2>1
  <2>3. v \in Int /\ u \in Int
    BY <1>1, <2>1, <2>2
  <2>4. v \div p = u /\ v % p = r
    BY <1>1, <2>1, <2>3, DivUnique
  <2>. QED
    BY <2>4 DEF u
<1>5. (q + 2 * z) % 2 = q % 2
  BY <1>1, <1>2
<1>. QED
  BY <1>4, <1>5 DEF q, v

\* The value of two limbs.
LEMMA ValueOfTwo ==
  ASSUME NEW a \in Seq(Limb), Len(a) = 2
  PROVE  /\ a[1] \in Limb /\ a[2] \in Limb
         /\ Value(a) = a[1] + a[2] * Base /\ Value(a) < Base * Base
<1>1. a[1] \in Limb /\ a[2] \in Limb
  BY Limbs
<1>2. Base \in Nat /\ Weight(0) = 1 /\ Weight(1) = Base /\ Weight(2) = Base * Base
  <2>1. Base \in Nat /\ Weight(0) = 1
    BY WeightLaws
  <2>2. Weight(0 + 1) = Weight(0) * Base /\ Weight(1 + 1) = Weight(1) * Base
    BY WeightLaws
  <2>3. Weight(1) = Base
    BY <2>1, <2>2
  <2>. QED
    BY <2>1, <2>2, <2>3
<1>3. LowValue(a, 2) = Value(a) /\ Value(a) < Weight(2)
  BY NumberBound
<1>4. /\ LowValue(a, 0) = 0
      /\ LowValue(a, 0 + 1) = LowValue(a, 0) + a[0 + 1] * Weight(0)
      /\ LowValue(a, 1 + 1) = LowValue(a, 1) + a[1 + 1] * Weight(1)
  <2>1. \A i \in 1 .. 2 : a[i] \in Int
    BY Limbs
  <2>2. 2 \in Nat /\ 0 \in 0 .. 2 - 1 /\ 1 \in 0 .. 2 - 1
    OBVIOUS
  <2>. QED
    BY <2>1, <2>2, LowLaws
<1>5. a[1] \in Nat
  BY <1>1, <1>2 DEF Limb
<1>6. LowValue(a, 1) = a[1]
  BY <1>2, <1>4, <1>5
<1>7. LowValue(a, 2) = a[1] + a[2] * Base
  BY <1>2, <1>4, <1>6
<1>. QED
  BY <1>1, <1>2, <1>3, <1>7

\* The bits of a 64-bit number are those of its value.
LEMMA BitsOfTwoLimbs ==
  ASSUME NEW a \in Seq(Limb), Len(a) = 2
  PROVE  BiguintToBits(a) = BitsOf(Value(a), NumBits)
<1>. DEFINE l == LimbBits
            b == BiguintToBits(a)
            v == Value(a)
            d == BitsOf(v, 2 * l)
            x == a[1]
            y == a[2]
<1>1. l \in Nat \ {0} /\ v \in Nat /\ 2 * l \in Nat
  BY BytesOfLimb, NumberBound
<1>2. /\ b \in Seq(Int) /\ Len(b) = 2 * l
      /\ \A j \in 1 .. l : b[(1 - 1) * l + j] = BitsOf(y, l)[j]
      /\ \A j \in 1 .. l : b[(2 - 1) * l + j] = BitsOf(x, l)[j]
  <2>1. /\ b \in Seq(Int) /\ Len(b) = 2 * l
        /\ \A i \in 1 .. 2 : \A j \in 1 .. l : b[(i - 1) * l + j] = BitsOf(a[2 + 1 - i], l)[j]
    BY BitsOfLimbs
  <2>2. 1 \in 1 .. 2 /\ 2 \in 1 .. 2 /\ 2 + 1 - 1 = 2 /\ 2 + 1 - 2 = 1
    OBVIOUS
  <2>. HIDE DEF b
  <2>. QED
    BY <2>1, <2>2
<1>3. /\ x \in Nat /\ y \in Nat /\ x < 2 ^ l /\ v = x + y * 2 ^ l /\ 2 ^ l \in Nat \ {0}
  <2>1. Base \in Nat \ {0}
    BY WeightLaws
  <2>. QED
    BY <2>1, ValueOfTwo DEF Limb, Base
<1>. HIDE DEF v
<1>4. /\ d \in Seq(Int) /\ Len(d) = 2 * l
      /\ \A i \in 1 .. 2 * l : d[i] = (v \div 2 ^ (2 * l - i)) % 2
  BY <1>1, BitsOfNumber
<1>. HIDE DEF l, b, d, x, y
<1>5. ASSUME NEW j \in 1 .. l PROVE b[j] = d[j]
  <2>. DEFINE m == l - j
              p == 2 ^ l
              e == 2 ^ m
  <2>1. m \in Nat /\ 2 * l - j = l + m /\ j \in 1 .. 2 * l /\ (1 - 1) * l + j = j
    BY <1>1
  <2>2. b[j] = (y \div e) % 2
    <3>1. BitsOf(y, l)[j] = (y \div 2 ^ (l - j)) % 2
      BY <1>1, <1>3, BitsOfNumber
    <3>. QED
      BY <1>2, <2>1, <3>1
  <2>3. d[j] = (v \div 2 ^ (l + m)) % 2
    BY <1>4, <2>1
  <2>. HIDE DEF m
  <2>4. e \in Nat \ {0} /\ 2 ^ (l + m) = p * e
    BY <1>1, <2>1, PowerOfTwo, PowerSum
  <2>5. p \in Nat \ {0} /\ x \in 0 .. p - 1 /\ v = y * p + x /\ v \in Int /\ y \in Int
    <3>1. p \in Nat \ {0} /\ x \in Nat /\ x < p /\ v = x + y * p
      BY <1>3
    <3>. HIDE DEF p
    <3>2. y * p \in Nat
      BY <1>3, <3>1
    <3>. QED
      BY <1>1, <1>3, <3>1, <3>2
  <2>. HIDE DEF p, e
  <2>6. v \div p = y /\ v % p = x
    BY <2>5, DivUnique
  <2>7. v \div (p * e) = (v \div p) \div e
    BY <1>1, <2>4, <2>5, DigitStep
  <2>. QED
    BY <2>2, <2>3, <2>4, <2>6, <2>7
<1>6. ASSUME NEW j \in 1 .. l PROVE b[l + j] = d[l + j]
  <2>. DEFINE m == l - j
              f == 2 ^ (j - 1)
              e == 2 ^ m
  <2>1. m \in Nat /\ 2 * l - (l + j) = m /\ l + j \in 1 .. 2 * l /\ (2 - 1) * l + j = l + j
        /\ j - 1 \in Nat /\ (j - 1) + 1 = j /\ j \in Nat /\ l = m + j
    BY <1>1
  <2>2. b[l + j] = (x \div e) % 2
    <3>1. BitsOf(x, l)[j] = (x \div 2 ^ (l - j)) % 2
      BY <1>1, <1>3, BitsOfNumber
    <3>. QED
      BY <1>2, <2>1, <3>1
  <2>3. d[l + j] = (v \div e) % 2
    BY <1>4, <2>1
  <2>. HIDE DEF m
  <2>4. e \in Nat \ {0} /\ f \in Nat /\ 2 ^ l = e * (2 * f)
    <3>1. 2 ^ (m + j) = 2 ^ m * 2 ^ j
      BY <2>1, PowerSum
    <3>2. 2 ^ ((j - 1) + 1) = 2 * 2 ^ (j - 1)
      BY <2>1, PowerOfTwo
    <3>3. e \in Nat \ {0} /\ f \in Nat
      BY <2>1, PowerOfTwo
    <3>. QED
      BY <2>1, <3>1, <3>2, <3>3
  <2>. HIDE DEF e, f
  <2>5. ((x + y * (e * (2 * f))) \div e) % 2 = (x \div e) % 2
    BY <1>3, <2>4, UpperBits
  <2>. QED
    BY <1>3, <2>2, <2>3, <2>4, <2>5
<1>7. \A i \in 1 .. Len(b) : b[i] = d[i]
  <2>1. SUFFICES ASSUME NEW i \in 1 .. 2 * l, ~(i \in 1 .. l) PROVE b[i] = d[i]
    BY <1>2, <1>5
  <2>. DEFINE j == i - l
  <2>2. j \in 1 .. l /\ i = l + j
    BY <1>1, <2>1
  <2>. HIDE DEF j
  <2>. QED
    BY <1>6, <2>2
<1>8. b = d
  BY <1>2, <1>4, <1>7, SeqEqual
<1>. QED
  BY <1>8 DEF b, d, l, v, NumBits

-----------------------------------------------------------------------------
(* SSZ leaves *)

\* The bits of one byte in the bits of a number, the lowest byte first.
LEMMA ByteOfBits ==
  ASSUME NEW v \in Nat, NEW w \in Nat \ {0}, NEW n \in Nat,
         NEW q \in 0 .. n - 1, NEW j \in 1 .. w
  PROVE  BitsOf(v, n * w)[(n - 1 - q) * w + j] = BitsOf(v \div 2 ^ (w * q), w)[j]
<1>. DEFINE N == n * w
            m == n - 1 - q
            x == m * w + j
            P == m * w
            Q == w * q
            h == w - j
            e == 2 ^ Q
            u == v \div e
<1>1. m \in Nat /\ m < n /\ h \in Nat /\ q \in Nat
  OBVIOUS
<1>2. P \in Nat /\ Q \in Nat /\ N \in Nat /\ N = P + Q + w
  <2>1. P \in Nat /\ Q \in Nat /\ N \in Nat
    BY <1>1
  <2>2. n = m + q + 1
    OBVIOUS
  <2>. HIDE DEF m
  <2>3. (m + q + 1) * w = m * w + w * q + w
    BY <1>1
  <2>. QED
    BY <2>1, <2>2, <2>3
<1>3. x \in 1 .. N /\ N - x = Q + h
  <2>1. x = P + j
    OBVIOUS
  <2>. HIDE DEF P, Q, N, x
  <2>. QED
    BY <1>2, <2>1
<1>. HIDE DEF P, Q, N, x, m
<1>4. BitsOf(v, N)[x] = (v \div 2 ^ (Q + h)) % 2
  <2>1. \A i \in 1 .. N : BitsOf(v, N)[i] = (v \div 2 ^ (N - i)) % 2
    BY <1>2, BitsOfNumber
  <2>. QED
    BY <1>3, <2>1
<1>. HIDE DEF h
<1>5. e \in Nat \ {0} /\ 2 ^ h \in Nat \ {0} /\ 2 ^ (Q + h) = e * 2 ^ h
  BY <1>1, <1>2, PowerOfTwo, PowerSum
<1>. HIDE DEF e
<1>6. v \div (e * 2 ^ h) = u \div 2 ^ h
  <2>. DEFINE f == 2 ^ h
  <2>1. f \in Nat \ {0}
    BY <1>5
  <2>. HIDE DEF f
  <2>2. v \div (e * f) = (v \div e) \div f
    BY <1>5, <2>1, DigitStep
  <2>. QED
    BY <2>2 DEF f
<1>7. u \in Nat
  BY <1>5, Div
<1>. HIDE DEF u
<1>8. BitsOf(u, w)[j] = (u \div 2 ^ h) % 2
  BY <1>7, BitsOfNumber DEF h
<1>. QED
  BY <1>4, <1>5, <1>6, <1>8 DEF N, x, m, u, e, Q

\* Above its bits a number is zero.
LEMMA NothingAbove ==
  ASSUME NEW v \in Nat, NEW k \in Nat, v < 2 ^ k, NEW m \in Nat, k <= m
  PROVE  v \div 2 ^ m = 0
<1>. DEFINE p == 2 ^ m
            d == m - k
            e == 2 ^ d
            f == 2 ^ k
<1>1. d \in Nat /\ k + d = m
  OBVIOUS
<1>. HIDE DEF d
<1>2. p \in Nat \ {0} /\ e \in Nat \ {0} /\ f \in Nat \ {0} /\ p = f * e
  BY <1>1, PowerOfTwo, PowerSum
<1>3. v < f
  OBVIOUS
<1>. HIDE DEF p, e, f
<1>4. v < p
  <2>1. 1 * f <= e * f /\ 1 * f = f
    BY <1>2, TimesMono
  <2>2. e * f = p
    BY <1>2
  <2>. QED
    BY <1>2, <1>3, <2>1, <2>2
<1>5. v \in 0 .. p - 1 /\ v = 0 * p + v /\ v \in Int /\ 0 \in Int
  BY <1>2, <1>4
<1>6. v \div p = 0 /\ v % p = v
  BY <1>2, <1>5, DivUnique
<1>. QED
  BY <1>6 DEF p

\* The number without a one.
LEMMA BitsOfZero ==
  ASSUME NEW n \in Nat, NEW j \in 1 .. n
  PROVE  BitsOf(0, n)[j] = 0
<1>1. n - j \in Nat /\ BitsOf(0, n)[j] = (0 \div 2 ^ (n - j)) % 2
  BY BitsOfNumber
<1>2. 2 ^ (n - j) \in Nat \ {0}
  BY <1>1, PowerOfTwo
<1>3. \A p \in Nat \ {0} : 0 \div p = 0
  OBVIOUS
<1>. QED
  BY <1>1, <1>2, <1>3

\* M bytes of w bits: those of a number, of which n are in a row, and zeros.
IsLeaf(leaf, v, w, n, M, row) ==
  /\ leaf \in Seq(Int) /\ Len(leaf) = M * w
  /\ SubSeq(leaf, 1, n * w) = row
  /\ \A i \in 1 .. M : \A j \in 1 .. w :
       leaf[(i - 1) * w + j] = BitsOf(v \div 2 ^ (w * (i - 1)), w)[j]

\* ssz_num_to_bits: byte after byte, from the lowest one up.
LEMMA LeafOfNumber ==
  ASSUME NEW v \in Nat, NEW w \in Nat \ {0}, NEW n \in Nat, NEW M \in Nat, n <= M,
         v < 2 ^ (n * w), NEW c \in Seq(Int), Len(c) = n * w,
         IsTurned(BitsOf(v, n * w), c, n, w),
         NEW leaf, leaf = c \o Zeros(M * w - n * w)
  PROVE  IsLeaf(leaf, v, w, n, M, c)
<1>. DEFINE N == n * w
            H == M * w
            o == Zeros(H - N)
            z == c \o o
<1>1. N \in Nat /\ H \in Nat /\ N <= H
  BY TimesMono
<1>2. o \in Seq(Int) /\ Len(o) = H - N /\ \A i \in 1 .. H - N : o[i] = 0
  <2>. HIDE DEF H, N
  <2>1. H - N \in Nat
    BY <1>1
  <2>. QED
    BY <2>1 DEF Zeros
<1>3. Len(c) = N
  OBVIOUS
<1>. HIDE DEF N, H, o
<1>4. /\ z \in Seq(Int) /\ Len(z) = H
      /\ \A i \in 1 .. H : z[i] = IF i <= N THEN c[i] ELSE o[i - N]
  <2>1. /\ c \o o \in Seq(Int) /\ Len(c \o o) = Len(c) + Len(o)
        /\ \A i \in 1 .. Len(c) + Len(o) :
             (c \o o)[i] = IF i <= Len(c) THEN c[i] ELSE o[i - Len(c)]
    BY <1>2, ConcatProperties
  <2>2. Len(c) + Len(o) = H
    BY <1>1, <1>2, <1>3
  <2>. QED
    BY <1>3, <2>1, <2>2
<1>. HIDE DEF z
<1>5. SubSeq(z, 1, N) = c
  <2>. DEFINE s == SubSeq(z, 1, N)
  <2>1. \A i \in 1 .. N : z[i] \in Int /\ z[i] = c[i]
    BY <1>1, <1>4
  <2>2. /\ s \in Seq(Int) /\ Len(s) = IF 1 <= N THEN N - 1 + 1 ELSE 0
        /\ \A i \in 1 .. N - 1 + 1 : s[i] = z[1 + i - 1]
    <3>1. 1 \in Int /\ N \in Int
      BY <1>1
    <3>. QED
      BY <2>1, <3>1, SubSeqProperties
  <2>. HIDE DEF s
  <2>3. Len(s) = Len(c)
    BY <1>1, <1>3, <2>2
  <2>4. \A i \in 1 .. N : s[i] = c[i]
    <3>1. N - 1 + 1 = N /\ \A i \in 1 .. N : 1 + i - 1 = i
      BY <1>1
    <3>. QED
      BY <2>1, <2>2, <3>1
  <2>5. s = c
    BY <1>3, <2>2, <2>3, <2>4, SeqEqual
  <2>. QED
    BY <2>5 DEF s
<1>6. ASSUME NEW i \in 1 .. M, NEW j \in 1 .. w
      PROVE  z[(i - 1) * w + j] = BitsOf(v \div 2 ^ (w * (i - 1)), w)[j]
  <2>. DEFINE q == i - 1
              P == q * w
              r == j - 1
  <2>1. q \in Nat /\ q < M /\ r \in 0 .. w - 1 /\ r + 1 = j
    OBVIOUS
  <2>. HIDE DEF q, r
  <2>2. P \in Nat
    BY <2>1
  <2>3. P + j \in 1 .. H
    <3>1. q * w + r + 1 \in 1 .. M * w
      BY <2>1, PlaceInRow
    <3>2. P + r + 1 = P + j
      <4>. HIDE DEF P
      <4>. QED
        BY <2>1, <2>2
    <3>. QED
      BY <3>1, <3>2 DEF H
  <2>4. CASE q < n
    <3>1. P + j <= N
      <4>1. q * w + r + 1 \in 1 .. n * w
        BY <2>1, <2>4, PlaceInRow
      <4>2. P + r + 1 = P + j
        <5>. HIDE DEF P
        <5>. QED
          BY <2>1, <2>2
      <4>. QED
        BY <4>1, <4>2 DEF N
    <3>2. z[P + j] = c[P + j]
      BY <1>4, <2>3, <3>1
    <3>3. q \in 0 .. n - 1
      BY <2>1, <2>4
    <3>4. c[q * w + j] = BitsOf(v, n * w)[(n - 1 - q) * w + j]
      BY <3>3 DEF IsTurned
    <3>5. BitsOf(v, n * w)[(n - 1 - q) * w + j] = BitsOf(v \div 2 ^ (w * q), w)[j]
      BY <3>3, ByteOfBits
    <3>. QED
      BY <3>2, <3>4, <3>5 DEF q
  <2>5. CASE n <= q
    <3>1. N <= P
      BY <2>1, <2>5, TimesMono DEF N
    <3>2. z[P + j] = 0
      <4>. HIDE DEF P
      <4>1. ~(P + j <= N) /\ (P + j) - N \in 1 .. H - N
        BY <1>1, <2>2, <2>3, <3>1
      <4>. QED
        BY <1>2, <1>4, <2>3, <4>1
    <3>3. v \div 2 ^ P = 0
      BY <1>1, <2>2, <3>1, NothingAbove DEF N
    <3>4. w * q = P
      BY <2>1
    <3>5. BitsOf(0, w)[j] = 0
      BY BitsOfZero
    <3>. QED
      BY <3>2, <3>3, <3>4, <3>5 DEF q
  <2>. QED
    BY <2>1, <2>4, <2>5
<1>. QED
  BY <1>4, <1>5, <1>6 DEF z, o, N, H, IsLeaf

\* The bytes of a leaf of an SSZ tree.
LEMMA BytesOfLeaf ==
  ASSUME NEW v \in Nat, NEW w \in Nat \ {0}, NEW M \in Nat, NEW z \in Seq(Int), Len(z) = M * w,
         \A i \in 1 .. M : \A j \in 1 .. w :
           z[(i - 1) * w + j] = BitsOf(v \div 2 ^ (w * (i - 1)), w)[j]
  PROVE  \A i \in 1 .. M :
           BitsValue(ChunksOf(z, w)[i]) = (v \div 2 ^ (w * (i - 1))) % 2 ^ w
<1>. DEFINE c == ChunksOf(z, w)
<1>1. /\ ArePieces(c, M, w)
      /\ \A i \in 1 .. M : \A j \in 1 .. w : c[i][j] = z[(i - 1) * w + j]
  BY ChunksAre
<1>. HIDE DEF c
<1>2. ASSUME NEW i \in 1 .. M PROVE BitsValue(c[i]) = (v \div 2 ^ (w * (i - 1))) % 2 ^ w
  <2>. DEFINE e == 2 ^ (w * (i - 1))
              u == v \div e
              x == BitsOf(u, w)
              y == c[i]
  <2>1. e \in Nat \ {0}
    <3>1. i - 1 \in Nat
      OBVIOUS
    <3>2. w * (i - 1) \in Nat
      BY <3>1
    <3>. QED
      BY <3>2, PowerOfTwo
  <2>2. \A j \in 1 .. w : y[j] = x[j]
    BY <1>1
  <2>. HIDE DEF e
  <2>3. u \in Nat
    BY <2>1, Div
  <2>. HIDE DEF u
  <2>4. x \in Seq(Int) /\ Len(x) = w /\ BitsValue(x) = u % 2 ^ w
    BY <2>3, BitsOfNumber, BitsKeep
  <2>5. y \in Seq(Int) /\ Len(y) = w
    BY <1>1 DEF ArePieces
  <2>. HIDE DEF x, y
  <2>6. y = x
    BY <2>2, <2>4, <2>5, SeqEqual
  <2>. QED
    BY <2>4, <2>6 DEF y, u, e
<1>. QED
  BY <1>2 DEF c

\* The bits of a number, and its SSZ leaf.
LEMMA BitsExact ==
  ASSUME NEW a \in Seq(Limb)
  PROVE  BitsAreExact(a)
<1>. DEFINE v == Value(a)
            w == ByteBits
            b == BiguintToBits(a)
            c == ReverseEndianness(b)
            z == SszNumToBits(a, NumBits)
<1>1. BitsToBiguint(b) = a
  BY BitsComeBack
<1>2. SUFFICES ASSUME Len(a) = 2
               PROVE  /\ SszNumFromBits(SubSeq(z, 1, NumBits)) = a
                      /\ \A i \in 1 .. HashBits \div w :
                           BitsValue(ChunksOf(z, w)[i]) = (v \div 2 ^ (w * (i - 1))) % 2 ^ w
  BY <1>1 DEF BitsAreExact
<1>3. w \in Nat \ {0} /\ LimbBits \in Nat \ {0}
  BY BytesOfLimb
<1>4. PICK k \in Nat : LimbBits = k * w
  BY BytesOfLimb
<1>. HIDE DEF w
<1>. DEFINE n == 2 * k
            M == 8 * k
<1>5. NumBits = n * w /\ HashBits = M * w /\ n \in Nat /\ M \in Nat /\ n <= M
  <2>1. 2 * (k * w) = (2 * k) * w /\ 8 * (k * w) = (8 * k) * w
    BY <1>3
  <2>. QED
    BY <1>4, <2>1 DEF NumBits, HashBits
<1>. HIDE DEF n, M
<1>6. b = BitsOf(v, n * w)
  BY <1>2, <1>5, BitsOfTwoLimbs
<1>7. v \in Nat /\ v < 2 ^ (n * w)
  <2>1. v \in Nat /\ v < Base * Base
    BY <1>2, NumberBound, ValueOfTwo
  <2>2. 2 ^ (LimbBits + LimbBits) = Base * Base
    BY <1>3, PowerSum DEF Base
  <2>3. LimbBits + LimbBits = n * w
    BY <1>3, <1>5 DEF NumBits
  <2>. QED
    BY <2>1, <2>2, <2>3
<1>8. b \in Seq(Int) /\ Len(b) = n * w
  <2>1. n * w \in Nat
    BY <1>3, <1>5
  <2>. HIDE DEF b, v
  <2>. QED
    BY <1>6, <1>7, <2>1, BitsOfNumber
<1>9. z = c \o Zeros(M * w - n * w)
  BY <1>5 DEF SszNumToBits
<1>. HIDE DEF b, v, z
<1>10. c \in Seq(Int) /\ Len(c) = n * w /\ IsTurned(b, c, n, w)
  BY <1>5, <1>8, Turned DEF w
<1>. HIDE DEF c
<1>11. /\ z \in Seq(Int) /\ Len(z) = M * w
       /\ SubSeq(z, 1, n * w) = c
       /\ \A i \in 1 .. M : \A j \in 1 .. w :
            z[(i - 1) * w + j] = BitsOf(v \div 2 ^ (w * (i - 1)), w)[j]
  <2>1. IsTurned(BitsOf(v, n * w), c, n, w)
    BY <1>6, <1>10
  <2>2. /\ w \in Nat \ {0} /\ n \in Nat /\ M \in Nat /\ n <= M /\ v \in Nat /\ v < 2 ^ (n * w)
        /\ c \in Seq(Int) /\ Len(c) = n * w
    BY <1>3, <1>5, <1>7, <1>10
  <2>3. IsLeaf(z, v, w, n, M, c)
    BY <1>9, <2>1, <2>2, LeafOfNumber
  <2>. QED
    BY <2>3 DEF IsLeaf
<1>12. SszNumFromBits(SubSeq(z, 1, NumBits)) = a
  <2>. DEFINE d == ReverseEndianness(c)
  <2>1. d \in Seq(Int) /\ Len(d) = n * w /\ IsTurned(c, d, n, w)
    BY <1>5, <1>10, Turned DEF w
  <2>2. SszNumFromBits(c) = BitsToBiguint(d)
    BY DEF SszNumFromBits
  <2>. HIDE DEF d
  <2>3. d = b
    BY <1>3, <1>5, <1>8, <1>10, <2>1, TurnedTwice
  <2>. QED
    BY <1>1, <1>5, <1>11, <2>2, <2>3 DEF b
<1>13. HashBits \div w = M
  <2>. DEFINE x == HashBits
  <2>1. x \in Int /\ x = M * w + 0 /\ M \in Int /\ 0 \in 0 .. w - 1
    <3>1. M * w \in Nat
      BY <1>3, <1>5
    <3>. QED
      BY <1>3, <1>5, <3>1
  <2>. HIDE DEF x
  <2>2. x \div w = M /\ x % w = 0
    BY <1>3, <2>1, DivUnique
  <2>. QED
    BY <2>2 DEF x
<1>14. \A i \in 1 .. M : BitsValue(ChunksOf(z, w)[i]) = (v \div 2 ^ (w * (i - 1))) % 2 ^ w
  BY <1>3, <1>5, <1>7, <1>11, BytesOfLeaf
<1>. QED
  BY <1>12, <1>13, <1>14

\* LimbsAreIntegers
THEOREM LimbsAreExact == NumbersSpec => []LimbsAreIntegers
<1>1. operands = <<>> => LimbsAreIntegers
  BY DEF LimbsAreIntegers
<1>2. NumbersInit => LimbsAreIntegers
  <2>1. SUFFICES ASSUME NEW a \in Operands, NEW b \in Operands, NEW c \in Operands,
                        operands = <<a, b, c>>
                 PROVE  /\ ArithmeticIsExact(a, b, c)
                        /\ ComparisonsAreExact(a, b)
                        /\ ChoicesAreExact(a, b, c)
                        /\ BitsAreExact(a)
                        /\ GeneratorIsReadBack(a, b)
    BY DEF NumbersInit, LimbsAreIntegers
  <2>2. a \in Seq(Limb) /\ b \in Seq(Limb) /\ c \in Seq(Limb)
    BY OperandsAssumption
  <2>. QED
    BY <2>2, ArithmeticExact, ComparisonsExact, ChoicesExact, BitsExact, GeneratorReadBack
<1>3. LimbsAreIntegers /\ [FALSE]_operands => LimbsAreIntegers'
  BY DEF LimbsAreIntegers, ArithmeticIsExact, ComparisonsAreExact, ChoicesAreExact,
         BitsAreExact, GeneratorIsReadBack
<1>. QED
  BY <1>1, <1>2, <1>3, PTL DEF NumbersSpec, NoNumbers
=============================================================================
