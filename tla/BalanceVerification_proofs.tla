--------------------- MODULE BalanceVerification_proofs ---------------------
(***************************************************************************)
(* Proofs about the balance verification for a tree of any height, groups  *)
(* of any size, any number of validators, workers, crashes and slow ones:  *)
(* the values of its state, that a placeholder stands for a proof still to *)
(* be made and that nothing is above it, that a final proof states the     *)
(* right sum, and that the root is about the whole registry when the       *)
(* levels are done.                                                        *)
(***************************************************************************)
EXTENDS BalanceVerification, ProverLemmas

-----------------------------------------------------------------------------
(* The inductive invariant *)

\* What the script will still add.
Pending(ops) == {op.job : op \in {o \in ops : o.do = "add"}}

\* The jobs that the queue of a level may know: none still pending.
KnownJob(ops, level) == {job \in Job : job.level = level} \ Pending(ops)

\* What the script has left: each job is added once, and all inputs are saved
\* before the first placeholder.
OpsRight(ops) ==
  /\ ops \subseteq Op
  /\ \A op \in ops : op.do = "add" => op.job \in Job
  /\ \A op \in ops : op.do = "mark" => op.job \in Job /\ op.job.level \in 1 .. Top
  /\ \A op \in ops : op.do = "input" => op.at[1] \in {0, 1}
  /\ \A op \in ops : op.do = "mark" => op.at[1] = 3
  /\ \A a, b \in ops : a.do = "add" /\ b.do = "add" /\ a.job = b.job => a = b

\* A proof is honest: its sum is the sum over its leaves.
HonestProof == {p \in Proof : p.sum = SumOf(p.leaves)}

\* A worker has a job its queue can know, and honest proofs.
WorkerRight(wk, level, known) ==
  /\ wk.job \in known \cup {NoJob}
  /\ wk.pc \notin {"idle", "ended"} => wk.job \in known
  /\ wk.pc = "input" => level = 0
  /\ wk.pc \in {"first", "second"} => level # 0
  /\ wk.pc \in {"second", "save"} => wk.left # NoProof
  /\ wk.left \in HonestProof /\ wk.right \in HonestProof

\* The queues know these jobs only.
QueuesRight(qs, ops) ==
  /\ qs \in [0 .. Top + 1 -> WorkQueues(Job)]
  /\ \A l \in 0 .. Top + 1 : qs[l] \in WorkQueues(KnownJob(ops, l))

BudgetRight(b) ==
  b \in [take : 1 .. CircuitSize * L, crashes : Nat, slow : Nat, stops : BOOLEAN]

\* What one of the workers does.
Acts(w) == Start(w) \/ WorkerStep(w) \/ Stop(w) \/ Crash(w)

Values ==
  /\ BudgetRight(budget)
  /\ failed \in BOOLEAN
  /\ hasty \in BOOLEAN /\ overwritten \subseteq Key
  /\ inputs \subseteq Index
  /\ proofs \in [Key -> HonestProof]
  /\ marked \subseteq Key
  /\ final = -1 \/ final = RightSum

JobsRight ==
  /\ OpsRight(todo)
  /\ QueuesRight(queues, todo)
  /\ worker \in [Worker -> WorkerState]
  /\ \A w \in Worker : WorkerRight(worker[w], LevelOf[w], KnownJob(todo, LevelOf[w]))

IInv == Values /\ JobsRight

\* Why a proof that is not there is still to be made: its job is pending, or
\* has its data and no worker is about to delete that.
IsExpected(key) ==
  \/ key \in {Target(job) : job \in Pending(todo)}
  \/ \E job \in queues[key[1]].data :
       /\ Target(job) = key
       /\ \A w \in Worker : ~(worker[w].pc = "complete" /\ worker[w].job = job)

\* The proof of this key is expected, or a placeholder destroyed it.
IsAwaited(key) == IsExpected(key) \/ key \in overwritten

\* Also of one that is only to be marked, unless it is there; and nothing is
\* marked before the inputs are saved, where the script may fail.
ChildrenAreExpected ==
  /\ \A key \in marked : IsAwaited(key)
  /\ \A op \in todo : op.do = "mark" =>
       IsAwaited(Placeholder(op.job)) \/ proofs[Placeholder(op.job)] # NoProof
  /\ (\E op \in todo : op.do = "input") => marked = {}

-----------------------------------------------------------------------------
(* Sums *)

\* f are the sums over the first of these terms, as the loop of the circuit
\* computes them in sums[].
IsSum(f, terms, n) ==
  /\ f \in [0 .. n -> Nat]
  /\ f[0] = 0
  /\ \A k \in 1 .. n : terms[k] \in Nat /\ f[k] = f[k - 1] + terms[k]

\* The terms u are the n terms of s and then the m terms of t.
AreAppended(u, s, n, t, m) ==
  /\ \A k \in 1 .. n : u[k] = s[k]
  /\ \A k \in 1 .. m : u[n + k] = t[k]

\* Every sequence of terms has its sums.
LEMMA SumsExist ==
  ASSUME NEW n \in Nat, NEW terms \in [1 .. n -> Nat]
  PROVE  \E f : IsSum(f, terms, n)
<1>. DEFINE Has(m) == \E f : IsSum(f, terms, m)
            Wrong == {m \in 0 .. n : ~Has(m)}
            m == Min(Wrong)
<1>. SUFFICES Has(n)
  OBVIOUS
<1>. HIDE DEF Has
<1>1. SUFFICES ASSUME Wrong # {} PROVE FALSE
  <2>1. n \in 0 .. n
    OBVIOUS
  <2>. QED
    BY <2>1
<1>2. m \in Wrong /\ \A x \in Wrong : m <= x
  <2>1. Wrong \subseteq Nat
    OBVIOUS
  <2>. HIDE DEF Wrong
  <2>. QED
    BY <1>1, <2>1, LeastIsThere
<1>. HIDE DEF m
<1>3. Has(0)
  <2>. DEFINE f == [k \in 0 .. 0 |-> 0]
  <2>1. IsSum(f, terms, 0)
    BY DEF IsSum
  <2>. QED
    BY <2>1 DEF Has
<1>. DEFINE j == m - 1
<1>4. m \in 1 .. n /\ j \in 0 .. n /\ j + 1 = m /\ j \notin Wrong
  <2>1. m \in 0 .. n /\ m # 0
    BY <1>2, <1>3
  <2>. QED
    BY <1>2, <2>1
<1>5. PICK f : IsSum(f, terms, j)
  BY <1>4 DEF Has
<1>. HIDE DEF j
<1>. DEFINE g == [k \in 0 .. m |-> IF k = m THEN f[j] + terms[m] ELSE f[k]]
<1>6. /\ f \in [0 .. j -> Nat] /\ f[0] = 0
      /\ \A k \in 1 .. j : f[k] = f[k - 1] + terms[k]
  BY <1>5 DEF IsSum
<1>7. f[j] \in Nat /\ terms[m] \in Nat
  BY <1>4, <1>6
<1>8. g \in [0 .. m -> Nat] /\ g[0] = 0
  BY <1>4, <1>6, <1>7
<1>9. ASSUME NEW k \in 1 .. m PROVE g[k] = g[k - 1] + terms[k]
  <2>1. CASE k = m
    BY <1>4, <2>1
  <2>2. CASE k # m
    <3>1. k \in 1 .. j /\ k - 1 \in 0 .. m /\ k - 1 # m /\ k \in 0 .. m
      BY <1>4, <2>2
    <3>. QED
      BY <1>6, <2>2, <3>1
  <2>. QED
    BY <2>1, <2>2
<1>10. IsSum(g, terms, m)
  <2>1. \A k \in 1 .. m : terms[k] \in Nat
    BY <1>4
  <2>. HIDE DEF g
  <2>. QED
    BY <1>8, <1>9, <2>1 DEF IsSum
<1>. QED
  BY <1>2, <1>10 DEF Has

\* The sums over one sequence of terms after another.
LEMMA SumsAppend ==
  ASSUME NEW n \in Nat, NEW f, NEW s, IsSum(f, s, n),
         NEW m \in Nat, NEW g, NEW t, IsSum(g, t, m),
         NEW N, N = n + m, NEW h, NEW u, IsSum(h, u, N),
         AreAppended(u, s, n, t, m)
  PROVE  h[N] = f[n] + g[m]
<1>1. /\ f \in [0 .. n -> Nat] /\ f[0] = 0
      /\ \A k \in 1 .. n : f[k] = f[k - 1] + s[k]
      /\ \A k \in 1 .. n : u[k] = s[k]
  BY DEF IsSum, AreAppended
<1>2. /\ g \in [0 .. m -> Nat] /\ g[0] = 0
      /\ \A k \in 1 .. m : t[k] \in Nat /\ g[k] = g[k - 1] + t[k]
      /\ \A k \in 1 .. m : u[n + k] = t[k]
  BY DEF IsSum, AreAppended
<1>3. /\ h \in [0 .. n + m -> Nat] /\ h[0] = 0
      /\ \A k \in 1 .. n + m : h[k] = h[k - 1] + u[k]
  BY DEF IsSum
<1>4. h[n] = f[n]
  <2>. DEFINE Wrong == {k \in 0 .. n : h[k] # f[k]}
              k == Min(Wrong)
  <2>1. SUFFICES ASSUME Wrong # {} PROVE FALSE
    OBVIOUS
  <2>2. k \in Wrong /\ \A x \in Wrong : k <= x
    <3>1. Wrong \subseteq Nat
      OBVIOUS
    <3>. HIDE DEF Wrong
    <3>. QED
      BY <2>1, <3>1, LeastIsThere
  <2>. HIDE DEF k
  <2>3. k \in 1 .. n
    BY <1>1, <1>3, <2>2
  <2>4. k - 1 \in 0 .. n /\ k - 1 \notin Wrong
    BY <2>2, <2>3
  <2>5. h[k - 1] = f[k - 1]
    BY <2>4
  <2>6. k \in 1 .. n + m
    BY <2>3
  <2>. QED
    BY <1>1, <1>3, <2>2, <2>3, <2>5, <2>6
<1>. DEFINE Wrong == {k \in 0 .. m : h[n + k] # f[n] + g[k]}
            k == Min(Wrong)
<1>5. SUFFICES ASSUME Wrong # {} PROVE FALSE
  OBVIOUS
<1>6. k \in Wrong /\ \A x \in Wrong : k <= x
  <2>1. Wrong \subseteq Nat
    OBVIOUS
  <2>. HIDE DEF Wrong
  <2>. QED
    BY <1>5, <2>1, LeastIsThere
<1>. HIDE DEF k
<1>7. f[n] \in Nat
  BY <1>1
<1>8. k \in 1 .. m
  <2>1. k \in 0 .. m
    BY <1>6
  <2>2. n + 0 = n /\ f[n] + g[0] = f[n]
    BY <1>2, <1>7
  <2>3. k # 0
    BY <1>4, <1>6, <2>2
  <2>. QED
    BY <2>1, <2>3
<1>9. k - 1 \in 0 .. m /\ k - 1 \notin Wrong
  BY <1>6, <1>8
<1>10. h[n + (k - 1)] = f[n] + g[k - 1]
  BY <1>9
<1>11. n + k \in 1 .. n + m /\ (n + k) - 1 = n + (k - 1)
  BY <1>8
<1>12. h[n + k] = h[n + (k - 1)] + u[n + k]
  BY <1>3, <1>11
<1>13. u[n + k] = t[k] /\ g[k] = g[k - 1] + t[k]
  BY <1>2, <1>8
<1>14. g[k] \in Nat /\ g[k - 1] \in Nat
  BY <1>2, <1>8, <1>9
<1>15. h[n + k] = (f[n] + g[k - 1]) + t[k]
  BY <1>10, <1>12, <1>13
<1>16. h[n + k] = f[n] + g[k]
  <2>. DEFINE a == f[n]
              b == g[k - 1]
              c == t[k]
  <2>1. h[n + k] = (a + b) + c /\ g[k] = b + c
    BY <1>13, <1>15
  <2>2. a \in Nat /\ b \in Nat /\ c \in Nat
    BY <1>2, <1>7, <1>8, <1>14
  <2>. HIDE DEF a, b, c
  <2>3. (a + b) + c = a + (b + c)
    BY <2>2
  <2>. QED
    BY <2>1, <2>3 DEF a
<1>. QED
  BY <1>6, <1>16

\* A validator's term is its balance or nothing.
LEMMA TermIsNat ==
  ASSUME NEW v
  PROVE  Term(v) \in Nat
  BY BalanceAssumption DEF Term

\* What an honest proof's sum is: the last of the sums over its leaves.
LEMMA SumOfIs ==
  ASSUME NEW leaves \in Seq(Nat)
  PROVE  \E f : /\ IsSum(f, [n \in 1 .. Len(leaves) |-> Term(leaves[n])], Len(leaves))
                /\ SumOf(leaves) = f[Len(leaves)]
<1>. DEFINE N == Len(leaves)
            terms == [n \in 1 .. N |-> Term(leaves[n])]
            Adds(f) == f = [n \in 0 .. N |-> IF n = 0 THEN 0 ELSE f[n - 1] + Term(leaves[n])]
            h == CHOOSE f : Adds(f)
<1>1. N \in Nat /\ terms \in [1 .. N -> Nat]
  BY TermIsNat
<1>2. PICK g : IsSum(g, terms, N)
  <2>. HIDE DEF N, terms
  <2>. QED
    BY <1>1, SumsExist
<1>3. /\ g \in [0 .. N -> Nat] /\ g[0] = 0
      /\ \A n \in 1 .. N : g[n] = g[n - 1] + terms[n]
  BY <1>2 DEF IsSum
<1>4. Adds(g)
  <2>1. ASSUME NEW n \in 0 .. N
        PROVE  g[n] = IF n = 0 THEN 0 ELSE g[n - 1] + Term(leaves[n])
    <3>1. CASE n = 0
      BY <1>3, <3>1
    <3>2. CASE n # 0
      <4>1. n \in 1 .. N
        BY <1>1, <3>2
      <4>. QED
        BY <1>3, <3>2, <4>1
    <3>. QED
      BY <3>1, <3>2
  <2>. HIDE DEF N, terms
  <2>. QED
    BY <1>3, <2>1
<1>5. Adds(h)
  BY <1>4
<1>6. SumOf(leaves) = h[N]
  BY DEF SumOf
<1>. HIDE DEF h
<1>7. \A n \in 0 .. N : h[n] = IF n = 0 THEN 0 ELSE h[n - 1] + Term(leaves[n])
  <2>. HIDE DEF N
  <2>. QED
    BY <1>5
<1>8. h[N] = g[N]
  <2>. DEFINE Wrong == {k \in 0 .. N : h[k] # g[k]}
              k == Min(Wrong)
  <2>1. SUFFICES ASSUME Wrong # {} PROVE FALSE
    BY <1>1
  <2>2. k \in Wrong /\ \A x \in Wrong : k <= x
    <3>1. Wrong \subseteq Nat
      BY <1>1
    <3>. HIDE DEF Wrong
    <3>. QED
      BY <2>1, <3>1, LeastIsThere
  <2>. HIDE DEF k
  <2>3. k \in 1 .. N
    <3>1. k \in 0 .. N /\ h[0] = 0 /\ g[0] = 0
      BY <1>1, <1>3, <1>7, <2>2
    <3>. QED
      BY <1>1, <2>2, <3>1
  <2>4. k - 1 \in 0 .. N /\ k - 1 \notin Wrong
    BY <1>1, <2>2, <2>3
  <2>5. h[k - 1] = g[k - 1]
    BY <2>4
  <2>6. h[k] = h[k - 1] + Term(leaves[k])
    BY <1>1, <1>7, <2>3
  <2>7. g[k] = g[k - 1] + Term(leaves[k])
    BY <1>3, <2>3
  <2>. QED
    BY <2>2, <2>5, <2>6, <2>7
<1>. QED
  BY <1>2, <1>6, <1>8

\* The sum a final proof is to state.
LEMMA RightSumIs ==
  ASSUME Take \in Nat
  PROVE  \E f : /\ IsSum(f, [n \in 1 .. Take |-> Term(n)], Take)
                /\ RightSum = f[Take]
<1>. DEFINE ids == [n \in 1 .. Take |-> n]
<1>1. ids \in Seq(Nat) /\ Len(ids) = Take
  OBVIOUS
<1>2. PICK f : /\ IsSum(f, [n \in 1 .. Len(ids) |-> Term(ids[n])], Len(ids))
               /\ SumOf(ids) = f[Len(ids)]
  <2>. HIDE DEF ids
  <2>. QED
    BY <1>1, SumOfIs
<1>3. [n \in 1 .. Len(ids) |-> Term(ids[n])] = [n \in 1 .. Take |-> Term(n)]
  BY <1>1
<1>4. RightSum = SumOf(ids)
  <2>. DEFINE N == Len(ids)
  <2>1. \A g : [n \in 0 .. Take |-> IF n = 0 THEN 0 ELSE g[n - 1] + Term(n)]
                 = [n \in 0 .. Len(ids) |-> IF n = 0 THEN 0 ELSE g[n - 1] + Term(ids[n])]
    BY <1>1
  <2>. QED
    BY <1>1, <2>1 DEF RightSum, SumOf
<1>. QED
  BY <1>1, <1>2, <1>3, <1>4

\* The sum of a node is that over the leaves of both its children.
LEMMA SumOfNode ==
  ASSUME NEW a \in Seq(Nat), NEW b \in Seq(Nat)
  PROVE  SumOf(a \o b) = SumOf(a) + SumOf(b)
<1>. DEFINE n == Len(a)
            m == Len(b)
            N == n + m
            s == [k \in 1 .. n |-> Term(a[k])]
            t == [k \in 1 .. m |-> Term(b[k])]
            u == [k \in 1 .. n + m |-> Term((a \o b)[k])]
<1>1. /\ a \o b \in Seq(Nat) /\ Len(a \o b) = n + m
      /\ \A k \in 1 .. n + m : (a \o b)[k] = IF k <= n THEN a[k] ELSE b[k - n]
      /\ n \in Nat /\ m \in Nat
  BY ConcatProperties
<1>2. PICK f : IsSum(f, s, n) /\ SumOf(a) = f[n]
  BY SumOfIs
<1>3. PICK g : IsSum(g, t, m) /\ SumOf(b) = g[m]
  BY SumOfIs
<1>4. PICK h : IsSum(h, u, n + m) /\ SumOf(a \o b) = h[n + m]
  <2>1. \E h : /\ IsSum(h, [k \in 1 .. Len(a \o b) |-> Term((a \o b)[k])], Len(a \o b))
               /\ SumOf(a \o b) = h[Len(a \o b)]
    BY <1>1, SumOfIs
  <2>. QED
    BY <1>1, <2>1
<1>5. \A k \in 1 .. n : u[k] = s[k]
  BY <1>1
<1>6. \A k \in 1 .. m : u[n + k] = t[k]
  <2>1. ASSUME NEW k \in 1 .. m PROVE u[n + k] = t[k]
    <3>. HIDE DEF n, m
    <3>1. n + k \in 1 .. n + m /\ ~(n + k <= n) /\ (n + k) - n = k
      BY <1>1
    <3>2. (a \o b)[n + k] = b[k]
      BY <1>1, <3>1
    <3>. QED
      BY <3>1, <3>2
  <2>. QED
    BY <2>1
<1>7. AreAppended(u, s, n, t, m)
  BY <1>5, <1>6 DEF AreAppended
<1>8. N = n + m /\ n \in Nat /\ m \in Nat /\ IsSum(h, u, N)
  BY <1>1, <1>4
<1>. HIDE DEF n, m, s, t, u, N
<1>9. h[N] = f[n] + g[m]
  BY <1>2, <1>3, <1>7, <1>8, SumsAppend
<1>. QED
  BY <1>2, <1>3, <1>4, <1>9 DEF N

\* The sum over all places of the registry is that over the validators taken.
LEMMA SumOfState ==
  ASSUME Take \in 1 .. CircuitSize * L
  PROVE  StateLeaves \in Seq(Nat) /\ SumOf(StateLeaves) = RightSum
<1>. DEFINE N == CircuitSize * L
            n == Take
            m == N - n
            s == [k \in 1 .. n |-> Term(k)]
            t == [k \in 1 .. m |-> 0]
            g == [k \in 0 .. m |-> 0]
            u == [k \in 1 .. N |-> Term(StateLeaves[k])]
<1>1. N \in Nat
  <2>1. L \in Nat /\ CircuitSize \in Nat
    BY PowerOfTwo, BalanceAssumption DEF L
  <2>. QED
    BY <2>1
<1>. HIDE DEF N
<1>2. n \in Nat /\ m \in Nat /\ n + m = N
  BY <1>1 DEF N
<1>3. /\ StateLeaves \in Seq(Nat) /\ Len(StateLeaves) = N
      /\ \A k \in 1 .. N : StateLeaves[k] = IF k <= n THEN k ELSE 0
  BY <1>1 DEF StateLeaves, N
<1>4. PICK f : IsSum(f, s, n) /\ RightSum = f[n]
  BY <1>2, RightSumIs
<1>. HIDE DEF n, m
<1>5. IsSum(g, t, m)
  BY <1>2 DEF IsSum
<1>6. PICK h : IsSum(h, u, N) /\ SumOf(StateLeaves) = h[N]
  <2>1. \E h : /\ IsSum(h, [k \in 1 .. Len(StateLeaves) |-> Term(StateLeaves[k])], Len(StateLeaves))
               /\ SumOf(StateLeaves) = h[Len(StateLeaves)]
    BY <1>3, SumOfIs
  <2>. QED
    BY <1>3, <2>1
<1>7. \A k \in 1 .. n : u[k] = s[k]
  BY <1>2, <1>3
<1>8. \A k \in 1 .. m : u[n + k] = t[k]
  <2>1. ASSUME NEW k \in 1 .. m PROVE u[n + k] = t[k]
    <3>1. n + k \in 1 .. N /\ ~(n + k <= n)
      BY <1>2
    <3>2. StateLeaves[n + k] = 0
      BY <1>3, <3>1
    <3>3. Term(0) = 0
      BY BalanceAssumption DEF Term
    <3>. QED
      BY <3>1, <3>2, <3>3
  <2>. QED
    BY <2>1
<1>9. g[m] = 0
  BY <1>2
<1>. HIDE DEF s, t, u, g
<1>10. h[N] = f[n] + g[m]
  <2>1. AreAppended(u, s, n, t, m)
    BY <1>7, <1>8 DEF AreAppended
  <2>. QED
    BY <1>2, <1>4, <1>5, <1>6, <2>1, SumsAppend
<1>11. f[n] \in Nat
  BY <1>2, <1>4 DEF IsSum
<1>. QED
  BY <1>2, <1>3, <1>4, <1>6, <1>9, <1>10, <1>11

-----------------------------------------------------------------------------
(* The script's writes *)

\* The height of the tree.
LEMMA TreeSize == L \in Nat \ {0} /\ Top \in Nat \ {0} /\ CircuitSize \in Nat \ {0}
  BY PowerOfTwo, BalanceAssumption DEF L

\* There are no more groups than places for them.
LEMMA GroupsFit ==
  ASSUME Take \in 1 .. CircuitSize * L
  PROVE  Groups \in 0 .. L
<1>. DEFINE c == CircuitSize
            x == Take + c - 1
<1>1. c \in Nat \ {0} /\ L \in Nat /\ c * L = L * c /\ L * c \in Nat
  BY TreeSize
<1>2. Take \in Nat /\ Take <= L * c
  BY <1>1
<1>3. (L + 1) * c = L * c + c
  BY <1>1
<1>. HIDE DEF c
<1>4. x \in Nat /\ x < (L + 1) * c
  BY <1>1, <1>2, <1>3
<1>. DEFINE k == L + 1
<1>5. k \in Nat /\ x < k * c
  BY <1>1, <1>4
<1>. HIDE DEF x, k
<1>6. x \div c \in Nat /\ x \div c < k
  BY <1>1, <1>4, <1>5, Div, DivLess
<1>7. Groups = x \div c
  BY DEF Groups, x, c
<1>. HIDE DEF c
<1>. DEFINE q == x \div c
<1>8. q \in Nat /\ q < L + 1
  BY <1>6 DEF k
<1>. HIDE DEF q
<1>. QED
  BY <1>1, <1>7, <1>8 DEF q

\* A group's node on a level, and that its children are in the tree.
LEMMA InnerJobIsJob ==
  ASSUME Take \in 1 .. CircuitSize * L, NEW g \in 0 .. Groups - 1, NEW level \in 1 .. Top
  PROVE  /\ InnerJob(g, level) \in Job
         /\ InnerJob(g, level).level = level
         /\ InnerJob(g, level).first \in 0 .. Groups - 1
         /\ InnerJob(g, level).first # L
         /\ InnerJob(g, level).first % 2 ^ (level - 1) = 0
<1>. DEFINE b == 2 ^ (level - 1)
            p == 2 ^ level
            f == g - (g % p)
<1>1. level - 1 \in Nat /\ level \in Nat /\ level <= Top /\ (level - 1) + 1 = level
  BY TreeSize
<1>2. b \in Nat \ {0} /\ p = 2 * b
  BY <1>1, PowerOfTwo
<1>3. Groups \in 0 .. L /\ L \in Nat
  BY GroupsFit, TreeSize
<1>4. g \in 0 .. 2 ^ Top - 1 /\ g \in Nat
  BY <1>3 DEF L
<1>5. f \in 0 .. g /\ f + p <= L
  BY <1>1, <1>4, TreeSize, SubtreeFits DEF L
<1>6. f % b = 0
  <2>. DEFINE q == g \div p
  <2>. HIDE DEF p
  <2>1. p \in Nat \ {0}
    BY <1>2
  <2>2. q \in Nat /\ g % p \in 0 .. p - 1 /\ g = q * p + (g % p)
    BY <1>4, <2>1, Div
  <2>. HIDE DEF q, b
  <2>3. q * p = (2 * q) * b
    BY <1>2, <2>2
  <2>4. q * p \in Nat
    BY <2>1, <2>2
  <2>5. f = q * p
    BY <1>4, <2>2, <2>4
  <2>. HIDE DEF f
  <2>6. f = (2 * q) * b
    BY <2>3, <2>5
  <2>7. 2 * q \in Nat
    BY <2>2
  <2>8. ((2 * q) * b) % b = 0
    BY <1>2, <2>7, NoRemainder
  <2>. QED
    BY <2>6, <2>8
<1>7. InnerJob(g, level) = [level |-> level, first |-> f, second |-> f + b]
  BY DEF InnerJob
<1>. HIDE DEF f, p, b
<1>8. f \in Index /\ f + b \in Index /\ f \in 0 .. Groups - 1 /\ f # L
  BY <1>2, <1>3, <1>4, <1>5 DEF Index
<1>9. level \in 0 .. Top + 1
  BY <1>1, TreeSize
<1>. QED
  BY <1>6, <1>7, <1>8, <1>9 DEF Job, b

\* The fields of a write.
LEMMA WritesAreOps ==
  ASSUME NEW at \in Place, NEW job \in Job
  PROVE  /\ AddOp(at, job) \in Op /\ AddOp(at, job).do = "add" /\ AddOp(at, job).job = job
         /\ MarkOp(at, job) \in Op /\ MarkOp(at, job).do = "mark" /\ MarkOp(at, job).job = job
         /\ AddOp(at, job).at = at /\ MarkOp(at, job).at = at
  BY DEF AddOp, MarkOp, Op

\* Those that save inputs.
LEMMA InputIsOp ==
  ASSUME NEW at \in Place, NEW groups \in SUBSET Index
  PROVE  /\ InputOp(at, groups) \in Op /\ InputOp(at, groups).do = "input"
         /\ InputOp(at, groups).at = at
  BY DEF InputOp, Op

\* What the script has to do from its start: every job is added once, and the
\* proof that a placeholder stands for is that of a job.
LEMMA ScriptOpsRight ==
  ASSUME Take \in 1 .. CircuitSize * L
  PROVE  /\ OpsRight(ScriptOps)
         /\ \A op \in ScriptOps : op.do = "mark" =>
              Placeholder(op.job) \in {Target(job) : job \in Pending(ScriptOps)}
<1>. DEFINE i == InputOp(<<0, 0, 0, 0>>, {L})
            z == AddOp(<<0, 1, 0, 0>>, GroupJob(L))
            Z(l) == AddOp(<<0, 2, l, 0>>, ZeroJob(l))
            B == 0 .. Take \div (CircuitSize * BatchSize)
            I(b) == InputOp(<<1, b, 0, 0>>, {g \in 0 .. Groups - 1 : g \div BatchSize = b})
            G(g) == AddOp(<<2, g, 0, 0>>, GroupJob(g))
            M(job) == MarkOp(<<3, job.level, job.first, 0>>, job)
            A(job) == AddOp(<<3, job.level, job.first, 1>>, job)
            f == [at |-> <<4, 0, 0, 0>>, do |-> "final", groups |-> {}, job |-> NoJob]
<1>1. ScriptOps = {i, z} \cup {Z(l) : l \in 1 .. Top + 1} \cup {I(b) : b \in B}
                    \cup {G(g) : g \in 0 .. Groups - 1} \cup {M(job) : job \in Nodes}
                    \cup {A(job) : job \in Nodes} \cup {f}
  BY DEF ScriptOps, ZeroOps, BatchOps, BatchOp, NodeOps
<1>2. L \in Nat \ {0} /\ Top \in Nat \ {0} /\ Groups \in 0 .. L /\ Groups \in Nat
  BY TreeSize, GroupsFit
<1>3. ASSUME NEW g \in Index
      PROVE  /\ GroupJob(g) \in Job /\ GroupJob(g).level = 0
             /\ GroupJob(g).first = g
  <2>1. 0 \in 0 .. Top + 1
    BY <1>2
  <2>. QED
    BY <2>1 DEF GroupJob, Job
<1>4. L \in Index /\ \A g \in 0 .. Groups - 1 : g \in Index /\ g # L /\ g \in Nat
  BY <1>2 DEF Index
<1>5. i \in Op /\ i.do = "input" /\ i.at[1] \in {0, 1} /\ f \in Op /\ f.do = "final"
  <2>1. <<0, 0, 0, 0>> \in Place /\ <<4, 0, 0, 0>> \in Place
    BY DEF Place
  <2>2. i \in Op /\ i.do = "input" /\ i.at[1] \in {0, 1}
    BY <1>4, <2>1, InputIsOp
  <2>3. f \in Op /\ f.do = "final"
    BY <2>1 DEF Op
  <2>. QED
    BY <2>2, <2>3
<1>6. z \in Op /\ z.do = "add" /\ z.job \in Job /\ z.job.level = 0 /\ z.job.first = L
  <2>1. <<0, 1, 0, 0>> \in Place
    BY DEF Place
  <2>. QED
    BY <1>3, <1>4, <2>1, WritesAreOps
<1>7. ASSUME NEW l \in 1 .. Top + 1
      PROVE  /\ Z(l) \in Op /\ Z(l).do = "add" /\ Z(l).job \in Job
             /\ Z(l).job.level = l /\ l # 0 /\ Z(l).job.first = L
  <2>1. <<0, 2, l, 0>> \in Place /\ l \in 0 .. Top + 1 /\ l # 0
    BY <1>2 DEF Place
  <2>2. ZeroJob(l) \in Job /\ ZeroJob(l).level = l /\ ZeroJob(l).first = L
    BY <1>4, <2>1 DEF ZeroJob, Job
  <2>. QED
    BY <2>1, <2>2, WritesAreOps
<1>8. ASSUME NEW b \in B PROVE I(b) \in Op /\ I(b).do = "input" /\ I(b).at[1] \in {0, 1}
  <2>. DEFINE each == CircuitSize * BatchSize
              q == Take \div each
  <2>1. q \in Nat
    <3>1. each \in Nat \ {0} /\ Take \in Nat
      BY <1>2, BalanceAssumption
    <3>. HIDE DEF each
    <3>. QED
      BY <3>1, Div
  <2>2. <<1, b, 0, 0>> \in Place
    BY <2>1 DEF Place
  <2>3. {g \in 0 .. Groups - 1 : g \div BatchSize = b} \in SUBSET Index
    BY <1>4
  <2>. QED
    BY <2>2, <2>3, InputIsOp
<1>9. ASSUME NEW g \in 0 .. Groups - 1
      PROVE  /\ G(g) \in Op /\ G(g).do = "add" /\ G(g).job \in Job /\ G(g).job = GroupJob(g)
             /\ G(g).job.level = 0 /\ G(g).job.first = g /\ g # L
  <2>1. <<2, g, 0, 0>> \in Place
    BY <1>4 DEF Place
  <2>. QED
    BY <1>3, <1>4, <2>1, WritesAreOps
<1>10. ASSUME NEW job \in Nodes
       PROVE  /\ job \in Job /\ job.level \in 1 .. Top /\ job.level # 0
              /\ job.first \in 0 .. Groups - 1 /\ job.first # L
              /\ job.first % 2 ^ (job.level - 1) = 0
  <2>1. PICK level \in 1 .. Top, g \in 0 .. Groups - 1 : job = InnerJob(g, level)
    BY DEF Nodes
  <2>2. /\ job \in Job /\ job.level = level /\ job.first \in 0 .. Groups - 1 /\ job.first # L
        /\ job.first % 2 ^ (level - 1) = 0
    BY <2>1, InnerJobIsJob
  <2>. QED
    BY <2>2
<1>11. ASSUME NEW job \in Nodes
       PROVE  /\ M(job) \in Op /\ M(job).do = "mark" /\ M(job).job = job /\ M(job).at[1] = 3
              /\ A(job) \in Op /\ A(job).do = "add" /\ A(job).job = job
  <2>1. job.level \in Nat /\ job.first \in Nat
    BY <1>4, <1>10
  <2>2. /\ <<3, job.level, job.first, 0>> \in Place
        /\ <<3, job.level, job.first, 1>> \in Place
    BY <2>1 DEF Place
  <2>. QED
    BY <1>10, <2>2, WritesAreOps
<1>. HIDE DEF i, z, Z, B, I, G, M, A, f
<1>12. ScriptOps \subseteq Op
  BY <1>1, <1>5, <1>6, <1>7, <1>8, <1>9, <1>11
<1>13. /\ \A op \in ScriptOps : op.do = "add" => op.job \in Job
       /\ \A op \in ScriptOps : op.do = "mark" => op.job \in Nodes
  BY <1>1, <1>5, <1>6, <1>7, <1>8, <1>9, <1>10, <1>11
<1>14. ASSUME NEW a \in ScriptOps, NEW b \in ScriptOps,
              a.do = "add", b.do = "add", a.job = b.job
       PROVE  a = b
  <2>1. ASSUME NEW op \in ScriptOps, op.do = "add"
        PROVE  \/ op = z
               \/ op = Z(op.job.level) /\ op.job.first = L /\ op.job.level # 0
               \/ op = G(op.job.first) /\ op.job.first # L /\ op.job.level = 0
               \/ op = A(op.job) /\ op.job.first # L /\ op.job.level # 0
    BY <1>1, <1>5, <1>6, <1>7, <1>8, <1>9, <1>10, <1>11, <2>1
  <2>2. /\ \/ a = z
           \/ a = Z(a.job.level) /\ a.job.first = L /\ a.job.level # 0
           \/ a = G(a.job.first) /\ a.job.first # L /\ a.job.level = 0
           \/ a = A(a.job) /\ a.job.first # L /\ a.job.level # 0
        /\ \/ b = z
           \/ b = Z(b.job.level) /\ b.job.first = L /\ b.job.level # 0
           \/ b = G(b.job.first) /\ b.job.first # L /\ b.job.level = 0
           \/ b = A(b.job) /\ b.job.first # L /\ b.job.level # 0
    BY <1>14, <2>1
  <2>. QED
    BY <1>6, <1>14, <2>2
<1>15. \A op \in ScriptOps : op.do = "mark" => op.job \in Job /\ op.job.level \in 1 .. Top
  BY <1>10, <1>13
<1>16. OpsRight(ScriptOps)
  <2>1. \A op \in ScriptOps : op.do = "input" => op.at[1] \in {0, 1}
    BY <1>1, <1>5, <1>6, <1>7, <1>8, <1>9, <1>11
  <2>2. \A op \in ScriptOps : op.do = "mark" => op.at[1] = 3
    BY <1>1, <1>5, <1>6, <1>7, <1>8, <1>9, <1>11
  <2>. QED
    BY <1>12, <1>13, <1>14, <1>15, <2>1, <2>2 DEF OpsRight
<1>17. ASSUME NEW op \in ScriptOps, op.do = "mark"
       PROVE  Placeholder(op.job) \in {Target(job) : job \in Pending(ScriptOps)}
  <2>. DEFINE job == op.job
              g == job.first
              l == job.level
  <2>1. /\ job \in Nodes /\ l \in 1 .. Top /\ g \in 0 .. Groups - 1
        /\ g % 2 ^ (l - 1) = 0 /\ g \in Nat
    BY <1>4, <1>10, <1>13, <1>17
  <2>2. Placeholder(job) = <<l - 1, g>>
    BY DEF Placeholder
  <2>3. CASE l = 1
    <3>1. G(g) \in ScriptOps /\ G(g).do = "add" /\ G(g).job = GroupJob(g)
      BY <1>1, <1>9, <2>1
    <3>2. GroupJob(g) \in Pending(ScriptOps)
      BY <3>1 DEF Pending
    <3>3. Target(GroupJob(g)) = <<l - 1, g>>
      BY <2>3 DEF Target, GroupJob
    <3>. QED
      BY <2>2, <3>2, <3>3
  <2>4. CASE l # 1
    <3>. DEFINE below == InnerJob(g, l - 1)
    <3>1. l - 1 \in 1 .. Top
      BY <1>2, <2>1, <2>4
    <3>2. below \in Nodes
      <4>1. <<l - 1, g>> \in (1 .. Top) \X (0 .. Groups - 1)
        BY <2>1, <3>1
      <4>2. below = InnerJob(<<l - 1, g>>[2], <<l - 1, g>>[1])
        OBVIOUS
      <4>. QED
        BY <4>1, <4>2 DEF Nodes
    <3>3. Target(below) = <<l - 1, g>>
      <4>1. g - (g % 2 ^ (l - 1)) = g
        BY <2>1
      <4>. QED
        BY <4>1 DEF Target, InnerJob
    <3>. HIDE DEF below
    <3>4. below \in Pending(ScriptOps)
      <4>1. A(below) \in ScriptOps /\ A(below).do = "add" /\ A(below).job = below
        BY <1>1, <1>11, <3>2
      <4>. QED
        BY <4>1 DEF Pending
    <3>. QED
      BY <2>2, <3>3, <3>4
  <2>. QED
    BY <2>3, <2>4
<1>. QED
  BY <1>16, <1>17

\* The script makes a write: what is left stays right, and a job it adds was
\* not known before.
LEMMA NextWriteKeeps ==
  ASSUME NEW ops, OpsRight(ops), NEW op \in ops
  PROVE  /\ OpsRight(ops \ {op})
         /\ \A l \in 0 .. Top + 1 : KnownJob(ops, l) \subseteq KnownJob(ops \ {op}, l)
         /\ op.do = "add" =>
              /\ op.job.level \in 0 .. Top + 1
              /\ op.job \in KnownJob(ops \ {op}, op.job.level)
              /\ \A l \in 0 .. Top + 1 : op.job \notin KnownJob(ops, l)
<1>1. ops \subseteq Op /\ \A a, b \in ops : a.do = "add" /\ b.do = "add" /\ a.job = b.job => a = b
  BY DEF OpsRight
<1>2. OpsRight(ops \ {op})
  BY DEF OpsRight
<1>3. Pending(ops \ {op}) \subseteq Pending(ops)
  BY DEF Pending
<1>4. ASSUME op.do = "add"
      PROVE  /\ op.job.level \in 0 .. Top + 1
             /\ op.job \in KnownJob(ops \ {op}, op.job.level)
             /\ \A l \in 0 .. Top + 1 : op.job \notin KnownJob(ops, l)
  <2>1. op.job \in Job
    BY <1>4 DEF OpsRight
  <2>2. op.job \in Pending(ops)
    BY <1>4 DEF Pending
  <2>3. op.job \notin Pending(ops \ {op})
    BY <1>1, <1>4 DEF Pending
  <2>4. op.job.level \in 0 .. Top + 1
    BY <2>1 DEF Job
  <2>. QED
    BY <2>1, <2>2, <2>3, <2>4 DEF KnownJob
<1>. QED
  BY <1>2, <1>3, <1>4 DEF KnownJob

-----------------------------------------------------------------------------
(* Honest proofs *)

\* Where there is nothing, or a placeholder, no sum is claimed.
LEMMA NoProofIsHonest == NoProof \in HonestProof
<1>1. <<>> \in Seq(Nat) /\ Len(<<>>) = 0
  OBVIOUS
<1>2. SumOf(<<>>) = 0
  <2>. DEFINE e == <<>>
              n == Len(e)
  <2>1. e \in Seq(Nat) /\ n = 0
    BY <1>1
  <2>. HIDE DEF e
  <2>2. PICK f : IsSum(f, [k \in 1 .. n |-> Term(e[k])], n) /\ SumOf(e) = f[n]
    BY <2>1, SumOfIs
  <2>3. f[0] = 0
    BY <2>2 DEF IsSum
  <2>4. SumOf(e) = 0
    BY <2>1, <2>2, <2>3
  <2>. QED
    BY <2>4 DEF e
<1>. QED
  BY <1>1, <1>2 DEF NoProof, HonestProof, Proof

\* A sum over leaves is a natural number.
LEMMA SumIsNat ==
  ASSUME NEW leaves \in Seq(Nat)
  PROVE  SumOf(leaves) \in Nat
<1>. DEFINE n == Len(leaves)
<1>1. PICK f : IsSum(f, [k \in 1 .. n |-> Term(leaves[k])], n) /\ SumOf(leaves) = f[n]
  BY SumOfIs
<1>2. n \in Nat
  OBVIOUS
<1>. HIDE DEF n
<1>. QED
  BY <1>1, <1>2 DEF IsSum

\* The circuit of level 0 makes an honest proof, which is not empty.
LEMMA FirstLevelIsHonest ==
  ASSUME Take \in Nat, NEW g \in Index
  PROVE  FirstLevelProof(g) \in HonestProof /\ FirstLevelProof(g) # NoProof
<1>. DEFINE leaves == GroupLeaves(g)
<1>1. leaves \in Seq(Nat) /\ Len(leaves) = CircuitSize
  <2>. DEFINE c == CircuitSize
              m == g * c
  <2>1. g \in Nat /\ c \in Nat
    BY TreeSize DEF Index
  <2>2. m \in Nat
    BY <2>1
  <2>. HIDE DEF c, m
  <2>3. leaves = [n \in 1 .. c |-> IF g # L /\ m + n <= Take THEN m + n ELSE 0]
    BY DEF GroupLeaves, c, m
  <2>4. \A n \in 1 .. c : (IF g # L /\ m + n <= Take THEN m + n ELSE 0) \in Nat
    BY <2>1, <2>2
  <2>. HIDE DEF leaves
  <2>5. leaves \in [1 .. c -> Nat]
    BY <2>3, <2>4
  <2>6. leaves \in Seq(Nat) /\ Len(leaves) = c
    BY <2>1, <2>5
  <2>. QED
    BY <2>6 DEF c
<1>. HIDE DEF leaves
<1>2. SumOf(leaves) \in Nat
  BY <1>1, SumIsNat
<1>3. FirstLevelProof(g) = [leaves |-> leaves, sum |-> SumOf(leaves)]
  BY DEF FirstLevelProof, leaves
<1>4. leaves # <<>>
  BY <1>1, TreeSize
<1>. QED
  BY <1>1, <1>2, <1>3, <1>4 DEF HonestProof, Proof, NoProof

\* The circuit of an inner node makes an honest proof of two.
LEMMA InnerIsHonest ==
  ASSUME NEW a \in HonestProof, NEW b \in HonestProof, a # NoProof
  PROVE  InnerProof(a, b) \in HonestProof /\ InnerProof(a, b) # NoProof
<1>. DEFINE p == a.leaves
            q == b.leaves
            s == a.sum
            t == b.sum
<1>1. p \in Seq(Nat) /\ q \in Seq(Nat) /\ s = SumOf(p) /\ t = SumOf(q) /\ s \in Nat /\ t \in Nat
  BY DEF HonestProof, Proof
<1>2. p # <<>>
  <2>1. SUFFICES ASSUME p = <<>> PROVE FALSE
    OBVIOUS
  <2>2. SumOf(<<>>) = 0
    BY NoProofIsHonest DEF NoProof, HonestProof
  <2>3. a \in Proof /\ a.leaves = <<>> /\ a.sum = 0
    BY <1>1, <2>1, <2>2 DEF HonestProof
  <2>. QED
    BY <2>3 DEF NoProof, Proof
<1>3. InnerProof(a, b) = [leaves |-> p \o q, sum |-> s + t]
  BY DEF InnerProof
<1>. HIDE DEF p, q, s, t
<1>4. SumOf(p \o q) = s + t
  BY <1>1, SumOfNode
<1>5. p \o q \in Seq(Nat) /\ p \o q # <<>>
  <2>1. p \o q \in Seq(Nat) /\ Len(p \o q) = Len(p) + Len(q)
    BY <1>1, ConcatProperties
  <2>2. Len(p) \in Nat \ {0} /\ Len(q) \in Nat
    BY <1>1, <1>2
  <2>. QED
    BY <2>1, <2>2
<1>. DEFINE x == p \o q
<1>. HIDE DEF x
<1>6. InnerProof(a, b) = [leaves |-> x, sum |-> s + t] /\ x \in Seq(Nat) /\ x # <<>>
      /\ SumOf(x) = s + t
  BY <1>3, <1>4, <1>5 DEF x
<1>. QED
  BY <1>1, <1>6 DEF HonestProof, Proof, NoProof

-----------------------------------------------------------------------------
(* The values of the state *)

\* Nobody has changed the number of validators taken.
LEMMA SumStays ==
  ASSUME Take' = Take
  PROVE  RightSum' = RightSum
  BY DEF RightSum

\* What is spent of the bounds.
LEMMA Spending ==
  ASSUME NEW b, BudgetRight(b)
  PROVE  /\ b.crashes > 0 => BudgetRight([b EXCEPT !.crashes = @ - 1])
         /\ b.slow > 0 => BudgetRight([b EXCEPT !.slow = @ - 1])
         /\ [b EXCEPT !.crashes = @ - 1].take = b.take
         /\ [b EXCEPT !.slow = @ - 1].take = b.take
  BY DEF BudgetRight

\* A queue changes.
LEMMA QueuesKeep ==
  ASSUME NEW ops, NEW qs, QueuesRight(qs, ops), NEW l \in 0 .. Top + 1,
         NEW q \in WorkQueues(KnownJob(ops, l))
  PROVE  QueuesRight([qs EXCEPT ![l] = q], ops)
<1>1. KnownJob(ops, l) \subseteq Job
  BY DEF KnownJob
<1>. DEFINE K(k) == KnownJob(ops, k)
<1>2. \A k \in 0 .. Top + 1 : qs[k] \in WorkQueues(K(k))
  BY DEF QueuesRight
<1>. HIDE DEF K
<1>3. q \in WorkQueues(Job) /\ q \in WorkQueues(K(l))
  BY <1>1, QueueOverMore DEF K
<1>4. \A k \in 0 .. Top + 1 : [qs EXCEPT ![l] = q][k] \in WorkQueues(K(k))
  BY <1>2, <1>3 DEF QueuesRight
<1>. QED
  BY <1>3, <1>4 DEF QueuesRight, K

\* They may know more.
LEMMA QueuesKnowMore ==
  ASSUME NEW ops, NEW more, NEW qs, QueuesRight(qs, ops),
         \A l \in 0 .. Top + 1 : KnownJob(ops, l) \subseteq KnownJob(more, l)
  PROVE  QueuesRight(qs, more)
<1>1. ASSUME NEW l \in 0 .. Top + 1 PROVE qs[l] \in WorkQueues(KnownJob(more, l))
  <2>. DEFINE K == KnownJob(ops, l)
              M == KnownJob(more, l)
              q == qs[l]
  <2>1. K \subseteq M /\ q \in WorkQueues(K)
    BY DEF QueuesRight
  <2>. HIDE DEF K, M, q
  <2>2. q \in WorkQueues(M)
    BY <2>1, QueueOverMore
  <2>. QED
    BY <2>2 DEF M, q
<1>. QED
  BY <1>1 DEF QueuesRight

\* A worker that knows its job goes on knowing it.
LEMMA WorkerKnowsMore ==
  ASSUME NEW K, NEW M, K \subseteq M, NEW wk, NEW level, WorkerRight(wk, level, K)
  PROVE  WorkerRight(wk, level, M)
  BY DEF WorkerRight

\* An idle worker, or one that has ended, knows nothing it should not.
LEMMA IdleIsRight ==
  ASSUME NEW K, NEW level
  PROVE  /\ WorkerRight(Idle, level, K) /\ Idle \in WorkerState
         /\ WorkerRight(Ended, level, K) /\ Ended \in WorkerState
<1>1. Ended = [pc |-> "ended", job |-> NoJob, left |-> NoProof, right |-> NoProof]
  BY DEF Ended, Idle
<1>. QED
  BY <1>1, NoProofIsHonest DEF WorkerRight, Idle, WorkerState, HonestProof

\* The start of the script.
LEMMA InitIsRight == Init => IInv
<1>. SUFFICES ASSUME Init PROVE IInv
  OBVIOUS
<1>1. BudgetRight(budget)
  BY BalanceAssumption DEF Init, L, BudgetRight
<1>2. Take \in 1 .. CircuitSize * L
  BY <1>1 DEF BudgetRight, Take
<1>3. Values
  <2>1. proofs \in [Key -> HonestProof]
    BY NoProofIsHonest DEF Init
  <2>. QED
    BY <1>1, <2>1 DEF Init, Values
<1>4. todo = ScriptOps /\ queues = [l \in 0 .. Top + 1 |-> EmptyQueue]
      /\ worker = [w \in Worker |-> Idle]
  BY DEF Init
<1>5. OpsRight(todo)
  BY <1>2, <1>4, ScriptOpsRight
<1>6. QueuesRight(queues, todo)
  BY <1>4, EmptyQueueKeeps DEF QueuesRight
<1>7. /\ worker \in [Worker -> WorkerState]
      /\ \A w \in Worker : WorkerRight(worker[w], LevelOf[w], KnownJob(todo, LevelOf[w]))
  BY <1>4, IdleIsRight
<1>. QED
  BY <1>3, <1>5, <1>6, <1>7 DEF IInv, JobsRight

\* A placeholder stands for a proof of the tree.
LEMMA PlaceholderIsKey ==
  ASSUME NEW job \in Job, job.level \in 1 .. Top
  PROVE  Placeholder(job) \in Key
<1>1. job.level - 1 \in 0 .. Top /\ job.first \in Index
  BY TreeSize DEF Job
<1>. QED
  BY <1>1 DEF Placeholder, Key

\* The keys a worker reads and writes are keys.
LEMMA KeysOfJobs ==
  ASSUME NEW job \in Job, NEW level \in 0 .. Top, job.level = level
  PROVE  /\ Target(job) \in Key
         /\ level # 0 => /\ Found(level - 1, job.first) \in Key
                         /\ Found(level - 1, job.second) \in Key
<1>1. job.first \in Index /\ job.second \in Index /\ L \in Index
  BY TreeSize DEF Job, Index
<1>2. level # 0 => level - 1 \in 0 .. Top
  BY TreeSize
<1>. QED
  BY <1>1, <1>2 DEF Target, Found, Key

\* The script makes a write.
LEMMA ScriptStepIsRight ==
  ASSUME IInv, ScriptStep
  PROVE  IInv'
<1>1. PICK op \in todo :
        SaveInput(op) \/ InputFails(op) \/ MarkProof(op) \/ AddJob(op) \/ SaveFinalInput(op)
  BY DEF ScriptStep
<1>2. UNCHANGED <<budget, worker, final, hasty>>
  BY DEF ScriptStep
<1>. DEFINE K(l) == KnownJob(todo, l)
            M(l) == KnownJob(todo', l)
<1>3. /\ OpsRight(todo) /\ QueuesRight(queues, todo) /\ op \in Op
      /\ inputs \subseteq Index /\ failed \in BOOLEAN
      /\ proofs \in [Key -> HonestProof] /\ marked \subseteq Key /\ overwritten \subseteq Key
  BY DEF IInv, Values, JobsRight, OpsRight
<1>4. /\ OpsRight(todo')
      /\ \A l \in 0 .. Top + 1 : K(l) \subseteq M(l)
      /\ AddJob(op) => op.job.level \in 0 .. Top + 1 /\ op.job \in M(op.job.level)
  <2>1. CASE todo' = todo \ {op}
    BY <1>3, <2>1, NextWriteKeeps DEF AddJob
  <2>2. CASE InputFails(op)
    <3>1. todo' = {} /\ ~AddJob(op)
      BY <2>2 DEF InputFails, AddJob
    <3>. QED
      BY <3>1 DEF OpsRight, KnownJob, Pending
  <2>. QED
    BY <1>1, <2>1, <2>2 DEF SaveInput, MarkProof, AddJob, SaveFinalInput
<1>5. inputs' \subseteq Index /\ failed' \in BOOLEAN
  BY <1>1, <1>3 DEF SaveInput, InputFails, MarkProof, AddJob, SaveFinalInput, Op
<1>6. proofs' \in [Key -> HonestProof] /\ marked' \subseteq Key /\ overwritten' \subseteq Key
  <2>1. CASE MarkProof(op)
    <3>1. op.job \in Job /\ op.job.level \in 1 .. Top
      BY <1>3, <2>1 DEF MarkProof, OpsRight
    <3>2. Placeholder(op.job) \in Key
      BY <3>1, PlaceholderIsKey
    <3>. QED
      BY <1>3, <2>1, <3>2, NoProofIsHonest DEF MarkProof
  <2>2. CASE UNCHANGED <<proofs, marked, overwritten>>
    BY <1>3, <2>2
  <2>. QED
    BY <1>1, <2>1, <2>2 DEF SaveInput, InputFails, AddJob, SaveFinalInput
<1>7. Values'
  <2>1. RightSum' = RightSum
    BY <1>2, SumStays DEF Take
  <2>. QED
    BY <1>2, <1>5, <1>6, <2>1 DEF IInv, Values
<1>8. QueuesRight(queues', todo')
  <2>1. QueuesRight(queues, todo')
    BY <1>3, <1>4, QueuesKnowMore
  <2>2. CASE AddJob(op)
    <3>. DEFINE l == op.job.level
                q == queues[l]
    <3>1. /\ l \in 0 .. Top + 1 /\ op.job \in M(l)
          /\ queues' = [queues EXCEPT ![l] = AddItem(q, op.job)]
      BY <1>4, <2>2 DEF AddJob
    <3>2. q \in WorkQueues(M(l))
      BY <2>1, <3>1 DEF QueuesRight
    <3>. HIDE DEF M, q, l
    <3>3. AddItem(q, op.job) \in WorkQueues(M(l))
      BY <3>1, <3>2, AddItemKeeps
    <3>. QED
      BY <2>1, <3>1, <3>3, QueuesKeep DEF M
  <2>3. CASE UNCHANGED queues
    BY <2>1, <2>3
  <2>. QED
    BY <1>1, <2>2, <2>3 DEF SaveInput, InputFails, MarkProof, SaveFinalInput
<1>9. \A w \in Worker : WorkerRight(worker'[w], LevelOf[w], M(LevelOf[w]))
  <2>1. \A w \in Worker : WorkerRight(worker[w], LevelOf[w], K(LevelOf[w]))
    BY DEF IInv, JobsRight
  <2>2. \A w \in Worker : LevelOf[w] \in 0 .. Top + 1
    BY BalanceAssumption
  <2>. HIDE DEF K, M
  <2>. QED
    BY <1>2, <1>4, <2>1, <2>2, WorkerKnowsMore
<1>10. JobsRight'
  BY <1>2, <1>4, <1>8, <1>9 DEF IInv, JobsRight
<1>. QED
  BY <1>7, <1>10 DEF IInv

\* What a worker does leaves the script and the final proof alone.
LEMMA WorkerFrame ==
  ASSUME IInv, UNCHANGED <<todo, failed, inputs, final, overwritten>>,
         NEW w \in Worker, NEW wk \in WorkerState, worker' = [worker EXCEPT ![w] = wk],
         WorkerRight(wk, LevelOf[w], KnownJob(todo, LevelOf[w])),
         proofs' \in [Key -> HonestProof], marked' \subseteq Key, hasty' \in BOOLEAN,
         QueuesRight(queues', todo),
         BudgetRight(budget'), budget'.take = budget.take
  PROVE  IInv'
<1>1. RightSum' = RightSum
  BY SumStays DEF Take
<1>2. Values'
  BY <1>1 DEF IInv, Values
<1>3. \A v \in Worker : WorkerRight(worker'[v], LevelOf[v], KnownJob(todo, LevelOf[v]))
  BY DEF IInv, JobsRight
<1>4. JobsRight'
  BY <1>3 DEF IInv, JobsRight
<1>. QED
  BY <1>2, <1>4 DEF IInv

\* What a worker does.
LEMMA WorkerStepIsRight ==
  ASSUME IInv, NEW w \in Worker, Acts(w)
  PROVE  IInv'
<1>. DEFINE level == LevelOf[w]
            K == KnownJob(todo, level)
            wk == worker[w]
            q == queues[level]
<1>1. /\ wk \in WorkerState /\ WorkerRight(wk, level, K) /\ QueuesRight(queues, todo)
      /\ proofs \in [Key -> HonestProof] /\ marked \subseteq Key /\ hasty \in BOOLEAN
      /\ worker \in [Worker -> WorkerState] /\ BudgetRight(budget)
  BY DEF IInv, Values, JobsRight
<1>2. level \in 0 .. Top /\ level \in 0 .. Top + 1
  BY BalanceAssumption
<1>3. q \in WorkQueues(K)
  BY <1>1, <1>2 DEF QueuesRight
<1>4. \A job \in K : job \in Job /\ job.level = level
  BY DEF KnownJob
<1>5. wk.pc \notin {"idle", "ended"} => wk.job \in K /\ wk.job \in Job /\ wk.job.level = level
  BY <1>1, <1>4 DEF WorkerRight
<1>6. /\ WorkerRight(Idle, level, K) /\ Idle \in WorkerState
      /\ WorkerRight(Ended, level, K) /\ Ended \in WorkerState
  BY IdleIsRight
<1>7. HonestProof \subseteq Proof
  BY DEF HonestProof
<1>. HIDE DEF K
<1>8. CASE WorkerLease(w)
  <2>. DEFINE job == Head(q.main)
              pc == IF job \notin q.data THEN "complete"
                      ELSE IF job.level = 0 THEN "input" ELSE "first"
              new == [Idle EXCEPT !.job = job, !.pc = pc]
  <2>1. job \in K /\ Lease(q) \in WorkQueues(K)
    BY <1>3, <1>8, LeaseKeeps DEF WorkerLease, QueueOf
  <2>2. job \in Job /\ job.level = level
    BY <1>4, <2>1
  <2>3. new.job = job /\ new \in WorkerState /\ WorkerRight(new, level, K)
    <3>. HIDE DEF job, q
    <3>1. /\ pc \in {"complete", "input", "first"}
          /\ pc = "input" => level = 0
          /\ pc = "first" => level # 0
      BY <2>2
    <3>. HIDE DEF pc, level
    <3>2. new.pc = pc /\ new.job = job /\ new.left = NoProof /\ new.right = NoProof
      BY DEF Idle
    <3>3. NoProof \in HonestProof /\ NoProof \in Proof
      BY <1>7, NoProofIsHonest
    <3>4. new \in WorkerState
      BY <2>2, <3>1, <3>3 DEF Idle, WorkerState
    <3>. QED
      BY <2>1, <3>1, <3>2, <3>3, <3>4 DEF WorkerRight
  <2>4. worker' = [worker EXCEPT ![w] = new] /\ queues' = [queues EXCEPT ![level] = Lease(q)]
    BY <1>8 DEF WorkerLease, QueueOf
  <2>5. UNCHANGED <<budget, todo, failed, inputs, proofs, marked, final, history>>
    BY <1>8 DEF WorkerLease
  <2>. HIDE DEF new, pc, q
  <2>6. QueuesRight(queues', todo)
    BY <1>1, <1>2, <2>1, <2>4, QueuesKeep DEF K
  <2>. QED
    BY <1>1, <2>3, <2>4, <2>5, <2>6, WorkerFrame DEF K, history
<1>9. CASE FetchInput(w)
  <2>. DEFINE p == FirstLevelProof(wk.job.first)
              new == [wk EXCEPT !.left = p, !.pc = "save"]
  <2>1. wk.pc = "input" /\ wk.job \in K /\ wk.job.first \in Index
    BY <1>5, <1>9 DEF FetchInput, Job
  <2>2. Take \in Nat
    BY <1>1, TreeSize DEF BudgetRight, Take
  <2>3. p \in HonestProof /\ p # NoProof /\ p \in Proof
    BY <1>7, <2>1, <2>2, FirstLevelIsHonest
  <2>4. new \in WorkerState /\ WorkerRight(new, level, K)
    <3>. HIDE DEF p
    <3>. QED
      BY <1>1, <2>1, <2>3 DEF WorkerState, WorkerRight
  <2>5. worker' = [worker EXCEPT ![w] = new]
    BY <1>1, <1>9 DEF FetchInput
  <2>6. UNCHANGED <<budget, todo, failed, inputs, proofs, marked, queues, final, history>>
    BY <1>9 DEF FetchInput
  <2>. HIDE DEF new
  <2>. QED
    BY <1>1, <2>4, <2>5, <2>6, WorkerFrame DEF K, history
<1>10. CASE FetchFirst(w)
  <2>. DEFINE p == proofs[FirstKey(w)]
              new == [wk EXCEPT !.left = p, !.pc = "second"]
  <2>1. wk.pc = "first" /\ wk.job \in K /\ level # 0 /\ p # NoProof
    BY <1>1, <1>5, <1>10 DEF FetchFirst, WorkerRight
  <2>2. FirstKey(w) \in Key
    BY <1>2, <1>5, <2>1, KeysOfJobs DEF FirstKey
  <2>3. p \in HonestProof /\ p \in Proof
    BY <1>1, <1>7, <2>2
  <2>4. new \in WorkerState /\ WorkerRight(new, level, K)
    <3>. HIDE DEF p
    <3>. QED
      BY <1>1, <2>1, <2>3 DEF WorkerState, WorkerRight
  <2>5. worker' = [worker EXCEPT ![w] = new] /\ hasty' \in BOOLEAN
    BY <1>1, <1>10 DEF FetchFirst
  <2>6. UNCHANGED <<budget, todo, failed, inputs, proofs, marked, queues, final, overwritten>>
    BY <1>10 DEF FetchFirst
  <2>. HIDE DEF new
  <2>. QED
    BY <1>1, <2>4, <2>5, <2>6, WorkerFrame DEF K
<1>11. CASE FetchSecond(w)
  <2>. DEFINE p == proofs[SecondKey(w)]
              new == [wk EXCEPT !.right = p, !.pc = "save"]
  <2>1. wk.pc = "second" /\ wk.job \in K /\ level # 0
    BY <1>1, <1>5, <1>11 DEF FetchSecond, WorkerRight
  <2>2. SecondKey(w) \in Key
    BY <1>2, <1>5, <2>1, KeysOfJobs DEF SecondKey
  <2>3. p \in HonestProof /\ p \in Proof
    BY <1>1, <1>7, <2>2
  <2>4. new \in WorkerState /\ WorkerRight(new, level, K)
    <3>. HIDE DEF p
    <3>. QED
      BY <1>1, <2>1, <2>3 DEF WorkerState, WorkerRight
  <2>5. worker' = [worker EXCEPT ![w] = new] /\ hasty' \in BOOLEAN
    BY <1>1, <1>11 DEF FetchSecond
  <2>6. UNCHANGED <<budget, todo, failed, inputs, proofs, marked, queues, final, overwritten>>
    BY <1>11 DEF FetchSecond
  <2>. HIDE DEF new
  <2>. QED
    BY <1>1, <2>4, <2>5, <2>6, WorkerFrame DEF K
<1>12. CASE Save(w)
  <2>. DEFINE new == [wk EXCEPT !.pc = "complete"]
              p == IF level = 0 THEN wk.left ELSE InnerProof(wk.left, wk.right)
  <2>1. wk.pc = "save" /\ wk.job \in K /\ Target(wk.job) \in Key
    BY <1>2, <1>5, <1>12, KeysOfJobs DEF Save
  <2>2. wk.left \in HonestProof /\ wk.right \in HonestProof /\ wk.left # NoProof
    BY <1>1, <2>1 DEF WorkerRight
  <2>3. p \in HonestProof
    BY <2>2, InnerIsHonest
  <2>4. new \in WorkerState /\ WorkerRight(new, level, K)
    BY <1>1, <2>1 DEF WorkerState, WorkerRight
  <2>5. /\ worker' = [worker EXCEPT ![w] = new]
        /\ proofs' = [proofs EXCEPT ![Target(wk.job)] = p]
        /\ marked' = marked \ {Target(wk.job)}
    BY <1>1, <1>12 DEF Save
  <2>6. UNCHANGED <<budget, todo, failed, inputs, queues, final, history>>
    BY <1>12 DEF Save
  <2>. HIDE DEF new, p
  <2>7. proofs' \in [Key -> HonestProof] /\ marked' \subseteq Key
    BY <1>1, <2>1, <2>3, <2>5
  <2>. QED
    BY <1>1, <2>4, <2>5, <2>6, <2>7, WorkerFrame DEF K, history
<1>13. CASE WorkerComplete(w)
  <2>1. Complete(q, wk.job) \in WorkQueues(K)
    BY <1>3, CompleteKeeps
  <2>2. /\ worker' = [worker EXCEPT ![w] = Idle]
        /\ queues' = [queues EXCEPT ![level] = Complete(q, wk.job)]
    BY <1>13 DEF WorkerComplete
  <2>3. UNCHANGED <<budget, todo, failed, inputs, proofs, marked, final, history>>
    BY <1>13 DEF WorkerComplete
  <2>4. QueuesRight(queues', todo)
    BY <1>1, <1>2, <2>1, <2>2, QueuesKeep DEF K
  <2>. QED
    BY <1>1, <1>6, <2>2, <2>3, <2>4, WorkerFrame DEF K, history
<1>14. CASE GiveUp(w) \/ Panic(w) \/ Start(w) \/ Stop(w)
  <2>1. PICK rest \in {Idle, Ended} : worker' = [worker EXCEPT ![w] = rest]
    BY <1>14 DEF GiveUp, Panic, Start, Stop
  <2>2. UNCHANGED <<budget, todo, failed, inputs, proofs, marked, queues, final, history>>
    BY <1>14 DEF GiveUp, Panic, Start, Stop
  <2>. QED
    BY <1>1, <1>6, <2>1, <2>2, WorkerFrame DEF K, history
<1>15. CASE Crash(w)
  <2>1. worker' = [worker EXCEPT ![w] = Ended]
    BY <1>15 DEF Crash
  <2>2. UNCHANGED <<todo, failed, inputs, proofs, marked, queues, final, history>>
    BY <1>15 DEF Crash
  <2>3. BudgetRight(budget') /\ budget'.take = budget.take
    BY <1>1, <1>15, Spending DEF Crash
  <2>. QED
    BY <1>1, <1>6, <2>1, <2>2, <2>3, WorkerFrame DEF K, history
<1>. QED
  BY <1>8, <1>9, <1>10, <1>11, <1>12, <1>13, <1>14, <1>15 DEF Acts, WorkerStep

\* A lease ends, and the cleaner puts a job back.
LEMMA LeasesAndCleanerAreRight ==
  ASSUME IInv, NEW l \in 0 .. Top + 1, LeaseExpires(l) \/ Clean(l)
  PROVE  IInv' /\ \A k \in 0 .. Top + 1 : queues'[k].data = queues[k].data
<1>. DEFINE K == KnownJob(todo, l)
            q == queues[l]
<1>1. QueuesRight(queues, todo) /\ q \in WorkQueues(K) /\ BudgetRight(budget)
  BY DEF IInv, JobsRight, Values, QueuesRight
<1>2. UNCHANGED <<todo, failed, inputs, proofs, marked, worker, final, history>>
  BY DEF LeaseExpires, Clean
<1>3. PICK new :
        /\ queues' = [queues EXCEPT ![l] = new]
        /\ new = Expire(q) \/ (new = PutBack(q) /\ CanPutBack(q))
  BY DEF LeaseExpires, Clean
<1>. HIDE DEF K, q
<1>4. new \in WorkQueues(K) /\ new.data = q.data
  BY <1>1, <1>3, ExpireKeeps, PutBackKeeps
<1>5. QueuesRight(queues', todo)
  BY <1>1, <1>3, <1>4, QueuesKeep DEF K
<1>6. BudgetRight(budget') /\ budget'.take = budget.take
  BY <1>1, Spending DEF LeaseExpires, Clean
<1>7. RightSum' = RightSum
  BY <1>6, SumStays DEF Take
<1>8. Values'
  BY <1>2, <1>6, <1>7 DEF IInv, Values, history
<1>9. JobsRight'
  BY <1>2, <1>5 DEF IInv, JobsRight
<1>10. \A k \in 0 .. Top + 1 : queues'[k].data = queues[k].data
  BY <1>1, <1>3, <1>4 DEF q, QueuesRight
<1>. QED
  BY <1>8, <1>9, <1>10 DEF IInv

\* The final layer takes a proof of the validators of the state, whose sum is
\* the right one as the proof is honest.
LEMMA FinalLayerIsRight ==
  ASSUME IInv, FinalLayer
  PROVE  IInv'
<1>. DEFINE key == Found(Top, 0)
<1>1. /\ proofs[key].leaves = StateLeaves /\ final' = proofs[key].sum
      /\ UNCHANGED <<budget, todo, failed, inputs, proofs, marked, queues, worker, history>>
  BY DEF FinalLayer, FinalAccepts
<1>2. key \in Key
  <2>1. Top \in 0 .. Top /\ 0 \in Index /\ L \in Index
    BY TreeSize DEF Index
  <2>. QED
    BY <2>1 DEF Found, Key
<1>. HIDE DEF key
<1>3. proofs[key].sum = SumOf(StateLeaves)
  BY <1>1, <1>2 DEF IInv, Values, HonestProof
<1>4. SumOf(StateLeaves) = RightSum
  BY SumOfState DEF IInv, Values, BudgetRight, Take
<1>5. RightSum' = RightSum
  BY <1>1, SumStays DEF Take
<1>6. final' = RightSum'
  BY <1>1, <1>3, <1>4, <1>5
<1>7. Values'
  BY <1>1, <1>6 DEF IInv, Values, history
<1>8. JobsRight'
  BY <1>1 DEF IInv, JobsRight
<1>. QED
  BY <1>7, <1>8 DEF IInv

\* The inductive invariant holds.
THEOREM InvariantHolds == Spec => []IInv
<1>1. ASSUME IInv, [Next]_vars PROVE IInv'
  <2>1. CASE ScriptStep
    BY <1>1, <2>1, ScriptStepIsRight
  <2>2. CASE \E w \in Worker : Acts(w)
    BY <1>1, <2>2, WorkerStepIsRight
  <2>3. CASE \E l \in 0 .. Top + 1 : LeaseExpires(l) \/ Clean(l)
    BY <1>1, <2>3, LeasesAndCleanerAreRight
  <2>4. CASE FinalLayer
    BY <1>1, <2>4, FinalLayerIsRight
  <2>5. CASE UNCHANGED vars
    <3>1. RightSum' = RightSum
      BY <2>5, SumStays DEF vars, Take
    <3>2. Values'
      BY <1>1, <2>5, <3>1 DEF vars, IInv, Values, history
    <3>3. JobsRight'
      BY <1>1, <2>5 DEF vars, IInv, JobsRight
    <3>. QED
      BY <3>2, <3>3 DEF IInv
  <2>. QED
    BY <1>1, <2>1, <2>2, <2>3, <2>4, <2>5 DEF Next, Acts
<1>. QED
  BY InitIsRight, <1>1, PTL DEF Spec

\* Everything keeps to its values: no key, job or group is outside the tree,
\* also of the level above the root that the zero tasks have a queue for.
THEOREM TypeCorrect == Spec => []TypeOK
<1>1. ASSUME IInv PROVE TypeOK
  <2>1. budget \in [take : Nat, crashes : Nat, slow : Nat, stops : BOOLEAN]
    BY <1>1, TreeSize DEF IInv, Values, BudgetRight
  <2>2. proofs \in [Key -> Proof]
    BY <1>1 DEF IInv, Values, HonestProof
  <2>3. final \in Int
    <3>1. Take \in Nat /\ StateLeaves \in Seq(Nat) /\ SumOf(StateLeaves) = RightSum
      BY <1>1, TreeSize, SumOfState DEF IInv, Values, BudgetRight, Take
    <3>2. RightSum \in Nat
      BY <3>1, SumIsNat
    <3>. QED
      BY <1>1, <3>2 DEF IInv, Values
  <2>4. queues \in [0 .. Top + 1 -> WorkQueues(Job)] /\ worker \in [Worker -> WorkerState]
    BY <1>1 DEF IInv, JobsRight, QueuesRight
  <2>5. todo \subseteq Op
    BY <1>1 DEF IInv, JobsRight, OpsRight
  <2>. QED
    BY <1>1, <2>1, <2>2, <2>3, <2>4, <2>5 DEF TypeOK, IInv, Values
<1>. QED
  BY <1>1, InvariantHolds, PTL

\* A final proof states the sum over all active validators with the
\* credentials of the state taken, whatever workers raced for, crashed at or
\* did twice: every proof in Redis states the sum over its leaves, and
\* build_final_circuit accepts one only with the leaves of the state.
THEOREM SumIsRight == Spec => []FinalProofIsRight
<1>1. IInv => FinalProofIsRight
  BY DEF IInv, Values, FinalProofIsRight
<1>. QED
  BY <1>1, InvariantHolds, PTL

-----------------------------------------------------------------------------
(* Placeholders *)

\* The script's writes keep what a placeholder stands for expected: the jobs
\* of the level below are added before, or their proofs are there.
LEMMA ScriptStepExpects ==
  ASSUME IInv, ChildrenAreExpected, ScriptStep
  PROVE  ChildrenAreExpected'
<1>1. PICK op \in todo :
        /\ IsNext(op, todo)
        /\ SaveInput(op) \/ InputFails(op) \/ MarkProof(op) \/ AddJob(op) \/ SaveFinalInput(op)
  BY DEF ScriptStep
<1>2. UNCHANGED <<budget, worker, final, hasty>>
  BY DEF ScriptStep
<1>3. OpsRight(todo) /\ QueuesRight(queues, todo) /\ proofs \in [Key -> HonestProof]
  BY DEF IInv, JobsRight, Values
<1>4. CASE InputFails(op)
  <2>1. marked = {} /\ marked' = {} /\ todo' = {}
    BY <1>4 DEF InputFails, ChildrenAreExpected
  <2>. QED
    BY <2>1 DEF ChildrenAreExpected
<1>5. SUFFICES ASSUME ~InputFails(op) PROVE ChildrenAreExpected'
  BY <1>4
<1>6. todo' = todo \ {op} /\ overwritten \subseteq overwritten'
  BY <1>1, <1>5 DEF SaveInput, MarkProof, AddJob, SaveFinalInput
<1>8. /\ \A key \in marked : IsAwaited(key)
      /\ \A m \in todo : m.do = "mark" =>
           IsAwaited(Placeholder(m.job)) \/ proofs[Placeholder(m.job)] # NoProof
  BY DEF ChildrenAreExpected
<1>9. ASSUME NEW job \in Pending(todo)
      PROVE  \/ job \in Pending(todo')
             \/ /\ job \in queues'[job.level].data
                /\ \A w \in Worker : ~(worker'[w].pc = "complete" /\ worker'[w].job = job)
  <2>1. PICK a \in todo : a.do = "add" /\ a.job = job
    BY DEF Pending
  <2>2. CASE a # op
    BY <1>6, <2>1, <2>2 DEF Pending
  <2>3. CASE a = op
    <3>. DEFINE l == job.level
    <3>1. AddJob(op) /\ op.job = job
      BY <1>1, <1>5, <2>1, <2>3 DEF SaveInput, MarkProof, SaveFinalInput
    <3>2. l \in 0 .. Top + 1 /\ \A k \in 0 .. Top + 1 : job \notin KnownJob(todo, k)
      BY <1>3, <2>1, <2>3, NextWriteKeeps
    <3>3. job \in queues'[l].data
      <4>1. queues[l] \in WorkQueues(Job)
        BY <1>3, <3>2 DEF QueuesRight
      <4>2. AddItem(queues[l], job).data = queues[l].data \cup {job}
        BY <4>1 DEF AddItem, WorkQueues
      <4>3. queues' = [queues EXCEPT ![l] = AddItem(queues[l], job)]
        BY <3>1 DEF AddJob
      <4>. QED
        BY <1>3, <3>2, <4>2, <4>3 DEF QueuesRight
    <3>4. ASSUME NEW w \in Worker PROVE ~(worker'[w].pc = "complete" /\ worker'[w].job = job)
      <4>1. worker[w].pc \notin {"idle", "ended"} =>
              worker[w].job \in KnownJob(todo, LevelOf[w])
        BY DEF IInv, JobsRight, WorkerRight
      <4>2. LevelOf[w] \in 0 .. Top + 1
        BY BalanceAssumption
      <4>. QED
        BY <1>2, <3>2, <4>1, <4>2
    <3>. QED
      BY <3>3, <3>4
  <2>. QED
    BY <2>2, <2>3
<1>10. ASSUME NEW key, key[1] \in 0 .. Top + 1
       PROVE  \A job \in queues[key[1]].data : job \in queues'[key[1]].data
  <2>1. CASE AddJob(op)
    <3>. DEFINE l == op.job.level
                k == key[1]
    <3>1. l \in 0 .. Top + 1
      BY <1>3, <2>1, NextWriteKeeps DEF AddJob
    <3>2. queues[l] \in WorkQueues(Job)
      BY <1>3, <3>1 DEF QueuesRight
    <3>3. AddItem(queues[l], op.job).data = queues[l].data \cup {op.job}
      BY <3>2 DEF AddItem, WorkQueues
    <3>4. queues' = [queues EXCEPT ![l] = AddItem(queues[l], op.job)]
      BY <2>1 DEF AddJob
    <3>5. k \in 0 .. Top + 1
      BY <1>10
    <3>. HIDE DEF k, l
    <3>6. \A job \in queues[k].data : job \in queues'[k].data
      BY <1>3, <3>1, <3>3, <3>4, <3>5 DEF QueuesRight
    <3>. QED
      BY <3>6 DEF k
  <2>2. CASE UNCHANGED queues
    BY <2>2
  <2>. QED
    BY <1>1, <2>1, <2>2 DEF SaveInput, InputFails, MarkProof, SaveFinalInput
<1>11. ASSUME NEW key \in Key, IsExpected(key) PROVE IsExpected(key)'
  <2>1. CASE key \in {Target(job) : job \in Pending(todo)}
    <3>1. PICK job \in Pending(todo) : key = Target(job)
      BY <2>1
    <3>2. key[1] = job.level
      BY <3>1 DEF Target
    <3>. QED
      BY <1>9, <3>1, <3>2 DEF IsExpected
  <2>2. CASE \E job \in queues[key[1]].data :
               /\ Target(job) = key
               /\ \A w \in Worker : ~(worker[w].pc = "complete" /\ worker[w].job = job)
    <3>1. key[1] \in 0 .. Top + 1
      BY TreeSize DEF Key
    <3>. QED
      BY <1>2, <1>10, <2>2, <3>1 DEF IsExpected
  <2>. QED
    BY <1>11, <2>1, <2>2 DEF IsExpected
<1>12. \A key \in Key : IsAwaited(key) => IsAwaited(key)'
  BY <1>6, <1>11 DEF IsAwaited
<1>13. ASSUME NEW m \in todo, m.do = "mark" PROVE Placeholder(m.job) \in Key
  <2>1. m.job \in Job /\ m.job.level \in 1 .. Top
    BY <1>3, <1>13 DEF OpsRight
  <2>. QED
    BY <2>1, PlaceholderIsKey
<1>14. marked \subseteq Key
  BY DEF IInv, Values
<1>15. CASE MarkProof(op)
  <2>. DEFINE new == Placeholder(op.job)
  <2>1. /\ op.do = "mark" /\ new \in Key
        /\ proofs' = [proofs EXCEPT ![new] = NoProof] /\ marked' = marked \cup {new}
        /\ proofs[new] # NoProof => new \in overwritten'
    BY <1>13, <1>15 DEF MarkProof
  <2>2. IsAwaited(new)'
    <3>1. IsAwaited(new) \/ new \in overwritten'
      BY <1>8, <2>1
    <3>. HIDE DEF new
    <3>. QED
      BY <1>12, <2>1, <3>1 DEF IsAwaited
  <2>3. ASSUME NEW i \in todo, i.do = "input" PROVE FALSE
    <3>1. i.at[1] \in {0, 1} /\ op.at[1] = 3 /\ i # op
      BY <1>3, <2>1, <2>3 DEF OpsRight
    <3>2. PICK n \in 1 .. 4 : op.at[n] < i.at[n] /\ \A m \in 1 .. n - 1 : op.at[m] = i.at[m]
      BY <1>1, <3>1 DEF IsNext, Precedes
    <3>3. n # 1 => 1 \in 1 .. n - 1
      OBVIOUS
    <3>. QED
      BY <3>1, <3>2, <3>3
  <2>. HIDE DEF new
  <2>4. \A key \in marked' : IsAwaited(key)'
    BY <1>8, <1>12, <1>14, <2>1, <2>2
  <2>5. ASSUME NEW m \in todo', m.do = "mark"
        PROVE  IsAwaited(Placeholder(m.job))' \/ proofs'[Placeholder(m.job)] # NoProof
    <3>. DEFINE key == Placeholder(m.job)
    <3>1. m \in todo /\ key \in Key
      BY <1>6, <1>13, <2>5
    <3>2. IsAwaited(key) \/ proofs[key] # NoProof
      BY <1>8, <2>5, <3>1
    <3>. HIDE DEF key
    <3>3. IsAwaited(key)' \/ proofs'[key] # NoProof
      <4>1. CASE key = new
        BY <2>2, <4>1
      <4>2. CASE key # new
        BY <1>3, <1>12, <2>1, <3>1, <3>2, <4>2
      <4>. QED
        BY <4>1, <4>2
    <3>. QED
      BY <3>3 DEF key
  <2>6. ~\E i \in todo' : i.do = "input"
    BY <1>6, <2>3
  <2>. QED
    BY <2>4, <2>5, <2>6 DEF ChildrenAreExpected
<1>16. CASE UNCHANGED <<proofs, marked>>
  <2>1. \A key \in marked' : IsAwaited(key)'
    BY <1>8, <1>12, <1>14, <1>16
  <2>2. ASSUME NEW m \in todo', m.do = "mark"
        PROVE  IsAwaited(Placeholder(m.job))' \/ proofs'[Placeholder(m.job)] # NoProof
    <3>. DEFINE key == Placeholder(m.job)
    <3>1. m \in todo /\ key \in Key
      BY <1>6, <1>13, <2>2
    <3>2. IsAwaited(key) \/ proofs[key] # NoProof
      BY <1>8, <2>2, <3>1
    <3>. HIDE DEF key
    <3>3. IsAwaited(key)' \/ proofs'[key] # NoProof
      BY <1>12, <1>16, <3>1, <3>2
    <3>. QED
      BY <3>3 DEF key
  <2>3. (\E i \in todo' : i.do = "input") => marked' = {}
    BY <1>6, <1>16 DEF ChildrenAreExpected
  <2>. QED
    BY <2>1, <2>2, <2>3 DEF ChildrenAreExpected
<1>. QED
  BY <1>1, <1>5, <1>15, <1>16 DEF SaveInput, AddJob, SaveFinalInput

\* The workers keep it: whoever deletes a job has saved its proof.
LEMMA WorkerStepExpects ==
  ASSUME IInv, ChildrenAreExpected, NEW w \in Worker, Acts(w)
  PROVE  ChildrenAreExpected'
<1>. DEFINE level == LevelOf[w]
            wk == worker[w]
            q == queues[level]
<1>1. /\ QueuesRight(queues, todo) /\ worker \in [Worker -> WorkerState] /\ wk \in WorkerState
      /\ proofs \in [Key -> HonestProof] /\ marked \subseteq Key
  BY DEF IInv, JobsRight, Values
<1>2. level \in 0 .. Top /\ level \in 0 .. Top + 1
  BY BalanceAssumption
<1>3. q \in WorkQueues(KnownJob(todo, level))
  BY <1>1, <1>2 DEF QueuesRight
<1>4. UNCHANGED <<todo, failed, overwritten>>
  BY DEF Acts, WorkerStep, WorkerLease, FetchInput, FetchFirst, FetchSecond, GiveUp, Panic, Save,
         WorkerComplete, Crash, Start, Stop, history
<1>5. marked' \subseteq marked
  BY DEF Acts, WorkerStep, WorkerLease, FetchInput, FetchFirst, FetchSecond, GiveUp, Panic, Save,
         WorkerComplete, Crash, Start, Stop, history
<1>6. /\ \A key \in marked : IsAwaited(key)
      /\ \A m \in todo : m.do = "mark" =>
           IsAwaited(Placeholder(m.job)) \/ proofs[Placeholder(m.job)] # NoProof
      /\ (\E m \in todo : m.do = "input") => marked = {}
  BY DEF ChildrenAreExpected
<1>7. ASSUME NEW key \in Key, IsExpected(key), Save(w) => key # Target(wk.job)
      PROVE  IsExpected(key)'
  <2>1. CASE key \in {Target(job) : job \in Pending(todo)}
    BY <1>4, <2>1 DEF IsExpected
  <2>2. CASE \E job \in queues[key[1]].data :
               /\ Target(job) = key
               /\ \A v \in Worker : ~(worker[v].pc = "complete" /\ worker[v].job = job)
    <3>1. PICK job \in queues[key[1]].data :
            /\ Target(job) = key
            /\ \A v \in Worker : ~(worker[v].pc = "complete" /\ worker[v].job = job)
      BY <2>2
    <3>. DEFINE k == key[1]
    <3>2. k \in 0 .. Top + 1 /\ job \in queues[k].data
      BY <3>1, TreeSize DEF Key
    <3>. HIDE DEF k
    <3>3. job \in queues'[k].data /\ ~(worker'[w].pc = "complete" /\ worker'[w].job = job)
      <4>1. CASE WorkerLease(w)
        <5>. DEFINE leased == Head(q.main)
                    pc == IF leased \notin q.data THEN "complete"
                            ELSE IF leased.level = 0 THEN "input" ELSE "first"
        <5>1. /\ queues' = [queues EXCEPT ![level] = Lease(q)] /\ Lease(q).data = q.data
              /\ leased \in KnownJob(todo, level)
          BY <1>3, <4>1, LeaseKeeps DEF WorkerLease, QueueOf
        <5>2. queues'[k].data = queues[k].data
          BY <1>1, <3>2, <5>1 DEF QueuesRight
        <5>3. worker'[w] = [Idle EXCEPT !.job = leased, !.pc = pc]
          BY <1>1, <4>1 DEF WorkerLease, QueueOf
        <5>. HIDE DEF q
        <5>4. leased \in q.data => pc # "complete"
          OBVIOUS
        <5>. HIDE DEF leased, pc
        <5>5. worker'[w].job = leased /\ worker'[w].pc = pc
          BY <5>3 DEF Idle
        <5>6. leased = job => k = level
          BY <3>1, <5>1 DEF Target, KnownJob, k
        <5>. QED
          BY <3>2, <5>2, <5>4, <5>5, <5>6 DEF q
      <4>2. CASE Save(w)
        <5>1. worker'[w].job = wk.job /\ queues' = queues
          BY <1>1, <4>2 DEF Save, WorkerState
        <5>. QED
          BY <1>7, <3>1, <3>2, <4>2, <5>1
      <4>3. CASE WorkerComplete(w)
        <5>1. Complete(q, wk.job).data = q.data \ {wk.job}
          BY <1>3, CompleteKeeps
        <5>2. queues' = [queues EXCEPT ![level] = Complete(q, wk.job)] /\ wk.pc = "complete"
          BY <4>3 DEF WorkerComplete
        <5>3. job # wk.job
          BY <3>1, <5>2
        <5>4. job \in queues'[k].data
          BY <1>1, <1>2, <3>2, <5>1, <5>2, <5>3 DEF QueuesRight
        <5>5. worker'[w].pc = "idle"
          BY <1>1, <4>3 DEF WorkerComplete, Idle
        <5>. QED
          BY <5>4, <5>5
      <4>4. CASE FetchInput(w) \/ FetchFirst(w) \/ FetchSecond(w)
        <5>1. worker'[w].pc # "complete" /\ queues' = queues
          BY <1>1, <4>4 DEF FetchInput, FetchFirst, FetchSecond, WorkerState
        <5>. QED
          BY <3>2, <5>1
      <4>5. CASE GiveUp(w) \/ Panic(w) \/ Start(w) \/ Stop(w) \/ Crash(w)
        <5>1. worker'[w].pc \in {"idle", "ended"} /\ queues' = queues
          BY <1>1, <4>5 DEF GiveUp, Panic, Start, Stop, Crash, Ended, Idle
        <5>. QED
          BY <3>2, <5>1
      <4>. QED
        BY <4>1, <4>2, <4>3, <4>4, <4>5 DEF Acts, WorkerStep
    <3>4. \A v \in Worker \ {w} : worker'[v] = worker[v]
      BY <1>1 DEF Acts, WorkerStep, WorkerLease, FetchInput, FetchFirst, FetchSecond, GiveUp,
                  Panic, Save, WorkerComplete, Crash, Start, Stop
    <3>5. \A v \in Worker : ~(worker'[v].pc = "complete" /\ worker'[v].job = job)
      BY <3>1, <3>3, <3>4
    <3>. QED
      BY <3>1, <3>3, <3>5 DEF IsExpected, k
  <2>. QED
    BY <1>7, <2>1, <2>2 DEF IsExpected
<1>8. CASE ~Save(w)
  <2>1. proofs' = proofs /\ marked' = marked
    BY <1>8 DEF Acts, WorkerStep, WorkerLease, FetchInput, FetchFirst, FetchSecond, GiveUp, Panic,
                WorkerComplete, Crash, Start, Stop
  <2>2. \A key \in Key : IsAwaited(key) => IsAwaited(key)'
    BY <1>4, <1>7, <1>8 DEF IsAwaited
  <2>3. ASSUME NEW m \in todo', m.do = "mark"
        PROVE  IsAwaited(Placeholder(m.job))' \/ proofs'[Placeholder(m.job)] # NoProof
    <3>. DEFINE key == Placeholder(m.job)
    <3>1. m \in todo /\ m.job \in Job /\ m.job.level \in 1 .. Top
      BY <1>4, <2>3 DEF IInv, JobsRight, OpsRight
    <3>2. key \in Key
      BY <3>1, PlaceholderIsKey
    <3>3. IsAwaited(key) \/ proofs[key] # NoProof
      BY <1>6, <2>3, <3>1
    <3>. HIDE DEF key
    <3>4. IsAwaited(key)' \/ proofs'[key] # NoProof
      BY <2>1, <2>2, <3>2, <3>3
    <3>. QED
      BY <3>4 DEF key
  <2>4. \A key \in marked' : IsAwaited(key)'
    BY <1>1, <1>6, <2>1, <2>2
  <2>. QED
    BY <1>4, <1>5, <1>6, <2>3, <2>4 DEF ChildrenAreExpected
<1>9. CASE Save(w)
  <2>. DEFINE own == Target(wk.job)
              p == IF level = 0 THEN wk.left ELSE InnerProof(wk.left, wk.right)
  <2>1. /\ wk.pc = "save" /\ proofs' = [proofs EXCEPT ![own] = p] /\ marked' = marked \ {own}
    BY <1>9 DEF Save
  <2>2. wk.left \in HonestProof /\ wk.right \in HonestProof /\ wk.left # NoProof
    BY <2>1 DEF IInv, JobsRight, WorkerRight
  <2>3. p # NoProof
    BY <2>2, InnerIsHonest
  <2>. HIDE DEF own, p
  <2>4. \A key \in Key : IsAwaited(key) => key = own \/ IsAwaited(key)'
    BY <1>4, <1>7 DEF IsAwaited, own
  <2>5. ASSUME NEW m \in todo', m.do = "mark"
        PROVE  IsAwaited(Placeholder(m.job))' \/ proofs'[Placeholder(m.job)] # NoProof
    <3>. DEFINE key == Placeholder(m.job)
    <3>1. m \in todo /\ m.job \in Job /\ m.job.level \in 1 .. Top
      BY <1>4, <2>5 DEF IInv, JobsRight, OpsRight
    <3>2. key \in Key
      BY <3>1, PlaceholderIsKey
    <3>3. IsAwaited(key) \/ proofs[key] # NoProof
      BY <1>6, <2>5, <3>1
    <3>. HIDE DEF key
    <3>4. key = own => proofs'[key] # NoProof
      BY <1>1, <2>1, <2>3, <3>2
    <3>5. key # own => proofs'[key] = proofs[key]
      BY <1>1, <2>1, <3>2
    <3>6. IsAwaited(key)' \/ proofs'[key] # NoProof
      BY <2>4, <3>2, <3>3, <3>4, <3>5
    <3>. QED
      BY <3>6 DEF key
  <2>6. \A key \in marked' : IsAwaited(key)'
    BY <1>1, <1>6, <2>1, <2>4
  <2>. QED
    BY <1>4, <1>5, <1>6, <2>5, <2>6 DEF ChildrenAreExpected
<1>. QED
  BY <1>8, <1>9

\* Whoever waits for a proof of which only the placeholder is there waits for
\* a job that is due, unless this placeholder replaced a proof that was made: the
\* jobs of the level below are added before the placeholder, and a worker
\* deletes a job (complete) only when it has saved the proof or the job was
\* deleted before.
THEOREM PlaceholdersAreAwaited == Spec => []PlaceholdersAwaited
<1>1. ASSUME Init PROVE ChildrenAreExpected
  <2>1. Take \in 1 .. CircuitSize * L
    BY <1>1, InitIsRight DEF IInv, Values, BudgetRight, Take
  <2>2. todo = ScriptOps /\ marked = {}
    BY <1>1 DEF Init
  <2>3. \A op \in ScriptOps : op.do = "mark" =>
          Placeholder(op.job) \in {Target(job) : job \in Pending(ScriptOps)}
    BY <2>1, ScriptOpsRight
  <2>. QED
    BY <2>2, <2>3 DEF ChildrenAreExpected, IsAwaited, IsExpected
<1>2. ASSUME IInv, ChildrenAreExpected, [Next]_vars PROVE ChildrenAreExpected'
  <2>1. CASE ScriptStep
    BY <1>2, <2>1, ScriptStepExpects
  <2>2. CASE \E w \in Worker : Acts(w)
    BY <1>2, <2>2, WorkerStepExpects
  <2>3. CASE \E l \in 0 .. Top + 1 : LeaseExpires(l) \/ Clean(l)
    <3>1. \A k \in 0 .. Top + 1 : queues'[k].data = queues[k].data
      BY <1>2, <2>3, LeasesAndCleanerAreRight
    <3>2. UNCHANGED <<todo, failed, proofs, marked, worker, overwritten>>
      BY <2>3 DEF LeaseExpires, Clean, history
    <3>3. \A key \in Key : key[1] \in 0 .. Top + 1
      BY TreeSize DEF Key
    <3>4. \A key \in Key : IsAwaited(key) => IsAwaited(key)'
      BY <3>1, <3>2, <3>3 DEF IsAwaited, IsExpected
    <3>5. marked \subseteq Key
      BY <1>2 DEF IInv, Values
    <3>6. ASSUME NEW m \in todo, m.do = "mark" PROVE Placeholder(m.job) \in Key
      <4>1. m.job \in Job /\ m.job.level \in 1 .. Top
        BY <1>2, <3>6 DEF IInv, JobsRight, OpsRight
      <4>. QED
        BY <4>1, PlaceholderIsKey
    <3>. QED
      BY <1>2, <3>2, <3>4, <3>5, <3>6 DEF ChildrenAreExpected, Placeholder
  <2>4. CASE FinalLayer
    BY <1>2, <2>4 DEF FinalLayer, ChildrenAreExpected, IsAwaited, IsExpected, history
  <2>5. CASE UNCHANGED vars
    BY <1>2, <2>5 DEF vars, ChildrenAreExpected, IsAwaited, IsExpected
  <2>. QED
    BY <1>2, <2>1, <2>2, <2>3, <2>4, <2>5 DEF Next, Acts
<1>3. ChildrenAreExpected => PlaceholdersAwaited
  BY DEF ChildrenAreExpected, PlaceholdersAwaited, IsAwaited, IsExpected, IsDue, Pending
<1>. QED
  BY <1>1, <1>2, <1>3, InvariantHolds, PTL DEF Spec

-----------------------------------------------------------------------------
(* The whole registry *)

\* All jobs of the script.
ScriptJobs ==
  {GroupJob(g) : g \in (0 .. Groups - 1) \cup {L}} \cup {ZeroJob(l) : l \in 1 .. Top + 1} \cup Nodes

\* The validators of the subtree of a level above a group.
Leaves(take, level, i) ==
  [n \in 1 .. CircuitSize * 2 ^ level |->
     IF i # L /\ i * CircuitSize + n <= take THEN i * CircuitSize + n ELSE 0]

\* A queue has these jobs only, and loses none.
QueueKept(q, jobs) == q \in WorkQueues(jobs) /\ IsKept(q)

\* The queues and the workers have the script's jobs only, and lose none.
JobsKept ==
  /\ Pending(todo) \subseteq ScriptJobs
  /\ \A l \in 0 .. Top + 1 : QueueKept(queues[l], ScriptJobs)
  /\ \A w \in Worker : worker[w].pc \notin {"idle", "ended"} => worker[w].job \in ScriptJobs

\* What a worker has fetched is all there is below its job.
FetchedWhole(wk, level, take, ps) ==
  /\ wk.pc = "second" => wk.left.leaves = Leaves(take, level - 1, wk.job.first)
  /\ wk.pc = "save" /\ level = 0 => wk.left.leaves = Leaves(take, 0, wk.job.first)
  /\ wk.pc = "save" /\ level # 0 =>
       /\ wk.left.leaves = Leaves(take, level - 1, wk.job.first)
       /\ wk.right.leaves = Leaves(take, level - 1, wk.job.second)
  /\ wk.pc = "complete" => ps[Target(wk.job)] # NoProof

\* A job is pending, due or done.
IsAccounted(job) ==
  \/ job \in Pending(todo)
  \/ job \in queues[job.level].data
  \/ proofs[Target(job)] # NoProof

\* Every proof is about all validators below it.
ProofsAreWhole ==
  /\ \A key \in Key : proofs[key] # NoProof => proofs[key].leaves = Leaves(Take, key[1], key[2])
  /\ \A job \in ScriptJobs : job.level \in 0 .. Top => IsAccounted(job)
  /\ \A w \in Worker : FetchedWhole(worker[w], LevelOf[w], Take, proofs)

\* What the history variables excuse.
WholeUnlessHasty == hasty \/ overwritten # {} \/ failed \/ ProofsAreWhole

\* The script's jobs are those it has to add at its start.
LEMMA ScriptAddsItsJobs == Pending(ScriptOps) = ScriptJobs
<1>1. ASSUME NEW op \in ScriptOps, op.do = "add" PROVE op.job \in ScriptJobs
  <2>1. \/ op.job = GroupJob(L)
        \/ \E l \in 1 .. Top + 1 : op.job = ZeroJob(l)
        \/ \E g \in 0 .. Groups - 1 : op.job = GroupJob(g)
        \/ op.job \in Nodes
    BY <1>1 DEF ScriptOps, ZeroOps, BatchOps, BatchOp, NodeOps, AddOp, MarkOp, InputOp
  <2>. QED
    BY <2>1 DEF ScriptJobs
<1>2. ASSUME NEW job \in ScriptJobs PROVE \E op \in ScriptOps : op.do = "add" /\ op.job = job
  <2>1. CASE job = GroupJob(L)
    <3>. DEFINE op == AddOp(<<0, 1, 0, 0>>, GroupJob(L))
    <3>1. op \in ScriptOps /\ op.do = "add" /\ op.job = job
      BY <2>1 DEF ScriptOps, ZeroOps, NodeOps, AddOp
    <3>. QED
      BY <3>1
  <2>2. CASE \E g \in 0 .. Groups - 1 : job = GroupJob(g)
    <3>1. PICK g \in 0 .. Groups - 1 : job = GroupJob(g)
      BY <2>2
    <3>. DEFINE op == AddOp(<<2, g, 0, 0>>, GroupJob(g))
    <3>2. op \in ScriptOps /\ op.do = "add" /\ op.job = job
      BY <3>1 DEF ScriptOps, ZeroOps, NodeOps, AddOp
    <3>. QED
      BY <3>2
  <2>3. CASE \E l \in 1 .. Top + 1 : job = ZeroJob(l)
    <3>1. PICK l \in 1 .. Top + 1 : job = ZeroJob(l)
      BY <2>3
    <3>. DEFINE op == AddOp(<<0, 2, l, 0>>, ZeroJob(l))
    <3>2. op \in ScriptOps /\ op.do = "add" /\ op.job = job
      BY <3>1 DEF ScriptOps, ZeroOps, NodeOps, AddOp
    <3>. QED
      BY <3>2
  <2>4. CASE job \in Nodes
    <3>. DEFINE op == AddOp(<<3, job.level, job.first, 1>>, job)
    <3>1. op \in ScriptOps /\ op.do = "add" /\ op.job = job
      BY <2>4 DEF ScriptOps, ZeroOps, NodeOps, AddOp
    <3>. QED
      BY <3>1
  <2>. QED
    BY <2>1, <2>2, <2>3, <2>4 DEF ScriptJobs
<1>. QED
  BY <1>1, <1>2 DEF Pending

\* What is in the tree does not change while the script and the workers run.
LEMMA JobsStay ==
  ASSUME Take' = Take
  PROVE  ScriptJobs' = ScriptJobs
  BY DEF ScriptJobs, Nodes, Groups

\* The two children of an inner node lie next to each other and fill it.
LEMMA NodeShape ==
  ASSUME Take \in 1 .. CircuitSize * L, NEW job \in Nodes
  PROVE  /\ job \in Job /\ job.level \in 1 .. Top
         /\ job.first \in 0 .. Groups - 1 /\ job.first \in Nat /\ job.first # L
         /\ job.second = job.first + 2 ^ (job.level - 1)
         /\ job.second \in Nat /\ job.second < L
         /\ job.second % 2 ^ (job.level - 1) = 0
<1>1. PICK level \in 1 .. Top, g \in 0 .. Groups - 1 : job = InnerJob(g, level)
  BY DEF Nodes
<1>. DEFINE b == 2 ^ (level - 1)
            p == 2 ^ level
            f == g - (g % p)
<1>2. job = [level |-> level, first |-> f, second |-> f + b]
  BY <1>1 DEF InnerJob
<1>3. /\ job \in Job /\ job.level = level /\ job.first \in 0 .. Groups - 1 /\ job.first # L
      /\ job.first % b = 0
  BY <1>1, InnerJobIsJob
<1>4. level - 1 \in Nat /\ level \in Nat /\ level <= Top /\ (level - 1) + 1 = level
  BY TreeSize
<1>5. b \in Nat \ {0} /\ p = 2 * b /\ p \in Nat
  BY <1>4, PowerOfTwo
<1>6. g \in 0 .. 2 ^ Top - 1 /\ L \in Nat
  BY GroupsFit, TreeSize DEF L
<1>7. f \in 0 .. g /\ f + p <= L
  BY <1>4, <1>6, TreeSize, SubtreeFits DEF L
<1>. HIDE DEF b, p, f
<1>8. f \in Nat /\ f + b \in Nat /\ f + b < L
  BY <1>5, <1>6, <1>7
<1>9. (f + b) % b = 0
  <2>. DEFINE q == f \div b
  <2>1. q \in Nat /\ f = q * b + (f % b) /\ f % b = 0
    BY <1>2, <1>3, <1>5, <1>8, Div
  <2>. HIDE DEF q
  <2>2. q * b \in Nat /\ (q + 1) * b = q * b + b
    BY <1>5, <2>1
  <2>3. f + b = (q + 1) * b
    BY <1>5, <2>1, <2>2
  <2>. DEFINE k == q + 1
  <2>4. k \in Nat /\ f + b = k * b
    BY <2>1, <2>3
  <2>. HIDE DEF k
  <2>. QED
    BY <1>5, <2>4, NoRemainder
<1>. QED
  BY <1>2, <1>3, <1>8, <1>9 DEF b

\* The jobs of the levels that are served.
LEMMA JobShape ==
  ASSUME Take \in 1 .. CircuitSize * L, NEW job \in ScriptJobs
  PROVE  /\ job \in Job
         /\ job.level # 0 => job \in Nodes \/ (job.first = L /\ job.second = L)
<1>1. Groups \in 0 .. L /\ L \in Nat /\ L \in Index /\ 0 \in 0 .. Top + 1
  BY GroupsFit, TreeSize DEF Index
<1>2. CASE \E g \in (0 .. Groups - 1) \cup {L} : job = GroupJob(g)
  <2>1. PICK g \in (0 .. Groups - 1) \cup {L} : job = GroupJob(g)
    BY <1>2
  <2>2. g \in Index
    BY <1>1 DEF Index
  <2>. QED
    BY <1>1, <2>1, <2>2 DEF GroupJob, Job
<1>3. CASE \E l \in 1 .. Top + 1 : job = ZeroJob(l)
  <2>1. PICK l \in 1 .. Top + 1 : job = ZeroJob(l)
    BY <1>3
  <2>2. l \in 0 .. Top + 1
    BY TreeSize
  <2>. QED
    BY <1>1, <2>1, <2>2 DEF ZeroJob, Job
<1>4. CASE job \in Nodes
  BY <1>4, NodeShape
<1>. QED
  BY <1>2, <1>3, <1>4 DEF ScriptJobs

\* There is a job for every node above the groups.
LEMMA NodeHasJob ==
  ASSUME Take \in 1 .. CircuitSize * L, NEW l \in 0 .. Top, NEW i \in 0 .. Groups - 1,
         i % 2 ^ l = 0
  PROVE  \E job \in ScriptJobs : job.level = l /\ Target(job) = <<l, i>>
<1>1. CASE l = 0
  <2>1. GroupJob(i) \in ScriptJobs
    BY DEF ScriptJobs
  <2>2. GroupJob(i).level = l /\ Target(GroupJob(i)) = <<l, i>>
    BY <1>1 DEF GroupJob, Target
  <2>. QED
    BY <2>1, <2>2
<1>2. CASE l # 0
  <2>. DEFINE job == InnerJob(i, l)
  <2>1. l \in 1 .. Top /\ i \in Nat
    BY <1>2, TreeSize, GroupsFit
  <2>2. job \in Nodes
    <3>1. <<l, i>> \in (1 .. Top) \X (0 .. Groups - 1)
      BY <2>1
    <3>2. job = InnerJob(<<l, i>>[2], <<l, i>>[1])
      OBVIOUS
    <3>. QED
      BY <3>1, <3>2 DEF Nodes
  <2>3. job.level = l /\ Target(job) = <<l, i>>
    <3>1. i - (i % 2 ^ l) = i
      BY <2>1
    <3>. QED
      BY <3>1 DEF Target, InnerJob
  <2>4. job \in ScriptJobs
    BY <2>2 DEF ScriptJobs
  <2>. HIDE DEF job
  <2>. QED
    BY <2>3, <2>4
<1>. QED
  BY <1>1, <1>2

-----------------------------------------------------------------------------
(* Leaves *)

\* The leaves below a node are those below its two children, the first child
\* before the second, as build_inner_level_circuit hashes them.
LEMMA LeavesJoin ==
  ASSUME NEW take \in Nat, NEW l \in Nat, NEW i \in Nat, NEW j \in Nat,
         j = i + 2 ^ l, j < L
  PROVE  Leaves(take, l, i) \o Leaves(take, l, j) = Leaves(take, l + 1, i)
<1>. DEFINE c == CircuitSize
            b == 2 ^ l
            m == c * b
            k == i * c
            x == Leaves(take, l, i)
            y == Leaves(take, l, j)
            z == Leaves(take, l + 1, i)
<1>1. c \in Nat /\ b \in Nat /\ 2 ^ (l + 1) = 2 * b /\ L \in Nat /\ i # L /\ j # L
  BY TreeSize, PowerOfTwo
<1>2. m \in Nat /\ k \in Nat
  BY <1>1
<1>3. j * c = k + m /\ c * 2 ^ (l + 1) = m + m
  <2>. HIDE DEF b, c
  <2>1. j = i + b /\ (i + b) * c = i * c + c * b /\ c * (2 * b) = c * b + c * b
    BY <1>1 DEF b
  <2>. QED
    BY <1>1, <2>1
<1>4. /\ x = [n \in 1 .. m |-> IF k + n <= take THEN k + n ELSE 0]
      /\ y = [n \in 1 .. m |-> IF (k + m) + n <= take THEN (k + m) + n ELSE 0]
      /\ z = [n \in 1 .. m + m |-> IF k + n <= take THEN k + n ELSE 0]
  BY <1>1, <1>3 DEF Leaves
<1>. HIDE DEF c, b, m, k, x, y, z
<1>5. x \in Seq(Nat) /\ Len(x) = m /\ y \in Seq(Nat) /\ Len(y) = m
  <2>1. x \in [1 .. m -> Nat] /\ y \in [1 .. m -> Nat]
    BY <1>2, <1>4
  <2>. QED
    BY <1>2, <2>1
<1>6. /\ x \o y \in Seq(Nat) /\ Len(x \o y) = m + m
      /\ \A n \in 1 .. m + m : (x \o y)[n] = IF n <= m THEN x[n] ELSE y[n - m]
  <2>1. /\ x \o y \in Seq(Nat) /\ Len(x \o y) = Len(x) + Len(y)
        /\ \A n \in 1 .. Len(x) + Len(y) :
             (x \o y)[n] = IF n <= Len(x) THEN x[n] ELSE y[n - Len(x)]
    BY <1>5, ConcatProperties
  <2>. QED
    BY <1>5, <2>1
<1>7. ASSUME NEW n \in 1 .. m + m PROVE (x \o y)[n] = z[n]
  <2>1. CASE n <= m
    <3>1. n \in 1 .. m
      BY <1>2, <2>1
    <3>. QED
      BY <1>4, <1>6, <2>1, <3>1
  <2>2. CASE ~(n <= m)
    <3>1. n - m \in 1 .. m /\ (k + m) + (n - m) = k + n
      BY <1>2, <2>2
    <3>2. y[n - m] = IF (k + m) + (n - m) <= take THEN (k + m) + (n - m) ELSE 0
      BY <1>4, <3>1
    <3>. QED
      BY <1>4, <1>6, <2>2, <3>1, <3>2
  <2>. QED
    BY <2>1, <2>2
<1>8. z \in Seq(Nat) /\ Len(z) = m + m
  <2>1. z \in [1 .. m + m -> Nat]
    BY <1>2, <1>4
  <2>. QED
    BY <1>2, <2>1
<1>. DEFINE u == x \o y
<1>. HIDE DEF u
<1>9. u = z
  <2>1. u \in Seq(Nat) /\ Len(u) = Len(z) /\ z \in Seq(Nat) /\ \A n \in 1 .. Len(u) : u[n] = z[n]
    BY <1>6, <1>7, <1>8 DEF u
  <2>. QED
    BY <2>1, SeqEqual
<1>. QED
  BY <1>9 DEF u, x, y, z

\* A proof of zeros is one of no validators, on every level.
LEMMA ZerosJoin ==
  ASSUME NEW take \in Nat, NEW l \in Nat
  PROVE  Leaves(take, l, L) \o Leaves(take, l, L) = Leaves(take, l + 1, L)
<1>. DEFINE c == CircuitSize
            b == 2 ^ l
            m == c * b
            x == Leaves(take, l, L)
            z == Leaves(take, l + 1, L)
<1>1. c \in Nat /\ b \in Nat /\ 2 ^ (l + 1) = 2 * b
  BY TreeSize, PowerOfTwo
<1>2. m \in Nat /\ c * 2 ^ (l + 1) = m + m
  <2>. HIDE DEF b, c
  <2>1. c * (2 * b) = c * b + c * b /\ c * b \in Nat
    BY <1>1
  <2>. QED
    BY <1>1, <2>1
<1>3. x = [n \in 1 .. m |-> 0] /\ z = [n \in 1 .. m + m |-> 0]
  BY <1>2 DEF Leaves
<1>. HIDE DEF c, b, m, x, z
<1>4. x \in Seq(Nat) /\ Len(x) = m /\ z \in Seq(Nat) /\ Len(z) = m + m
  BY <1>2, <1>3
<1>5. /\ x \o x \in Seq(Nat) /\ Len(x \o x) = m + m
      /\ \A n \in 1 .. m + m : (x \o x)[n] = IF n <= m THEN x[n] ELSE x[n - m]
  BY <1>4, ConcatProperties
<1>6. ASSUME NEW n \in 1 .. m + m PROVE (x \o x)[n] = z[n]
  <2>1. n <= m \/ n - m \in 1 .. m
    BY <1>2
  <2>2. n <= m => n \in 1 .. m
    BY <1>2
  <2>. QED
    BY <1>3, <1>5, <2>1, <2>2
<1>. DEFINE u == x \o x
<1>. HIDE DEF u
<1>7. u = z
  <2>1. u \in Seq(Nat) /\ Len(u) = Len(z) /\ z \in Seq(Nat) /\ \A n \in 1 .. Len(u) : u[n] = z[n]
    BY <1>4, <1>5, <1>6 DEF u
  <2>. QED
    BY <2>1, SeqEqual
<1>. QED
  BY <1>7 DEF u, x, z

\* Beyond the groups there are no validators: what has no job is what the
\* proof of zeros is about.
LEMMA NothingBeyond ==
  ASSUME Take \in 1 .. CircuitSize * L, NEW i \in Nat, Groups <= i, NEW l \in Nat
  PROVE  Leaves(Take, l, i) = Leaves(Take, l, L)
<1>. DEFINE c == CircuitSize
            x == Take + c - 1
            q == x \div c
            k == i * c
<1>1. c \in Nat \ {0} /\ Take \in Nat \ {0} /\ L \in Nat
  BY TreeSize
<1>2. q \in Nat /\ x % c \in 0 .. c - 1 /\ x = q * c + (x % c)
  <2>1. x \in Nat
    BY <1>1
  <2>. HIDE DEF x, c
  <2>. QED
    BY <1>1, <2>1, Div
<1>3. Groups = q
  BY DEF Groups
<1>. DEFINE p == q * c
            r == x % c
<1>. HIDE DEF q
<1>4. p \in Nat /\ k \in Nat /\ p <= k
  <2>. HIDE DEF c
  <2>. QED
    BY <1>1, <1>2, <1>3, TimesMono
<1>5. r \in 0 .. c - 1 /\ Take + c - 1 = p + r
  BY <1>2
<1>. HIDE DEF r, p, x, c, k
<1>6. Take <= k
  BY <1>1, <1>4, <1>5
<1>7. \A n \in 1 .. CircuitSize * 2 ^ l : ~(k + n <= Take)
  <2>1. CircuitSize * 2 ^ l \in Nat
    <3>1. CircuitSize \in Nat /\ 2 ^ l \in Nat
      BY TreeSize, PowerOfTwo
    <3>. QED
      BY <3>1
  <2>. QED
    BY <1>1, <1>4, <1>6, <2>1
<1>. QED
  BY <1>7 DEF Leaves, k, c

\* The leaves of a group, and of the root.
LEMMA GroupsAndRoot ==
  /\ \A g : GroupLeaves(g) = Leaves(Take, 0, g)
  /\ Leaves(Take, Top, 0) = StateLeaves
<1>1. CircuitSize * 2 ^ 0 = CircuitSize
  <2>1. 2 ^ 0 = 1
    BY PowerOfTwo
  <2>. QED
    BY <2>1, TreeSize
<1>2. \A g : GroupLeaves(g) = Leaves(Take, 0, g)
  BY <1>1 DEF GroupLeaves, Leaves
<1>3. Leaves(Take, Top, 0) = StateLeaves
  <2>1. 0 # L /\ 0 * CircuitSize = 0 /\ CircuitSize * L \in Nat
    BY TreeSize
  <2>2. \A n \in 1 .. CircuitSize * L : 0 * CircuitSize + n = n
    BY <2>1
  <2>. QED
    BY <2>1, <2>2 DEF Leaves, StateLeaves, L
<1>. QED
  BY <1>2, <1>3

-----------------------------------------------------------------------------
(* No job is lost *)

\* The library neither makes a job up nor loses one.
LEMMA QueueGoesOn ==
  ASSUME NEW jobs, NEW q, QueueKept(q, jobs)
  PROVE  /\ \A job \in jobs : QueueKept(AddItem(q, job), jobs)
         /\ CanLease(q) => QueueKept(Lease(q), jobs) /\ Head(q.main) \in jobs
         /\ \A job : QueueKept(Complete(q, job), jobs)
         /\ QueueKept(Expire(q), jobs)
         /\ CanPutBack(q) => QueueKept(PutBack(q), jobs)
<1>1. q \in WorkQueues(jobs) /\ IsKept(q)
  BY DEF QueueKept
<1>2. \A job \in jobs : QueueKept(AddItem(q, job), jobs)
  BY <1>1, AddItemKeeps, AddItemIsKept DEF QueueKept
<1>3. CanLease(q) => QueueKept(Lease(q), jobs) /\ Head(q.main) \in jobs
  BY <1>1, LeaseKeeps, LeaseIsKept DEF QueueKept
<1>4. \A job : QueueKept(Complete(q, job), jobs)
  BY <1>1, CompleteKeeps, CompleteIsKept DEF QueueKept
<1>5. QueueKept(Expire(q), jobs)
  BY <1>1, ExpireKeeps, ExpireIsKept DEF QueueKept
<1>6. CanPutBack(q) => QueueKept(PutBack(q), jobs)
  BY <1>1, PutBackKeeps, PutBackIsKept DEF QueueKept
<1>. QED
  BY <1>2, <1>3, <1>4, <1>5, <1>6

\* What a step changes of the jobs.
LEMMA JobsFrame ==
  ASSUME JobsKept, Take' = Take, todo' \subseteq todo,
         \A l \in 0 .. Top + 1 : QueueKept(queues'[l], ScriptJobs),
         \A w \in Worker : worker'[w].pc \notin {"idle", "ended"} => worker'[w].job \in ScriptJobs
  PROVE  JobsKept'
<1>1. ScriptJobs' = ScriptJobs
  BY JobsStay
<1>2. Pending(todo') \subseteq Pending(todo)
  BY DEF Pending
<1>. QED
  BY <1>1, <1>2 DEF JobsKept

\* One queue changes.
LEMMA OneQueueChanges ==
  ASSUME IInv, JobsKept, NEW l \in 0 .. Top + 1, NEW q, QueueKept(q, ScriptJobs),
         queues' = [queues EXCEPT ![l] = q]
  PROVE  \A k \in 0 .. Top + 1 : QueueKept(queues'[k], ScriptJobs)
<1>1. queues \in [0 .. Top + 1 -> WorkQueues(Job)]
  BY DEF IInv, JobsRight, QueuesRight
<1>. QED
  BY <1>1 DEF JobsKept

\* A worker leaves the script alone.
LEMMA TakeStays ==
  ASSUME IInv, NEW w \in Worker, Acts(w)
  PROVE  todo' = todo /\ Take' = Take
<1>1. CASE WorkerStep(w)
  BY <1>1 DEF WorkerStep, WorkerLease, FetchInput, FetchFirst, FetchSecond, GiveUp, Panic, Save,
              WorkerComplete, Take
<1>2. CASE Crash(w)
  <2>1. BudgetRight(budget)
    BY DEF IInv, Values
  <2>. QED
    BY <1>2, <2>1, Spending DEF Crash, Take
<1>3. CASE Start(w) \/ Stop(w)
  BY <1>3 DEF Start, Stop, Take
<1>. QED
  BY <1>1, <1>2, <1>3 DEF Acts

\* The script, the workers, the leases and the cleaner know the jobs of the
\* script only, and a job with data waits in its queue.
LEMMA JobsAreKept ==
  ASSUME IInv, JobsKept, [Next]_vars
  PROVE  JobsKept'
<1>1. /\ \A l \in 0 .. Top + 1 : QueueKept(queues[l], ScriptJobs)
      /\ \A w \in Worker : worker[w].pc \notin {"idle", "ended"} => worker[w].job \in ScriptJobs
      /\ worker \in [Worker -> WorkerState]
      /\ \A w \in Worker : LevelOf[w] \in 0 .. Top + 1
  BY BalanceAssumption DEF IInv, JobsRight, JobsKept
<1>2. CASE ScriptStep
  <2>1. PICK op \in todo :
          SaveInput(op) \/ InputFails(op) \/ MarkProof(op) \/ AddJob(op) \/ SaveFinalInput(op)
    BY <1>2 DEF ScriptStep
  <2>2. UNCHANGED <<budget, worker>> /\ todo' \subseteq todo /\ Take' = Take
    BY <1>2, <2>1 DEF ScriptStep, SaveInput, InputFails, MarkProof, AddJob, SaveFinalInput, Take
  <2>3. CASE AddJob(op)
    <3>. DEFINE l == op.job.level
                q == AddItem(queues[l], op.job)
    <3>1. op.job \in ScriptJobs
      <4>1. op.job \in Pending(todo)
        BY <2>3 DEF AddJob, Pending
      <4>. QED
        BY <4>1 DEF JobsKept
    <3>2. l \in 0 .. Top + 1
      BY <2>3, NextWriteKeeps DEF AddJob, IInv, JobsRight
    <3>3. QueueKept(q, ScriptJobs)
      BY <1>1, <3>1, <3>2, QueueGoesOn
    <3>4. queues' = [queues EXCEPT ![l] = q]
      BY <2>3 DEF AddJob
    <3>. HIDE DEF l, q
    <3>5. \A k \in 0 .. Top + 1 : QueueKept(queues'[k], ScriptJobs)
      BY <3>2, <3>3, <3>4, OneQueueChanges
    <3>. QED
      BY <1>1, <2>2, <3>5, JobsFrame
  <2>4. CASE UNCHANGED queues
    BY <1>1, <2>2, <2>4, JobsFrame
  <2>. QED
    BY <2>1, <2>3, <2>4 DEF SaveInput, InputFails, MarkProof, SaveFinalInput
<1>3. ASSUME NEW w \in Worker, Acts(w)
      PROVE  JobsKept'
  <2>. DEFINE l == LevelOf[w]
              q == queues[l]
  <2>1. todo' \subseteq todo /\ Take' = Take
    BY <1>3, TakeStays
  <2>2. \A v \in Worker \ {w} : worker'[v] = worker[v]
    BY <1>1, <1>3 DEF Acts, WorkerStep, WorkerLease, FetchInput, FetchFirst, FetchSecond, GiveUp,
                      Panic, Save, WorkerComplete, Crash, Start, Stop
  <2>3. QueueKept(q, ScriptJobs) /\ l \in 0 .. Top + 1
    BY <1>1
  <2>4. CASE WorkerLease(w)
    <3>1. Head(q.main) \in ScriptJobs /\ QueueKept(Lease(q), ScriptJobs)
      BY <2>3, <2>4, QueueGoesOn DEF WorkerLease, QueueOf
    <3>2. queues' = [queues EXCEPT ![l] = Lease(q)] /\ worker'[w].job = Head(q.main)
      BY <1>1, <2>4 DEF WorkerLease, QueueOf, Idle
    <3>. HIDE DEF l, q
    <3>3. \A k \in 0 .. Top + 1 : QueueKept(queues'[k], ScriptJobs)
      BY <2>3, <3>1, <3>2, OneQueueChanges
    <3>. QED
      BY <1>1, <2>1, <2>2, <3>1, <3>2, <3>3, JobsFrame
  <2>5. CASE WorkerComplete(w)
    <3>1. QueueKept(Complete(q, worker[w].job), ScriptJobs)
      BY <2>3, QueueGoesOn
    <3>2. queues' = [queues EXCEPT ![l] = Complete(q, worker[w].job)] /\ worker'[w].pc = "idle"
      BY <1>1, <2>5 DEF WorkerComplete, Idle
    <3>. HIDE DEF l, q
    <3>3. \A k \in 0 .. Top + 1 : QueueKept(queues'[k], ScriptJobs)
      BY <2>3, <3>1, <3>2, OneQueueChanges
    <3>. QED
      BY <1>1, <2>1, <2>2, <3>2, <3>3, JobsFrame
  <2>6. CASE FetchInput(w) \/ FetchFirst(w) \/ FetchSecond(w) \/ Save(w)
    <3>1. /\ queues' = queues /\ worker[w].pc \notin {"idle", "ended"}
          /\ worker'[w].job = worker[w].job
      BY <1>1, <2>6 DEF FetchInput, FetchFirst, FetchSecond, Save, WorkerState
    <3>. QED
      BY <1>1, <2>1, <2>2, <3>1, JobsFrame
  <2>7. CASE GiveUp(w) \/ Panic(w) \/ Start(w) \/ Stop(w) \/ Crash(w)
    <3>1. queues' = queues /\ worker'[w].pc \in {"idle", "ended"}
      BY <1>1, <2>7 DEF GiveUp, Panic, Start, Stop, Crash, Ended, Idle
    <3>. QED
      BY <1>1, <2>1, <2>2, <3>1, JobsFrame
  <2>. QED
    BY <1>3, <2>4, <2>5, <2>6, <2>7 DEF Acts, WorkerStep
<1>4. ASSUME NEW l \in 0 .. Top + 1, LeaseExpires(l) \/ Clean(l)
      PROVE  JobsKept'
  <2>. DEFINE q == queues[l]
  <2>1. UNCHANGED <<todo, worker>> /\ Take' = Take
    <3>1. BudgetRight(budget)
      BY DEF IInv, Values
    <3>. QED
      BY <1>4, <3>1, Spending DEF LeaseExpires, Clean, Take
  <2>2. PICK new :
          /\ queues' = [queues EXCEPT ![l] = new]
          /\ new = Expire(q) \/ (new = PutBack(q) /\ CanPutBack(q))
    BY <1>4 DEF LeaseExpires, Clean
  <2>3. QueueKept(new, ScriptJobs)
    BY <1>1, <2>2, QueueGoesOn
  <2>4. \A k \in 0 .. Top + 1 : QueueKept(queues'[k], ScriptJobs)
    BY <2>2, <2>3, OneQueueChanges
  <2>. QED
    BY <1>1, <2>1, <2>4, JobsFrame
<1>5. CASE FinalLayer \/ UNCHANGED vars
  <2>1. UNCHANGED <<budget, todo, queues, worker>>
    BY <1>5 DEF FinalLayer, vars
  <2>. QED
    BY <1>1, <2>1, JobsFrame DEF Take
<1>. QED
  BY <1>2, <1>3, <1>4, <1>5 DEF Next, Acts

-----------------------------------------------------------------------------
(* Proofs are whole *)

\* A job of a level that is served is about a key.
LEMMA JobHasKey ==
  ASSUME Take \in 1 .. CircuitSize * L, NEW job \in ScriptJobs, job.level \in 0 .. Top
  PROVE  Target(job) \in Key
<1>1. job \in Job
  BY JobShape
<1>. QED
  BY <1>1, KeysOfJobs

\* What a worker changes.
LEMMA WholeFrame ==
  ASSUME IInv, JobsKept, ProofsAreWhole, todo' = todo, Take' = Take,
         NEW w \in Worker, NEW wk, worker' = [worker EXCEPT ![w] = wk],
         FetchedWhole(wk, LevelOf[w], Take, proofs'),
         \A key \in Key : proofs'[key] # NoProof =>
           proofs'[key].leaves = Leaves(Take, key[1], key[2]),
         \A key \in Key : proofs[key] # NoProof => proofs'[key] # NoProof,
         \A job \in ScriptJobs : job.level \in 0 .. Top /\ job \in queues[job.level].data =>
           job \in queues'[job.level].data \/ proofs'[Target(job)] # NoProof
  PROVE  ProofsAreWhole'
<1>1. Take \in 1 .. CircuitSize * L /\ worker \in [Worker -> WorkerState]
  BY DEF IInv, Values, JobsRight, BudgetRight, Take
<1>2. ScriptJobs' = ScriptJobs
  BY JobsStay
<1>3. ASSUME NEW job \in ScriptJobs, job.level \in 0 .. Top PROVE IsAccounted(job)'
  <2>1. Target(job) \in Key
    BY <1>1, <1>3, JobHasKey
  <2>2. IsAccounted(job)
    BY <1>3 DEF ProofsAreWhole
  <2>. QED
    BY <1>3, <2>1, <2>2 DEF IsAccounted
<1>4. ASSUME NEW v \in Worker PROVE FetchedWhole(worker'[v], LevelOf[v], Take, proofs')
  <2>1. CASE v = w
    BY <1>1, <2>1
  <2>2. CASE v # w
    <3>1. worker'[v] = worker[v] /\ FetchedWhole(worker[v], LevelOf[v], Take, proofs)
      BY <2>2 DEF ProofsAreWhole
    <3>2. worker[v].pc = "complete" => Target(worker[v].job) \in Key
      <4>1. worker[v].pc = "complete" => worker[v].job \in KnownJob(todo, LevelOf[v])
        BY DEF IInv, JobsRight, WorkerRight
      <4>2. LevelOf[v] \in 0 .. Top
        BY BalanceAssumption
      <4>3. \A job \in KnownJob(todo, LevelOf[v]) : job \in Job /\ job.level = LevelOf[v]
        BY DEF KnownJob
      <4>. QED
        BY <4>1, <4>2, <4>3, KeysOfJobs
    <3>. QED
      BY <3>1, <3>2 DEF FetchedWhole
  <2>. QED
    BY <2>1, <2>2
<1>. QED
  BY <1>2, <1>3, <1>4 DEF ProofsAreWhole

\* The script's writes take no proof away, unless a placeholder does.
LEMMA ScriptStepIsWhole ==
  ASSUME IInv, JobsKept, WholeUnlessHasty, ScriptStep
  PROVE  WholeUnlessHasty'
<1>1. PICK op \in todo :
        SaveInput(op) \/ InputFails(op) \/ MarkProof(op) \/ AddJob(op) \/ SaveFinalInput(op)
  BY DEF ScriptStep
<1>2. UNCHANGED <<budget, worker, hasty>> /\ Take' = Take
  BY DEF ScriptStep, Take
<1>3. /\ failed \in BOOLEAN /\ hasty \in BOOLEAN
      /\ OpsRight(todo) /\ QueuesRight(queues, todo) /\ proofs \in [Key -> HonestProof]
      /\ Take \in 1 .. CircuitSize * L
  BY DEF IInv, Values, JobsRight, BudgetRight, Take
<1>4. SUFFICES ASSUME ~hasty', overwritten' = {}, ~failed' PROVE ProofsAreWhole'
  BY DEF WholeUnlessHasty
<1>5. ~InputFails(op)
  BY <1>4 DEF InputFails
<1>6. todo' = todo \ {op} /\ ~failed /\ ~hasty /\ overwritten = {}
  BY <1>1, <1>2, <1>3, <1>4, <1>5 DEF SaveInput, MarkProof, AddJob, SaveFinalInput
<1>7. ProofsAreWhole
  BY <1>6 DEF WholeUnlessHasty
<1>8. proofs' = proofs
  <2>1. CASE MarkProof(op)
    <3>1. Placeholder(op.job) \in Key
      BY <1>3, <2>1, PlaceholderIsKey DEF MarkProof, OpsRight
    <3>2. proofs[Placeholder(op.job)] = NoProof
      BY <1>4, <2>1 DEF MarkProof
    <3>. QED
      BY <1>3, <2>1, <3>1, <3>2 DEF MarkProof
  <2>. QED
    BY <1>1, <1>5, <2>1 DEF SaveInput, AddJob, SaveFinalInput
<1>9. ScriptJobs' = ScriptJobs
  BY <1>2, JobsStay
<1>10. ASSUME NEW job \in ScriptJobs, job.level \in 0 .. Top PROVE IsAccounted(job)'
  <2>. DEFINE l == job.level
  <2>1. l \in 0 .. Top + 1 /\ queues[l] \in WorkQueues(Job)
    BY <1>3, <1>10, TreeSize DEF QueuesRight
  <2>2. job \in Pending(todo) => job \in Pending(todo') \/ (AddJob(op) /\ op.job = job)
    <3>1. \A a \in todo : a = op \/ a \in todo'
      BY <1>6
    <3>2. op.do = "add" => AddJob(op)
      BY <1>1, <1>5 DEF SaveInput, MarkProof, SaveFinalInput
    <3>. QED
      BY <3>1, <3>2 DEF Pending
  <2>3. AddJob(op) =>
          /\ op.job = job => job \in queues'[l].data
          /\ job \in queues[l].data => job \in queues'[l].data
    <3>1. SUFFICES ASSUME AddJob(op)
                   PROVE  /\ op.job = job => job \in queues'[l].data
                          /\ job \in queues[l].data => job \in queues'[l].data
      OBVIOUS
    <3>. DEFINE k == op.job.level
    <3>2. k \in 0 .. Top + 1
      BY <1>3, <3>1, NextWriteKeeps DEF AddJob
    <3>3. queues[k] \in WorkQueues(Job)
      BY <1>3, <3>2 DEF QueuesRight
    <3>4. AddItem(queues[k], op.job).data = queues[k].data \cup {op.job}
      BY <3>3 DEF AddItem, WorkQueues
    <3>5. queues' = [queues EXCEPT ![k] = AddItem(queues[k], op.job)]
      BY <3>1 DEF AddJob
    <3>6. op.job = job => k = l
      OBVIOUS
    <3>. HIDE DEF k, l
    <3>. QED
      BY <1>3, <2>1, <3>2, <3>4, <3>5, <3>6 DEF QueuesRight
  <2>4. ~AddJob(op) => queues' = queues
    BY <1>1, <1>5 DEF SaveInput, MarkProof, SaveFinalInput
  <2>5. IsAccounted(job)
    BY <1>7, <1>10 DEF ProofsAreWhole
  <2>. QED
    BY <1>8, <2>2, <2>3, <2>4, <2>5 DEF IsAccounted
<1>. QED
  BY <1>2, <1>7, <1>8, <1>9, <1>10 DEF ProofsAreWhole

\* A worker's second child: its proof, or that of zeros if there is nothing
\* below it.
LEMMA SecondIsWhole ==
  ASSUME IInv, JobsKept, ProofsAreWhole, NEW w \in Worker, FetchSecond(w), ~hasty'
  PROVE  proofs[SecondKey(w)].leaves = Leaves(Take, LevelOf[w] - 1, worker[w].job.second)
<1>. DEFINE level == LevelOf[w]
            job == worker[w].job
            below == level - 1
            own == <<below, job.second>>
            zero == <<below, L>>
<1>1. Take \in 1 .. CircuitSize * L /\ level \in 0 .. Top
  BY BalanceAssumption DEF IInv, Values, BudgetRight, Take
<1>2. /\ worker[w].pc = "second" /\ proofs[SecondKey(w)] # NoProof
      /\ ~(SecondKey(w) # own /\ IsDue(own))
  BY DEF FetchSecond
<1>3. level # 0 /\ job \in KnownJob(todo, level) /\ job \in ScriptJobs
  BY <1>2 DEF IInv, JobsRight, WorkerRight, JobsKept
<1>4. job \in Job /\ job.level = level
  BY <1>3 DEF KnownJob
<1>5. below \in 0 .. Top /\ below \in Nat
  BY <1>1, <1>3, TreeSize
<1>6. own \in Key /\ zero \in Key
  BY <1>4, <1>5, TreeSize DEF Job, Index, Key
<1>7. SecondKey(w) = own \/ (SecondKey(w) = zero /\ proofs[own] = NoProof)
  BY DEF SecondKey, Found
<1>8. \A key \in Key : proofs[key] # NoProof => proofs[key].leaves = Leaves(Take, key[1], key[2])
  BY DEF ProofsAreWhole
<1>9. CASE SecondKey(w) = own
  BY <1>2, <1>6, <1>8, <1>9
<1>10. CASE SecondKey(w) # own
  <2>1. SecondKey(w) = zero /\ proofs[own] = NoProof /\ ~IsDue(own)
    BY <1>2, <1>7, <1>10
  <2>2. proofs[zero].leaves = Leaves(Take, below, L)
    BY <1>2, <1>6, <1>8, <2>1
  <2>3. job \in Nodes
    BY <1>1, <1>3, <1>4, <1>10, <2>1, JobShape
  <2>4. job.second \in Nat /\ job.second % 2 ^ below = 0
    BY <1>1, <1>4, <2>3, NodeShape
  <2>5. ~(job.second \in 0 .. Groups - 1)
    <3>1. SUFFICES ASSUME job.second \in 0 .. Groups - 1 PROVE FALSE
      OBVIOUS
    <3>2. PICK other \in ScriptJobs : other.level = below /\ Target(other) = own
      BY <1>1, <1>5, <2>4, <3>1, NodeHasJob
    <3>3. IsAccounted(other)
      BY <1>5, <3>2 DEF ProofsAreWhole
    <3>4. other \in Pending(todo) \/ other \in queues[below].data
      BY <2>1, <3>2, <3>3 DEF IsAccounted
    <3>. QED
      BY <2>1, <3>2, <3>4 DEF IsDue, Pending
  <2>6. Groups <= job.second
    <3>1. Groups \in Nat
      BY <1>1, GroupsFit, TreeSize
    <3>. QED
      BY <2>4, <2>5, <3>1
  <2>7. Leaves(Take, below, job.second) = Leaves(Take, below, L)
    BY <1>1, <1>5, <2>4, <2>6, NothingBeyond
  <2>. QED
    BY <2>1, <2>2, <2>7
<1>. QED
  BY <1>9, <1>10

\* The proof that a worker is about to save is whole.
LEMMA SavedIsWhole ==
  ASSUME IInv, JobsKept, ProofsAreWhole, NEW w \in Worker, worker[w].pc = "save",
         NEW p, p = IF LevelOf[w] = 0 THEN worker[w].left
                    ELSE InnerProof(worker[w].left, worker[w].right)
  PROVE  p.leaves = Leaves(Take, LevelOf[w], worker[w].job.first)
<1>. DEFINE level == LevelOf[w]
            wk == worker[w]
            job == wk.job
            below == level - 1
<1>1. Take \in 1 .. CircuitSize * L /\ Take \in Nat /\ level \in 0 .. Top /\ L \in Nat
  BY BalanceAssumption, TreeSize DEF IInv, Values, BudgetRight, Take
<1>2. job \in KnownJob(todo, level) /\ job \in ScriptJobs
  BY DEF IInv, JobsRight, WorkerRight, JobsKept
<1>3. job \in Job /\ job.level = level
  BY <1>2 DEF KnownJob
<1>4. FetchedWhole(wk, level, Take, proofs)
  BY DEF ProofsAreWhole
<1>5. CASE level = 0
  BY <1>4, <1>5 DEF FetchedWhole
<1>6. CASE level # 0
  <2>1. /\ wk.left.leaves = Leaves(Take, below, job.first)
        /\ wk.right.leaves = Leaves(Take, below, job.second)
    BY <1>4, <1>6 DEF FetchedWhole
  <2>2. p.leaves = Leaves(Take, below, job.first) \o Leaves(Take, below, job.second)
    BY <1>6, <2>1 DEF InnerProof
  <2>3. below \in Nat /\ below + 1 = level
    BY <1>1, <1>6, TreeSize
  <2>4. job \in Nodes \/ (job.first = L /\ job.second = L)
    BY <1>1, <1>2, <1>3, <1>6, JobShape
  <2>5. CASE job \in Nodes
    <3>1. /\ job.first \in Nat /\ job.second \in Nat /\ job.second < L
          /\ job.second = job.first + 2 ^ below
      BY <1>1, <1>3, <2>5, NodeShape
    <3>. DEFINE i == job.first
                j == job.second
    <3>2. i \in Nat /\ j \in Nat /\ j = i + 2 ^ below /\ j < L
      BY <3>1
    <3>. HIDE DEF i, j, below
    <3>3. Leaves(Take, below, i) \o Leaves(Take, below, j) = Leaves(Take, below + 1, i)
      <4>1. \A t, l, x, y \in Nat : y = x + 2 ^ l /\ y < L =>
              Leaves(t, l, x) \o Leaves(t, l, y) = Leaves(t, l + 1, x)
        BY LeavesJoin
      <4>2. Take \in Nat /\ below \in Nat
        BY <1>1, <2>3
      <4>3. j = i + 2 ^ below
        BY <3>2
      <4>4. j < L
        BY <3>2
      <4>5. i \in Nat /\ j \in Nat
        BY <3>2
      <4>6. \A y \in Nat : y = i + 2 ^ below /\ y < L =>
              Leaves(Take, below, i) \o Leaves(Take, below, y) = Leaves(Take, below + 1, i)
        BY <4>1, <4>2, <4>5
      <4>7. Leaves(Take, below, i) \o Leaves(Take, below, j) = Leaves(Take, below + 1, i)
        BY <4>3, <4>4, <4>5, <4>6
      <4>. QED
        BY <4>7
    <3>. QED
      BY <2>2, <2>3, <3>3 DEF i, j
  <2>6. CASE job.first = L /\ job.second = L
    <3>1. Leaves(Take, below, L) \o Leaves(Take, below, L) = Leaves(Take, below + 1, L)
      BY <1>1, <2>3, ZerosJoin
    <3>. QED
      BY <2>2, <2>3, <2>6, <3>1
  <2>. QED
    BY <2>4, <2>5, <2>6
<1>. QED
  BY <1>5, <1>6

\* Nor do the workers: none deletes a job before its proof is there, and what
\* they make is whole as long as no proof of zeros was taken too early.
LEMMA WorkerStepIsWhole ==
  ASSUME IInv, IInv', JobsKept, WholeUnlessHasty, NEW w \in Worker, Acts(w)
  PROVE  WholeUnlessHasty'
<1>. DEFINE level == LevelOf[w]
            wk == worker[w]
            q == queues[level]
<1>1. /\ failed \in BOOLEAN /\ hasty \in BOOLEAN
      /\ QueuesRight(queues, todo) /\ worker \in [Worker -> WorkerState] /\ wk \in WorkerState
      /\ proofs \in [Key -> HonestProof] /\ proofs' \in [Key -> HonestProof]
      /\ Take \in 1 .. CircuitSize * L
  BY DEF IInv, Values, JobsRight, BudgetRight, Take
<1>2. /\ UNCHANGED <<failed, overwritten>> /\ todo' = todo /\ Take' = Take
      /\ hasty => hasty'
  <2>1. UNCHANGED <<failed, overwritten>> /\ (hasty => hasty')
    <3>1. CASE FetchFirst(w) \/ FetchSecond(w)
      BY <1>1, <3>1 DEF FetchFirst, FetchSecond
    <3>2. CASE ~(FetchFirst(w) \/ FetchSecond(w))
      BY <3>2 DEF Acts, WorkerStep, WorkerLease, FetchInput, GiveUp, Panic, Save, WorkerComplete,
                  Crash, Start, Stop, history
    <3>. QED
      BY <3>1, <3>2
  <2>. QED
    BY <2>1, TakeStays
<1>3. SUFFICES ASSUME ~hasty', overwritten' = {}, ~failed' PROVE ProofsAreWhole'
  BY DEF WholeUnlessHasty
<1>4. ProofsAreWhole
  BY <1>1, <1>2, <1>3 DEF WholeUnlessHasty
<1>5. level \in 0 .. Top /\ level \in 0 .. Top + 1
  BY BalanceAssumption
<1>6. q \in WorkQueues(KnownJob(todo, level))
  BY <1>1, <1>5 DEF QueuesRight
<1>7. wk.pc \notin {"idle", "ended"} =>
        /\ wk.job \in KnownJob(todo, level) /\ wk.job \in ScriptJobs
        /\ wk.job \in Job /\ wk.job.level = level /\ Target(wk.job) \in Key
  <2>1. wk.pc \notin {"idle", "ended"} => wk.job \in KnownJob(todo, level) /\ wk.job \in ScriptJobs
    BY DEF IInv, JobsRight, WorkerRight, JobsKept
  <2>2. \A job \in KnownJob(todo, level) : job \in Job /\ job.level = level
    BY DEF KnownJob
  <2>. QED
    BY <1>5, <2>1, <2>2, KeysOfJobs
<1>8. /\ \A key \in Key : proofs[key] # NoProof => proofs[key].leaves = Leaves(Take, key[1], key[2])
      /\ FetchedWhole(wk, level, Take, proofs)
  BY <1>4 DEF ProofsAreWhole
<1>9. CASE WorkerLease(w)
  <2>. DEFINE job == Head(q.main)
              pc == IF job \notin q.data THEN "complete"
                      ELSE IF job.level = 0 THEN "input" ELSE "first"
              new == [Idle EXCEPT !.job = job, !.pc = pc]
  <2>1. Lease(q).data = q.data /\ job \in KnownJob(todo, level)
    BY <1>6, <1>9, LeaseKeeps DEF WorkerLease, QueueOf
  <2>2. job \in ScriptJobs
    BY <1>5, <1>9, QueueGoesOn DEF JobsKept, WorkerLease, QueueOf
  <2>3. job.level = level /\ job \notin Pending(todo)
    BY <2>1 DEF KnownJob
  <2>4. /\ worker' = [worker EXCEPT ![w] = new] /\ queues' = [queues EXCEPT ![level] = Lease(q)]
        /\ proofs' = proofs
    BY <1>9 DEF WorkerLease, QueueOf
  <2>5. FetchedWhole(new, level, Take, proofs)
    <3>1. IsAccounted(job)
      BY <1>4, <1>5, <2>2, <2>3 DEF ProofsAreWhole
    <3>2. job \notin q.data => proofs[Target(job)] # NoProof
      BY <2>3, <3>1 DEF IsAccounted
    <3>. HIDE DEF job, q
    <3>3. new.job = job /\ new.pc \in {"complete", "input", "first"}
          /\ (new.pc = "complete" => job \notin q.data)
      BY DEF Idle
    <3>. HIDE DEF new
    <3>. QED
      BY <3>2, <3>3 DEF FetchedWhole
  <2>6. ASSUME NEW other \in ScriptJobs, other.level \in 0 .. Top,
               other \in queues[other.level].data
        PROVE  other \in queues'[other.level].data
    <3>. DEFINE k == other.level
    <3>1. k \in 0 .. Top + 1
      BY <2>6, TreeSize
    <3>2. other \in queues[k].data
      BY <2>6
    <3>. HIDE DEF k, level
    <3>3. other \in queues'[k].data
      BY <1>1, <2>1, <2>4, <3>1, <3>2 DEF QueuesRight
    <3>. QED
      BY <3>3 DEF k
  <2>. HIDE DEF new
  <2>. QED
    BY <1>2, <1>4, <1>8, <2>4, <2>5, <2>6, WholeFrame
<1>10. CASE WorkerComplete(w)
  <2>1. Complete(q, wk.job).data = q.data \ {wk.job}
    BY <1>6, CompleteKeeps
  <2>2. /\ worker' = [worker EXCEPT ![w] = Idle] /\ proofs' = proofs
        /\ queues' = [queues EXCEPT ![level] = Complete(q, wk.job)] /\ wk.pc = "complete"
    BY <1>10 DEF WorkerComplete
  <2>3. proofs[Target(wk.job)] # NoProof
    BY <1>8, <2>2 DEF FetchedWhole
  <2>4. ASSUME NEW other \in ScriptJobs, other.level \in 0 .. Top,
               other \in queues[other.level].data
        PROVE  other \in queues'[other.level].data \/ proofs'[Target(other)] # NoProof
    <3>1. CASE other = wk.job
      BY <2>2, <2>3, <3>1
    <3>2. CASE other # wk.job
      <4>. DEFINE k == other.level
      <4>1. k \in 0 .. Top + 1
        BY <2>4, TreeSize
      <4>2. other \in queues[k].data
        BY <2>4
      <4>. HIDE DEF k, level
      <4>3. other \in queues'[k].data
        BY <1>1, <2>1, <2>2, <3>2, <4>1, <4>2 DEF QueuesRight
      <4>. QED
        BY <4>3 DEF k
    <3>. QED
      BY <3>1, <3>2
  <2>5. FetchedWhole(Idle, level, Take, proofs)
    BY DEF FetchedWhole, Idle
  <2>. QED
    BY <1>2, <1>4, <1>8, <2>2, <2>4, <2>5, WholeFrame
<1>11. CASE FetchInput(w)
  <2>. DEFINE new == [wk EXCEPT !.left = FirstLevelProof(wk.job.first), !.pc = "save"]
  <2>1. worker' = [worker EXCEPT ![w] = new] /\ UNCHANGED <<queues, proofs>>
    BY <1>1, <1>11 DEF FetchInput
  <2>2. level = 0
    BY <1>11 DEF FetchInput, IInv, JobsRight, WorkerRight
  <2>3. FirstLevelProof(wk.job.first).leaves = Leaves(Take, 0, wk.job.first)
    BY GroupsAndRoot DEF FirstLevelProof
  <2>4. new.pc = "save" /\ new.left = FirstLevelProof(wk.job.first) /\ new.job = wk.job
    BY <1>1 DEF WorkerState
  <2>. HIDE DEF new
  <2>5. FetchedWhole(new, level, Take, proofs)
    BY <2>2, <2>3, <2>4 DEF FetchedWhole
  <2>. QED
    BY <1>2, <1>4, <1>8, <2>1, <2>5, WholeFrame
<1>12. CASE FetchFirst(w)
  <2>. DEFINE p == proofs[FirstKey(w)]
              new == [wk EXCEPT !.left = p, !.pc = "second"]
  <2>1. /\ worker' = [worker EXCEPT ![w] = new] /\ UNCHANGED <<queues, proofs>>
        /\ p # NoProof /\ FirstKey(w)[2] = wk.job.first /\ wk.pc = "first"
    BY <1>1, <1>3, <1>12 DEF FetchFirst
  <2>2. level # 0
    BY <2>1 DEF IInv, JobsRight, WorkerRight
  <2>3. FirstKey(w) \in Key
    BY <1>5, <1>7, <2>1, <2>2, KeysOfJobs DEF FirstKey
  <2>4. FirstKey(w)[1] = level - 1
    BY DEF FirstKey, Found
  <2>5. p.leaves = Leaves(Take, level - 1, wk.job.first)
    BY <1>8, <2>1, <2>3, <2>4
  <2>6. new.pc = "second" /\ new.left = p /\ new.job = wk.job
    BY <1>1 DEF WorkerState
  <2>. HIDE DEF new, p
  <2>7. FetchedWhole(new, level, Take, proofs)
    BY <2>5, <2>6 DEF FetchedWhole
  <2>. QED
    BY <1>2, <1>4, <1>8, <2>1, <2>7, WholeFrame
<1>13. CASE FetchSecond(w)
  <2>. DEFINE p == proofs[SecondKey(w)]
              new == [wk EXCEPT !.right = p, !.pc = "save"]
  <2>1. worker' = [worker EXCEPT ![w] = new] /\ UNCHANGED <<queues, proofs>> /\ wk.pc = "second"
    BY <1>1, <1>13 DEF FetchSecond
  <2>2. level # 0 /\ wk.left.leaves = Leaves(Take, level - 1, wk.job.first)
    BY <1>8, <2>1 DEF FetchedWhole, IInv, JobsRight, WorkerRight
  <2>3. p.leaves = Leaves(Take, level - 1, wk.job.second)
    BY <1>3, <1>4, <1>13, SecondIsWhole
  <2>4. new.pc = "save" /\ new.left = wk.left /\ new.right = p /\ new.job = wk.job
    BY <1>1 DEF WorkerState
  <2>. HIDE DEF new, p
  <2>5. FetchedWhole(new, level, Take, proofs)
    BY <2>2, <2>3, <2>4 DEF FetchedWhole
  <2>. QED
    BY <1>2, <1>4, <1>8, <2>1, <2>5, WholeFrame
<1>14. CASE Save(w)
  <2>. DEFINE own == Target(wk.job)
              p == IF level = 0 THEN wk.left ELSE InnerProof(wk.left, wk.right)
              new == [wk EXCEPT !.pc = "complete"]
  <2>1. /\ wk.pc = "save" /\ proofs' = [proofs EXCEPT ![own] = p]
        /\ worker' = [worker EXCEPT ![w] = new] /\ queues' = queues
    BY <1>1, <1>14 DEF Save
  <2>2. own \in Key /\ own[1] = level /\ own[2] = wk.job.first
    BY <1>7, <2>1 DEF Target
  <2>3. wk.left \in HonestProof /\ wk.right \in HonestProof /\ wk.left # NoProof
    BY <2>1 DEF IInv, JobsRight, WorkerRight
  <2>4. p # NoProof
    BY <2>3, InnerIsHonest
  <2>5. p.leaves = Leaves(Take, own[1], own[2])
    BY <1>4, <2>1, <2>2, SavedIsWhole
  <2>6. new.pc = "complete" /\ new.job = wk.job
    BY <1>1 DEF WorkerState
  <2>. HIDE DEF p, new
  <2>7. proofs'[own] = p /\ \A key \in Key : key # own => proofs'[key] = proofs[key]
    BY <1>1, <2>1, <2>2
  <2>8. FetchedWhole(new, level, Take, proofs')
    BY <2>4, <2>6, <2>7 DEF FetchedWhole
  <2>9. \A key \in Key : proofs'[key] # NoProof =>
          proofs'[key].leaves = Leaves(Take, key[1], key[2])
    <3>. HIDE DEF own
    <3>. QED
      BY <1>8, <2>5, <2>7
  <2>10. \A key \in Key : proofs[key] # NoProof => proofs'[key] # NoProof
    <3>. HIDE DEF own
    <3>. QED
      BY <2>4, <2>7
  <2>. QED
    BY <1>2, <1>4, <2>1, <2>8, <2>9, <2>10, WholeFrame
<1>15. CASE GiveUp(w) \/ Panic(w) \/ Start(w) \/ Stop(w) \/ Crash(w)
  <2>1. PICK rest \in {Idle, Ended} : worker' = [worker EXCEPT ![w] = rest]
    BY <1>15 DEF GiveUp, Panic, Start, Stop, Crash
  <2>2. rest.pc \in {"idle", "ended"}
    BY DEF Ended, Idle
  <2>3. FetchedWhole(rest, level, Take, proofs) /\ UNCHANGED <<queues, proofs>>
    BY <1>15, <2>2 DEF FetchedWhole, GiveUp, Panic, Start, Stop, Crash
  <2>. QED
    BY <1>2, <1>4, <1>8, <2>1, <2>3, WholeFrame
<1>. QED
  BY <1>9, <1>10, <1>11, <1>12, <1>13, <1>14, <1>15 DEF Acts, WorkerStep

\* When the levels are done, the root is about all validators taken, and so is
\* its sum, unless a worker took a proof of zeros for a second child not yet
\* made or a placeholder replaced a proof: every job was added, none is lost by
\* leases that run out or workers that crash, and complete deletes a job only
\* after its proof is saved.
THEOREM RootIsWhole == Spec => []RootIsComplete
<1>1. ASSUME Init PROVE JobsKept /\ WholeUnlessHasty
  <2>1. IInv /\ Take \in 1 .. CircuitSize * L
    BY <1>1, InitIsRight DEF IInv, Values, BudgetRight, Take
  <2>2. /\ todo = ScriptOps /\ queues = [l \in 0 .. Top + 1 |-> EmptyQueue]
        /\ proofs = [k \in Key |-> NoProof] /\ worker = [w \in Worker |-> Idle]
    BY <1>1 DEF Init
  <2>3. Pending(todo) = ScriptJobs
    BY <2>2, ScriptAddsItsJobs
  <2>4. QueueKept(EmptyQueue, ScriptJobs)
    BY EmptyQueueKeeps, EmptyQueueIsKept DEF QueueKept
  <2>5. JobsKept
    BY <2>2, <2>3, <2>4 DEF JobsKept, Idle
  <2>6. \A w \in Worker : FetchedWhole(worker[w], LevelOf[w], Take, proofs)
    BY <2>2 DEF FetchedWhole, Idle
  <2>7. ProofsAreWhole
    BY <2>2, <2>3, <2>6 DEF ProofsAreWhole, IsAccounted
  <2>. QED
    BY <2>5, <2>7 DEF WholeUnlessHasty
<1>2. ASSUME IInv, IInv', JobsKept, WholeUnlessHasty, [Next]_vars PROVE WholeUnlessHasty'
  <2>1. CASE ScriptStep
    BY <1>2, <2>1, ScriptStepIsWhole
  <2>2. CASE \E w \in Worker : Acts(w)
    BY <1>2, <2>2, WorkerStepIsWhole
  <2>3. CASE \E l \in 0 .. Top + 1 : LeaseExpires(l) \/ Clean(l)
    <3>1. \A k \in 0 .. Top + 1 : queues'[k].data = queues[k].data
      BY <1>2, <2>3, LeasesAndCleanerAreRight
    <3>2. UNCHANGED <<todo, failed, proofs, marked, worker, hasty, overwritten>>
      BY <2>3 DEF LeaseExpires, Clean, history
    <3>3. Take' = Take
      <4>1. BudgetRight(budget)
        BY <1>2 DEF IInv, Values
      <4>. QED
        BY <2>3, <4>1, Spending DEF LeaseExpires, Clean, Take
    <3>4. ScriptJobs' = ScriptJobs
      BY <3>3, JobsStay
    <3>5. \A job \in ScriptJobs : job.level \in 0 .. Top /\ IsAccounted(job) => IsAccounted(job)'
      <4>1. \A k \in 0 .. Top : k \in 0 .. Top + 1
        BY TreeSize
      <4>. QED
        BY <3>1, <3>2, <4>1 DEF IsAccounted
    <3>6. ProofsAreWhole => ProofsAreWhole'
      BY <3>2, <3>3, <3>4, <3>5 DEF ProofsAreWhole
    <3>. QED
      BY <1>2, <3>2, <3>6 DEF WholeUnlessHasty
  <2>4. CASE FinalLayer \/ UNCHANGED vars
    <3>1. UNCHANGED <<budget, todo, failed, proofs, queues, worker, hasty, overwritten>>
      BY <2>4 DEF FinalLayer, vars, history
    <3>2. Take' = Take /\ ScriptJobs' = ScriptJobs
      BY <3>1, JobsStay DEF Take
    <3>3. \A job : IsAccounted(job) => IsAccounted(job)'
      BY <3>1 DEF IsAccounted
    <3>4. ProofsAreWhole => ProofsAreWhole'
      BY <3>1, <3>2, <3>3 DEF ProofsAreWhole
    <3>. QED
      BY <1>2, <3>1, <3>4 DEF WholeUnlessHasty
  <2>. QED
    BY <1>2, <2>1, <2>2, <2>3, <2>4 DEF Next, Acts
<1>3. ASSUME IInv, JobsKept, WholeUnlessHasty PROVE RootIsComplete
  <2>1. SUFFICES ASSUME todo = {}, ~failed, ~hasty, overwritten = {}, Drained
                 PROVE  proofs[<<Top, 0>>] = [leaves |-> StateLeaves, sum |-> RightSum]
    BY DEF RootIsComplete
  <2>. DEFINE root == <<Top, 0>>
  <2>2. ProofsAreWhole
    BY <1>3, <2>1 DEF WholeUnlessHasty
  <2>3. Take \in 1 .. CircuitSize * L /\ proofs \in [Key -> HonestProof]
    BY <1>3 DEF IInv, Values, BudgetRight, Take
  <2>4. 0 \in 0 .. Groups - 1 /\ Top \in 0 .. Top /\ root \in Key
    <3>1. 0 \in Index /\ Top \in 0 .. Top
      BY TreeSize DEF Index
    <3>2. Groups # 0
      <4>. DEFINE c == CircuitSize
                  x == Take + c - 1
                  q == x \div c
      <4>1. c \in Nat \ {0} /\ x \in Nat /\ c <= x
        BY <2>3, TreeSize
      <4>. HIDE DEF c, x
      <4>2. x % c \in 0 .. c - 1 /\ x = q * c + (x % c) /\ q \in Nat
        BY <4>1, Div
      <4>. HIDE DEF q
      <4>3. q # 0
        <5>1. SUFFICES ASSUME q = 0 PROVE FALSE
          OBVIOUS
        <5>2. q * c = 0
          BY <4>1, <5>1
        <5>. QED
          BY <4>1, <4>2, <5>2
      <4>. QED
        BY <4>3 DEF Groups, q, x, c
    <3>3. Groups \in Nat
      BY <2>3, GroupsFit, TreeSize
    <3>. QED
      BY <3>1, <3>2, <3>3 DEF Key
  <2>5. 0 % 2 ^ Top = 0
    <3>. DEFINE b == 2 ^ Top
    <3>1. b \in Nat \ {0}
      BY PowerOfTwo, TreeSize
    <3>. HIDE DEF b
    <3>2. 0 % b = 0
      BY <3>1
    <3>. QED
      BY <3>2 DEF b
  <2>6. PICK job \in ScriptJobs : job.level = Top /\ Target(job) = root
    BY <2>3, <2>4, <2>5, NodeHasJob
  <2>7. job \notin Pending(todo) /\ queues[Top].data = {}
    <3>1. Pending({}) = {}
      BY DEF Pending
    <3>2. QueueKept(queues[Top], ScriptJobs) /\ IsDrained(queues[Top])
      BY <1>3, <2>1, TreeSize DEF JobsKept, Drained
    <3>3. ToSet(<<>>) = {}
      BY DEF ToSet
    <3>4. queues[Top].data = {}
      BY <3>2, <3>3 DEF QueueKept, IsKept, IsDrained
    <3>. QED
      BY <2>1, <3>1, <3>4
  <2>8. proofs[root] # NoProof
    BY <2>2, <2>4, <2>6, <2>7 DEF ProofsAreWhole, IsAccounted
  <2>9. proofs[root].leaves = StateLeaves
    <3>1. proofs[root].leaves = Leaves(Take, root[1], root[2])
      BY <2>2, <2>4, <2>8 DEF ProofsAreWhole
    <3>. QED
      BY <3>1, GroupsAndRoot
  <2>10. SumOf(StateLeaves) = RightSum
    BY <2>3, SumOfState
  <2>. HIDE DEF root
  <2>11. proofs[root] \in Proof /\ proofs[root].sum = SumOf(proofs[root].leaves)
    BY <2>3, <2>4 DEF HonestProof
  <2>12. proofs[root] = [leaves |-> StateLeaves, sum |-> RightSum]
    BY <2>9, <2>10, <2>11 DEF Proof
  <2>. QED
    BY <2>12 DEF root
<1>. QED
  BY <1>1, <1>2, <1>3, InvariantHolds, JobsAreKept, PTL DEF Spec
-----------------------------------------------------------------------------
(* What is above a placeholder *)

\* The node whose first child has this key.
Above(key) == <<key[1] + 1, key[2]>>

\* A placeholder is written before the job of its node is added.
MarksFirst(ops) ==
  \A a \in ops : a.do = "mark" =>
    \E b \in ops : b.do = "add" /\ b.job = a.job /\ Precedes(a.at, b.at)

\* No worker has fetched the first child of this node.
NobodyIsAt(node) ==
  \A w \in Worker : worker[w].pc \in {"second", "save"} => Target(worker[w].job) # node

\* A job not yet added has no proof; where a placeholder stands there is none
\* either, nor in the node above it, and nobody is making that one.
NodesWait ==
  /\ MarksFirst(todo)
  /\ \A job \in Pending(todo) : job.level \in 0 .. Top => proofs[Target(job)] = NoProof
  /\ \A key \in marked : /\ proofs[key] = NoProof
                         /\ key[1] + 1 \in 0 .. Top
                         /\ proofs[Above(key)] = NoProof
                         /\ NobodyIsAt(Above(key))

\* No two jobs of the script make the same proof.
LEMMA TargetsDiffer ==
  ASSUME Take \in 1 .. CircuitSize * L, NEW a \in ScriptJobs, NEW b \in ScriptJobs,
         Target(a) = Target(b)
  PROVE  a = b
<1>1. a.level = b.level /\ a.first = b.first
  BY DEF Target
<1>2. ASSUME NEW job \in ScriptJobs
      PROVE  \/ job = GroupJob(job.first) /\ job.level = 0
             \/ job = ZeroJob(job.level) /\ job.level # 0 /\ job.first = L
             \/ /\ job = [level |-> job.level, first |-> job.first,
                          second |-> job.first + 2 ^ (job.level - 1)]
                /\ job.level # 0 /\ job.first # L
  <2>1. CASE \E g \in (0 .. Groups - 1) \cup {L} : job = GroupJob(g)
    BY <2>1 DEF GroupJob
  <2>2. CASE \E l \in 1 .. Top + 1 : job = ZeroJob(l)
    BY <2>2 DEF ZeroJob
  <2>3. CASE job \in Nodes
    <3>1. /\ job \in Job /\ job.level \in 1 .. Top /\ job.first # L
          /\ job.second = job.first + 2 ^ (job.level - 1)
      BY <2>3, NodeShape
    <3>2. job = [level |-> job.level, first |-> job.first, second |-> job.second]
      BY <3>1 DEF Job
    <3>. QED
      BY <3>1, <3>2
  <2>. QED
    BY <2>1, <2>2, <2>3 DEF ScriptJobs
<1>3. \/ a = GroupJob(a.first) /\ a.level = 0
      \/ a = ZeroJob(a.level) /\ a.level # 0 /\ a.first = L
      \/ /\ a = [level |-> a.level, first |-> a.first,
                 second |-> a.first + 2 ^ (a.level - 1)]
         /\ a.level # 0 /\ a.first # L
  BY <1>2
<1>4. \/ b = GroupJob(b.first) /\ b.level = 0
      \/ b = ZeroJob(b.level) /\ b.level # 0 /\ b.first = L
      \/ /\ b = [level |-> b.level, first |-> b.first,
                 second |-> b.first + 2 ^ (b.level - 1)]
         /\ b.level # 0 /\ b.first # L
  BY <1>2
<1>. QED
  BY <1>1, <1>3, <1>4

\* Whoever works at a job has one the script has added.
LEMMA JobAtWork ==
  ASSUME IInv, JobsKept, NEW w \in Worker, worker[w].pc \notin {"idle", "ended"}
  PROVE  LET job == worker[w].job IN
         /\ job \in Job /\ job.level = LevelOf[w] /\ Target(job) \in Key
         /\ \A other \in Pending(todo) : Target(other) # Target(job)
<1>. DEFINE job == worker[w].job
<1>1. job \in KnownJob(todo, LevelOf[w]) /\ job \in ScriptJobs
  BY DEF IInv, JobsRight, WorkerRight, JobsKept
<1>2. job \in Job /\ job.level = LevelOf[w] /\ job \notin Pending(todo)
  BY <1>1 DEF KnownJob
<1>3. Target(job) \in Key
  BY <1>2, BalanceAssumption, KeysOfJobs
<1>4. ASSUME NEW other \in Pending(todo) PROVE Target(other) # Target(job)
  <2>1. other \in ScriptJobs /\ other # job /\ Take \in 1 .. CircuitSize * L
    BY <1>2 DEF JobsKept, IInv, Values, BudgetRight, Take
  <2>. QED
    BY <1>1, <2>1, TargetsDiffer
<1>. QED
  BY <1>2, <1>3, <1>4

\* Of two places, only one comes before the other.
LEMMA PrecedesOneWay ==
  ASSUME NEW a \in Place, NEW b \in Place, Precedes(a, b)
  PROVE  ~Precedes(b, a)
<1>1. SUFFICES ASSUME Precedes(b, a) PROVE FALSE
  OBVIOUS
<1>2. PICK n \in 1 .. 4 : a[n] < b[n] /\ \A k \in 1 .. n - 1 : a[k] = b[k]
  BY DEF Precedes
<1>3. PICK m \in 1 .. 4 : b[m] < a[m] /\ \A k \in 1 .. m - 1 : b[k] = a[k]
  BY <1>1 DEF Precedes
<1>4. \A k \in 1 .. 4 : a[k] \in Nat /\ b[k] \in Nat
  BY DEF Place
<1>5. n < m \/ m < n \/ n = m
  OBVIOUS
<1>6. (n < m => n \in 1 .. m - 1) /\ (m < n => m \in 1 .. n - 1)
  OBVIOUS
<1>. QED
  BY <1>2, <1>3, <1>4, <1>5, <1>6

\* The script's writes.
LEMMA ScriptStepWaits ==
  ASSUME IInv, JobsKept, NodesWait, ScriptStep
  PROVE  NodesWait'
<1>1. PICK op \in todo :
        /\ IsNext(op, todo)
        /\ SaveInput(op) \/ InputFails(op) \/ MarkProof(op) \/ AddJob(op) \/ SaveFinalInput(op)
  BY DEF ScriptStep
<1>2. worker' = worker
  BY DEF ScriptStep
<1>3. /\ OpsRight(todo) /\ todo \subseteq Op /\ proofs \in [Key -> HonestProof]
      /\ marked \subseteq Key /\ worker \in [Worker -> WorkerState]
  BY DEF IInv, Values, JobsRight, OpsRight
<1>4. MarksFirst(todo')
  <2>1. CASE todo' = {}
    BY <2>1 DEF MarksFirst
  <2>2. CASE todo' = todo \ {op}
    <3>1. SUFFICES ASSUME NEW a \in todo', a.do = "mark"
                   PROVE  \E b \in todo' : b.do = "add" /\ b.job = a.job /\ Precedes(a.at, b.at)
      BY DEF MarksFirst
    <3>2. PICK b \in todo : b.do = "add" /\ b.job = a.job /\ Precedes(a.at, b.at)
      BY <2>2, <3>1 DEF NodesWait, MarksFirst
    <3>3. a \in todo \ {op} /\ a.at \in Place /\ op.at \in Place
      BY <1>3, <2>2 DEF Op
    <3>4. Precedes(op.at, a.at)
      BY <1>1, <3>3 DEF IsNext
    <3>5. b # op
      BY <3>2, <3>3, <3>4, PrecedesOneWay
    <3>. QED
      BY <2>2, <3>2, <3>5
  <2>. QED
    BY <1>1, <2>1, <2>2 DEF SaveInput, InputFails, MarkProof, AddJob, SaveFinalInput
<1>5. Pending(todo') \subseteq Pending(todo)
  <2>1. todo' \subseteq todo
    BY <1>1 DEF SaveInput, InputFails, MarkProof, AddJob, SaveFinalInput
  <2>. QED
    BY <2>1 DEF Pending
<1>6. CASE MarkProof(op)
  <2>. DEFINE job == op.job
              new == Placeholder(job)
  <2>1. /\ op.do = "mark" /\ proofs' = [proofs EXCEPT ![new] = NoProof]
        /\ marked' = marked \cup {new}
    BY <1>6 DEF MarkProof
  <2>2. job \in Job /\ job.level \in 1 .. Top /\ job \in Pending(todo)
    <3>1. \E b \in todo : b.do = "add" /\ b.job = job
      BY <2>1 DEF NodesWait, MarksFirst
    <3>. QED
      BY <1>3, <2>1, <3>1 DEF OpsRight, Pending
  <2>3. new \in Key /\ new[1] + 1 = job.level /\ Above(new) = Target(job)
    <3>1. (job.level - 1) + 1 = job.level
      BY <2>2, TreeSize
    <3>. QED
      BY <2>2, <3>1, PlaceholderIsKey DEF Placeholder, Above, Target
  <2>4. job.level \in 0 .. Top
    BY <2>2, TreeSize
  <2>5. proofs[Above(new)] = NoProof
    BY <2>2, <2>3, <2>4 DEF NodesWait
  <2>6. NobodyIsAt(Above(new))
    BY <2>2, <2>3, JobAtWork DEF NobodyIsAt
  <2>. HIDE DEF new, job
  <2>7. \A key : proofs[key] = NoProof => proofs'[key] = NoProof
    BY <1>3, <2>1, <2>3
  <2>8. \A key \in marked' : /\ proofs'[key] = NoProof
                             /\ key[1] + 1 \in 0 .. Top
                             /\ proofs'[Above(key)] = NoProof
                             /\ NobodyIsAt(Above(key))'
    <3>1. \A key \in marked : /\ proofs[key] = NoProof
                              /\ key[1] + 1 \in 0 .. Top
                              /\ proofs[Above(key)] = NoProof
                              /\ NobodyIsAt(Above(key))
      BY DEF NodesWait
    <3>2. proofs'[new] = NoProof
      BY <1>3, <2>1, <2>3
    <3>3. \A node : NobodyIsAt(node) => NobodyIsAt(node)'
      BY <1>2 DEF NobodyIsAt
    <3>4. \A node : Above(node)' = Above(node)
      BY DEF Above
    <3>. QED
      BY <2>1, <2>3, <2>4, <2>5, <2>6, <2>7, <3>1, <3>2, <3>3, <3>4
  <2>9. \A other \in Pending(todo') :
          other.level \in 0 .. Top => proofs'[Target(other)] = NoProof
    BY <1>5, <2>7 DEF NodesWait
  <2>. QED
    BY <1>4, <2>8, <2>9 DEF NodesWait
<1>7. CASE UNCHANGED <<proofs, marked>>
  <2>1. \A key \in marked' : NobodyIsAt(Above(key))'
    BY <1>2, <1>7 DEF NodesWait, NobodyIsAt, Above
  <2>. QED
    BY <1>4, <1>5, <1>7, <2>1 DEF NodesWait, Above
<1>. QED
  BY <1>1, <1>6, <1>7 DEF SaveInput, InputFails, AddJob, SaveFinalInput

\* A worker cannot fetch a first child that is a placeholder, so it does not
\* make the node above one.
LEMMA WorkerStepWaits ==
  ASSUME IInv, JobsKept, NodesWait, NEW w \in Worker, Acts(w)
  PROVE  NodesWait'
<1>. DEFINE wk == worker[w]
            job == wk.job
<1>1. /\ worker \in [Worker -> WorkerState] /\ wk \in WorkerState
      /\ proofs \in [Key -> HonestProof] /\ marked \subseteq Key
  BY DEF IInv, Values, JobsRight
<1>2. todo' = todo /\ marked' \subseteq marked /\ \A v \in Worker \ {w} : worker'[v] = worker[v]
  BY <1>1 DEF Acts, WorkerStep, WorkerLease, FetchInput, FetchFirst, FetchSecond, GiveUp, Panic,
              Save, WorkerComplete, Crash, Start, Stop
<1>3. \A key \in marked : /\ proofs[key] = NoProof
                          /\ key[1] + 1 \in 0 .. Top
                          /\ proofs[Above(key)] = NoProof
                          /\ NobodyIsAt(Above(key))
  BY DEF NodesWait
<1>4. ASSUME NEW key \in marked, worker'[w].pc \in {"second", "save"}
      PROVE  Target(worker'[w].job) # Above(key)
  <2>1. CASE FetchInput(w)
    <3>1. worker'[w].job = job /\ wk.pc = "input"
      BY <1>1, <2>1 DEF FetchInput, WorkerState
    <3>2. job.level = 0
      BY <3>1, JobAtWork DEF IInv, JobsRight, WorkerRight
    <3>3. key[1] \in Nat
      BY <1>1 DEF Key
    <3>. QED
      BY <3>1, <3>2, <3>3 DEF Target, Above
  <2>2. CASE FetchFirst(w)
    <3>1. worker'[w].job = job /\ wk.pc = "first" /\ proofs[FirstKey(w)] # NoProof
      BY <1>1, <2>2 DEF FetchFirst, WorkerState
    <3>2. job.level = LevelOf[w] /\ LevelOf[w] \in Nat /\ key \in Key
      BY <1>1, <3>1, JobAtWork, BalanceAssumption
    <3>3. SUFFICES ASSUME Target(job) = Above(key) PROVE FALSE
      BY <3>1
    <3>4. LevelOf[w] = key[1] + 1 /\ job.first = key[2]
      BY <3>2, <3>3 DEF Target, Above
    <3>5. <<LevelOf[w] - 1, job.first>> = key
      <4>1. key = <<key[1], key[2]>> /\ key[1] \in Nat
        BY <3>2 DEF Key
      <4>. QED
        BY <3>4, <4>1
    <3>6. FirstKey(w) = key
      BY <3>5 DEF FirstKey, Found
    <3>. QED
      BY <1>3, <3>1, <3>6
  <2>3. CASE FetchSecond(w)
    <3>1. worker'[w].job = job /\ wk.pc = "second"
      BY <1>1, <2>3 DEF FetchSecond, WorkerState
    <3>. QED
      BY <1>3, <3>1 DEF NobodyIsAt
  <2>4. CASE ~(FetchInput(w) \/ FetchFirst(w) \/ FetchSecond(w))
    <3>1. CASE WorkerLease(w)
      <4>. DEFINE leased == Head(QueueOf(w).main)
                  pc == IF leased \notin QueueOf(w).data THEN "complete"
                          ELSE IF leased.level = 0 THEN "input" ELSE "first"
      <4>1. worker'[w] = [Idle EXCEPT !.job = leased, !.pc = pc]
        BY <1>1, <3>1 DEF WorkerLease
      <4>2. pc \notin {"second", "save"}
        OBVIOUS
      <4>. HIDE DEF leased, pc
      <4>3. worker'[w].pc = pc
        BY <4>1 DEF Idle
      <4>. QED
        BY <1>4, <4>2, <4>3
    <3>2. CASE ~WorkerLease(w)
      <4>1. worker'[w].pc \in {"idle", "ended", "complete"}
        BY <1>1, <2>4, <3>2 DEF Acts, WorkerStep, GiveUp, Panic, Save, WorkerComplete, Crash,
                                Start, Stop, Idle, Ended, WorkerState
      <4>. QED
        BY <1>4, <4>1
    <3>. QED
      BY <3>1, <3>2
  <2>. QED
    BY <2>1, <2>2, <2>3, <2>4
<1>5. \A key \in marked' : NobodyIsAt(Above(key))'
  <2>1. ASSUME NEW key \in marked, NEW v \in Worker, worker'[v].pc \in {"second", "save"}
        PROVE  Target(worker'[v].job) # Above(key)
    <3>1. CASE v = w
      BY <1>4, <2>1, <3>1
    <3>2. CASE v # w
      BY <1>2, <1>3, <2>1, <3>2 DEF NobodyIsAt
    <3>. QED
      BY <3>1, <3>2
  <2>. QED
    BY <1>2, <2>1 DEF NobodyIsAt, Above, Target
<1>6. CASE Save(w)
  <2>. DEFINE own == Target(job)
  <2>1. PICK p : proofs' = [proofs EXCEPT ![own] = p]
    BY <1>6 DEF Save
  <2>2. marked' = marked \ {own} /\ wk.pc = "save"
    BY <1>6 DEF Save
  <2>3. /\ own \in Key /\ \A other \in Pending(todo) : Target(other) # own
    BY <2>2, JobAtWork
  <2>4. \A key \in marked : Above(key) # own
    BY <1>3, <2>2 DEF NobodyIsAt
  <2>. HIDE DEF own
  <2>5. \A key : key # own => proofs'[key] = proofs[key]
    BY <1>1, <2>1
  <2>6. \A key \in marked' : /\ proofs'[key] = NoProof
                             /\ key[1] + 1 \in 0 .. Top
                             /\ proofs'[Above(key)] = NoProof
    BY <1>3, <2>2, <2>4, <2>5
  <2>7. \A other \in Pending(todo') :
          other.level \in 0 .. Top => proofs'[Target(other)] = NoProof
    BY <1>2, <2>3, <2>5 DEF NodesWait
  <2>. QED
    BY <1>2, <1>5, <2>6, <2>7 DEF NodesWait, Above
<1>7. CASE ~Save(w)
  <2>1. proofs' = proofs
    BY <1>7 DEF Acts, WorkerStep, WorkerLease, FetchInput, FetchFirst, FetchSecond, GiveUp, Panic,
                WorkerComplete, Crash, Start, Stop
  <2>. QED
    BY <1>2, <1>3, <1>5, <2>1 DEF NodesWait, Above
<1>. QED
  BY <1>6, <1>7

\* No node above a placeholder has a proof, also where the placeholder
\* replaced one: the script writes it before it adds the job of that node, no
\* other job makes the same proof, and a worker that finds the placeholder in
\* place of the first child gives up.
THEOREM NothingIsAboveMarked == Spec => []NothingAboveMarked
<1>1. ASSUME Init PROVE JobsKept /\ NodesWait
  <2>1. IInv /\ Take \in 1 .. CircuitSize * L
    BY <1>1, InitIsRight DEF IInv, Values, BudgetRight, Take
  <2>2. /\ todo = ScriptOps /\ queues = [l \in 0 .. Top + 1 |-> EmptyQueue] /\ marked = {}
        /\ proofs = [k \in Key |-> NoProof] /\ worker = [w \in Worker |-> Idle]
    BY <1>1 DEF Init
  <2>3. Pending(todo) = ScriptJobs
    BY <2>2, ScriptAddsItsJobs
  <2>4. QueueKept(EmptyQueue, ScriptJobs)
    BY EmptyQueueKeeps, EmptyQueueIsKept DEF QueueKept
  <2>5. JobsKept
    BY <2>2, <2>3, <2>4 DEF JobsKept, Idle
  <2>6. MarksFirst(todo)
    <3>1. SUFFICES ASSUME NEW a \in ScriptOps, a.do = "mark"
                   PROVE  \E b \in ScriptOps :
                            b.do = "add" /\ b.job = a.job /\ Precedes(a.at, b.at)
      BY <2>2 DEF MarksFirst
    <3>2. PICK job \in Nodes : a = MarkOp(<<3, job.level, job.first, 0>>, job)
      BY <3>1 DEF ScriptOps, ZeroOps, BatchOps, BatchOp, NodeOps, AddOp, MarkOp, InputOp
    <3>. DEFINE b == AddOp(<<3, job.level, job.first, 1>>, job)
    <3>3. b \in ScriptOps /\ b.do = "add" /\ b.job = a.job
      BY <3>2 DEF ScriptOps, NodeOps, AddOp, MarkOp
    <3>4. Precedes(a.at, b.at)
      <4>. DEFINE x == <<3, job.level, job.first, 0>>
                  y == <<3, job.level, job.first, 1>>
      <4>1. a.at = x /\ b.at = y
        BY <3>2 DEF AddOp, MarkOp
      <4>2. x[4] < y[4] /\ x[1] = y[1] /\ x[2] = y[2] /\ x[3] = y[3]
        OBVIOUS
      <4>. HIDE DEF x, y
      <4>3. 4 \in 1 .. 4 /\ \A m \in 1 .. 4 - 1 : x[m] = y[m]
        <5>1. \A m \in 1 .. 4 - 1 : m = 1 \/ m = 2 \/ m = 3
          OBVIOUS
        <5>. QED
          BY <4>2, <5>1
      <4>4. Precedes(x, y)
        BY <4>2, <4>3 DEF Precedes
      <4>. QED
        BY <4>1, <4>4
    <3>. QED
      BY <3>3, <3>4
  <2>7. ASSUME NEW job \in Pending(todo), job.level \in 0 .. Top
        PROVE  proofs[Target(job)] = NoProof
    BY <2>1, <2>2, <2>3, <2>7, JobHasKey
  <2>. QED
    BY <2>2, <2>5, <2>6, <2>7 DEF NodesWait
<1>2. ASSUME IInv, JobsKept, NodesWait, [Next]_vars PROVE NodesWait'
  <2>1. CASE ScriptStep
    BY <1>2, <2>1, ScriptStepWaits
  <2>2. CASE \E w \in Worker : Acts(w)
    BY <1>2, <2>2, WorkerStepWaits
  <2>3. CASE UNCHANGED <<todo, proofs, marked, worker>>
    BY <1>2, <2>3 DEF NodesWait, NobodyIsAt, Above
  <2>. QED
    BY <1>2, <2>1, <2>2, <2>3 DEF Next, Acts, LeaseExpires, Clean, FinalLayer, vars
<1>3. NodesWait => NothingAboveMarked
  BY DEF NodesWait, NothingAboveMarked, Above
<1>. QED
  BY <1>1, <1>2, <1>3, InvariantHolds, JobsAreKept, PTL DEF Spec
=============================================================================
