----------------------- MODULE CommitmentMapper_proofs -----------------------
(***************************************************************************)
(* Proofs about the commitment mapper for a tree of any depth, any number  *)
(* of workers, rounds, faults and crashes: the values of its state, that   *)
(* nobody waits in vain for a marked proof, that a proof is about the      *)
(* validators at its place in the tree, whatever races to make it, and     *)
(* that when everything is done the root is about the validators saved.    *)
(***************************************************************************)
EXTENDS CommitmentMapper, ProverLemmas

-----------------------------------------------------------------------------
(* The inductive invariant *)

\* What the script will still add.
Pending(ops) == {op.job : op \in {o \in ops : o.do = "add"}}

\* The jobs that the script makes: for a leaf, for a node of zeros, or for
\* two neighbouring subtrees that lie within the tree.
IsShaped(job) ==
  \/ job.level = -1 /\ job.second = job.first
  \/ job.level >= 0 /\ job.first = L /\ job.second = L
  \/ /\ job.level >= 0
     /\ job.first % 2 ^ (job.level + 1) = 0
     /\ job.second = job.first + 2 ^ job.level
     /\ job.second + 2 ^ job.level <= L

ShapedJob == {job \in Job : IsShaped(job)}

\* The jobs that may be known: none of a later round, none still pending.
KnownJob(ops, r) == {job \in ShapedJob : job.round <= r} \ Pending(ops)

\* What a script has left: the jobs are of this round and each is added
\* once; what is marked is added later.
OpsRight(ops, r) ==
  /\ ops \subseteq Op
  /\ \A op \in ops : op.do \in {"mark", "add"} => op.job \in ShapedJob /\ op.job.round = r
  /\ \A a, b \in ops : a.do = "add" /\ b.do = "add" /\ a.job = b.job => a = b
  /\ \A m \in ops : m.do = "mark" =>
       \E a \in ops : a.do = "add" /\ a.job = m.job /\ Precedes(m.at, a.at)

\* A worker has a job it can know, of the kind its place in the code says.
WorkerRight(wk, known) ==
  /\ wk.job \in known \cup {NoJob}
  /\ wk.pc # "idle" => wk.job \in known
  /\ wk.pc = "validator" => wk.job.level = -1
  /\ wk.pc \in {"first", "second"} => wk.job.level # -1

Values ==
  /\ beacon \in [Index -> 0 .. round]
  /\ validators \in [0 .. L -> Leaf]
  /\ proofs \in [Key -> Seq(Leaf)]
  /\ marked \subseteq Key
  /\ round \in Nat
  /\ budget \in [initial : 0 .. L, count : 1 .. L, rounds : Nat, faults : Nat, crashes : Nat]
  /\ round + budget.rounds <= MaxRound
  /\ scriptLost \in BOOLEAN
  /\ disorder \in BOOLEAN

JobsRight ==
  /\ OpsRight(todo, round)
  /\ queue \in WorkQueues(KnownJob(todo, round))
  /\ worker \in [Worker -> WorkerState]
  /\ \A w \in Worker : WorkerRight(worker[w], KnownJob(todo, round))

IInv == Values /\ JobsRight

\* Why a marked key is awaited: its job is pending, or has its data and no
\* worker is about to delete that.
IsExpected(key) ==
  \/ key \in {Target(job) : job \in Pending(todo)}
  \/ \E job \in queue.data :
       /\ Target(job) = key
       /\ \A w \in Worker : ~(worker[w].pc = "complete" /\ worker[w].job = job)

MarkedAreExpected == scriptLost \/ \A key \in marked : IsExpected(key)

Nothing == {ZeroChunk, ZeroValidator}

\* A proof that may be saved for the subtree of 2^d leaves from i on, when
\* the validators have these versions.
InPlace(versions, p, d, i) ==
  /\ Len(p) = 2 ^ d
  /\ i # L => i + 2 ^ d <= L
  /\ \A k \in 1 .. 2 ^ d : p[k] \notin Nothing => i # L /\ p[k] <= versions[i + k - 1]

\* What a worker has fetched is in place where its job says.
FetchedInPlace(versions, wk) ==
  /\ wk.pc = "second" => InPlace(versions, wk.left, wk.job.level, wk.job.first)
  /\ wk.pc = "save" /\ wk.job.level = -1 => InPlace(versions, wk.left, 0, wk.job.first)
  /\ wk.pc = "save" /\ wk.job.level # -1 =>
       /\ InPlace(versions, wk.left, wk.job.level, wk.job.first)
       /\ InPlace(versions, wk.right, wk.job.level, wk.job.second)

ValidatorsInPlace ==
  \A i \in 0 .. L : validators[i] \notin Nothing => i # L /\ validators[i] <= beacon[i]

ProofsInPlace ==
  \A key \in Key : proofs[key] # <<>> => InPlace(beacon, proofs[key], key[1], key[2])

AllInPlace ==
  /\ ValidatorsInPlace
  /\ ProofsInPlace
  /\ \A w \in Worker : FetchedInPlace(beacon, worker[w])

-----------------------------------------------------------------------------
(* The script's writes *)

\* Whatever is left of a tree of that depth is at a level of it.
LEMMA TreeSize == L \in Nat \ {0} /\ Depth \in Nat \ {0}
  BY PowerOfTwo, MapperAssumption DEF L

\* The job above a leaf of the tree is one for two neighbouring subtrees.
LEMMA InnerJobIsShaped ==
  ASSUME NEW i \in Index, NEW level \in 0 .. Depth - 1, NEW r \in 0 .. MaxRound
  PROVE  /\ InnerJob(i, level, r) \in ShapedJob
         /\ InnerJob(i, level, r).round = r
         /\ InnerJob(i, level, r).level = level
         /\ InnerJob(i, level, r).first # L
<1>. DEFINE p == 2 ^ level
            f == i - (i % 2 ^ (level + 1))
<1>1. p \in Nat \ {0} /\ 2 ^ (level + 1) = p + p
  BY PowerOfTwo
<1>2. level + 1 \in Nat /\ Depth \in Nat /\ level + 1 <= Depth
  BY TreeSize
<1>3. f \in 0 .. i /\ f + 2 ^ (level + 1) <= L
  BY <1>2, SubtreeFits DEF L, Index
<1>4. i \in Nat /\ i < L /\ L \in Nat
  BY TreeSize DEF Index
<1>5. f \in 0 .. L /\ f + p \in 0 .. L /\ f + p + p <= L /\ f # L
  <2>. HIDE DEF f, p
  <2>. QED
    BY <1>1, <1>3, <1>4
<1>6. InnerJob(i, level, r) = [level |-> level, first |-> f, second |-> f + p, round |-> r]
  BY DEF InnerJob, FirstOf
<1>7. level \in -1 .. Depth - 1
  BY <1>2
<1>. HIDE DEF f, p
<1>8. InnerJob(i, level, r) \in Job
  BY <1>5, <1>6, <1>7 DEF Job
<1>9. f % 2 ^ (level + 1) = 0
  BY <1>2, <1>4, PowerOfTwo, RoundedIsMultiple DEF f
<1>10. IsShaped(InnerJob(i, level, r))
  BY <1>5, <1>6, <1>9 DEF IsShaped, p
<1>. QED
  BY <1>5, <1>6, <1>8, <1>10 DEF ShapedJob

\* So is the job of a leaf, also of the zero validator.
LEMMA LeafJobIsShaped ==
  ASSUME NEW i \in 0 .. L, NEW r \in 0 .. MaxRound
  PROVE  LeafJob(i, r) \in ShapedJob /\ LeafJob(i, r).round = r
<1>1. -1 \in -1 .. Depth - 1
  BY TreeSize
<1>. QED
  BY <1>1 DEF LeafJob, Job, ShapedJob, IsShaped

\* And the job of zeros of a level.
LEMMA ZeroJobIsShaped ==
  ASSUME NEW level \in 0 .. Depth - 1, NEW r \in 0 .. MaxRound
  PROVE  ZeroJob(level, r) \in ShapedJob /\ ZeroJob(level, r).round = r
<1>1. level \in -1 .. Depth - 1 /\ L \in 0 .. L
  BY TreeSize
<1>. QED
  BY <1>1 DEF ZeroJob, Job, ShapedJob, IsShaped

\* The fields of a write.
LEMMA SaveIsOp ==
  ASSUME NEW at \in Place, NEW indices \in SUBSET (0 .. L)
  PROVE  SaveOp(at, indices) \in Op /\ SaveOp(at, indices).do = "save"
  BY DEF SaveOp, Op

\* Those of the other two kinds.
LEMMA AddAndMarkAreOps ==
  ASSUME NEW at \in Place, NEW job \in Job
  PROVE  /\ AddOp(at, job) \in Op /\ AddOp(at, job).do = "add"
         /\ AddOp(at, job).job = job /\ AddOp(at, job).at = at
         /\ MarkOp(at, job) \in Op /\ MarkOp(at, job).do = "mark"
         /\ MarkOp(at, job).job = job /\ MarkOp(at, job).at = at
  BY DEF AddOp, MarkOp, Op

\* addZeroTasks: every job is added once.
LEMMA ZeroOpsRight ==
  ASSUME NEW r \in 0 .. MaxRound
  PROVE  /\ OpsRight(ZeroOps(r), r)
         /\ \A op \in ZeroOps(r) : op.do # "mark"
         /\ \A op \in ZeroOps(r) : op.do = "add" => op.job.first = L
<1>. DEFINE A(l) == AddOp(<<0, 2, l, 0>>, ZeroJob(l, r))
            s == SaveOp(<<0, 0, 0, 0>>, {L})
            f == AddOp(<<0, 1, 0, 0>>, LeafJob(L, r))
<1>1. ZeroOps(r) = {s, f} \cup {A(l) : l \in 0 .. Depth - 1}
  BY DEF ZeroOps
<1>2. s \in Op /\ s.do = "save"
  BY TreeSize, SaveIsOp DEF Place
<1>3. /\ f \in Op /\ f.do = "add" /\ f.job \in ShapedJob
      /\ f.job.round = r /\ f.job.first = L /\ f.job.level = -1
  <2>1. LeafJob(L, r) \in ShapedJob /\ LeafJob(L, r).round = r /\ L \in 0 .. L
    BY TreeSize, LeafJobIsShaped
  <2>2. <<0, 1, 0, 0>> \in Place
    BY DEF Place
  <2>. QED
    BY <2>1, <2>2, AddAndMarkAreOps DEF LeafJob, ShapedJob
<1>4. ASSUME NEW l \in 0 .. Depth - 1
      PROVE  /\ A(l) \in Op /\ A(l).do = "add" /\ A(l).job \in ShapedJob /\ A(l).job.round = r
             /\ A(l).job.first = L /\ A(l).job.level = l /\ l # -1
  <2>1. ZeroJob(l, r) \in ShapedJob /\ ZeroJob(l, r).round = r
    BY ZeroJobIsShaped
  <2>2. ZeroJob(l, r).first = L /\ ZeroJob(l, r).level = l /\ ZeroJob(l, r) \in Job
    BY <2>1 DEF ZeroJob, ShapedJob
  <2>3. <<0, 2, l, 0>> \in Place /\ l # -1
    BY TreeSize DEF Place
  <2>4. A(l) \in Op /\ A(l).do = "add" /\ A(l).job = ZeroJob(l, r)
    BY <2>2, <2>3, AddAndMarkAreOps
  <2>. QED
    BY <2>1, <2>2, <2>3, <2>4
<1>. HIDE DEF A, s, f
<1>5. \A op \in ZeroOps(r) : op.do # "mark" /\ (op.do = "add" => op.job.first = L)
  BY <1>1, <1>2, <1>3, <1>4
<1>6. \A a, b \in ZeroOps(r) : a.do = "add" /\ b.do = "add" /\ a.job = b.job => a = b
  BY <1>1, <1>2, <1>3, <1>4
<1>7. /\ ZeroOps(r) \subseteq Op
      /\ \A op \in ZeroOps(r) :
           op.do \in {"mark", "add"} => op.job \in ShapedJob /\ op.job.round = r
  BY <1>1, <1>2, <1>3, <1>4
<1>. QED
  BY <1>5, <1>6, <1>7 DEF OpsRight

\* saveValidatorsInBatches: one job for every leaf that changed.
LEMMA LeafOpsRight ==
  ASSUME NEW r \in 0 .. MaxRound, NEW changed \in SUBSET Index
  PROVE  /\ OpsRight(LeafOps(changed, r), r)
         /\ \A op \in LeafOps(changed, r) : op.do # "mark"
         /\ \A op \in LeafOps(changed, r) : op.do = "add" => op.job.level = -1 /\ op.job.first # L
<1>. DEFINE BatchOf(i) == Cardinality({n \in changed : n < i}) \div BatchSize
            S(b) == SaveOp(<<1, b, 0, 0>>, {i \in changed : BatchOf(i) = b})
            A(i) == AddOp(<<1, BatchOf(i), 1, i>>, LeafJob(i, r))
<1>1. LeafOps(changed, r) = {S(b) : b \in {BatchOf(i) : i \in changed}} \cup {A(i) : i \in changed}
  BY DEF LeafOps
<1>2. ASSUME NEW i \in changed PROVE BatchOf(i) \in Nat
  <2>1. IsFiniteSet(0 .. L - 1)
    BY TreeSize, FS_Interval
  <2>2. IsFiniteSet({n \in changed : n < i})
    BY <2>1, FS_Subset DEF Index
  <2>3. Cardinality({n \in changed : n < i}) \in Nat
    BY <2>2, FS_CardinalityType
  <2>. QED
    BY <2>3, MapperAssumption, Div
<1>. HIDE DEF BatchOf
<1>3. ASSUME NEW b \in {BatchOf(i) : i \in changed} PROVE S(b) \in Op /\ S(b).do = "save"
  <2>1. b \in Nat
    BY <1>2
  <2>2. {i \in changed : BatchOf(i) = b} \in SUBSET (0 .. L)
    BY TreeSize DEF Index
  <2>3. <<1, b, 0, 0>> \in Place
    BY <2>1 DEF Place
  <2>. QED
    BY <2>2, <2>3, SaveIsOp
<1>4. ASSUME NEW i \in changed
      PROVE  /\ A(i) \in Op /\ A(i).do = "add" /\ A(i).job \in ShapedJob /\ A(i).job.round = r
             /\ A(i).job.first = i /\ A(i).job.level = -1 /\ i # L
  <2>1. i \in 0 .. L /\ i # L /\ i \in Nat
    BY TreeSize DEF Index
  <2>2. LeafJob(i, r) \in ShapedJob /\ LeafJob(i, r).round = r
    BY <2>1, LeafJobIsShaped
  <2>3. <<1, BatchOf(i), 1, i>> \in Place
    BY <1>2, <2>1 DEF Place
  <2>4. A(i) \in Op /\ A(i).do = "add" /\ A(i).job = LeafJob(i, r)
    BY <2>2, <2>3, AddAndMarkAreOps DEF ShapedJob
  <2>. QED
    BY <2>1, <2>2, <2>4 DEF LeafJob
<1>. HIDE DEF S, A
<1>5. \A op \in LeafOps(changed, r) :
        op.do # "mark" /\ (op.do = "add" => op.job.level = -1 /\ op.job.first # L)
  BY <1>1, <1>3, <1>4
<1>6. \A a, b \in LeafOps(changed, r) : a.do = "add" /\ b.do = "add" /\ a.job = b.job => a = b
  BY <1>1, <1>3, <1>4
<1>7. /\ LeafOps(changed, r) \subseteq Op
      /\ \A op \in LeafOps(changed, r) :
           op.do \in {"mark", "add"} => op.job \in ShapedJob /\ op.job.round = r
  BY <1>1, <1>3, <1>4
<1>. QED
  BY <1>5, <1>6, <1>7 DEF OpsRight

\* addInnerLevelProofs: a job for every node above, after its mark.
LEMMA InnerOpsRight ==
  ASSUME NEW r \in 0 .. MaxRound, NEW changed \in SUBSET Index
  PROVE  /\ OpsRight(InnerOps(changed, r), r)
         /\ \A op \in InnerOps(changed, r) :
              op.do = "add" => op.job.level # -1 /\ op.job.first # L
<1>. DEFINE Nodes == {InnerJob(n[2], n[1], r) : n \in (0 .. Depth - 1) \X changed}
            M(job) == MarkOp(<<2, job.level, job.first, 0>>, job)
            A(job) == AddOp(<<2, job.level, job.first, 1>>, job)
<1>1. InnerOps(changed, r) = {M(job) : job \in Nodes} \cup {A(job) : job \in Nodes}
  BY DEF InnerOps
<1>2. ASSUME NEW job \in Nodes
      PROVE  /\ job \in ShapedJob /\ job \in Job /\ job.round = r /\ job.first # L
             /\ job.level \in Nat /\ job.first \in Nat /\ job.level # -1
  <2>1. PICK level \in 0 .. Depth - 1, i \in changed : job = InnerJob(i, level, r)
    OBVIOUS
  <2>2. job \in ShapedJob /\ job.round = r /\ job.first # L /\ job.level = level
    BY <2>1, InnerJobIsShaped
  <2>3. job \in Job /\ job.first \in 0 .. L
    BY <2>2 DEF ShapedJob, Job
  <2>. QED
    BY <2>2, <2>3, TreeSize
<1>. HIDE DEF Nodes
<1>3. ASSUME NEW job \in Nodes
      PROVE  /\ M(job) \in Op /\ M(job).do = "mark" /\ M(job).job = job
             /\ A(job) \in Op /\ A(job).do = "add" /\ A(job).job = job
             /\ Precedes(M(job).at, A(job).at)
  <2>. DEFINE a == <<2, job.level, job.first, 0>>
              b == <<2, job.level, job.first, 1>>
  <2>1. a \in Place /\ b \in Place
    BY <1>2 DEF Place
  <2>2. Precedes(a, b)
    <3>1. 4 \in 1 .. 4 /\ a[4] < b[4] /\ \A m \in 1 .. 3 : a[m] = b[m]
      OBVIOUS
    <3>. QED
      BY <3>1 DEF Precedes
  <2>. HIDE DEF a, b
  <2>3. /\ MarkOp(a, job) \in Op /\ MarkOp(a, job).do = "mark" /\ MarkOp(a, job).job = job
        /\ AddOp(b, job) \in Op /\ AddOp(b, job).do = "add" /\ AddOp(b, job).job = job
        /\ MarkOp(a, job).at = a /\ AddOp(b, job).at = b
    BY <1>2, <2>1, AddAndMarkAreOps
  <2>. QED
    BY <2>2, <2>3 DEF a, b
<1>. HIDE DEF M, A
<1>4. \A op \in InnerOps(changed, r) : op.do = "add" => op.job.level # -1 /\ op.job.first # L
  BY <1>1, <1>2, <1>3
<1>5. \A a, b \in InnerOps(changed, r) : a.do = "add" /\ b.do = "add" /\ a.job = b.job => a = b
  BY <1>1, <1>3
<1>6. /\ InnerOps(changed, r) \subseteq Op
      /\ \A op \in InnerOps(changed, r) :
           op.do \in {"mark", "add"} => op.job \in ShapedJob /\ op.job.round = r
  BY <1>1, <1>2, <1>3
<1>7. \A m \in InnerOps(changed, r) : m.do = "mark" =>
        \E a \in InnerOps(changed, r) : a.do = "add" /\ a.job = m.job /\ Precedes(m.at, a.at)
  BY <1>1, <1>3
<1>. QED
  BY <1>4, <1>5, <1>6, <1>7 DEF OpsRight

\* The writes of a round.
LEMMA RoundOpsRight ==
  ASSUME NEW r \in 0 .. MaxRound, NEW changed \in SUBSET Index, NEW zero \in {ZeroOps(r), {}}
  PROVE  OpsRight(zero \cup LeafOps(changed, r) \cup InnerOps(changed, r), r)
<1>. DEFINE A == LeafOps(changed, r)
            B == InnerOps(changed, r)
            ops == zero \cup A \cup B
<1>1. /\ OpsRight(zero, r)
      /\ \A op \in zero : op.do # "mark" /\ (op.do = "add" => op.job.first = L)
  BY ZeroOpsRight DEF OpsRight
<1>2. /\ OpsRight(A, r)
      /\ \A op \in A : op.do # "mark"
      /\ \A op \in A : op.do = "add" => op.job.level = -1 /\ op.job.first # L
  BY LeafOpsRight
<1>3. /\ OpsRight(B, r)
      /\ \A op \in B : op.do = "add" => op.job.level # -1 /\ op.job.first # L
  BY InnerOpsRight
<1>. HIDE DEF A, B
<1>4. \A a, b \in ops : a.do = "add" /\ b.do = "add" /\ a.job = b.job => a = b
  BY <1>1, <1>2, <1>3 DEF OpsRight
<1>5. /\ ops \subseteq Op
      /\ \A op \in ops : op.do \in {"mark", "add"} => op.job \in ShapedJob /\ op.job.round = r
  BY <1>1, <1>2, <1>3 DEF OpsRight
<1>6. \A m \in ops : m.do = "mark" =>
        \E a \in ops : a.do = "add" /\ a.job = m.job /\ Precedes(m.at, a.at)
  BY <1>1, <1>2, <1>3 DEF OpsRight
<1>7. OpsRight(ops, r)
  BY <1>4, <1>5, <1>6 DEF OpsRight
<1>. QED
  BY <1>7 DEF A, B

\* The script makes its next write: what is left stays right, and a job it
\* adds was not known before.
LEMMA NextWriteKeeps ==
  ASSUME NEW r \in Nat, NEW ops, OpsRight(ops, r), NEW op \in ops, IsNext(op, ops)
  PROVE  /\ OpsRight(ops \ {op}, r)
         /\ KnownJob(ops, r) \subseteq KnownJob(ops \ {op}, r)
         /\ op.do = "add" =>
              op.job \in KnownJob(ops \ {op}, r) /\ op.job \notin KnownJob(ops, r)
<1>1. ops \subseteq Op /\ \A a, b \in ops : a.do = "add" /\ b.do = "add" /\ a.job = b.job => a = b
  BY DEF OpsRight
<1>2. ASSUME NEW m \in ops \ {op}, m.do = "mark"
      PROVE  \E a \in ops \ {op} : a.do = "add" /\ a.job = m.job /\ Precedes(m.at, a.at)
  <2>1. PICK a \in ops : a.do = "add" /\ a.job = m.job /\ Precedes(m.at, a.at)
    BY <1>2 DEF OpsRight
  <2>2. Precedes(op.at, m.at)
    BY DEF IsNext
  <2>3. op.at \in Place /\ m.at \in Place
    BY <1>1 DEF Op
  <2>4. a # op
    BY <2>1, <2>2, <2>3, OneComesFirst
  <2>. QED
    BY <2>1, <2>4
<1>3. OpsRight(ops \ {op}, r)
  BY <1>2 DEF OpsRight
<1>4. Pending(ops \ {op}) \subseteq Pending(ops)
  BY DEF Pending
<1>5. KnownJob(ops, r) \subseteq KnownJob(ops \ {op}, r)
  BY <1>4 DEF KnownJob
<1>6. ASSUME op.do = "add"
      PROVE  op.job \in KnownJob(ops \ {op}, r) /\ op.job \notin KnownJob(ops, r)
  <2>1. op.job \in ShapedJob /\ op.job.round = r
    BY <1>6 DEF OpsRight
  <2>2. op.job \in Pending(ops)
    BY <1>6 DEF Pending
  <2>3. op.job \notin Pending(ops \ {op})
    BY <1>1, <1>6 DEF Pending
  <2>. QED
    BY <2>1, <2>2, <2>3 DEF KnownJob
<1>. QED
  BY <1>3, <1>5, <1>6

\* A new round forgets no job.
LEMMA NewRoundKeeps ==
  ASSUME NEW r \in Nat, NEW ops, OpsRight(ops, r + 1)
  PROVE  KnownJob({}, r) \subseteq KnownJob(ops, r + 1)
<1>1. ASSUME NEW job \in Pending(ops) PROVE job.round = r + 1
  BY DEF Pending, OpsRight
<1>2. \A job \in ShapedJob : job.round \in Int
  BY DEF ShapedJob, Job
<1>. QED
  BY <1>1, <1>2 DEF KnownJob

\* A worker that knows its job goes on knowing it.
LEMMA WorkerKnowsMore ==
  ASSUME NEW K, NEW M, K \subseteq M, NEW wk, WorkerRight(wk, K)
  PROVE  WorkerRight(wk, M)
  BY DEF WorkerRight

\* An idle worker knows nothing it should not.
LEMMA IdleIsRight ==
  ASSUME NEW K
  PROVE  WorkerRight(Idle, K) /\ Idle \in WorkerState
  BY DEF WorkerRight, Idle, WorkerState

-----------------------------------------------------------------------------
(* The values of the state *)

\* The proofs of a Redis in which the work is done.
LEMMA SettledProofsAreProofs ==
  ASSUME NEW version \in [Index -> 0 .. MaxRound]
  PROVE  SettledProofs(version) \in [Key -> Seq(Leaf)]
<1>1. ASSUME NEW k \in Key
      PROVE  SettledProofs(version)[k] \in Seq(Leaf)
  <2>. DEFINE d == k[1]
              i == k[2]
              p == 2 ^ d
  <2>1. k \in (0 .. Depth) \X (0 .. L)
    BY DEF Key
  <2>2. d \in Nat /\ i \in 0 .. L /\ d <= Depth /\ i \in Nat
    BY <2>1, TreeSize
  <2>3. p \in Nat
    BY <2>2, PowerOfTwo
  <2>4. CASE i = L
    <3>1. [n \in 1 .. p |-> IF d = 0 THEN ZeroValidator ELSE ZeroChunk] \in Seq(Leaf)
      <4>1. ZeroValidator \in Leaf /\ ZeroChunk \in Leaf
        BY MapperAssumption DEF Leaf, ZeroChunk
      <4>. HIDE DEF p, d
      <4>. QED
        BY <2>3, <4>1
    <3>. QED
      BY <2>4, <3>1 DEF SettledProofs
  <2>5. CASE i # L /\ i % p = 0 /\ \E n \in 0 .. p - 1 : version[i + n] # 0
    <3>1. i \in 0 .. 2 ^ Depth - 1
      BY <2>2, <2>5, TreeSize DEF L
    <3>2. i - (i % p) + p <= L
      BY <3>1, <2>2, TreeSize, SubtreeFits DEF L
    <3>3. i + p <= L
      BY <3>2, <2>2, <2>5
    <3>. HIDE DEF p, i
    <3>4. ASSUME NEW n \in 1 .. p PROVE TreeLeaf(version, i + n - 1) \in Leaf
      <4>1. i + n - 1 \in Index
        BY <2>2, <2>3, <3>3, TreeSize DEF Index
      <4>. QED
        BY <4>1, MapperAssumption DEF Leaf, TreeLeaf
    <3>5. [n \in 1 .. p |-> TreeLeaf(version, i + n - 1)] \in Seq(Leaf)
      BY <2>3, <3>4
    <3>. QED
      BY <2>5, <3>5 DEF SettledProofs, p, i
  <2>6. CASE i # L /\ ~(i % p = 0 /\ \E n \in 0 .. p - 1 : version[i + n] # 0)
    BY <2>6 DEF SettledProofs
  <2>. QED
    BY <2>4, <2>5, <2>6
<1>2. DOMAIN SettledProofs(version) = Key
  BY DEF SettledProofs
<1>3. SettledProofs(version) = [k \in Key |-> SettledProofs(version)[k]]
  BY DEF SettledProofs
<1>. QED
  BY <1>1, <1>3

\* The start of the script.
LEMMA InitIsRight == Init => IInv
<1>. SUFFICES ASSUME Init PROVE IInv
  OBVIOUS
<1>1. /\ budget \in [initial : 0 .. L, count : 1 .. L, rounds : 0 .. MaxRound - 1,
                     faults : Nat, crashes : Nat]
      /\ MaxRound \in Nat \ {0}
  BY MapperAssumption DEF Init, L
<1>2. beacon \in [Index -> 0 .. 1] /\ beacon \in [Index -> 0 .. MaxRound] /\ round = 1
  BY <1>1 DEF Init
<1>3. validators \in [0 .. L -> Leaf]
  <2>1. 0 \in Leaf /\ ZeroValidator \in Leaf
    BY <1>1 DEF Leaf
  <2>2. \A i \in 0 .. L : i = L \/ i \in Index
    BY TreeSize DEF Index
  <2>3. \A i \in Index : beacon[i] \in Leaf
    BY <1>2 DEF Leaf
  <2>. QED
    BY <2>1, <2>2, <2>3 DEF Init
<1>4. proofs \in [Key -> Seq(Leaf)]
  <2>1. SettledProofs(beacon) \in [Key -> Seq(Leaf)]
    BY <1>2, SettledProofsAreProofs
  <2>2. proofs = [k \in Key |-> <<>>] \/ proofs = SettledProofs(beacon)
    BY DEF Init
  <2>3. <<>> \in Seq(Leaf)
    OBVIOUS
  <2>. QED
    BY <2>1, <2>2, <2>3
<1>5. Values
  <2>1. /\ budget \in [initial : 0 .. L, count : 1 .. L, rounds : Nat, faults : Nat, crashes : Nat]
        /\ round + budget.rounds <= MaxRound
    BY <1>1, <1>2
  <2>2. marked \subseteq Key /\ scriptLost \in BOOLEAN /\ disorder \in BOOLEAN
    BY DEF Init
  <2>. QED
    BY <1>2, <1>3, <1>4, <2>1, <2>2 DEF Values
<1>6. todo = {} /\ queue = EmptyQueue /\ worker = [w \in Worker |-> Idle]
  BY DEF Init
<1>7. OpsRight(todo, round)
  BY <1>6 DEF OpsRight
<1>8. queue \in WorkQueues(KnownJob(todo, round))
  BY <1>6, EmptyQueueKeeps
<1>9. /\ worker \in [Worker -> WorkerState]
      /\ \A w \in Worker : WorkerRight(worker[w], KnownJob(todo, round))
  BY <1>6, IdleIsRight
<1>. QED
  BY <1>5, <1>7, <1>8, <1>9 DEF IInv, JobsRight

\* What is spent of the bounds.
LEMMA Spending ==
  ASSUME NEW A, NEW C,
         NEW b \in [initial : A, count : C, rounds : Nat, faults : Nat, crashes : Nat]
  PROVE  /\ b.rounds > 0 => [b EXCEPT !.rounds = @ - 1]
                            \in [initial : A, count : C, rounds : Nat, faults : Nat, crashes : Nat]
         /\ b.faults > 0 => [b EXCEPT !.faults = @ - 1]
                            \in [initial : A, count : C, rounds : Nat, faults : Nat, crashes : Nat]
         /\ b.crashes > 0 => [b EXCEPT !.crashes = @ - 1]
                            \in [initial : A, count : C, rounds : Nat, faults : Nat, crashes : Nat]
         /\ [b EXCEPT !.rounds = @ - 1].rounds = b.rounds - 1
         /\ [b EXCEPT !.faults = @ - 1].rounds = b.rounds
         /\ [b EXCEPT !.crashes = @ - 1].rounds = b.rounds
  OBVIOUS

\* A round begins.
LEMMA NewRoundIsRight ==
  ASSUME IInv, NewRound
  PROVE  IInv'
<1>. DEFINE r == round + 1
            changed == {i \in Index : beacon'[i] # validators[i]}
            zero == IF validators[L] = 0 THEN ZeroOps(round + 1) ELSE {}
<1>1. /\ todo = {} /\ budget.rounds > 0 /\ round' = r
      /\ budget' = [budget EXCEPT !.rounds = @ - 1]
      /\ todo' = zero \cup LeafOps(changed, r) \cup InnerOps(changed, r)
      /\ UNCHANGED <<validators, proofs, marked, queue, worker, scriptLost, disorder>>
  BY DEF NewRound, redis
<1>2. /\ r \in 0 .. MaxRound /\ round \in Nat
      /\ budget' \in [initial : 0 .. L, count : 1 .. L, rounds : Nat, faults : Nat, crashes : Nat]
      /\ r + budget'.rounds <= MaxRound
  <2>1. /\ budget \in [initial : 0 .. L, count : 1 .. L, rounds : Nat, faults : Nat, crashes : Nat]
        /\ round \in Nat /\ round + budget.rounds <= MaxRound /\ MaxRound \in Nat
    BY MapperAssumption DEF IInv, Values
  <2>2. /\ budget' \in [initial : 0 .. L, count : 1 .. L, rounds : Nat, faults : Nat, crashes : Nat]
        /\ budget'.rounds = budget.rounds - 1
    BY <1>1, <2>1, Spending
  <2>3. budget.rounds \in Nat
    BY <2>1
  <2>. QED
    BY <1>1, <2>1, <2>2, <2>3
<1>3. beacon' \in [Index -> 0 .. r]
  BY <1>2 DEF NewRound, IInv, Values
<1>4. Values'
  <2>. HIDE DEF r
  <2>. QED
    BY <1>1, <1>2, <1>3 DEF IInv, Values
<1>5. OpsRight(todo', r)
  <2>1. changed \in SUBSET Index /\ zero \in {ZeroOps(r), {}}
    OBVIOUS
  <2>. HIDE DEF changed, zero, r
  <2>. QED
    BY <1>1, <1>2, <2>1, RoundOpsRight
<1>6. KnownJob(todo, round) \subseteq KnownJob(todo', round')
  BY <1>1, <1>2, <1>5, NewRoundKeeps
<1>7. queue' \in WorkQueues(KnownJob(todo', round'))
  BY <1>1, <1>6, QueueOverMore DEF IInv, JobsRight
<1>8. \A w \in Worker : WorkerRight(worker'[w], KnownJob(todo', round'))
  BY <1>1, <1>6, WorkerKnowsMore DEF IInv, JobsRight
<1>9. JobsRight'
  BY <1>1, <1>5, <1>7, <1>8 DEF IInv, JobsRight
<1>. QED
  BY <1>4, <1>9 DEF IInv

\* The script makes a write.
LEMMA ScriptStepIsRight ==
  ASSUME IInv, ScriptStep
  PROVE  IInv'
<1>1. PICK op \in todo :
        /\ IsNext(op, todo)
        /\ todo' = todo \ {op}
        /\ SaveValidators(op) \/ MarkProof(op) \/ AddJob(op)
  BY DEF ScriptStep
<1>2. UNCHANGED <<beacon, round, worker, budget, scriptLost, disorder>>
  BY DEF ScriptStep
<1>. DEFINE K == KnownJob(todo, round)
            M == KnownJob(todo', round')
<1>3. round \in Nat /\ OpsRight(todo, round) /\ queue \in WorkQueues(K) /\ op \in Op
  BY DEF IInv, Values, JobsRight, OpsRight
<1>4. OpsRight(todo', round') /\ K \subseteq M /\ (op.do = "add" => op.job \in M)
  BY <1>1, <1>2, <1>3, NextWriteKeeps
<1>5. validators' \in [0 .. L -> Leaf]
  <2>1. \A i \in 0 .. L : i = L \/ i \in Index
    BY TreeSize DEF Index
  <2>2. \A i \in Index : beacon[i] \in Leaf
    <3>1. \A i \in Index : beacon[i] \in 0 .. round
      BY DEF IInv, Values
    <3>2. 0 .. round \subseteq 0 .. MaxRound
      BY MapperAssumption DEF IInv, Values
    <3>. QED
      BY <3>1, <3>2 DEF Leaf
  <2>3. ZeroValidator \in Leaf
    BY DEF Leaf
  <2>4. validators \in [0 .. L -> Leaf]
    BY DEF IInv, Values
  <2>5. CASE SaveValidators(op)
    BY <2>1, <2>2, <2>3, <2>4, <2>5 DEF SaveValidators
  <2>6. CASE UNCHANGED validators
    BY <2>4, <2>6
  <2>. QED
    BY <1>1, <2>5, <2>6 DEF MarkProof, AddJob
<1>6. proofs' \in [Key -> Seq(Leaf)] /\ marked' \subseteq Key
  <2>1. proofs \in [Key -> Seq(Leaf)] /\ marked \subseteq Key
    BY DEF IInv, Values
  <2>2. CASE MarkProof(op)
    <3>1. op.job \in Job
      BY <2>2 DEF MarkProof, IInv, JobsRight, OpsRight, ShapedJob
    <3>2. Target(op.job) \in Key
      BY <3>1, TreeSize DEF Job, Target, Key
    <3>. QED
      BY <2>1, <2>2, <3>2 DEF MarkProof
  <2>3. CASE UNCHANGED <<proofs, marked>>
    BY <2>1, <2>3
  <2>. QED
    BY <1>1, <2>2, <2>3 DEF SaveValidators, AddJob
<1>7. Values'
  BY <1>2, <1>5, <1>6 DEF IInv, Values
<1>8. queue' \in WorkQueues(M)
  <2>. HIDE DEF K, M
  <2>1. queue \in WorkQueues(M)
    BY <1>3, <1>4, QueueOverMore
  <2>2. CASE AddJob(op)
    BY <1>4, <2>1, <2>2, AddItemKeeps DEF AddJob
  <2>3. CASE UNCHANGED queue
    BY <2>1, <2>3
  <2>. QED
    BY <1>1, <2>2, <2>3 DEF SaveValidators, MarkProof
<1>9. \A w \in Worker : WorkerRight(worker'[w], M)
  <2>1. \A w \in Worker : WorkerRight(worker[w], K)
    BY DEF IInv, JobsRight
  <2>. HIDE DEF K, M
  <2>. QED
    BY <1>2, <1>4, <2>1, WorkerKnowsMore
<1>10. JobsRight'
  BY <1>2, <1>4, <1>8, <1>9 DEF IInv, JobsRight
<1>. QED
  BY <1>7, <1>10 DEF IInv

\* The script crashes.
LEMMA ScriptCrashIsRight ==
  ASSUME IInv, ScriptCrash
  PROVE  IInv'
<1>. DEFINE K == KnownJob(todo, round)
            M == KnownJob(todo', round')
<1>1. /\ todo' = {} /\ scriptLost' = TRUE
      /\ UNCHANGED <<beacon, validators, proofs, marked, queue, round, worker, disorder>>
      /\ budget.crashes > 0 /\ budget' = [budget EXCEPT !.crashes = @ - 1]
  BY DEF ScriptCrash, redis
<1>2. OpsRight(todo', round')
  BY <1>1 DEF OpsRight
<1>3. K \subseteq M
  BY <1>1 DEF KnownJob, Pending
<1>4. Values'
  <2>1. budget \in [initial : 0 .. L, count : 1 .. L, rounds : Nat, faults : Nat, crashes : Nat]
    BY DEF IInv, Values
  <2>2. /\ budget' \in [initial : 0 .. L, count : 1 .. L, rounds : Nat, faults : Nat, crashes : Nat]
        /\ budget'.rounds = budget.rounds
    BY <1>1, <2>1, Spending
  <2>. QED
    BY <1>1, <2>2 DEF IInv, Values
<1>5. queue \in WorkQueues(K) /\ \A w \in Worker : WorkerRight(worker[w], K)
  BY DEF IInv, JobsRight
<1>6. queue' \in WorkQueues(M) /\ \A w \in Worker : WorkerRight(worker'[w], M)
  <2>. HIDE DEF K, M
  <2>. QED
    BY <1>1, <1>3, <1>5, QueueOverMore, WorkerKnowsMore
<1>. QED
  BY <1>1, <1>2, <1>4, <1>6 DEF IInv, JobsRight

\* What a worker does leaves the script alone.
LEMMA WorkerFrame ==
  ASSUME IInv, UNCHANGED <<beacon, validators, todo, round, scriptLost>>,
         NEW w \in Worker, NEW wk \in WorkerState, worker' = [worker EXCEPT ![w] = wk],
         WorkerRight(wk, KnownJob(todo, round)),
         proofs' \in [Key -> Seq(Leaf)], marked' \subseteq Key, disorder' \in BOOLEAN,
         queue' \in WorkQueues(KnownJob(todo, round)),
         budget' \in [initial : 0 .. L, count : 1 .. L, rounds : Nat, faults : Nat, crashes : Nat],
         budget'.rounds = budget.rounds
  PROVE  IInv'
<1>1. Values'
  BY DEF IInv, Values
<1>2. \A v \in Worker : WorkerRight(worker'[v], KnownJob(todo, round))
  BY DEF IInv, JobsRight
<1>3. JobsRight'
  BY <1>2 DEF IInv, JobsRight
<1>. QED
  BY <1>1, <1>3 DEF IInv

\* The keys a worker reads and writes are keys.
LEMMA KeysOfJobs ==
  ASSUME NEW job \in Job
  PROVE  /\ Target(job) \in Key
         /\ job.level # -1 => /\ Found(job.level, job.first) \in Key
                              /\ Found(job.level, job.second) \in Key
<1>1. job.level \in -1 .. Depth - 1 /\ job.first \in 0 .. L /\ job.second \in 0 .. L
  BY DEF Job
<1>2. job.level + 1 \in 0 .. Depth /\ L \in 0 .. L
  BY <1>1, TreeSize
<1>3. job.level # -1 => job.level \in 0 .. Depth
  BY <1>1, TreeSize
<1>. QED
  BY <1>1, <1>2, <1>3 DEF Target, Found, Key

\* The circuit of an inner node makes a proof of two.
LEMMA NodeIsProof ==
  ASSUME NEW job, NEW a \in Seq(Leaf), NEW b \in Seq(Leaf)
  PROVE  Node(job, a, b) \in Seq(Leaf)
<1>. DEFINE n == Len(a) + Len(b)
<1>1. n \in Nat /\ a \o b \in Seq(Leaf)
  OBVIOUS
<1>2. ZeroChunk \in Leaf
  BY MapperAssumption DEF Leaf, ZeroChunk
<1>. HIDE DEF n
<1>3. [k \in 1 .. n |-> ZeroChunk] \in Seq(Leaf)
  BY <1>1, <1>2
<1>. QED
  BY <1>1, <1>3 DEF Node, n

\* What a worker does.
LEMMA WorkerStepIsRight ==
  ASSUME IInv, NEW w \in Worker, WorkerStep(w) \/ Drop(w)
  PROVE  IInv'
<1>. DEFINE K == KnownJob(todo, round)
            wk == worker[w]
<1>1. /\ wk \in WorkerState /\ WorkerRight(wk, K) /\ queue \in WorkQueues(K)
      /\ proofs \in [Key -> Seq(Leaf)] /\ marked \subseteq Key /\ disorder \in BOOLEAN
      /\ validators \in [0 .. L -> Leaf] /\ worker \in [Worker -> WorkerState]
      /\ budget \in [initial : 0 .. L, count : 1 .. L, rounds : Nat, faults : Nat, crashes : Nat]
  BY DEF IInv, Values, JobsRight
<1>2. K \subseteq Job
  BY DEF KnownJob, ShapedJob
<1>3. wk.pc # "idle" => wk.job \in K /\ wk.job \in Job
  BY <1>1, <1>2 DEF WorkerRight
<1>4. WorkerRight(Idle, K) /\ Idle \in WorkerState
  BY IdleIsRight
<1>5. CASE WorkerLease(w)
  <2>. DEFINE job == Head(queue.main)
              pc == IF job \notin queue.data THEN "complete"
                      ELSE IF job.level = -1 THEN "validator" ELSE "first"
              new == [Idle EXCEPT !.job = job, !.pc = pc]
  <2>1. job \in K /\ Lease(queue) \in WorkQueues(K)
    BY <1>1, <1>5, LeaseKeeps DEF WorkerLease
  <2>2. new.job = job /\ new \in WorkerState /\ WorkerRight(new, K)
    <3>. HIDE DEF K, job
    <3>1. /\ pc \in {"complete", "validator", "first"}
          /\ pc = "validator" => job.level = -1
          /\ pc = "first" => job.level # -1
      OBVIOUS
    <3>. HIDE DEF pc
    <3>2. new.pc = pc /\ new.job = job
      BY DEF Idle
    <3>3. job \in Job /\ <<>> \in Seq(Leaf)
      BY <1>2, <2>1
    <3>4. new \in WorkerState
      BY <3>1, <3>3 DEF Idle, WorkerState
    <3>. QED
      BY <2>1, <3>1, <3>2, <3>4 DEF WorkerRight
  <2>3. worker' = [worker EXCEPT ![w] = new] /\ queue' = Lease(queue) /\ disorder' \in BOOLEAN
    BY <1>5 DEF WorkerLease
  <2>4. UNCHANGED <<beacon, validators, proofs, marked, todo, round, budget, scriptLost>>
    BY <1>5 DEF WorkerLease
  <2>. HIDE DEF new, pc, K
  <2>. QED
    BY <1>1, <2>1, <2>2, <2>3, <2>4, WorkerFrame DEF K
<1>6. CASE FetchValidator(w)
  <2>. DEFINE new == [wk EXCEPT !.left = <<validators[wk.job.first]>>, !.pc = "save"]
  <2>1. validators[wk.job.first] \in Leaf
    BY <1>1, <1>3, <1>6 DEF FetchValidator, Job
  <2>2. new \in WorkerState /\ WorkerRight(new, K)
    BY <1>1, <1>3, <1>6, <2>1 DEF FetchValidator, WorkerState, WorkerRight
  <2>3. worker' = [worker EXCEPT ![w] = new]
    BY <1>1, <1>6 DEF FetchValidator
  <2>4. UNCHANGED <<beacon, redis, todo, round, budget, scriptLost, disorder>>
    BY <1>6 DEF FetchValidator
  <2>. HIDE DEF new, K
  <2>. QED
    BY <1>1, <2>2, <2>3, <2>4, WorkerFrame DEF K, redis
<1>7. CASE FetchFirst(w)
  <2>. DEFINE p == proofs[Found(wk.job.level, wk.job.first)]
              new == [wk EXCEPT !.left = p, !.pc = "second"]
  <2>1. wk.job.level # -1 /\ p \in Seq(Leaf)
    BY <1>1, <1>3, <1>7, KeysOfJobs DEF FetchFirst, WorkerRight
  <2>2. new \in WorkerState /\ WorkerRight(new, K)
    <3>. HIDE DEF p
    <3>. QED
      BY <1>1, <1>3, <1>7, <2>1 DEF FetchFirst, WorkerState, WorkerRight
  <2>3. worker' = [worker EXCEPT ![w] = new] /\ disorder' \in BOOLEAN
    BY <1>1, <1>7 DEF FetchFirst
  <2>4. UNCHANGED <<beacon, redis, todo, round, budget, scriptLost>>
    BY <1>7 DEF FetchFirst
  <2>. HIDE DEF new, K
  <2>. QED
    BY <1>1, <2>2, <2>3, <2>4, WorkerFrame DEF K, redis
<1>8. CASE FetchSecond(w)
  <2>. DEFINE p == proofs[Found(wk.job.level, wk.job.second)]
              new == [wk EXCEPT !.right = p, !.pc = "save"]
  <2>1. wk.job.level # -1 /\ p \in Seq(Leaf)
    BY <1>1, <1>3, <1>8, KeysOfJobs DEF FetchSecond, WorkerRight
  <2>2. new \in WorkerState /\ WorkerRight(new, K)
    <3>. HIDE DEF p
    <3>. QED
      BY <1>1, <1>3, <1>8, <2>1 DEF FetchSecond, WorkerState, WorkerRight
  <2>3. worker' = [worker EXCEPT ![w] = new] /\ disorder' \in BOOLEAN
    BY <1>1, <1>8 DEF FetchSecond
  <2>4. UNCHANGED <<beacon, redis, todo, round, budget, scriptLost>>
    BY <1>8 DEF FetchSecond
  <2>. HIDE DEF new, K
  <2>. QED
    BY <1>1, <2>2, <2>3, <2>4, WorkerFrame DEF K, redis
<1>9. CASE Save(w)
  <2>. DEFINE new == [wk EXCEPT !.pc = "complete"]
              p == IF wk.job.level = -1 THEN wk.left ELSE Node(wk.job, wk.left, wk.right)
  <2>1. wk.job \in Job /\ Target(wk.job) \in Key
    BY <1>3, <1>9, KeysOfJobs DEF Save
  <2>2. new \in WorkerState /\ WorkerRight(new, K)
    BY <1>1, <1>3, <1>9 DEF Save, WorkerState, WorkerRight
  <2>3. wk.left \in Seq(Leaf) /\ wk.right \in Seq(Leaf)
    BY <1>1 DEF WorkerState
  <2>4. Node(wk.job, wk.left, wk.right) \in Seq(Leaf)
    BY <2>3, NodeIsProof
  <2>5. p \in Seq(Leaf)
    BY <2>3, <2>4
  <2>6. /\ worker' = [worker EXCEPT ![w] = new]
        /\ proofs' = [proofs EXCEPT ![Target(wk.job)] = p]
        /\ marked' = marked \ {Target(wk.job)}
    BY <1>1, <1>9 DEF Save
  <2>7. UNCHANGED <<beacon, validators, queue, todo, round, budget, scriptLost, disorder>>
    BY <1>9 DEF Save
  <2>. HIDE DEF new, p, K
  <2>8. proofs' \in [Key -> Seq(Leaf)] /\ marked' \subseteq Key
    BY <1>1, <2>1, <2>5, <2>6
  <2>. QED
    BY <1>1, <2>2, <2>6, <2>7, <2>8, WorkerFrame DEF K
<1>10. CASE WorkerComplete(w)
  <2>1. queue' \in WorkQueues(K)
    BY <1>1, <1>10, CompleteKeeps DEF WorkerComplete
  <2>2. worker' = [worker EXCEPT ![w] = Idle]
    BY <1>10 DEF WorkerComplete
  <2>3. UNCHANGED <<beacon, validators, proofs, marked, todo, round, budget, scriptLost, disorder>>
    BY <1>10 DEF WorkerComplete
  <2>. HIDE DEF K
  <2>. QED
    BY <1>1, <1>4, <2>1, <2>2, <2>3, WorkerFrame DEF K
<1>11. CASE GiveUp(w)
  <2>1. worker' = [worker EXCEPT ![w] = Idle]
    BY <1>11 DEF GiveUp
  <2>2. UNCHANGED <<beacon, redis, todo, round, budget, scriptLost, disorder>>
    BY <1>11 DEF GiveUp
  <2>. HIDE DEF K
  <2>. QED
    BY <1>1, <1>4, <2>1, <2>2, WorkerFrame DEF K, redis
<1>12. CASE Drop(w)
  <2>1. worker' = [worker EXCEPT ![w] = Idle]
    BY <1>12 DEF Drop
  <2>2. UNCHANGED <<beacon, redis, todo, round, scriptLost, disorder>>
    BY <1>12 DEF Drop
  <2>3. /\ budget' \in [initial : 0 .. L, count : 1 .. L, rounds : Nat, faults : Nat, crashes : Nat]
        /\ budget'.rounds = budget.rounds
    BY <1>1, <1>12, Spending DEF Drop
  <2>. HIDE DEF K
  <2>. QED
    BY <1>1, <1>4, <2>1, <2>2, <2>3, WorkerFrame DEF K, redis
<1>. QED
  BY <1>5, <1>6, <1>7, <1>8, <1>9, <1>10, <1>11, <1>12 DEF WorkerStep

\* A lease ends, and the cleaner puts a job back.
LEMMA LeasesAndCleanerAreRight ==
  ASSUME IInv, LeaseExpires \/ Clean
  PROVE  IInv'
<1>. DEFINE K == KnownJob(todo, round)
<1>1. /\ queue \in WorkQueues(K)
      /\ budget \in [initial : 0 .. L, count : 1 .. L, rounds : Nat, faults : Nat, crashes : Nat]
  BY DEF IInv, JobsRight, Values
<1>2. UNCHANGED <<beacon, validators, proofs, marked, todo, round, worker, scriptLost, disorder>>
  BY DEF LeaseExpires, Clean
<1>3. queue' \in WorkQueues(K)
  <2>. HIDE DEF K
  <2>. QED
    BY <1>1, ExpireKeeps, PutBackKeeps DEF LeaseExpires, Clean
<1>4. /\ budget' \in [initial : 0 .. L, count : 1 .. L, rounds : Nat, faults : Nat, crashes : Nat]
      /\ budget'.rounds = budget.rounds
  BY <1>1, Spending DEF LeaseExpires, Clean
<1>5. Values'
  BY <1>2, <1>4 DEF IInv, Values
<1>6. JobsRight'
  BY <1>2, <1>3 DEF IInv, JobsRight
<1>. QED
  BY <1>5, <1>6 DEF IInv

\* The inductive invariant holds.
THEOREM InvariantHolds == Spec => []IInv
<1>1. ASSUME IInv, [Next]_vars PROVE IInv'
  <2>1. CASE NewRound
    BY <1>1, <2>1, NewRoundIsRight
  <2>2. CASE ScriptStep
    BY <1>1, <2>2, ScriptStepIsRight
  <2>3. CASE ScriptCrash
    BY <1>1, <2>3, ScriptCrashIsRight
  <2>4. CASE \E w \in Worker : WorkerStep(w) \/ Drop(w)
    BY <1>1, <2>4, WorkerStepIsRight
  <2>5. CASE LeaseExpires \/ Clean
    BY <1>1, <2>5, LeasesAndCleanerAreRight
  <2>6. CASE UNCHANGED vars
    BY <1>1, <2>6 DEF vars, IInv, Values, JobsRight
  <2>. QED
    BY <1>1, <2>1, <2>2, <2>3, <2>4, <2>5, <2>6 DEF Next
<1>. QED
  BY InitIsRight, <1>1, PTL DEF Spec

\* Everything keeps to its values: no key, job or leaf is outside the tree,
\* no stamp above the bound.
THEOREM TypeCorrect == Spec => []TypeOK
<1>1. ASSUME IInv PROVE TypeOK
  <2>1. round \in 0 .. MaxRound
    BY <1>1, MapperAssumption DEF IInv, Values
  <2>2. beacon \in [Index -> 0 .. MaxRound]
    <3>1. 0 .. round \subseteq 0 .. MaxRound
      BY <2>1, MapperAssumption
    <3>. QED
      BY <1>1, <3>1 DEF IInv, Values
  <2>3. queue \in WorkQueues(Job)
    <3>1. KnownJob(todo, round) \subseteq Job
      BY DEF KnownJob, ShapedJob
    <3>. QED
      BY <1>1, <3>1, QueueOverMore DEF IInv, JobsRight
  <2>. QED
    BY <1>1, <2>1, <2>2, <2>3 DEF TypeOK, IInv, Values, JobsRight, OpsRight
<1>. QED
  BY <1>1, InvariantHolds, PTL

-----------------------------------------------------------------------------
(* Marked proofs *)

\* The script's writes keep what is marked expected: it adds the job after
\* the mark, and a job just added is one no worker can be done with.
LEMMA ScriptStepExpects ==
  ASSUME IInv, MarkedAreExpected, ScriptStep
  PROVE  MarkedAreExpected'
<1>1. PICK op \in todo :
        /\ IsNext(op, todo)
        /\ todo' = todo \ {op}
        /\ SaveValidators(op) \/ MarkProof(op) \/ AddJob(op)
  BY DEF ScriptStep
<1>2. UNCHANGED <<beacon, round, worker, budget, scriptLost, disorder>>
  BY DEF ScriptStep
<1>. DEFINE K == KnownJob(todo, round)
<1>3. round \in Nat /\ OpsRight(todo, round)
  BY DEF IInv, Values, JobsRight
<1>4. \A w \in Worker : worker[w].pc # "idle" => worker[w].job \in K
  BY DEF IInv, JobsRight, WorkerRight
<1>. HIDE DEF K
<1>5. ASSUME NEW job \in Pending(todo)
      PROVE  \/ job \in Pending(todo')
             \/ /\ job \in queue'.data
                /\ \A w \in Worker : ~(worker'[w].pc = "complete" /\ worker'[w].job = job)
  <2>1. PICK a \in todo : a.do = "add" /\ a.job = job
    BY DEF Pending
  <2>2. CASE a # op
    BY <1>1, <2>1, <2>2 DEF Pending
  <2>3. CASE a = op
    <3>1. AddJob(op)
      BY <1>1, <2>1, <2>3 DEF SaveValidators, MarkProof
    <3>2. job \in queue'.data
      <4>1. queue \in WorkQueues(KnownJob(todo, round))
        BY DEF IInv, JobsRight
      <4>2. queue' = [queue EXCEPT !.main = Append(@, job), !.data = @ \cup {job}]
        BY <2>1, <2>3, <3>1 DEF AddJob, AddItem
      <4>. QED
        BY <4>1, <4>2 DEF WorkQueues
    <3>3. job \notin K
      BY <1>1, <1>3, <2>1, <2>3, NextWriteKeeps DEF K
    <3>. QED
      BY <1>2, <1>4, <3>2, <3>3
  <2>. QED
    BY <2>2, <2>3
<1>6. ASSUME NEW job \in queue.data PROVE job \in queue'.data
  <2>1. queue \in WorkQueues(KnownJob(todo, round))
    BY DEF IInv, JobsRight
  <2>2. CASE AddJob(op)
    BY <2>1, <2>2 DEF AddJob, AddItem, WorkQueues
  <2>. QED
    BY <1>1, <2>2 DEF SaveValidators, MarkProof
<1>7. ASSUME NEW key, IsExpected(key) PROVE IsExpected(key)'
  <2>1. CASE key \in {Target(job) : job \in Pending(todo)}
    BY <1>5, <2>1 DEF IsExpected
  <2>2. CASE \E job \in queue.data :
               /\ Target(job) = key
               /\ \A w \in Worker : ~(worker[w].pc = "complete" /\ worker[w].job = job)
    BY <1>2, <1>6, <2>2 DEF IsExpected
  <2>. QED
    BY <1>7, <2>1, <2>2 DEF IsExpected
<1>8. ASSUME NEW key \in marked', ~scriptLost PROVE IsExpected(key)'
  <2>1. CASE key \in marked
    BY <1>7, <1>8, <2>1 DEF MarkedAreExpected
  <2>2. CASE key \notin marked
    <3>1. MarkProof(op) /\ key = Target(op.job)
      BY <1>1, <2>2 DEF SaveValidators, MarkProof, AddJob
    <3>2. PICK a \in todo : a.do = "add" /\ a.job = op.job
      BY <1>3, <3>1 DEF OpsRight, MarkProof
    <3>3. a # op
      BY <3>1, <3>2 DEF MarkProof
    <3>4. op.job \in Pending(todo')
      BY <1>1, <3>2, <3>3 DEF Pending
    <3>. QED
      BY <3>1, <3>4 DEF IsExpected
  <2>. QED
    BY <2>1, <2>2
<1>. QED
  BY <1>2, <1>8 DEF MarkedAreExpected

\* The workers keep it: whoever deletes a job has saved its proof.
LEMMA WorkerStepExpects ==
  ASSUME IInv, MarkedAreExpected, NEW w \in Worker, WorkerStep(w) \/ Drop(w)
  PROVE  MarkedAreExpected'
<1>. DEFINE K == KnownJob(todo, round)
<1>1. queue \in WorkQueues(K) /\ worker \in [Worker -> WorkerState]
  BY DEF IInv, JobsRight
<1>. HIDE DEF K
<1>2. todo' = todo /\ scriptLost' = scriptLost
  BY DEF WorkerStep, WorkerLease, FetchValidator, FetchFirst, FetchSecond, GiveUp, Save,
         WorkerComplete, Drop
<1>3. SUFFICES ASSUME NEW key \in marked', ~scriptLost PROVE IsExpected(key)'
  BY <1>2 DEF MarkedAreExpected
<1>4. key \in marked /\ (Save(w) => key # Target(worker[w].job))
  BY DEF WorkerStep, WorkerLease, FetchValidator, FetchFirst, FetchSecond, GiveUp, Save,
         WorkerComplete, Drop, redis
<1>5. CASE key \in {Target(job) : job \in Pending(todo)}
  BY <1>2, <1>5 DEF IsExpected
<1>6. CASE \E job \in queue.data :
             /\ Target(job) = key
             /\ \A v \in Worker : ~(worker[v].pc = "complete" /\ worker[v].job = job)
  <2>1. PICK job \in queue.data :
          /\ Target(job) = key
          /\ \A v \in Worker : ~(worker[v].pc = "complete" /\ worker[v].job = job)
    BY <1>6
  <2>2. job \in queue'.data /\ ~(worker'[w].pc = "complete" /\ worker'[w].job = job)
    <3>1. CASE WorkerLease(w)
      <4>1. queue'.data = queue.data
        BY <1>1, <3>1, LeaseKeeps DEF WorkerLease
      <4>2. worker'[w].job = Head(queue.main)
        BY <1>1, <3>1 DEF WorkerLease, Idle
      <4>3. Head(queue.main) \in queue.data => worker'[w].pc # "complete"
        BY <1>1, <3>1 DEF WorkerLease, Idle
      <4>. QED
        BY <2>1, <4>1, <4>2, <4>3
    <3>2. CASE Save(w)
      <4>1. worker'[w].job = worker[w].job /\ queue' = queue
        BY <1>1, <3>2 DEF Save, WorkerState
      <4>. QED
        BY <1>4, <2>1, <3>2, <4>1
    <3>3. CASE WorkerComplete(w)
      <4>1. queue'.data = queue.data \ {worker[w].job}
        BY <1>1, <3>3, CompleteKeeps DEF WorkerComplete
      <4>2. worker'[w] = Idle
        BY <1>1, <3>3 DEF WorkerComplete
      <4>. QED
        BY <2>1, <3>3, <4>1, <4>2 DEF WorkerComplete, Idle
    <3>4. CASE FetchValidator(w) \/ FetchFirst(w) \/ FetchSecond(w)
      <4>1. worker'[w].pc # "complete" /\ queue' = queue
        BY <1>1, <3>4 DEF FetchValidator, FetchFirst, FetchSecond, WorkerState, redis
      <4>. QED
        BY <2>1, <4>1
    <3>5. CASE GiveUp(w) \/ Drop(w)
      <4>1. worker'[w] = Idle /\ queue' = queue
        BY <1>1, <3>5 DEF GiveUp, Drop, redis
      <4>. QED
        BY <2>1, <4>1 DEF Idle
    <3>. QED
      BY <3>1, <3>2, <3>3, <3>4, <3>5 DEF WorkerStep
  <2>3. \A v \in Worker \ {w} : worker'[v] = worker[v]
    BY <1>1 DEF WorkerStep, WorkerLease, FetchValidator, FetchFirst, FetchSecond, GiveUp, Save,
                WorkerComplete, Drop
  <2>4. \A v \in Worker : ~(worker'[v].pc = "complete" /\ worker'[v].job = job)
    BY <2>1, <2>2, <2>3
  <2>. QED
    BY <2>1, <2>2, <2>4 DEF IsExpected
<1>. QED
  BY <1>3, <1>4, <1>5, <1>6 DEF MarkedAreExpected, IsExpected

\* Whoever waits for a marked proof waits for a job that is due, or for one
\* the script is still to add: after MARK comes ADD, a worker deletes a job
\* (complete) only when it has saved the proof or the job was deleted before,
\* and jobs have names of their own.
THEOREM MarksAreAwaited == Spec => []MarkedIsAwaited
<1>1. Init => MarkedAreExpected
  BY DEF Init, MarkedAreExpected
<1>2. ASSUME IInv, IInv', MarkedAreExpected, [Next]_vars PROVE MarkedAreExpected'
  <2>1. CASE NewRound
    <3>1. /\ todo = {}
          /\ UNCHANGED <<marked, queue, worker, scriptLost>>
      BY <2>1 DEF NewRound, redis
    <3>2. Pending(todo) = {}
      BY <3>1 DEF Pending
    <3>. QED
      BY <1>2, <3>1, <3>2 DEF MarkedAreExpected, IsExpected
  <2>2. CASE ScriptStep
    BY <1>2, <2>2, ScriptStepExpects
  <2>3. CASE ScriptCrash
    BY <2>3 DEF ScriptCrash, MarkedAreExpected
  <2>4. CASE \E w \in Worker : WorkerStep(w) \/ Drop(w)
    BY <1>2, <2>4, WorkerStepExpects
  <2>5. CASE LeaseExpires \/ Clean
    <3>1. queue \in WorkQueues(KnownJob(todo, round))
      BY <1>2 DEF IInv, JobsRight
    <3>2. queue'.data = queue.data
      BY <2>5, <3>1, ExpireKeeps, PutBackKeeps DEF LeaseExpires, Clean
    <3>3. UNCHANGED <<marked, todo, worker, scriptLost>>
      BY <2>5 DEF LeaseExpires, Clean
    <3>. QED
      BY <1>2, <3>2, <3>3 DEF MarkedAreExpected, IsExpected
  <2>6. CASE UNCHANGED vars
    BY <1>2, <2>6 DEF vars, MarkedAreExpected, IsExpected
  <2>. QED
    BY <1>2, <2>1, <2>2, <2>3, <2>4, <2>5, <2>6 DEF Next
<1>3. MarkedAreExpected => MarkedIsAwaited
  BY DEF MarkedAreExpected, MarkedIsAwaited, IsExpected, IsAwaited, Pending
<1>. QED
  BY <1>1, <1>2, <1>3, InvariantHolds, PTL DEF Spec

-----------------------------------------------------------------------------
(* Proofs at their places *)

\* A proof stays in place when validators change: their versions grow.
LEMMA PlacesStay ==
  ASSUME NEW b \in [Index -> Nat], NEW c \in [Index -> Nat], \A i \in Index : b[i] <= c[i],
         NEW p \in Seq(Leaf), NEW d \in Nat, NEW i \in 0 .. L, InPlace(b, p, d, i)
  PROVE  InPlace(c, p, d, i)
<1>. DEFINE n == 2 ^ d
<1>1. n \in Nat /\ L \in Nat
  BY PowerOfTwo, TreeSize
<1>2. /\ Len(p) = n
      /\ i # L => i + n <= L
      /\ \A k \in 1 .. n : p[k] \notin Nothing => i # L /\ p[k] <= b[i + k - 1]
  BY DEF InPlace
<1>. HIDE DEF n
<1>3. ASSUME NEW k \in 1 .. n, p[k] \notin Nothing PROVE i # L /\ p[k] <= c[i + k - 1]
  <2>1. i # L /\ i + n <= L /\ p[k] <= b[i + k - 1]
    BY <1>2, <1>3
  <2>. DEFINE j == i + k - 1
  <2>2. j \in Index
    BY <1>1, <2>1 DEF Index
  <2>3. p[k] \in Int
    <3>1. p[k] \in Leaf
      BY <1>1, <1>2
    <3>. QED
      BY <3>1 DEF Leaf, ZeroValidator
  <2>. HIDE DEF j
  <2>4. b[j] <= c[j] /\ b[j] \in Nat /\ c[j] \in Nat
    BY <2>2
  <2>5. p[k] <= b[j]
    BY <2>1 DEF j
  <2>6. p[k] <= c[j]
    BY <2>3, <2>4, <2>5
  <2>. QED
    BY <2>1, <2>6 DEF j
<1>. QED
  BY <1>2, <1>3 DEF InPlace, n

\* The node above two proofs in place is in place.
LEMMA NodeInPlace ==
  ASSUME NEW b, NEW job \in ShapedJob, job.level # -1,
         NEW left \in Seq(Leaf), InPlace(b, left, job.level, job.first),
         NEW right \in Seq(Leaf), InPlace(b, right, job.level, job.second)
  PROVE  InPlace(b, Node(job, left, right), job.level + 1, job.first)
<1>. DEFINE n == 2 ^ job.level
            f == job.first
            g == job.second
            p == Node(job, left, right)
<1>1. job.level \in Nat /\ f \in 0 .. L /\ g \in 0 .. L /\ L \in Nat
  BY TreeSize DEF ShapedJob, Job
<1>2. n \in Nat /\ 2 ^ (job.level + 1) = n + n
  BY <1>1, PowerOfTwo
<1>3. (f = L /\ g = L) \/ (g = f + n /\ g + n <= L)
  BY <1>1 DEF ShapedJob, IsShaped
<1>4. /\ Len(left) = n
      /\ \A k \in 1 .. n : left[k] \notin Nothing => f # L /\ left[k] <= b[f + k - 1]
  BY DEF InPlace
<1>5. /\ Len(right) = n
      /\ \A k \in 1 .. n : right[k] \notin Nothing => g # L /\ right[k] <= b[g + k - 1]
  BY DEF InPlace
<1>. HIDE DEF n, f, g
<1>6. f # L => f + (n + n) <= L
  BY <1>1, <1>2, <1>3
<1>7. Len(p) = n + n /\ \A k \in 1 .. n + n : p[k] \notin Nothing => f # L /\ p[k] <= b[f + k - 1]
  <2>1. CASE IsZero(job)
    <3>1. p = [k \in 1 .. n + n |-> ZeroChunk]
      BY <1>4, <1>5, <2>1 DEF Node
    <3>. HIDE DEF p
    <3>. QED
      BY <1>2, <3>1 DEF Nothing
  <2>2. CASE ~IsZero(job)
    <3>1. p = left \o right
      BY <2>2 DEF Node
    <3>. HIDE DEF p
    <3>2. /\ Len(p) = n + n
          /\ \A k \in 1 .. n + n : p[k] = IF k <= n THEN left[k] ELSE right[k - n]
      <4>1. /\ Len(left \o right) = Len(left) + Len(right)
            /\ \A k \in 1 .. Len(left) + Len(right) :
                 (left \o right)[k] = IF k <= Len(left) THEN left[k] ELSE right[k - Len(left)]
        BY ConcatProperties
      <4>2. Len(left) = n /\ Len(right) = n
        BY <1>4, <1>5
      <4>. QED
        BY <3>1, <4>1, <4>2
    <3>3. ASSUME NEW k \in 1 .. n + n, p[k] \notin Nothing PROVE f # L /\ p[k] <= b[f + k - 1]
      <4>1. CASE k <= n
        BY <1>2, <1>4, <3>2, <3>3, <4>1
      <4>2. CASE ~(k <= n)
        <5>1. k - n \in 1 .. n /\ p[k] = right[k - n]
          BY <1>2, <3>2, <4>2
        <5>2. g # L /\ p[k] <= b[g + (k - n) - 1]
          BY <1>5, <3>3, <5>1
        <5>3. f # L /\ g + (k - n) - 1 = f + k - 1
          BY <1>1, <1>2, <1>3, <5>2
        <5>. QED
          BY <5>2, <5>3
      <4>. QED
        BY <4>1, <4>2
    <3>. QED
      BY <3>2, <3>3
  <2>. QED
    BY <2>1, <2>2
<1>. HIDE DEF p
<1>8. /\ Len(p) = 2 ^ (job.level + 1)
      /\ f # L => f + 2 ^ (job.level + 1) <= L
      /\ \A k \in 1 .. 2 ^ (job.level + 1) : p[k] \notin Nothing => f # L /\ p[k] <= b[f + k - 1]
  BY <1>2, <1>6, <1>7
<1>. QED
  BY <1>8 DEF InPlace, f, p

\* What the script starts with.
LEMMA InitInPlace ==
  ASSUME Init
  PROVE  AllInPlace
<1>1. \A w \in Worker : FetchedInPlace(beacon, worker[w])
  BY DEF Init, Idle, FetchedInPlace
<1>2. /\ beacon \in [Index -> 0 .. 1] /\ beacon \in [Index -> 0 .. MaxRound]
      /\ \A i \in 0 .. L : i = L \/ i \in Index
      /\ MaxRound \in Nat \ {0}
  BY TreeSize, MapperAssumption DEF Init, Index
<1>3. ValidatorsInPlace
  <2>1. ASSUME NEW i \in 0 .. L, validators[i] \notin Nothing
        PROVE  i # L /\ validators[i] <= beacon[i]
    <3>1. validators[i] = 0 \/ validators[i] = IF i = L THEN ZeroValidator ELSE beacon[i]
      BY DEF Init
    <3>2. i # L /\ validators[i] = beacon[i]
      BY <2>1, <3>1 DEF Nothing, ZeroChunk
    <3>. QED
      BY <1>2, <3>2
  <2>. QED
    BY <2>1 DEF ValidatorsInPlace
<1>4. CASE proofs = [k \in Key |-> <<>>]
  BY <1>1, <1>3, <1>4 DEF AllInPlace, ProofsInPlace
<1>5. CASE proofs = SettledProofs(beacon)
  <2>1. ASSUME NEW k \in Key, proofs[k] # <<>> PROVE InPlace(beacon, proofs[k], k[1], k[2])
    <3>. DEFINE d == k[1]
                i == k[2]
                p == 2 ^ d
    <3>1. k \in (0 .. Depth) \X (0 .. L)
      BY DEF Key
    <3>2. d \in Nat /\ i \in 0 .. L /\ d <= Depth /\ i \in Nat
      BY <3>1, TreeSize
    <3>3. p \in Nat
      BY <3>2, PowerOfTwo
    <3>4. CASE i = L
      <4>1. proofs[k] = [n \in 1 .. p |-> IF d = 0 THEN ZeroValidator ELSE ZeroChunk]
        BY <1>5, <3>4 DEF SettledProofs
      <4>. HIDE DEF p, d
      <4>2. Len(proofs[k]) = p /\ \A n \in 1 .. p : proofs[k][n] \in Nothing
        BY <3>3, <4>1 DEF Nothing
      <4>. QED
        BY <3>4, <4>2 DEF InPlace, p, d
    <3>5. CASE i # L
      <4>1. i % p = 0 /\ proofs[k] = [n \in 1 .. p |-> TreeLeaf(beacon, i + n - 1)]
        BY <1>5, <2>1, <3>5 DEF SettledProofs
      <4>2. i + p <= L
        <5>1. i \in 0 .. 2 ^ Depth - 1
          BY <3>2, <3>5, TreeSize DEF L
        <5>2. i - (i % p) + p <= L
          BY <5>1, <3>2, TreeSize, SubtreeFits DEF L
        <5>. QED
          BY <5>2, <3>2, <4>1
      <4>. HIDE DEF p, i, d
      <4>3. Len(proofs[k]) = p /\ \A n \in 1 .. p : proofs[k][n] = TreeLeaf(beacon, i + n - 1)
        BY <3>3, <4>1
      <4>4. ASSUME NEW n \in 1 .. p, proofs[k][n] \notin Nothing
            PROVE  i # L /\ proofs[k][n] <= beacon[i + n - 1]
        <5>1. i + n - 1 \in Index
          BY <3>2, <3>3, <4>2, TreeSize DEF Index
        <5>2. beacon[i + n - 1] \in Int
          BY <1>2, <5>1
        <5>3. proofs[k][n] = beacon[i + n - 1]
          BY <4>3, <4>4 DEF TreeLeaf, Nothing
        <5>. QED
          BY <3>5, <5>2, <5>3
      <4>. QED
        BY <4>2, <4>3, <4>4 DEF InPlace, p, i, d
    <3>. QED
      BY <3>4, <3>5
  <2>. QED
    BY <1>1, <1>3, <2>1 DEF AllInPlace, ProofsInPlace
<1>. QED
  BY <1>4, <1>5 DEF Init

\* The versions of the beacon chain grow, and all stays in place.
LEMMA NewRoundInPlace ==
  ASSUME IInv, IInv', AllInPlace, NewRound
  PROVE  AllInPlace'
<1>1. UNCHANGED <<validators, proofs, worker>> /\ round' = round + 1
  BY DEF NewRound, redis
<1>2. /\ beacon \in [Index -> Nat] /\ beacon' \in [Index -> Nat]
      /\ \A i \in Index : beacon[i] <= beacon'[i]
  <2>1. beacon \in [Index -> 0 .. round] /\ round \in Nat /\ beacon' \in [Index -> 0 .. round']
    BY DEF IInv, Values
  <2>2. beacon \in [Index -> Nat] /\ beacon' \in [Index -> Nat]
    BY <1>1, <2>1
  <2>3. ASSUME NEW i \in Index PROVE beacon[i] <= beacon'[i]
    <3>1. beacon'[i] = round + 1 \/ beacon'[i] = beacon[i]
      BY <2>1 DEF NewRound
    <3>2. beacon[i] \in 0 .. round
      BY <2>1
    <3>. QED
      BY <2>1, <3>1, <3>2
  <2>. QED
    BY <2>2, <2>3
<1>3. ValidatorsInPlace'
  <2>1. ASSUME NEW i \in 0 .. L, validators'[i] \notin Nothing
        PROVE  i # L /\ validators'[i] <= beacon'[i]
    <3>1. i # L /\ validators[i] <= beacon[i]
      BY <1>1, <2>1 DEF AllInPlace, ValidatorsInPlace
    <3>2. i \in Index /\ validators[i] \in Int
      BY <3>1, TreeSize DEF Index, IInv, Values, Leaf, ZeroValidator
    <3>3. beacon[i] \in Nat /\ beacon'[i] \in Nat /\ beacon[i] <= beacon'[i]
      BY <1>2, <3>2
    <3>. QED
      BY <1>1, <3>1, <3>2, <3>3
  <2>. QED
    BY <2>1 DEF ValidatorsInPlace
<1>4. ASSUME NEW p \in Seq(Leaf), NEW d \in Nat, NEW i \in 0 .. L, InPlace(beacon, p, d, i)
      PROVE  InPlace(beacon', p, d, i)
  BY <1>2, <1>4, PlacesStay
<1>5. ProofsInPlace'
  <2>1. ASSUME NEW key \in Key, proofs[key] # <<>>
        PROVE  InPlace(beacon', proofs[key], key[1], key[2])
    <3>1. key[1] \in Nat /\ key[2] \in 0 .. L
      BY TreeSize DEF Key
    <3>2. proofs[key] \in Seq(Leaf)
      BY DEF IInv, Values
    <3>3. InPlace(beacon, proofs[key], key[1], key[2])
      BY <2>1 DEF AllInPlace, ProofsInPlace
    <3>. QED
      BY <1>4, <3>1, <3>2, <3>3
  <2>. QED
    BY <1>1, <2>1 DEF ProofsInPlace
<1>6. ASSUME NEW w \in Worker PROVE FetchedInPlace(beacon', worker[w])
  <2>1. worker[w] \in WorkerState /\ (worker[w].pc # "idle" => worker[w].job \in Job)
    BY DEF IInv, JobsRight, WorkerRight, KnownJob, ShapedJob
  <2>2. worker[w].left \in Seq(Leaf) /\ worker[w].right \in Seq(Leaf)
    BY <2>1 DEF WorkerState
  <2>3. worker[w].pc # "idle" => /\ worker[w].job.first \in 0 .. L
                                 /\ worker[w].job.second \in 0 .. L
                                 /\ worker[w].job.level # -1 => worker[w].job.level \in Nat
    BY <2>1, TreeSize DEF Job
  <2>4. worker[w].pc = "second" => worker[w].job.level \in Nat
    BY <2>3 DEF IInv, JobsRight, WorkerRight
  <2>5. FetchedInPlace(beacon, worker[w])
    BY DEF AllInPlace
  <2>6. 0 \in Nat
    OBVIOUS
  <2>. QED
    BY <1>4, <2>2, <2>3, <2>4, <2>5, <2>6 DEF FetchedInPlace
<1>. QED
  BY <1>1, <1>3, <1>5, <1>6 DEF AllInPlace

\* The script saves validators as the beacon chain has them.
LEMMA ScriptStepInPlace ==
  ASSUME IInv, AllInPlace, ScriptStep
  PROVE  AllInPlace'
<1>1. PICK op \in todo : SaveValidators(op) \/ MarkProof(op) \/ AddJob(op)
  BY DEF ScriptStep
<1>2. UNCHANGED <<beacon, worker>>
  BY DEF ScriptStep
<1>3. ValidatorsInPlace'
  <2>1. ASSUME NEW i \in 0 .. L, validators'[i] \notin Nothing
        PROVE  i # L /\ validators'[i] <= beacon[i]
    <3>1. CASE validators'[i] = validators[i]
      BY <2>1, <3>1 DEF AllInPlace, ValidatorsInPlace
    <3>2. CASE validators'[i] # validators[i]
      <4>1. validators'[i] = IF i = L THEN ZeroValidator ELSE beacon[i]
        BY <1>1, <3>2 DEF SaveValidators, MarkProof, AddJob, IInv, Values
      <4>2. i # L /\ validators'[i] = beacon[i]
        BY <2>1, <4>1 DEF Nothing
      <4>3. i \in Index
        BY <4>2, TreeSize DEF Index
      <4>4. beacon[i] \in Int
        BY <4>3 DEF IInv, Values
      <4>. QED
        BY <4>2, <4>4
    <3>. QED
      BY <3>1, <3>2
  <2>. QED
    BY <1>2, <2>1 DEF ValidatorsInPlace
<1>4. \A key \in Key : proofs'[key] = proofs[key] \/ proofs'[key] = <<>>
  BY <1>1 DEF SaveValidators, MarkProof, AddJob, IInv, Values
<1>5. ProofsInPlace'
  BY <1>2, <1>4 DEF AllInPlace, ProofsInPlace
<1>. QED
  BY <1>2, <1>3, <1>5 DEF AllInPlace

\* The proof fetch_proof finds for a subtree is in place there: it is that of
\* the subtree itself, or of zeros.
LEMMA FoundInPlace ==
  ASSUME IInv, AllInPlace, NEW level \in 0 .. Depth - 1, NEW i \in 0 .. L,
         i # L => i + 2 ^ level <= L, proofs[Found(level, i)] # <<>>
  PROVE  InPlace(beacon, proofs[Found(level, i)], level, i)
<1>1. <<level, i>> \in Key /\ <<level, L>> \in Key
  BY TreeSize DEF Key
<1>2. CASE Found(level, i) = <<level, i>>
  <2>1. proofs[<<level, i>>] # <<>>
    BY <1>2
  <2>2. InPlace(beacon, proofs[<<level, i>>], <<level, i>>[1], <<level, i>>[2])
    BY <1>1, <2>1 DEF AllInPlace, ProofsInPlace
  <2>. QED
    BY <1>2, <2>2
<1>3. CASE Found(level, i) = <<level, L>>
  <2>. DEFINE p == proofs[<<level, L>>]
  <2>1. InPlace(beacon, p, <<level, L>>[1], <<level, L>>[2])
    BY <1>1, <1>3 DEF AllInPlace, ProofsInPlace
  <2>2. InPlace(beacon, p, level, L)
    BY <2>1
  <2>. HIDE DEF p
  <2>3. InPlace(beacon, p, level, i)
    BY <2>2 DEF InPlace
  <2>. QED
    BY <1>3, <2>3 DEF p
<1>. QED
  BY <1>2, <1>3 DEF Found

\* What a worker fetches and saves is in place.
LEMMA WorkerStepInPlace ==
  ASSUME IInv, AllInPlace, NEW w \in Worker, WorkerStep(w) \/ Drop(w)
  PROVE  AllInPlace'
<1>. DEFINE wk == worker[w]
            job == wk.job
<1>1. /\ wk \in WorkerState /\ worker \in [Worker -> WorkerState]
      /\ proofs \in [Key -> Seq(Leaf)] /\ validators \in [0 .. L -> Leaf]
      /\ wk.left \in Seq(Leaf) /\ wk.right \in Seq(Leaf)
      /\ FetchedInPlace(beacon, wk)
  BY DEF IInv, Values, JobsRight, WorkerState, AllInPlace
<1>2. /\ wk.pc # "idle" => job \in ShapedJob /\ job \in Job
      /\ wk.pc = "validator" => job.level = -1
      /\ wk.pc \in {"first", "second"} => job.level # -1
  BY DEF IInv, JobsRight, WorkerRight, KnownJob, ShapedJob
<1>3. beacon' = beacon /\ validators' = validators
  BY DEF WorkerStep, WorkerLease, FetchValidator, FetchFirst, FetchSecond, GiveUp, Save,
         WorkerComplete, Drop, redis
<1>4. ValidatorsInPlace'
  BY <1>3 DEF AllInPlace, ValidatorsInPlace
<1>5. \A v \in Worker \ {w} : worker'[v] = worker[v]
  BY <1>1 DEF WorkerStep, WorkerLease, FetchValidator, FetchFirst, FetchSecond, GiveUp, Save,
              WorkerComplete, Drop
<1>6. SUFFICES ProofsInPlace' /\ FetchedInPlace(beacon, worker'[w])
  BY <1>3, <1>4, <1>5 DEF AllInPlace
<1>7. ASSUME job \in ShapedJob, job.level # -1
      PROVE  /\ job.level \in 0 .. Depth - 1 /\ job.first \in 0 .. L /\ job.second \in 0 .. L
             /\ job.first # L => job.first + 2 ^ job.level <= L
             /\ job.second # L => job.second + 2 ^ job.level <= L
  <2>1. job.level \in 0 .. Depth - 1 /\ job.first \in 0 .. L /\ job.second \in 0 .. L /\ L \in Nat
    BY <1>7, TreeSize DEF ShapedJob, Job
  <2>2. 2 ^ job.level \in Nat
    BY <2>1, PowerOfTwo
  <2>3. \/ job.first = L /\ job.second = L
        \/ job.second = job.first + 2 ^ job.level /\ job.second + 2 ^ job.level <= L
    BY <1>7, <2>1 DEF ShapedJob, IsShaped
  <2>. DEFINE n == 2 ^ job.level
  <2>. HIDE DEF n
  <2>4. /\ job.first # L => job.first + n <= L
        /\ job.second # L => job.second + n <= L
    BY <2>1, <2>2, <2>3 DEF n
  <2>. QED
    BY <2>1, <2>4 DEF n
<1>8. CASE worker'[w].pc \in {"idle", "validator", "first", "complete"} /\ proofs' = proofs
  BY <1>3, <1>8 DEF FetchedInPlace, AllInPlace, ProofsInPlace
<1>9. CASE FetchValidator(w)
  <2>1. job.level = -1 /\ job.first \in 0 .. L /\ wk.pc = "validator"
    BY <1>2, <1>9 DEF FetchValidator, Job
  <2>2. /\ worker'[w].left = <<validators[job.first]>> /\ worker'[w].pc = "save"
        /\ worker'[w].job = job /\ proofs' = proofs
    BY <1>1, <1>9 DEF FetchValidator, WorkerState, redis
  <2>. DEFINE i == job.first
              p == <<validators[i]>>
  <2>3. Len(p) = 1 /\ p[1] = validators[i]
    OBVIOUS
  <2>4. p[1] \notin Nothing => i # L /\ p[1] <= beacon[i]
    BY <2>1, <2>3 DEF AllInPlace, ValidatorsInPlace
  <2>5. i # L => i + 1 <= L
    BY <2>1, TreeSize
  <2>. HIDE DEF p, i
  <2>6. InPlace(beacon, p, 0, i)
    <3>1. 2 ^ 0 = 1
      BY PowerOfTwo
    <3>2. i \in Int
      BY <2>1, TreeSize DEF i
    <3>3. \A k \in 1 .. 1 : k = 1 /\ i + k - 1 = i
      BY <3>2
    <3>4. \A k \in 1 .. 1 : p[k] \notin Nothing => i # L /\ p[k] <= beacon[i + k - 1]
      BY <2>4, <3>3
    <3>. QED
      BY <2>3, <2>5, <3>1, <3>4 DEF InPlace
  <2>7. FetchedInPlace(beacon, worker'[w])
    BY <2>1, <2>2, <2>6 DEF FetchedInPlace, p, i
  <2>. QED
    BY <1>3, <2>2, <2>7 DEF AllInPlace, ProofsInPlace
<1>10. CASE FetchFirst(w)
  <2>. DEFINE p == proofs[Found(job.level, job.first)]
  <2>1. wk.pc = "first" /\ job \in ShapedJob /\ job.level # -1 /\ p # <<>>
    BY <1>2, <1>10 DEF FetchFirst
  <2>2. InPlace(beacon, p, job.level, job.first)
    BY <1>7, <2>1, FoundInPlace
  <2>3. worker'[w].left = p /\ worker'[w].pc = "second" /\ worker'[w].job = job /\ proofs' = proofs
    BY <1>1, <1>10 DEF FetchFirst, WorkerState, redis
  <2>4. FetchedInPlace(beacon, worker'[w])
    BY <2>2, <2>3 DEF FetchedInPlace
  <2>. QED
    BY <1>3, <2>3, <2>4 DEF AllInPlace, ProofsInPlace
<1>11. CASE FetchSecond(w)
  <2>. DEFINE p == proofs[Found(job.level, job.second)]
  <2>1. wk.pc = "second" /\ job \in ShapedJob /\ job.level # -1 /\ p # <<>>
    BY <1>2, <1>11 DEF FetchSecond
  <2>2. InPlace(beacon, p, job.level, job.second)
    BY <1>7, <2>1, FoundInPlace
  <2>3. /\ worker'[w].right = p /\ worker'[w].left = wk.left /\ worker'[w].pc = "save"
        /\ worker'[w].job = job /\ proofs' = proofs
    BY <1>1, <1>11 DEF FetchSecond, WorkerState, redis
  <2>4. InPlace(beacon, wk.left, job.level, job.first)
    BY <1>1, <2>1 DEF FetchedInPlace
  <2>5. FetchedInPlace(beacon, worker'[w])
    BY <2>1, <2>2, <2>3, <2>4 DEF FetchedInPlace
  <2>. QED
    BY <1>3, <2>3, <2>5 DEF AllInPlace, ProofsInPlace
<1>12. CASE Save(w)
  <2>. DEFINE p == IF job.level = -1 THEN wk.left ELSE Node(job, wk.left, wk.right)
              key == Target(job)
  <2>1. /\ wk.pc = "save" /\ proofs' = [proofs EXCEPT ![key] = p]
        /\ worker'[w].pc = "complete"
    BY <1>1, <1>12 DEF Save, WorkerState
  <2>2. job \in ShapedJob /\ key \in Key /\ key[1] = job.level + 1 /\ key[2] = job.first
    BY <1>2, <2>1, KeysOfJobs DEF Target
  <2>3. InPlace(beacon, p, job.level + 1, job.first)
    <3>1. CASE job.level = -1
      <4>1. InPlace(beacon, wk.left, 0, job.first)
        BY <1>1, <2>1, <3>1 DEF FetchedInPlace
      <4>2. job.level + 1 = 0 /\ p = wk.left
        BY <3>1
      <4>. QED
        BY <4>1, <4>2
    <3>2. CASE job.level # -1
      <4>1. /\ InPlace(beacon, wk.left, job.level, job.first)
            /\ InPlace(beacon, wk.right, job.level, job.second)
        BY <1>1, <2>1, <3>2 DEF FetchedInPlace
      <4>. QED
        BY <1>1, <2>2, <3>2, <4>1, NodeInPlace
    <3>. QED
      BY <3>1, <3>2
  <2>. HIDE DEF p, key
  <2>4. ProofsInPlace'
    <3>1. ASSUME NEW k \in Key, proofs'[k] # <<>> PROVE InPlace(beacon, proofs'[k], k[1], k[2])
      <4>1. CASE k = key
        <5>1. proofs'[k] = p
          BY <1>1, <2>1, <2>2, <4>1
        <5>. QED
          BY <2>2, <2>3, <4>1, <5>1
      <4>2. CASE k # key
        BY <1>1, <2>1, <3>1, <4>2 DEF AllInPlace, ProofsInPlace
      <4>. QED
        BY <4>1, <4>2
    <3>. QED
      BY <1>3, <3>1 DEF ProofsInPlace
  <2>. QED
    BY <2>1, <2>4 DEF FetchedInPlace
<1>13. CASE WorkerLease(w) \/ WorkerComplete(w) \/ GiveUp(w) \/ Drop(w)
  <2>1. proofs' = proofs
    BY <1>13 DEF WorkerLease, WorkerComplete, GiveUp, Drop, redis
  <2>2. worker'[w].pc \in {"idle", "validator", "first", "complete"}
    <3>1. CASE WorkerLease(w)
      <4>. DEFINE leased == Head(queue.main)
                  pc == IF leased \notin queue.data THEN "complete"
                          ELSE IF leased.level = -1 THEN "validator" ELSE "first"
      <4>1. pc \in {"idle", "validator", "first", "complete"}
        OBVIOUS
      <4>2. worker'[w] = [Idle EXCEPT !.job = leased, !.pc = pc]
        BY <1>1, <3>1 DEF WorkerLease
      <4>. HIDE DEF pc, leased
      <4>3. worker'[w].pc = pc
        BY <4>2 DEF Idle
      <4>. QED
        BY <4>1, <4>3
    <3>2. CASE WorkerComplete(w) \/ GiveUp(w) \/ Drop(w)
      BY <1>1, <3>2 DEF WorkerComplete, GiveUp, Drop, Idle
    <3>. QED
      BY <1>13, <3>1, <3>2
  <2>. QED
    BY <1>8, <2>1, <2>2
<1>. QED
  BY <1>9, <1>10, <1>11, <1>12, <1>13 DEF WorkerStep

\* Whatever a validator, a proof or a worker has is in place, always.
LEMMA AllStaysInPlace == Spec => []AllInPlace
<1>1. Init => AllInPlace
  BY InitInPlace
<1>2. ASSUME IInv, IInv', AllInPlace, [Next]_vars PROVE AllInPlace'
  <2>1. CASE NewRound
    BY <1>2, <2>1, NewRoundInPlace
  <2>2. CASE ScriptStep
    BY <1>2, <2>2, ScriptStepInPlace
  <2>3. CASE \E w \in Worker : WorkerStep(w) \/ Drop(w)
    BY <1>2, <2>3, WorkerStepInPlace
  <2>4. CASE UNCHANGED <<beacon, validators, proofs, worker>>
    BY <1>2, <2>4 DEF AllInPlace, ValidatorsInPlace, ProofsInPlace
  <2>5. CASE ScriptCrash \/ LeaseExpires \/ Clean \/ UNCHANGED vars
    BY <2>4, <2>5 DEF ScriptCrash, LeaseExpires, Clean, vars, redis
  <2>. QED
    BY <1>2, <2>1, <2>2, <2>3, <2>5 DEF Next
<1>. QED
  BY <1>1, <1>2, InvariantHolds, PTL DEF Spec

\* The leaves of every proof in Redis are of the validators at its place, at
\* a version they once had, whatever workers race, crash or work on a job
\* twice, and whatever the script leaves undone: a job names two neighbouring
\* subtrees, fetch_proof returns a proof of the subtree it is asked for or of
\* zeros, and the circuit puts the first before the second.
THEOREM PlacesAreKept == Spec => []ProofsKeepPlaces
<1>1. AllInPlace => ProofsKeepPlaces
  BY DEF AllInPlace, ProofsInPlace, InPlace, ProofsKeepPlaces, Nothing
<1>. QED
  BY <1>1, AllStaysInPlace, PTL

-----------------------------------------------------------------------------
(* The tree of the validators saved *)

\* A proof of zeros, for a subtree of 2^d leaves.
Zero(d) == [n \in 1 .. 2 ^ d |-> IF d = 0 THEN ZeroValidator ELSE ZeroChunk]

\* The other leaf of the first inner node above a leaf.
Beside(i) == IF i % 2 = 0 THEN i + 1 ELSE i - 1

\* The leaf of a validator in a proof about 2^d leaves.
ContentLeaf(version, d, i) ==
  IF version[i] # 0 THEN version[i]
  ELSE IF d = 0 \/ version[Beside(i)] # 0 THEN ZeroValidator ELSE ZeroChunk

\* What a proof for the 2^d leaves from i on is about, when Redis has these
\* validators.
Content(version, d, i) == [n \in 1 .. 2 ^ d |-> ContentLeaf(version, d, i + n - 1)]

\* The subtrees that proofs are for.
NodeKey == {key \in Key : key[2] # L /\ key[2] % 2 ^ key[1] = 0}

\* A subtree lies within the tree.
LEMMA NodeKeyFits ==
  ASSUME NEW key \in NodeKey
  PROVE  /\ key[1] \in 0 .. Depth /\ key[1] \in Nat
         /\ key[2] \in Nat /\ key[2] + 2 ^ key[1] <= L /\ 2 ^ key[1] \in Nat \ {0}
<1>. DEFINE d == key[1]
            i == key[2]
<1>1. d \in 0 .. Depth /\ i \in 0 .. L /\ i # L /\ i % 2 ^ d = 0
  BY DEF NodeKey, Key
<1>2. d \in Nat /\ Depth \in Nat /\ d <= Depth /\ L \in Nat
  BY <1>1, TreeSize
<1>3. i \in 0 .. 2 ^ Depth - 1 /\ i \in Nat
  BY <1>1, <1>2 DEF L
<1>4. i - (i % 2 ^ d) + 2 ^ d <= L
  BY <1>2, <1>3, SubtreeFits DEF L
<1>5. 2 ^ d \in Nat \ {0}
  BY <1>2, PowerOfTwo
<1>. QED
  BY <1>1, <1>2, <1>3, <1>4, <1>5

\* A proof about the validators is not empty.
LEMMA ContentIsThere ==
  ASSUME NEW version, NEW d \in Nat, NEW i
  PROVE  Content(version, d, i) # <<>> /\ Zero(d) # <<>> /\ Len(Content(version, d, i)) = 2 ^ d
<1>1. 2 ^ d \in Nat \ {0}
  BY PowerOfTwo
<1>. DEFINE n == 2 ^ d
            c == Content(version, d, i)
            z == Zero(d)
<1>2. DOMAIN c = 1 .. n /\ DOMAIN z = 1 .. n
  BY DEF Content, Zero
<1>3. c = [k \in 1 .. n |-> c[k]]
  BY DEF Content
<1>. HIDE DEF c, z, n
<1>4. 1 \in 1 .. n
  BY <1>1 DEF n
<1>5. DOMAIN <<>> = {}
  OBVIOUS
<1>6. Len(c) = n
  BY <1>1, <1>3 DEF n
<1>. QED
  BY <1>2, <1>4, <1>5, <1>6 DEF c, z, n

\* Both leaves of a first inner node are in a subtree that has one of them.
LEMMA BesideIsInside ==
  ASSUME NEW d \in Nat \ {0}, NEW i \in Nat, i % 2 ^ d = 0, NEW x \in i .. i + 2 ^ d - 1
  PROVE  Beside(x) \in i .. i + 2 ^ d - 1
<1>. DEFINE p == 2 ^ (d - 1)
            n == 2 ^ d
<1>1. d - 1 \in Nat /\ (d - 1) + 1 = d
  OBVIOUS
<1>2. p \in Nat \ {0} /\ 2 ^ ((d - 1) + 1) = 2 * p
  BY <1>1, PowerOfTwo
<1>3. n = 2 * p
  BY <1>1, <1>2
<1>4. 2 ^ 1 = 2
  <2>1. 2 ^ (0 + 1) = 2 * 2 ^ 0 /\ 2 ^ 0 = 1
    BY PowerOfTwo
  <2>. QED
    BY <2>1
<1>5. i % 2 = 0
  <2>1. 1 \in Nat /\ 1 <= d
    OBVIOUS
  <2>2. i % 2 ^ 1 = 0
    BY <2>1, MultipleOfLess
  <2>. QED
    BY <1>4, <2>2
<1>. HIDE DEF p, n
<1>6. x \in i .. i + n - 1
  BY DEF n
<1>7. Beside(x) \in i .. i + n - 1
  BY <1>2, <1>3, <1>5, <1>6 DEF Beside
<1>. QED
  BY <1>7 DEF n

\* Validators that change elsewhere leave a proof as it is.
LEMMA ContentStays ==
  ASSUME NEW a, NEW b, NEW d \in Nat, NEW i \in Nat, i % 2 ^ d = 0,
         \A x \in i .. i + 2 ^ d - 1 : a[x] = b[x]
  PROVE  Content(a, d, i) = Content(b, d, i)
<1>. DEFINE n == 2 ^ d
<1>1. n \in Nat \ {0}
  BY PowerOfTwo
<1>2. ASSUME NEW k \in 1 .. n PROVE ContentLeaf(a, d, i + k - 1) = ContentLeaf(b, d, i + k - 1)
  <2>. DEFINE x == i + k - 1
  <2>. HIDE DEF n
  <2>1. x \in i .. i + n - 1
    BY <1>1
  <2>. HIDE DEF x
  <2>2. a[x] = b[x]
    BY <2>1 DEF n
  <2>3. CASE d = 0
    BY <2>2, <2>3 DEF ContentLeaf, x
  <2>4. CASE d # 0
    <3>1. d \in Nat \ {0}
      BY <2>4
    <3>2. x \in i .. i + 2 ^ d - 1
      BY <2>1 DEF n
    <3>3. Beside(x) \in i .. i + 2 ^ d - 1
      BY <3>1, <3>2, BesideIsInside
    <3>4. a[Beside(x)] = b[Beside(x)]
      BY <3>3
    <3>. QED
      BY <2>2, <3>4 DEF ContentLeaf, x
  <2>. QED
    BY <2>3, <2>4
<1>. QED
  BY <1>2 DEF Content

\* The node above the proofs of two neighbours is about the leaves of both; but
\* above two leaves only where there is a validator.
LEMMA ContentJoins ==
  ASSUME NEW version, NEW d \in Nat, NEW i \in Nat, i % 2 ^ (d + 1) = 0,
         d = 0 => version[i] # 0
  PROVE  Content(version, d, i) \o Content(version, d, i + 2 ^ d) = Content(version, d + 1, i)
<1>. DEFINE n == 2 ^ d
            j == i + n
            l == Content(version, d, i)
            r == Content(version, d, j)
            c == Content(version, d + 1, i)
            lr == l \o r
<1>1. n \in Nat \ {0} /\ 2 ^ (d + 1) = 2 * n /\ 2 ^ 0 = 1
  BY PowerOfTwo
<1>2. l = [k \in 1 .. n |-> ContentLeaf(version, d, i + k - 1)]
  BY DEF Content
<1>3. r = [k \in 1 .. n |-> ContentLeaf(version, d, j + k - 1)]
  BY DEF Content
<1>4. c = [k \in 1 .. 2 * n |-> ContentLeaf(version, d + 1, i + k - 1)]
  BY <1>1 DEF Content
<1>5. ASSUME NEW k \in 1 .. 2 * n
      PROVE  ContentLeaf(version, d, i + k - 1) = ContentLeaf(version, d + 1, i + k - 1)
  <2>1. CASE d # 0
    BY <2>1 DEF ContentLeaf
  <2>2. CASE d = 0
    <3>1. n = 1
      BY <1>1, <2>2
    <3>2. k = 1 \/ k = 2
      BY <3>1
    <3>3. i % 2 = 0
      BY <1>1, <2>2
    <3>4. CASE k = 1
      <4>1. i + k - 1 = i
        BY <3>4
      <4>. QED
        BY <2>2, <4>1 DEF ContentLeaf
    <3>5. CASE k = 2
      <4>1. i + k - 1 = i + 1 /\ (i + 1) % 2 # 0
        BY <3>3, <3>5
      <4>2. Beside(i + k - 1) = i
        BY <4>1 DEF Beside
      <4>. QED
        BY <2>2, <4>2 DEF ContentLeaf
    <3>. QED
      BY <3>2, <3>4, <3>5
  <2>. QED
    BY <2>1, <2>2
<1>. DEFINE S == {ContentLeaf(version, e, x) : e \in Nat, x \in Int}
<1>6. \A e \in Nat, x \in Int : ContentLeaf(version, e, x) \in S
  OBVIOUS
<1>. HIDE DEF l, r, c, n, S
<1>7. Len(l) = n /\ l \in Seq(S)
  <2>1. \A k \in 1 .. n : ContentLeaf(version, d, i + k - 1) \in S
    BY <1>1, <1>6
  <2>. QED
    BY <1>1, <1>2, <2>1
<1>8. Len(r) = n /\ r \in Seq(S)
  <2>1. \A k \in 1 .. n : ContentLeaf(version, d, j + k - 1) \in S
    BY <1>1, <1>6
  <2>. QED
    BY <1>1, <1>3, <2>1
<1>9. Len(c) = 2 * n /\ c \in Seq(S)
  <2>1. \A k \in 1 .. 2 * n : ContentLeaf(version, d + 1, i + k - 1) \in S
    BY <1>1, <1>6
  <2>. QED
    BY <1>1, <1>4, <2>1
<1>10. /\ lr \in Seq(S) /\ Len(lr) = Len(l) + Len(r)
       /\ \A k \in 1 .. Len(l) + Len(r) : lr[k] = IF k <= Len(l) THEN l[k] ELSE r[k - Len(l)]
  BY <1>7, <1>8, ConcatProperties
<1>. HIDE DEF lr
<1>11. Len(lr) = 2 * n /\ \A k \in 1 .. 2 * n : lr[k] = IF k <= n THEN l[k] ELSE r[k - n]
  BY <1>1, <1>7, <1>8, <1>10
<1>12. ASSUME NEW k \in 1 .. 2 * n PROVE lr[k] = c[k]
  <2>1. c[k] = ContentLeaf(version, d, i + k - 1)
    BY <1>4, <1>5
  <2>2. CASE k <= n
    <3>1. k \in 1 .. n
      BY <1>1, <2>2
    <3>. QED
      BY <1>2, <1>11, <2>1, <2>2, <3>1
  <2>3. CASE ~(k <= n)
    <3>1. k - n \in 1 .. n /\ j + (k - n) - 1 = i + k - 1
      BY <1>1, <2>3
    <3>2. r[k - n] = ContentLeaf(version, d, j + (k - n) - 1)
      BY <1>3, <3>1
    <3>. QED
      BY <1>11, <2>1, <2>3, <3>1, <3>2
  <2>. QED
    BY <2>2, <2>3
<1>13. lr = c
  BY <1>9, <1>10, <1>11, <1>12, SeqEqual
<1>. QED
  BY <1>13 DEF lr, l, r, c, n

\* A node of zeros is made of zeros.
LEMMA ZerosJoin ==
  ASSUME NEW d \in Nat, NEW job, job.level = d, IsZero(job) <=> d = 0
  PROVE  Node(job, Zero(d), Zero(d)) = Zero(d + 1)
<1>. DEFINE n == 2 ^ d
            z == Zero(d)
            c == Zero(d + 1)
            x == IF d = 0 THEN ZeroValidator ELSE ZeroChunk
            p == Node(job, z, z)
<1>1. n \in Nat \ {0} /\ 2 ^ (d + 1) = 2 * n
  BY PowerOfTwo
<1>2. z = [k \in 1 .. n |-> x] /\ c = [k \in 1 .. 2 * n |-> ZeroChunk]
  BY <1>1 DEF Zero
<1>3. p = IF d = 0 THEN [k \in 1 .. Len(z) + Len(z) |-> ZeroChunk] ELSE z \o z
  BY DEF Node
<1>. HIDE DEF n, z, c, p, x
<1>4. Len(z) = n /\ z \in Seq({x})
  BY <1>1, <1>2
<1>5. CASE d = 0
  BY <1>1, <1>2, <1>3, <1>4, <1>5 DEF z, c, p
<1>6. CASE d # 0
  <2>. DEFINE zz == z \o z
  <2>1. /\ zz \in Seq({x}) /\ Len(zz) = Len(z) + Len(z)
        /\ \A k \in 1 .. Len(z) + Len(z) : zz[k] = IF k <= Len(z) THEN z[k] ELSE z[k - Len(z)]
    BY <1>4, ConcatProperties
  <2>2. zz = p
    BY <1>3, <1>6
  <2>. HIDE DEF zz
  <2>3. x = ZeroChunk
    BY <1>6 DEF x
  <2>4. ASSUME NEW k \in 1 .. 2 * n PROVE zz[k] = ZeroChunk
    <3>1. k \in 1 .. Len(z) + Len(z)
      BY <1>1, <1>4
    <3>2. zz[k] = IF k <= Len(z) THEN z[k] ELSE z[k - Len(z)]
      BY <2>1, <3>1
    <3>3. k <= n \/ k - n \in 1 .. n
      BY <1>1
    <3>. QED
      BY <1>1, <1>2, <1>4, <2>3, <3>2, <3>3
  <2>5. Len(zz) = 2 * n /\ Len(c) = 2 * n /\ c \in Seq({x})
    BY <1>1, <1>2, <1>4, <2>1, <2>3
  <2>6. \A k \in 1 .. Len(zz) : zz[k] = c[k]
    BY <1>2, <2>4, <2>5
  <2>7. zz = c
    BY <2>1, <2>5, <2>6, SeqEqual
  <2>. QED
    BY <2>2, <2>7 DEF p, z, c
<1>. QED
  BY <1>5, <1>6

-----------------------------------------------------------------------------
(* The jobs above a validator *)

\* The jobs for subtrees of validators, not of zeros.
NodeJob == {job \in ShapedJob : job.first # L}

\* The job of a round for the subtree of a level that a leaf is in.
JobAt(i, level, r) == IF level = -1 THEN LeafJob(i, r) ELSE InnerJob(i, level, r)

\* The job of the same round for the node above.
Parent(job) == InnerJob(job.first, job.level + 1, job.round)

\* The fields of a job.
LEMMA NodeJobFields ==
  ASSUME NEW job \in NodeJob
  PROVE  /\ job \in Job /\ job.level \in -1 .. Depth - 1 /\ job.round \in 0 .. MaxRound
         /\ job.level + 1 \in Nat
         /\ job.first \in Index /\ job.first \in Nat
         /\ job.first % 2 ^ (job.level + 1) = 0
         /\ job.level # -1 => /\ job.level \in Nat
                              /\ job.second = job.first + 2 ^ job.level
                              /\ 2 ^ job.level \in Nat \ {0}
                              /\ job.second \in Nat /\ job.second < L
<1>1. /\ job \in Job /\ job.level \in -1 .. Depth - 1 /\ job.round \in 0 .. MaxRound
      /\ job.first \in 0 .. L /\ job.second \in 0 .. L /\ job.first # L
  BY DEF NodeJob, ShapedJob, Job
<1>2. L \in Nat /\ Depth \in Nat
  BY TreeSize
<1>3. job.first \in Index /\ job.first \in Nat /\ job.level + 1 \in Nat
  BY <1>1, <1>2 DEF Index
<1>4. CASE job.level = -1
  <2>1. 2 ^ 0 = 1
    BY PowerOfTwo
  <2>2. job.level + 1 = 0 /\ job.first % 1 = 0
    BY <1>3, <1>4
  <2>. QED
    BY <1>1, <1>3, <1>4, <2>1, <2>2
<1>5. CASE job.level # -1
  <2>1. job.level \in Nat
    BY <1>1, <1>2, <1>5
  <2>2. /\ job.first % 2 ^ (job.level + 1) = 0
        /\ job.second = job.first + 2 ^ job.level
        /\ job.second + 2 ^ job.level <= L
    BY <1>1, <2>1 DEF NodeJob, ShapedJob, IsShaped
  <2>3. 2 ^ job.level \in Nat \ {0}
    BY <2>1, PowerOfTwo
  <2>4. job.second \in Nat
    BY <1>1, <1>2
  <2>5. job.second < L
    BY <1>2, <2>2, <2>3, <2>4
  <2>. QED
    BY <1>1, <1>3, <2>1, <2>2, <2>3, <2>4, <2>5
<1>. QED
  BY <1>4, <1>5

\* The subtrees of its children and its own are subtrees of the tree.
LEMMA NodeJobKeys ==
  ASSUME NEW job \in NodeJob
  PROVE  /\ Target(job) \in NodeKey
         /\ job.level # -1 => /\ <<job.level, job.first>> \in NodeKey
                              /\ <<job.level, job.second>> \in NodeKey
<1>1. /\ job.level \in -1 .. Depth - 1 /\ job.level + 1 \in Nat
      /\ job.first \in Index /\ job.first \in Nat
      /\ job.first % 2 ^ (job.level + 1) = 0
      /\ job.level # -1 => /\ job.level \in Nat
                           /\ job.second = job.first + 2 ^ job.level
                           /\ 2 ^ job.level \in Nat \ {0}
                           /\ job.second \in Nat /\ job.second < L
  BY NodeJobFields
<1>2. L \in Nat /\ Depth \in Nat /\ job.first \in 0 .. L /\ job.first # L
      /\ job.level + 1 \in 0 .. Depth
  BY <1>1, TreeSize DEF Index
<1>3. Target(job) \in NodeKey
  <2>1. <<job.level + 1, job.first>> \in Key
    BY <1>2 DEF Key
  <2>. QED
    BY <1>1, <1>2, <2>1 DEF NodeKey, Target
<1>4. ASSUME job.level # -1
      PROVE  <<job.level, job.first>> \in NodeKey /\ <<job.level, job.second>> \in NodeKey
  <2>. DEFINE p == 2 ^ job.level
              f == job.first
              g == job.second
  <2>1. p \in Nat \ {0} /\ f \in Nat /\ g = f + p
    BY <1>1, <1>4
  <2>2. f % p = 0
    <3>1. job.level \in Nat /\ job.level + 1 \in Nat /\ job.level <= job.level + 1
      BY <1>1, <1>4
    <3>. QED
      BY <1>1, <3>1, MultipleOfLess
  <2>3. g % p = 0
    <3>. HIDE DEF p, f, g
    <3>1. f \div p \in Nat /\ f = (f \div p) * p + (f % p)
      BY <2>1, Div
    <3>. DEFINE q == f \div p
                m == q * p
    <3>2. m \in Nat
      BY <2>1, <3>1
    <3>3. q \in Nat /\ f = m
      <4>1. f = m + (f % p) /\ q \in Nat
        BY <3>1
      <4>. HIDE DEF m, q
      <4>. QED
        BY <2>2, <3>2, <4>1
    <3>4. (q + 1) * p = m + p
      BY <2>1, <3>3
    <3>5. ((q + 1) * p) % p = 0
      <4>. HIDE DEF q
      <4>1. q + 1 \in Nat
        BY <3>3
      <4>. QED
        BY <2>1, <4>1, NoRemainder
    <3>. QED
      BY <2>1, <3>3, <3>4, <3>5
  <2>4. f \in 0 .. L /\ g \in 0 .. L /\ g # L /\ job.level \in 0 .. Depth
    BY <1>1, <1>2, <1>4
  <2>5. <<job.level, f>> \in Key /\ <<job.level, g>> \in Key
    BY <2>4 DEF Key
  <2>. QED
    BY <1>2, <2>2, <2>3, <2>4, <2>5 DEF NodeKey
<1>. QED
  BY <1>3, <1>4

\* The jobs of a leaf are in a row.
LEMMA JobAtIs ==
  ASSUME NEW i \in Index, NEW level \in -1 .. Depth - 1, NEW r \in 0 .. MaxRound
  PROVE  /\ JobAt(i, level, r) \in NodeJob
         /\ JobAt(i, level, r).level = level
         /\ JobAt(i, level, r).round = r
         /\ JobAt(i, level, r).first = i - (i % 2 ^ (level + 1))
         /\ Target(JobAt(i, level, r)) = <<level + 1, i - (i % 2 ^ (level + 1))>>
<1>1. i \in 0 .. L /\ i # L /\ i \in Nat
  BY TreeSize DEF Index
<1>2. CASE level = -1
  <2>1. LeafJob(i, r) \in ShapedJob /\ LeafJob(i, r).round = r
    BY <1>1, LeafJobIsShaped
  <2>2. 2 ^ 0 = 1
    BY PowerOfTwo
  <2>3. level + 1 = 0 /\ i - (i % 1) = i
    BY <1>1, <1>2
  <2>4. LeafJob(i, r).first = i /\ LeafJob(i, r).level = -1
    BY DEF LeafJob
  <2>. QED
    BY <1>1, <1>2, <2>1, <2>2, <2>3, <2>4 DEF JobAt, NodeJob, Target
<1>3. CASE level # -1
  <2>1. level \in 0 .. Depth - 1
    BY <1>3, TreeSize
  <2>2. /\ InnerJob(i, level, r) \in ShapedJob /\ InnerJob(i, level, r).round = r
        /\ InnerJob(i, level, r).level = level /\ InnerJob(i, level, r).first # L
    BY <2>1, InnerJobIsShaped
  <2>3. InnerJob(i, level, r).first = i - (i % 2 ^ (level + 1))
    BY DEF InnerJob, FirstOf
  <2>. QED
    BY <1>3, <2>2, <2>3 DEF JobAt, NodeJob, Target
<1>. QED
  BY <1>2, <1>3

\* The node above the job of a leaf is the job of the next level.
LEMMA ParentOfJobAt ==
  ASSUME NEW i \in Index, NEW level \in -1 .. Depth - 1, level < Depth - 1, NEW r \in 0 .. MaxRound
  PROVE  /\ Parent(JobAt(i, level, r)) = JobAt(i, level + 1, r)
         /\ level + 1 \in -1 .. Depth - 1
<1>1. i \in Nat /\ Depth \in Nat
  BY TreeSize DEF Index
<1>2. level + 1 \in -1 .. Depth - 1 /\ level + 1 # -1 /\ level + 1 \in Nat /\ level + 2 \in Nat
  BY <1>1
<1>. DEFINE y == i - (i % 2 ^ (level + 1))
            n == level + 2
<1>3. JobAt(i, level, r).first = y /\ JobAt(i, level, r).level = level /\ JobAt(i, level, r).round = r
  BY JobAtIs
<1>4. y - (y % 2 ^ n) = i - (i % 2 ^ n)
  <2>1. n \in Nat /\ level + 1 <= n
    BY <1>2
  <2>. QED
    BY <1>1, <1>2, <2>1, RoundedTwice
<1>5. (level + 1) + 1 = n
  BY <1>2
<1>. HIDE DEF y, n
<1>6. FirstOf(y, level + 1) = FirstOf(i, level + 1)
  BY <1>4, <1>5 DEF FirstOf
<1>. QED
  BY <1>2, <1>3, <1>6 DEF Parent, JobAt, InnerJob

\* Every job of a subtree is that of its first leaf.
LEMMA NodeJobIsJobAt ==
  ASSUME NEW job \in NodeJob
  PROVE  job = JobAt(job.first, job.level, job.round)
<1>1. /\ job \in Job /\ job.level \in -1 .. Depth - 1
      /\ job.first \in Index /\ job.first \in Nat
      /\ job.first % 2 ^ (job.level + 1) = 0
      /\ job.level # -1 => job.second = job.first + 2 ^ job.level
  BY NodeJobFields
<1>2. job.level = -1 => job.second = job.first
  <2>1. IsShaped(job) /\ Depth \in Nat
    BY TreeSize DEF NodeJob, ShapedJob
  <2>. QED
    BY <2>1 DEF IsShaped
<1>3. FirstOf(job.first, job.level) = job.first
  BY <1>1 DEF FirstOf
<1>4. job = [level |-> job.level, first |-> job.first, second |-> job.second, round |-> job.round]
  BY <1>1 DEF Job
<1>. QED
  BY <1>1, <1>2, <1>3, <1>4 DEF JobAt, LeafJob, InnerJob

\* The job above a leaf is for the subtree of that level the leaf is in.
LEMMA JobAbove ==
  ASSUME NEW key \in NodeKey, NEW x \in key[2] .. key[2] + 2 ^ key[1] - 1, NEW r \in 0 .. MaxRound
  PROVE  /\ x \in Index /\ key[1] - 1 \in -1 .. Depth - 1
         /\ Target(JobAt(x, key[1] - 1, r)) = key
<1>. DEFINE d == key[1]
            i == key[2]
            p == 2 ^ d
<1>1. d \in 0 .. Depth /\ d \in Nat /\ i \in Nat /\ i + p <= L /\ p \in Nat \ {0}
  BY NodeKeyFits
<1>2. i % p = 0 /\ key = <<d, i>>
  BY DEF NodeKey, Key
<1>3. x \in i .. i + p - 1
  OBVIOUS
<1>. HIDE DEF d, i, p
<1>4. x \in Nat /\ i \in 0 .. x /\ x < i + p /\ x < L
  BY <1>1, <1>3, TreeSize
<1>5. i = x - (x % p)
  BY <1>1, <1>2, <1>4, OnlyMultiple
<1>6. x \in Index /\ d - 1 \in -1 .. Depth - 1 /\ (d - 1) + 1 = d
  BY <1>1, <1>4, TreeSize DEF Index
<1>7. Target(JobAt(x, d - 1, r)) = <<(d - 1) + 1, x - (x % 2 ^ ((d - 1) + 1))>>
  BY <1>6, JobAtIs
<1>8. Target(JobAt(x, d - 1, r)) = <<d, i>>
  BY <1>5, <1>6, <1>7 DEF p
<1>. QED
  BY <1>2, <1>6, <1>8 DEF d

\* The job of a child has the job above it for its parent, or one of another
\* round for the same subtree.
LEMMA ParentOfChild ==
  ASSUME NEW job \in NodeJob, job.level # -1, NEW child \in NodeJob,
         Target(child) \in {<<job.level, job.first>>, <<job.level, job.second>>}
  PROVE  /\ child.level < Depth - 1
         /\ Parent(child) \in NodeJob
         /\ Target(Parent(child)) = Target(job)
         /\ Parent(child).round = child.round
         /\ child.round = job.round => Parent(child) = job
<1>. DEFINE d == job.level
            p == 2 ^ d
            f == job.first
            c == child.first
<1>1. /\ d \in Nat /\ d \in -1 .. Depth - 1 /\ f \in Nat /\ f \in Index /\ f % 2 ^ (d + 1) = 0
      /\ job.second = f + p /\ p \in Nat \ {0} /\ job.round \in 0 .. MaxRound
  BY NodeJobFields
<1>2. /\ child.level \in -1 .. Depth - 1 /\ c \in Index /\ c \in Nat
      /\ child.round \in 0 .. MaxRound
  BY NodeJobFields
<1>3. child.level + 1 = d /\ (c = f \/ c = f + p)
  BY <1>1 DEF Target
<1>4. child.level < Depth - 1 /\ d \in -1 .. Depth - 1 /\ d + 1 \in Nat
  BY <1>1, <1>2, <1>3, TreeSize
<1>5. 2 ^ (d + 1) = 2 * p /\ 2 ^ (d + 1) \in Nat \ {0}
  BY <1>1, <1>4, PowerOfTwo
<1>6. f = c - (c % 2 ^ (d + 1))
  <2>. DEFINE q == 2 ^ (d + 1)
  <2>1. q \in Nat \ {0} /\ q = 2 * p /\ f % q = 0
    BY <1>1, <1>5
  <2>. HIDE DEF q, p, f, c
  <2>2. f \in 0 .. c /\ c < f + q
    BY <1>1, <1>2, <1>3, <2>1
  <2>3. f = c - (c % q)
    BY <1>2, <2>1, <2>2, OnlyMultiple
  <2>. QED
    BY <2>3 DEF q
<1>7. Parent(child) = JobAt(c, d, child.round)
  <2>1. d # -1
    BY <1>1
  <2>. QED
    BY <1>3, <2>1 DEF Parent, JobAt
<1>8. /\ Parent(child) \in NodeJob /\ Parent(child).round = child.round
      /\ Parent(child).level = d /\ Parent(child).first = f
      /\ Target(Parent(child)) = <<d + 1, f>>
  BY <1>2, <1>4, <1>6, <1>7, JobAtIs
<1>9. ASSUME child.round = job.round PROVE Parent(child) = job
  <2>1. Parent(child) = JobAt(f, d, job.round)
    BY <1>8, <1>9, NodeJobIsJobAt
  <2>. QED
    BY <2>1, NodeJobIsJobAt
<1>. QED
  BY <1>4, <1>8, <1>9 DEF Target

-----------------------------------------------------------------------------
(* The order of the script's writes *)

\* The script adds this job after that place.
IsAddedAfter(job, at, ops) ==
  \E b \in ops : b.do = "add" /\ b.job = job /\ Precedes(at, b.at)

\* A job is added before the one above it, and validators are saved before
\* any of the jobs above them is added.
OpsInOrder(ops, r) ==
  /\ \A a \in ops : a.do = "add" /\ a.job.first # L /\ a.job.level < Depth - 1 =>
       IsAddedAfter(Parent(a.job), a.at, ops)
  /\ \A s \in ops : s.do = "save" =>
       \A i \in s.indices \ {L}, level \in -1 .. Depth - 1 :
         IsAddedAfter(JobAt(i, level, r), s.at, ops)

\* addZeroTasks is about no validator.
LEMMA ZeroOpsAre ==
  ASSUME NEW r \in 0 .. MaxRound, NEW op \in ZeroOps(r)
  PROVE  (op.do = "add" => op.job.first = L) /\ (op.do = "save" => op.indices = {L})
<1>1. op.do = "add" => op.job.first = L
  BY ZeroOpsRight
<1>2. \/ op = SaveOp(<<0, 0, 0, 0>>, {L})
      \/ op = AddOp(<<0, 1, 0, 0>>, LeafJob(L, r))
      \/ \E l \in 0 .. Depth - 1 : op = AddOp(<<0, 2, l, 0>>, ZeroJob(l, r))
  BY DEF ZeroOps
<1>. QED
  BY <1>1, <1>2 DEF SaveOp, AddOp

\* saveValidatorsInBatches saves what changed, and adds the leaves after it.
LEMMA LeafOpsAre ==
  ASSUME NEW r \in 0 .. MaxRound, NEW changed \in SUBSET Index
  PROVE  /\ \A op \in LeafOps(changed, r) : op.do = "add" =>
              op.at[1] = 1 /\ \E i \in changed : op.job = LeafJob(i, r)
         /\ \A op \in LeafOps(changed, r) : op.do = "save" =>
              /\ op.at[1] = 1 /\ op.indices \subseteq changed
              /\ \A i \in op.indices : IsAddedAfter(LeafJob(i, r), op.at, LeafOps(changed, r))
         /\ \A i \in changed : \E op \in LeafOps(changed, r) : op.do = "save" /\ i \in op.indices
<1>. DEFINE BatchOf(i) == Cardinality({n \in changed : n < i}) \div BatchSize
            S(b) == SaveOp(<<1, b, 0, 0>>, {i \in changed : BatchOf(i) = b})
            A(i) == AddOp(<<1, BatchOf(i), 1, i>>, LeafJob(i, r))
            O == LeafOps(changed, r)
<1>1. O = {S(b) : b \in {BatchOf(i) : i \in changed}} \cup {A(i) : i \in changed}
  BY DEF LeafOps
<1>. HIDE DEF BatchOf
<1>2. ASSUME NEW b
      PROVE  /\ S(b).do = "save" /\ S(b).at = <<1, b, 0, 0>>
             /\ S(b).indices = {i \in changed : BatchOf(i) = b}
  BY DEF SaveOp
<1>3. ASSUME NEW i
      PROVE  A(i).do = "add" /\ A(i).at = <<1, BatchOf(i), 1, i>> /\ A(i).job = LeafJob(i, r)
  BY DEF AddOp
<1>. HIDE DEF S, A, O
<1>4. ASSUME NEW op \in O, op.do = "add"
      PROVE  op.at[1] = 1 /\ \E i \in changed : op.job = LeafJob(i, r)
  <2>1. PICK i \in changed : op = A(i)
    BY <1>1, <1>2, <1>4
  <2>. QED
    BY <1>3, <2>1
<1>5. ASSUME NEW op \in O, op.do = "save"
      PROVE  /\ op.at[1] = 1 /\ op.indices \subseteq changed
             /\ \A i \in op.indices : IsAddedAfter(LeafJob(i, r), op.at, O)
  <2>1. PICK b \in {BatchOf(i) : i \in changed} : op = S(b)
    BY <1>1, <1>3, <1>5
  <2>2. op.at = <<1, b, 0, 0>> /\ op.indices = {i \in changed : BatchOf(i) = b}
    BY <1>2, <2>1
  <2>3. ASSUME NEW i \in op.indices PROVE IsAddedAfter(LeafJob(i, r), op.at, O)
    <3>1. i \in changed /\ BatchOf(i) = b
      BY <2>2
    <3>2. A(i) \in O /\ A(i).do = "add" /\ A(i).at = <<1, b, 1, i>> /\ A(i).job = LeafJob(i, r)
      BY <1>1, <1>3, <3>1
    <3>3. Precedes(op.at, A(i).at)
      <4>. DEFINE x == <<1, b, 0, 0>>
                  y == <<1, b, 1, i>>
      <4>1. 3 \in 1 .. 4 /\ x[3] < y[3] /\ \A m \in 1 .. 3 - 1 : x[m] = y[m]
        OBVIOUS
      <4>. HIDE DEF x, y
      <4>2. Precedes(x, y)
        BY <4>1 DEF Precedes
      <4>. QED
        BY <2>2, <3>2, <4>2 DEF x, y
    <3>. QED
      BY <3>2, <3>3 DEF IsAddedAfter
  <2>. QED
    BY <2>2, <2>3
<1>6. ASSUME NEW i \in changed PROVE \E op \in O : op.do = "save" /\ i \in op.indices
  <2>1. S(BatchOf(i)) \in O
    BY <1>1
  <2>. QED
    BY <1>2, <2>1
<1>. QED
  BY <1>4, <1>5, <1>6 DEF O

\* addInnerLevelProofs adds the jobs above what changed, level by level.
LEMMA InnerOpsAre ==
  ASSUME NEW r \in 0 .. MaxRound, NEW changed \in SUBSET Index
  PROVE  /\ \A op \in InnerOps(changed, r) : op.do = "add" =>
              \E i \in changed, level \in 0 .. Depth - 1 :
                op.job = InnerJob(i, level, r) /\ op.at[1] = 2 /\ op.at[2] = level
         /\ \A i \in changed, level \in 0 .. Depth - 1 :
              \E op \in InnerOps(changed, r) :
                /\ op.do = "add" /\ op.job = InnerJob(i, level, r)
                /\ op.at[1] = 2 /\ op.at[2] = level
         /\ \A op \in InnerOps(changed, r) : op.do # "save"
<1>. DEFINE Nodes == {InnerJob(n[2], n[1], r) : n \in (0 .. Depth - 1) \X changed}
            M(job) == MarkOp(<<2, job.level, job.first, 0>>, job)
            A(job) == AddOp(<<2, job.level, job.first, 1>>, job)
            O == InnerOps(changed, r)
<1>1. O = {M(job) : job \in Nodes} \cup {A(job) : job \in Nodes}
  BY DEF InnerOps
<1>2. ASSUME NEW job \in Nodes
      PROVE  /\ M(job).do = "mark" /\ A(job).do = "add" /\ A(job).job = job
             /\ A(job).at = <<2, job.level, job.first, 1>>
  BY DEF MarkOp, AddOp
<1>3. ASSUME NEW i \in changed, NEW level \in 0 .. Depth - 1
      PROVE  InnerJob(i, level, r) \in Nodes /\ InnerJob(i, level, r).level = level
  <2>1. <<level, i>> \in (0 .. Depth - 1) \X changed
    OBVIOUS
  <2>2. InnerJob(<<level, i>>[2], <<level, i>>[1], r) \in Nodes
    BY <2>1
  <2>. QED
    BY <2>2 DEF InnerJob
<1>4. \A job \in Nodes : \E i \in changed, level \in 0 .. Depth - 1 : job = InnerJob(i, level, r)
  OBVIOUS
<1>. HIDE DEF Nodes, M, A, O
<1>5. ASSUME NEW op \in O, op.do = "add"
      PROVE  \E i \in changed, level \in 0 .. Depth - 1 :
               op.job = InnerJob(i, level, r) /\ op.at[1] = 2 /\ op.at[2] = level
  <2>1. PICK job \in Nodes : op = A(job)
    BY <1>1, <1>2, <1>5
  <2>2. PICK i \in changed, level \in 0 .. Depth - 1 : job = InnerJob(i, level, r)
    BY <1>4
  <2>3. job.level = level
    BY <1>3, <2>2
  <2>4. op.job = job /\ op.at[1] = 2 /\ op.at[2] = job.level
    BY <1>2, <2>1
  <2>. QED
    BY <2>2, <2>3, <2>4
<1>6. ASSUME NEW i \in changed, NEW level \in 0 .. Depth - 1
      PROVE  \E op \in O : /\ op.do = "add" /\ op.job = InnerJob(i, level, r)
                           /\ op.at[1] = 2 /\ op.at[2] = level
  <2>1. PICK job \in Nodes : job = InnerJob(i, level, r) /\ job.level = level
    BY <1>3
  <2>2. A(job) \in O
    BY <1>1
  <2>3. A(job).do = "add" /\ A(job).job = job /\ A(job).at[1] = 2 /\ A(job).at[2] = job.level
    BY <1>2
  <2>. QED
    BY <2>1, <2>2, <2>3
<1>7. \A op \in O : op.do # "save"
  BY <1>1, <1>2
<1>. QED
  BY <1>5, <1>6, <1>7 DEF O

\* The writes of a round: the jobs are those above what changed, everything
\* that changed is saved, and all is in order.
LEMMA RoundOpsAre ==
  ASSUME NEW r \in 0 .. MaxRound, NEW changed \in SUBSET Index, NEW zero \in {ZeroOps(r), {}},
         NEW ops, ops = zero \cup LeafOps(changed, r) \cup InnerOps(changed, r)
  PROVE  /\ \A op \in ops : op.do = "add" /\ op.job.first # L =>
              \E i \in changed, level \in -1 .. Depth - 1 : op.job = JobAt(i, level, r)
         /\ \A i \in changed : \E op \in ops : op.do = "save" /\ i \in op.indices
         /\ OpsInOrder(ops, r)
<1>. DEFINE A == LeafOps(changed, r)
            B == InnerOps(changed, r)
<1>1. \A op \in zero :
        (op.do = "add" => op.job.first = L) /\ (op.do = "save" => op.indices = {L})
  BY ZeroOpsAre
<1>2. /\ \A op \in A : op.do = "add" =>
           op.at[1] = 1 /\ \E i \in changed : op.job = LeafJob(i, r)
      /\ \A op \in A : op.do = "save" =>
           /\ op.at[1] = 1 /\ op.indices \subseteq changed
           /\ \A i \in op.indices : IsAddedAfter(LeafJob(i, r), op.at, A)
      /\ \A i \in changed : \E op \in A : op.do = "save" /\ i \in op.indices
  BY LeafOpsAre
<1>3. /\ \A op \in B : op.do = "add" =>
           \E i \in changed, level \in 0 .. Depth - 1 :
             op.job = InnerJob(i, level, r) /\ op.at[1] = 2 /\ op.at[2] = level
      /\ \A i \in changed, level \in 0 .. Depth - 1 :
           \E op \in B : /\ op.do = "add" /\ op.job = InnerJob(i, level, r)
                         /\ op.at[1] = 2 /\ op.at[2] = level
      /\ \A op \in B : op.do # "save"
  BY InnerOpsAre
<1>. HIDE DEF A, B
<1>4. ops = zero \cup A \cup B
  BY DEF A, B
<1>5. -1 \in -1 .. Depth - 1 /\ \A l \in 0 .. Depth - 1 : l \in -1 .. Depth - 1 /\ l # -1
  BY TreeSize
<1>6. \A l \in -1 .. Depth - 1 : l = -1 \/ l \in 0 .. Depth - 1
  BY TreeSize
<1>7. ASSUME NEW op \in ops, op.do = "add", op.job.first # L
      PROVE  \E i \in changed, level \in -1 .. Depth - 1 : op.job = JobAt(i, level, r)
  <2>1. CASE op \in A
    BY <1>2, <1>5, <1>7, <2>1 DEF JobAt
  <2>2. CASE op \in B
    <3>1. PICK i \in changed, level \in 0 .. Depth - 1 : op.job = InnerJob(i, level, r)
      BY <1>3, <1>7, <2>2
    <3>2. op.job = JobAt(i, level, r) /\ level \in -1 .. Depth - 1
      BY <1>5, <3>1 DEF JobAt
    <3>. QED
      BY <3>2
  <2>. QED
    BY <1>1, <1>4, <1>7, <2>1, <2>2
<1>8. ASSUME NEW a, NEW b, a[1] < b[1] \/ (a[1] = b[1] /\ a[2] < b[2])
      PROVE  Precedes(a, b)
  <2>1. CASE a[1] < b[1]
    <3>1. 1 \in 1 .. 4 /\ \A m \in 1 .. 1 - 1 : a[m] = b[m]
      OBVIOUS
    <3>. QED
      BY <2>1, <3>1 DEF Precedes
  <2>2. CASE a[1] = b[1] /\ a[2] < b[2]
    <3>1. 2 \in 1 .. 4 /\ \A m \in 1 .. 2 - 1 : a[m] = b[m]
      BY <2>2
    <3>. QED
      BY <2>2, <3>1 DEF Precedes
  <2>. QED
    BY <1>8, <2>1, <2>2
<1>9. ASSUME NEW a \in ops, a.do = "add", a.job.first # L, a.job.level < Depth - 1
      PROVE  IsAddedAfter(Parent(a.job), a.at, ops)
  <2>1. CASE a \in A
    <3>1. PICK i \in changed : a.job = LeafJob(i, r)
      BY <1>2, <1>9, <2>1
    <3>2. a.job = JobAt(i, -1, r) /\ i \in Index /\ -1 < Depth - 1
      BY <3>1, TreeSize DEF JobAt
    <3>3. Parent(a.job) = JobAt(i, -1 + 1, r)
      BY <1>5, <3>2, ParentOfJobAt
    <3>4. Parent(a.job) = InnerJob(i, 0, r) /\ 0 \in 0 .. Depth - 1
      BY <3>3, TreeSize DEF JobAt
    <3>5. PICK b \in B : b.do = "add" /\ b.job = InnerJob(i, 0, r) /\ b.at[1] = 2
      BY <1>3, <3>4
    <3>6. Precedes(a.at, b.at)
      BY <1>2, <1>8, <1>9, <2>1, <3>5
    <3>. QED
      BY <1>4, <3>4, <3>5, <3>6 DEF IsAddedAfter
  <2>2. CASE a \in B
    <3>1. PICK i \in changed, level \in 0 .. Depth - 1 :
            a.job = InnerJob(i, level, r) /\ a.at[1] = 2 /\ a.at[2] = level
      BY <1>3, <1>9, <2>2
    <3>2. a.job = JobAt(i, level, r) /\ i \in Index /\ level < Depth - 1 /\ level \in -1 .. Depth - 1
      BY <1>5, <1>9, <3>1 DEF JobAt, InnerJob
    <3>3. Parent(a.job) = JobAt(i, level + 1, r)
      BY <3>2, ParentOfJobAt
    <3>4. Parent(a.job) = InnerJob(i, level + 1, r) /\ level + 1 \in 0 .. Depth - 1 /\ level < level + 1
      BY <3>2, <3>3, TreeSize DEF JobAt
    <3>5. PICK b \in B : /\ b.do = "add" /\ b.job = InnerJob(i, level + 1, r)
                         /\ b.at[1] = 2 /\ b.at[2] = level + 1
      BY <1>3, <3>4
    <3>6. Precedes(a.at, b.at)
      BY <1>8, <3>1, <3>4, <3>5
    <3>. QED
      BY <1>4, <3>4, <3>5, <3>6 DEF IsAddedAfter
  <2>. QED
    BY <1>1, <1>4, <1>9, <2>1, <2>2
<1>10. ASSUME NEW s \in ops, s.do = "save", NEW i \in s.indices \ {L}, NEW level \in -1 .. Depth - 1
       PROVE  IsAddedAfter(JobAt(i, level, r), s.at, ops)
  <2>1. s \in A /\ i \in changed /\ s.at[1] = 1
    BY <1>1, <1>2, <1>3, <1>4, <1>10
  <2>2. CASE level = -1
    <3>1. IsAddedAfter(LeafJob(i, r), s.at, A)
      BY <1>2, <1>10, <2>1
    <3>. QED
      BY <1>4, <2>2, <3>1 DEF IsAddedAfter, JobAt
  <2>3. CASE level # -1
    <3>1. PICK b \in B : b.do = "add" /\ b.job = InnerJob(i, level, r) /\ b.at[1] = 2
      BY <1>3, <1>6, <2>1, <2>3
    <3>2. Precedes(s.at, b.at)
      BY <1>8, <2>1, <3>1
    <3>. QED
      BY <1>4, <2>3, <3>1, <3>2 DEF IsAddedAfter, JobAt
  <2>. QED
    BY <2>2, <2>3
<1>. QED
  BY <1>2, <1>4, <1>7, <1>9, <1>10 DEF OpsInOrder

\* The script makes its next write, and what is left is in order.
LEMMA NextWriteKeepsOrder ==
  ASSUME NEW r \in Nat, NEW ops, OpsRight(ops, r), OpsInOrder(ops, r),
         NEW op \in ops, IsNext(op, ops)
  PROVE  OpsInOrder(ops \ {op}, r)
<1>1. ops \subseteq Op
  BY DEF OpsRight
<1>2. ASSUME NEW a \in ops \ {op}, NEW job, IsAddedAfter(job, a.at, ops)
      PROVE  IsAddedAfter(job, a.at, ops \ {op})
  <2>1. PICK b \in ops : b.do = "add" /\ b.job = job /\ Precedes(a.at, b.at)
    BY <1>2 DEF IsAddedAfter
  <2>2. Precedes(op.at, a.at)
    BY DEF IsNext
  <2>3. op.at \in Place /\ a.at \in Place
    BY <1>1 DEF Op
  <2>4. b # op
    BY <2>1, <2>2, <2>3, OneComesFirst
  <2>. QED
    BY <2>1, <2>4 DEF IsAddedAfter
<1>3. ASSUME NEW a \in ops \ {op}, a.do = "add", a.job.first # L, a.job.level < Depth - 1
      PROVE  IsAddedAfter(Parent(a.job), a.at, ops \ {op})
  <2>1. IsAddedAfter(Parent(a.job), a.at, ops)
    BY <1>3 DEF OpsInOrder
  <2>. QED
    BY <1>2, <2>1
<1>4. ASSUME NEW s \in ops \ {op}, s.do = "save", NEW i \in s.indices \ {L},
             NEW level \in -1 .. Depth - 1
      PROVE  IsAddedAfter(JobAt(i, level, r), s.at, ops \ {op})
  <2>1. IsAddedAfter(JobAt(i, level, r), s.at, ops)
    BY <1>4 DEF OpsInOrder
  <2>. QED
    BY <1>2, <2>1
<1>. QED
  BY <1>3, <1>4 DEF OpsInOrder

-----------------------------------------------------------------------------
(* What holds of validators and jobs besides *)

\* The beacon chain appends validators; every validator that Redis does not
\* have as it is there is in a batch still to be saved.
RegistryRight ==
  /\ \A i \in Index : beacon[i] # 0 => \A k \in 0 .. i : beacon[k] # 0
  /\ \A i \in Index : validators[i] \in Nat
  /\ scriptLost \/ \A i \in Index :
       validators[i] = beacon[i] \/ \E op \in todo : op.do = "save" /\ i \in op.indices
  /\ todo # {} \/ validators[L] # 0 => beacon[0] # 0

\* The first leaf of a job is a validator's.
HasValidator(job, version) == job.first # L => version[job.first] # 0

IsActive(wk) == wk.pc \notin {"idle", "complete"}

JobsHaveValidators ==
  /\ \A job \in Pending(todo) \cup queue.data : HasValidator(job, beacon)
  /\ \A w \in Worker : IsActive(worker[w]) => HasValidator(worker[w].job, beacon)

\* What a worker has fetched for a job of zeros is zeros.
ZerosFetched(wk) ==
  wk.job.first = L =>
    /\ wk.pc = "second" => wk.left = Zero(wk.job.level)
    /\ wk.pc = "save" /\ wk.job.level = -1 => wk.left = Zero(0)
    /\ wk.pc = "save" /\ wk.job.level # -1 =>
         wk.left = Zero(wk.job.level) /\ wk.right = Zero(wk.job.level)

ZeroProofsRight ==
  /\ \A d \in 0 .. Depth : proofs[<<d, L>>] \in {<<>>, Zero(d)}
  /\ \A w \in Worker : worker[w].pc # "idle" => ZerosFetched(worker[w])

WorkIsRight ==
  /\ RegistryRight
  /\ JobsHaveValidators
  /\ ZeroProofsRight
  /\ IsKept(queue)
  /\ OpsInOrder(todo, round)

\* At the start there is nothing to do.
LEMMA InitWorkIsRight == Init => WorkIsRight
<1>. SUFFICES ASSUME Init PROVE WorkIsRight
  OBVIOUS
<1>1. /\ todo = {} /\ queue = EmptyQueue /\ worker = [w \in Worker |-> Idle]
      /\ L \in Nat \ {0} /\ Depth \in Nat
  BY TreeSize DEF Init
<1>2. RegistryRight
  <2>1. CASE budget.initial = 0 /\ beacon = [i \in Index |-> 0] /\ validators = [i \in 0 .. L |-> 0]
    <3>1. \A i \in Index : i \in 0 .. L /\ beacon[i] = 0 /\ validators[i] = 0
      BY <1>1, <2>1 DEF Index
    <3>2. validators[L] = 0
      BY <1>1, <2>1
    <3>. QED
      BY <1>1, <3>1, <3>2 DEF RegistryRight
  <2>2. CASE /\ budget.initial > 0
             /\ beacon = [i \in Index |-> IF i < budget.initial THEN 1 ELSE 0]
             /\ validators = [i \in 0 .. L |-> IF i = L THEN ZeroValidator ELSE beacon[i]]
    <3>1. budget.initial \in 0 .. L
      BY MapperAssumption DEF Init, L
    <3>2. \A i \in Index : i \in 0 .. L /\ i # L /\ 0 .. i \subseteq Index
      BY <1>1 DEF Index
    <3>3. \A i \in Index : validators[i] = beacon[i] /\ beacon[i] \in Nat
      BY <2>2, <3>2
    <3>4. 0 \in Index /\ beacon[0] # 0
      BY <1>1, <2>2, <3>1 DEF Index
    <3>5. \A i \in Index : beacon[i] # 0 => \A k \in 0 .. i : beacon[k] # 0
      BY <1>1, <2>2, <3>1 DEF Index
    <3>. QED
      BY <3>3, <3>4, <3>5 DEF RegistryRight
  <2>. QED
    BY <2>1, <2>2 DEF Init
<1>3. JobsHaveValidators
  BY <1>1 DEF JobsHaveValidators, Pending, EmptyQueue, IsActive, Idle
<1>4. ZeroProofsRight
  <2>1. ASSUME NEW d \in 0 .. Depth PROVE proofs[<<d, L>>] \in {<<>>, Zero(d)}
    <3>1. <<d, L>> \in Key
      BY <1>1, <2>1 DEF Key
    <3>2. SettledProofs(beacon)[<<d, L>>] = Zero(d)
      BY <3>1 DEF SettledProofs, Zero
    <3>. QED
      BY <3>1, <3>2 DEF Init
  <2>. QED
    BY <1>1, <2>1 DEF ZeroProofsRight, Idle
<1>5. IsKept(queue) /\ OpsInOrder(todo, round)
  BY <1>1, EmptyQueueIsKept DEF OpsInOrder
<1>. QED
  BY <1>2, <1>3, <1>4, <1>5 DEF WorkIsRight

\* A new round: the beacon chain appends and changes validators, and every
\* change is to be saved.
LEMMA NewRoundWork ==
  ASSUME IInv, IInv', AllInPlace, WorkIsRight, NewRound
  PROVE  WorkIsRight'
<1>. DEFINE r == round + 1
            changed == {i \in Index : beacon'[i] # validators[i]}
            zero == IF validators[L] = 0 THEN ZeroOps(round + 1) ELSE {}
<1>1. /\ todo = {} /\ round' = r
      /\ todo' = zero \cup LeafOps(changed, r) \cup InnerOps(changed, r)
      /\ UNCHANGED <<validators, proofs, marked, queue, worker, scriptLost, disorder>>
  BY DEF NewRound, redis
<1>2. r \in 0 .. MaxRound /\ round \in Nat
  <2>1. budget' \in [initial : 0 .. L, count : 1 .. L, rounds : Nat, faults : Nat, crashes : Nat]
    BY DEF IInv, Values
  <2>2. round' + budget'.rounds <= MaxRound /\ round \in Nat /\ MaxRound \in Nat
    BY MapperAssumption DEF IInv, Values
  <2>3. budget'.rounds \in Nat
    BY <2>1
  <2>. QED
    BY <1>1, <2>2, <2>3
<1>3. budget.count \in 1 .. L
  BY DEF IInv, Values
<1>4. PICK touched \in SUBSET (0 .. budget.count - 1) :
        beacon' = [i \in Index |->
          IF i \in touched \/ (i < budget.count /\ beacon[i] = 0) THEN round + 1 ELSE beacon[i]]
  BY DEF NewRound
<1>5. \A i \in Index : beacon'[i] # 0 <=> (beacon[i] # 0 \/ i < budget.count)
  <2>1. ASSUME NEW i \in Index PROVE beacon'[i] # 0 <=> (beacon[i] # 0 \/ i < budget.count)
    <3>1. i \in touched => i < budget.count
      BY <1>3, <1>4 DEF Index
    <3>. QED
      BY <1>2, <1>4, <3>1
  <2>. QED
    BY <2>1
<1>6. L \in Nat \ {0} /\ 0 \in Index /\ \A i \in Index : i \in Nat /\ 0 .. i \subseteq Index
  BY TreeSize DEF Index
<1>7. \A i \in Index : beacon'[i] # 0 => \A k \in 0 .. i : beacon'[k] # 0
  <2>1. ASSUME NEW i \in Index, beacon'[i] # 0, NEW k \in 0 .. i PROVE beacon'[k] # 0
    <3>1. k \in Index /\ k <= i
      BY <1>6
    <3>2. CASE i < budget.count
      <4>1. k < budget.count
        BY <1>3, <1>6, <3>1, <3>2
      <4>. QED
        BY <1>5, <3>1, <4>1
    <3>3. CASE beacon[i] # 0
      <4>1. beacon[k] # 0
        BY <3>3 DEF WorkIsRight, RegistryRight
      <4>. QED
        BY <1>5, <3>1, <4>1
    <3>. QED
      BY <1>5, <2>1, <3>2, <3>3
  <2>. QED
    BY <2>1
<1>8. \A i \in changed : beacon'[i] # 0
  <2>1. ASSUME NEW i \in changed, beacon'[i] = 0 PROVE FALSE
    <3>1. i \in Index /\ beacon[i] = 0 /\ validators[i] # 0
      BY <1>5, <2>1
    <3>2. validators[i] \in Nat /\ i \in 0 .. L
      BY <1>6, <3>1 DEF WorkIsRight, RegistryRight, Index
    <3>3. validators[i] \notin Nothing
      BY <3>1, <3>2 DEF Nothing, ZeroChunk, ZeroValidator
    <3>4. validators[i] <= beacon[i]
      BY <3>2, <3>3 DEF AllInPlace, ValidatorsInPlace
    <3>. QED
      BY <3>1, <3>2, <3>4
  <2>. QED
    BY <2>1
<1>9. changed \in SUBSET Index /\ zero \in {ZeroOps(r), {}}
  OBVIOUS
<1>. HIDE DEF changed, zero, r
<1>10. /\ \A op \in todo' : op.do = "add" /\ op.job.first # L =>
            \E i \in changed, level \in -1 .. Depth - 1 : op.job = JobAt(i, level, r)
       /\ \A i \in changed : \E op \in todo' : op.do = "save" /\ i \in op.indices
       /\ OpsInOrder(todo', r)
  BY <1>1, <1>2, <1>9, RoundOpsAre
<1>11. RegistryRight'
  <2>1. \A i \in Index : validators'[i] \in Nat
    BY <1>1 DEF WorkIsRight, RegistryRight
  <2>2. \A i \in Index :
          validators'[i] = beacon'[i] \/ \E op \in todo' : op.do = "save" /\ i \in op.indices
    BY <1>1, <1>10 DEF changed
  <2>3. beacon'[0] # 0
    BY <1>3, <1>5, <1>6
  <2>. QED
    BY <1>7, <2>1, <2>2, <2>3 DEF RegistryRight
<1>12. ASSUME NEW job \in Job, HasValidator(job, beacon) PROVE HasValidator(job, beacon')
  <2>1. ASSUME job.first # L PROVE beacon'[job.first] # 0
    <3>1. job.first \in Index
      BY <1>6, <2>1 DEF Job, Index
    <3>. QED
      BY <1>5, <1>12, <2>1, <3>1 DEF HasValidator
  <2>. QED
    BY <2>1 DEF HasValidator
<1>13. JobsHaveValidators'
  <2>1. ASSUME NEW job \in Pending(todo') PROVE HasValidator(job, beacon')
    <3>. SUFFICES ASSUME job.first # L PROVE beacon'[job.first] # 0
      BY DEF HasValidator
    <3>1. PICK op \in todo' : op.do = "add" /\ op.job = job
      BY DEF Pending
    <3>2. PICK i \in changed, level \in -1 .. Depth - 1 : job = JobAt(i, level, r)
      BY <1>10, <3>1
    <3>3. i \in Index
      BY <1>9
    <3>4. job.first = i - (i % 2 ^ (level + 1))
      BY <1>2, <3>2, <3>3, JobAtIs
    <3>5. job.first \in 0 .. i
      <4>1. level + 1 \in Nat
        BY TreeSize
      <4>2. 2 ^ (level + 1) \in Nat \ {0}
        BY <4>1, PowerOfTwo
      <4>3. i \in Nat
        BY <1>6, <3>3
      <4>. QED
        BY <3>4, <4>2, <4>3, RoundedIsMultiple
    <3>. QED
      BY <1>7, <1>8, <3>3, <3>5
  <2>2. ASSUME NEW job \in queue.data PROVE HasValidator(job, beacon')
    <3>1. job \in Job
      BY DEF IInv, JobsRight, WorkQueues, KnownJob, ShapedJob
    <3>. QED
      BY <1>12, <3>1 DEF WorkIsRight, JobsHaveValidators
  <2>3. ASSUME NEW w \in Worker, IsActive(worker[w]) PROVE HasValidator(worker[w].job, beacon')
    <3>1. worker[w].job \in Job
      BY <2>3 DEF IInv, JobsRight, WorkerRight, IsActive, KnownJob, ShapedJob
    <3>2. HasValidator(worker[w].job, beacon)
      BY <2>3 DEF WorkIsRight, JobsHaveValidators
    <3>. QED
      BY <1>12, <3>1, <3>2
  <2>. QED
    BY <1>1, <2>1, <2>2, <2>3 DEF JobsHaveValidators
<1>14. ZeroProofsRight' /\ IsKept(queue')
  BY <1>1 DEF WorkIsRight, ZeroProofsRight
<1>. QED
  BY <1>1, <1>10, <1>11, <1>13, <1>14 DEF WorkIsRight

\* The script makes its next write.
LEMMA ScriptStepWork ==
  ASSUME IInv, IInv', WorkIsRight, ScriptStep
  PROVE  WorkIsRight'
<1>1. PICK op \in todo :
        /\ IsNext(op, todo)
        /\ todo' = todo \ {op}
        /\ SaveValidators(op) \/ MarkProof(op) \/ AddJob(op)
  BY DEF ScriptStep
<1>2. UNCHANGED <<beacon, round, worker, budget, scriptLost, disorder>>
  BY DEF ScriptStep
<1>3. /\ round \in Nat /\ OpsRight(todo, round) /\ queue \in WorkQueues(KnownJob(todo, round))
      /\ validators \in [0 .. L -> Leaf] /\ beacon \in [Index -> 0 .. round]
      /\ proofs \in [Key -> Seq(Leaf)]
  BY DEF IInv, Values, JobsRight
<1>4. OpsInOrder(todo', round')
  BY <1>1, <1>2, <1>3, NextWriteKeepsOrder DEF WorkIsRight
<1>5. RegistryRight'
  <2>1. \A i \in Index : i \in 0 .. L /\ i # L
    BY TreeSize DEF Index
  <2>2. \A i \in Index : beacon[i] \in Nat /\ validators[i] \in Nat
    BY <1>3 DEF WorkIsRight, RegistryRight
  <2>3. ASSUME NEW i \in Index
        PROVE  /\ validators'[i] \in {validators[i], beacon[i]}
               /\ op.do = "save" /\ i \in op.indices => validators'[i] = beacon[i]
    BY <1>1, <1>3, <2>1 DEF SaveValidators, MarkProof, AddJob
  <2>4. ASSUME NEW i \in Index, ~scriptLost
        PROVE  validators'[i] = beacon[i] \/ \E o \in todo' : o.do = "save" /\ i \in o.indices
    <3>1. CASE validators[i] = beacon[i]
      BY <2>3, <3>1
    <3>2. CASE \E o \in todo : o.do = "save" /\ i \in o.indices
      BY <1>1, <2>3, <3>2
    <3>. QED
      BY <2>4, <3>1, <3>2 DEF WorkIsRight, RegistryRight
  <2>5. beacon[0] # 0
    BY DEF WorkIsRight, RegistryRight
  <2>6. \A i \in Index : validators'[i] \in Nat
    BY <2>2, <2>3
  <2>7. \A i \in Index : beacon[i] # 0 => \A k \in 0 .. i : beacon[k] # 0
    BY DEF WorkIsRight, RegistryRight
  <2>. QED
    BY <1>2, <2>4, <2>5, <2>6, <2>7 DEF RegistryRight
<1>6. JobsHaveValidators'
  <2>1. Pending(todo') \subseteq Pending(todo)
    BY <1>1 DEF Pending
  <2>2. queue'.data \subseteq queue.data \cup Pending(todo)
    <3>1. CASE AddJob(op)
      <4>1. queue'.data = queue.data \cup {op.job}
        BY <1>3, <3>1 DEF AddJob, AddItem, WorkQueues
      <4>2. op.job \in Pending(todo)
        BY <1>1, <3>1 DEF AddJob, Pending
      <4>. QED
        BY <4>1, <4>2
    <3>. QED
      BY <1>1, <3>1 DEF SaveValidators, MarkProof
  <2>. QED
    BY <1>2, <2>1, <2>2 DEF WorkIsRight, JobsHaveValidators
<1>7. ZeroProofsRight'
  <2>1. \A key \in Key : proofs'[key] = proofs[key] \/ proofs'[key] = <<>>
    BY <1>1, <1>3 DEF SaveValidators, MarkProof, AddJob
  <2>2. \A d \in 0 .. Depth : <<d, L>> \in Key
    BY TreeSize DEF Key
  <2>3. \A d \in 0 .. Depth : proofs'[<<d, L>>] \in {<<>>, Zero(d)}
    BY <2>1, <2>2 DEF WorkIsRight, ZeroProofsRight
  <2>. QED
    BY <1>2, <2>3 DEF WorkIsRight, ZeroProofsRight
<1>8. IsKept(queue')
  <2>1. IsKept(queue)
    BY DEF WorkIsRight
  <2>2. CASE AddJob(op)
    <3>1. op.job \in Job /\ queue \in WorkQueues(Job)
      BY <1>3, <2>2, QueueOverMore DEF AddJob, OpsRight, ShapedJob, KnownJob
    <3>. QED
      BY <2>1, <2>2, <3>1, AddItemIsKept DEF AddJob
  <2>. QED
    BY <1>1, <2>1, <2>2 DEF SaveValidators, MarkProof
<1>. QED
  BY <1>4, <1>5, <1>6, <1>7, <1>8 DEF WorkIsRight

\* The script crashes, and what it had to do is forgotten.
LEMMA ScriptCrashWork ==
  ASSUME WorkIsRight, ScriptCrash
  PROVE  WorkIsRight'
<1>1. /\ todo' = {} /\ scriptLost' = TRUE
      /\ UNCHANGED <<beacon, validators, proofs, marked, queue, round, worker, disorder>>
  BY DEF ScriptCrash, redis
<1>2. RegistryRight'
  BY <1>1 DEF WorkIsRight, RegistryRight
<1>3. JobsHaveValidators'
  BY <1>1 DEF WorkIsRight, JobsHaveValidators, Pending
<1>4. ZeroProofsRight'
  BY <1>1 DEF WorkIsRight, ZeroProofsRight
<1>. QED
  BY <1>1, <1>2, <1>3, <1>4 DEF WorkIsRight, OpsInOrder

\* What a worker changes: its own state, and at most the one proof and the one
\* job it is at.
LEMMA WorkerTouches ==
  ASSUME IInv, NEW w \in Worker, WorkerStep(w) \/ Drop(w)
  PROVE  /\ UNCHANGED <<beacon, validators, todo, round, scriptLost>>
         /\ disorder => disorder'
         /\ \A v \in Worker \ {w} : worker'[v] = worker[v]
         /\ queue'.data = queue.data \/ WorkerComplete(w)
         /\ queue'.data \subseteq queue.data
         /\ IsKept(queue) => IsKept(queue')
         /\ UNCHANGED <<proofs, marked>> \/ Save(w)
         /\ \/ WorkerLease(w) \/ FetchValidator(w) \/ FetchFirst(w) \/ FetchSecond(w) \/ Save(w)
            \/ worker'[w] = Idle /\ (WorkerComplete(w) \/ queue' = queue)
<1>1. queue \in WorkQueues(KnownJob(todo, round)) /\ worker \in [Worker -> WorkerState]
  BY DEF IInv, JobsRight
<1>. DEFINE K == KnownJob(todo, round)
<1>. HIDE DEF K
<1>2. queue \in WorkQueues(K)
  BY <1>1 DEF K
<1>3. CASE WorkerLease(w)
  <2>1. queue'.data = queue.data /\ (IsKept(queue) => IsKept(queue'))
    BY <1>2, <1>3, LeaseKeeps, LeaseIsKept DEF WorkerLease
  <2>2. disorder => disorder'
    BY <1>3 DEF WorkerLease
  <2>3. \A v \in Worker \ {w} : worker'[v] = worker[v]
    BY <1>1, <1>3 DEF WorkerLease
  <2>4. UNCHANGED <<beacon, validators, todo, round, scriptLost, proofs, marked>>
    BY <1>3 DEF WorkerLease
  <2>. QED
    BY <1>3, <2>1, <2>2, <2>3, <2>4
<1>4. CASE FetchValidator(w)
  BY <1>1, <1>4 DEF FetchValidator, redis
<1>5. CASE FetchFirst(w)
  <2>1. disorder => disorder'
    BY <1>5 DEF FetchFirst
  <2>2. UNCHANGED <<beacon, validators, todo, round, scriptLost, proofs, marked, queue>>
    BY <1>5 DEF FetchFirst, redis
  <2>3. \A v \in Worker \ {w} : worker'[v] = worker[v]
    BY <1>1, <1>5 DEF FetchFirst
  <2>. QED
    BY <1>5, <2>1, <2>2, <2>3
<1>6. CASE FetchSecond(w)
  <2>1. disorder => disorder'
    BY <1>6 DEF FetchSecond
  <2>2. UNCHANGED <<beacon, validators, todo, round, scriptLost, proofs, marked, queue>>
    BY <1>6 DEF FetchSecond, redis
  <2>3. \A v \in Worker \ {w} : worker'[v] = worker[v]
    BY <1>1, <1>6 DEF FetchSecond
  <2>. QED
    BY <1>6, <2>1, <2>2, <2>3
<1>7. CASE Save(w)
  <2>1. UNCHANGED <<beacon, validators, todo, round, scriptLost, disorder, queue>>
    BY <1>7 DEF Save
  <2>2. \A v \in Worker \ {w} : worker'[v] = worker[v]
    BY <1>1, <1>7 DEF Save
  <2>. QED
    BY <1>7, <2>1, <2>2
<1>8. CASE WorkerComplete(w)
  <2>1. queue'.data = queue.data \ {worker[w].job} /\ (IsKept(queue) => IsKept(queue'))
    BY <1>2, <1>8, CompleteKeeps, CompleteIsKept DEF WorkerComplete
  <2>2. worker'[w] = Idle /\ \A v \in Worker \ {w} : worker'[v] = worker[v]
    BY <1>1, <1>8 DEF WorkerComplete
  <2>3. UNCHANGED <<beacon, validators, todo, round, scriptLost, disorder, proofs, marked>>
    BY <1>8 DEF WorkerComplete
  <2>. QED
    BY <1>8, <2>1, <2>2, <2>3
<1>9. CASE GiveUp(w) \/ Drop(w)
  <2>1. worker'[w] = Idle /\ \A v \in Worker \ {w} : worker'[v] = worker[v]
    BY <1>1, <1>9 DEF GiveUp, Drop
  <2>2. UNCHANGED <<beacon, validators, todo, round, scriptLost, disorder, proofs, marked, queue>>
    BY <1>9 DEF GiveUp, Drop, redis
  <2>. QED
    BY <2>1, <2>2
<1>. QED
  BY <1>3, <1>4, <1>5, <1>6, <1>7, <1>8, <1>9 DEF WorkerStep

\* A worker's new state.
LEMMA WorkerBecomes ==
  ASSUME IInv, NEW w \in Worker
  PROVE  /\ WorkerLease(w) =>
              /\ worker[w].pc = "idle" /\ worker'[w].job = Head(queue.main)
              /\ Head(queue.main) \in KnownJob(todo, round)
              /\ Head(queue.main) \notin queue.data <=> worker'[w].pc = "complete"
              /\ worker'[w].pc \in {"complete", "validator", "first"}
              /\ disorder' = (disorder \/ IsShared(Head(queue.main), w))
         /\ FetchValidator(w) =>
              /\ worker[w].pc = "validator"
              /\ worker'[w] = [worker[w] EXCEPT !.left = <<validators[worker[w].job.first]>>,
                                                !.pc = "save"]
              /\ worker'[w].job = worker[w].job /\ worker'[w].pc = "save"
              /\ worker'[w].left = <<validators[worker[w].job.first]>>
         /\ FetchFirst(w) =>
              /\ worker[w].pc = "first"
              /\ worker'[w].job = worker[w].job /\ worker'[w].pc = "second"
              /\ worker'[w].left = proofs[Found(worker[w].job.level, worker[w].job.first)]
         /\ FetchSecond(w) =>
              /\ worker[w].pc = "second"
              /\ worker'[w].job = worker[w].job /\ worker'[w].pc = "save"
              /\ worker'[w].left = worker[w].left
              /\ worker'[w].right = proofs[Found(worker[w].job.level, worker[w].job.second)]
         /\ Save(w) =>
              /\ worker[w].pc = "save"
              /\ worker'[w].job = worker[w].job /\ worker'[w].pc = "complete"
              /\ proofs' = [proofs EXCEPT ![Target(worker[w].job)] =
                   IF worker[w].job.level = -1 THEN worker[w].left
                   ELSE Node(worker[w].job, worker[w].left, worker[w].right)]
              /\ marked' = marked \ {Target(worker[w].job)}
<1>1. /\ queue \in WorkQueues(KnownJob(todo, round)) /\ worker \in [Worker -> WorkerState]
      /\ worker[w] \in WorkerState
  BY DEF IInv, JobsRight
<1>2. ASSUME WorkerLease(w)
      PROVE  /\ worker[w].pc = "idle" /\ worker'[w].job = Head(queue.main)
             /\ Head(queue.main) \in KnownJob(todo, round)
             /\ Head(queue.main) \notin queue.data <=> worker'[w].pc = "complete"
             /\ worker'[w].pc \in {"complete", "validator", "first"}
             /\ disorder' = (disorder \/ IsShared(Head(queue.main), w))
  <2>. DEFINE job == Head(queue.main)
              pc == IF job \notin queue.data THEN "complete"
                      ELSE IF job.level = -1 THEN "validator" ELSE "first"
  <2>1. job \in KnownJob(todo, round)
    BY <1>1, <1>2, LeaseKeeps DEF WorkerLease
  <2>2. /\ worker[w].pc = "idle"
        /\ worker' = [worker EXCEPT ![w] = [Idle EXCEPT !.job = job, !.pc = pc]]
        /\ disorder' = (disorder \/ IsShared(job, w))
    BY <1>2 DEF WorkerLease
  <2>3. pc \in {"complete", "validator", "first"} /\ (job \notin queue.data <=> pc = "complete")
    <3>. HIDE DEF job
    <3>1. pc \in {"complete", "validator", "first"}
      OBVIOUS
    <3>2. job \notin queue.data => pc = "complete"
      OBVIOUS
    <3>3. job \in queue.data => pc # "complete"
      OBVIOUS
    <3>. QED
      BY <3>1, <3>2, <3>3
  <2>. HIDE DEF pc, job
  <2>4. worker'[w].job = job /\ worker'[w].pc = pc
    BY <1>1, <2>2 DEF Idle
  <2>. QED
    BY <2>1, <2>2, <2>3, <2>4 DEF job
<1>3. ASSUME FetchValidator(w)
      PROVE  /\ worker[w].pc = "validator"
             /\ worker'[w] = [worker[w] EXCEPT !.left = <<validators[worker[w].job.first]>>,
                                               !.pc = "save"]
             /\ worker'[w].job = worker[w].job /\ worker'[w].pc = "save"
             /\ worker'[w].left = <<validators[worker[w].job.first]>>
  BY <1>1, <1>3 DEF FetchValidator, WorkerState
<1>4. ASSUME FetchFirst(w)
      PROVE  /\ worker[w].pc = "first"
             /\ worker'[w].job = worker[w].job /\ worker'[w].pc = "second"
             /\ worker'[w].left = proofs[Found(worker[w].job.level, worker[w].job.first)]
  <2>. DEFINE p == proofs[Found(worker[w].job.level, worker[w].job.first)]
  <2>1. worker[w].pc = "first" /\ worker' = [worker EXCEPT ![w].left = p, ![w].pc = "second"]
    BY <1>4 DEF FetchFirst
  <2>. HIDE DEF p
  <2>2. worker'[w].job = worker[w].job /\ worker'[w].pc = "second" /\ worker'[w].left = p
    BY <1>1, <2>1 DEF WorkerState
  <2>. QED
    BY <2>1, <2>2 DEF p
<1>5. ASSUME FetchSecond(w)
      PROVE  /\ worker[w].pc = "second"
             /\ worker'[w].job = worker[w].job /\ worker'[w].pc = "save"
             /\ worker'[w].left = worker[w].left
             /\ worker'[w].right = proofs[Found(worker[w].job.level, worker[w].job.second)]
  <2>. DEFINE p == proofs[Found(worker[w].job.level, worker[w].job.second)]
  <2>1. worker[w].pc = "second" /\ worker' = [worker EXCEPT ![w].right = p, ![w].pc = "save"]
    BY <1>5 DEF FetchSecond
  <2>. HIDE DEF p
  <2>2. /\ worker'[w].job = worker[w].job /\ worker'[w].pc = "save"
        /\ worker'[w].left = worker[w].left /\ worker'[w].right = p
    BY <1>1, <2>1 DEF WorkerState
  <2>. QED
    BY <2>1, <2>2 DEF p
<1>6. ASSUME Save(w)
      PROVE  /\ worker[w].pc = "save"
             /\ worker'[w].job = worker[w].job /\ worker'[w].pc = "complete"
             /\ proofs' = [proofs EXCEPT ![Target(worker[w].job)] =
                  IF worker[w].job.level = -1 THEN worker[w].left
                  ELSE Node(worker[w].job, worker[w].left, worker[w].right)]
             /\ marked' = marked \ {Target(worker[w].job)}
  <2>1. worker[w].pc = "save" /\ worker' = [worker EXCEPT ![w].pc = "complete"]
    BY <1>6 DEF Save
  <2>2. worker'[w].job = worker[w].job /\ worker'[w].pc = "complete"
    BY <1>1, <2>1 DEF WorkerState
  <2>. QED
    BY <1>6, <2>1, <2>2 DEF Save
<1>. QED
  BY <1>2, <1>3, <1>4, <1>5, <1>6

\* A job about validators that do not exist has no other children.
LEMMA ZeroJobsChildren ==
  ASSUME NEW job \in ShapedJob, job.first = L, job.level # -1
  PROVE  job.level \in Nat /\ job.level \in 0 .. Depth /\ job.second = L
<1>1. job.level \in -1 .. Depth - 1 /\ job.first \in Nat /\ job.second \in Nat /\ L \in Nat
      /\ Depth \in Nat
  BY TreeSize DEF ShapedJob, Job
<1>2. job.level \in Nat
  BY <1>1
<1>3. 2 ^ job.level \in Nat \ {0}
  BY <1>2, PowerOfTwo
<1>4. job.second = L
  <2>. DEFINE p == 2 ^ job.level
  <2>1. \/ job.second = L
        \/ job.second = job.first + p /\ job.second + p <= L
    BY DEF ShapedJob, IsShaped
  <2>2. p \in Nat \ {0}
    BY <1>3
  <2>. HIDE DEF p
  <2>. QED
    BY <1>1, <2>1, <2>2
<1>. QED
  BY <1>1, <1>2, <1>4

\* A worker's step: what it fetches for a job of zeros is zeros, and so is
\* what it proves.
LEMMA WorkerStepWork ==
  ASSUME IInv, AllInPlace, WorkIsRight, NEW w \in Worker, WorkerStep(w) \/ Drop(w)
  PROVE  WorkIsRight'
<1>1. /\ UNCHANGED <<beacon, validators, todo, round, scriptLost>>
      /\ \A v \in Worker \ {w} : worker'[v] = worker[v]
      /\ queue'.data \subseteq queue.data
      /\ IsKept(queue) => IsKept(queue')
      /\ UNCHANGED <<proofs, marked>> \/ Save(w)
      /\ \/ WorkerLease(w) \/ FetchValidator(w) \/ FetchFirst(w) \/ FetchSecond(w) \/ Save(w)
         \/ worker'[w] = Idle
  BY WorkerTouches
<1>2. /\ RegistryRight /\ JobsHaveValidators /\ ZeroProofsRight /\ IsKept(queue)
      /\ OpsInOrder(todo, round)
  BY DEF WorkIsRight
<1>. DEFINE wk == worker[w]
            new == worker'[w]
<1>3. RegistryRight' /\ OpsInOrder(todo', round') /\ IsKept(queue')
  BY <1>1, <1>2 DEF RegistryRight
<1>4. JobsHaveValidators'
  <2>1. IsActive(new) => HasValidator(new.job, beacon)
    <3>1. CASE WorkerLease(w)
      <4>1. IsActive(new) => new.job \in queue.data
        BY <3>1, WorkerBecomes DEF IsActive
      <4>. QED
        BY <1>2, <4>1 DEF JobsHaveValidators
    <3>2. CASE FetchValidator(w) \/ FetchFirst(w) \/ FetchSecond(w)
      <4>1. new.job = wk.job /\ IsActive(wk)
        BY <3>2, WorkerBecomes DEF IsActive
      <4>. QED
        BY <1>2, <4>1 DEF JobsHaveValidators
    <3>3. CASE Save(w)
      BY <3>3, WorkerBecomes DEF IsActive
    <3>4. CASE worker'[w] = Idle
      BY <3>4 DEF IsActive, Idle
    <3>. QED
      BY <1>1, <3>1, <3>2, <3>3, <3>4
  <2>2. \A v \in Worker : IsActive(worker'[v]) => HasValidator(worker'[v].job, beacon)
    BY <1>1, <1>2, <2>1 DEF JobsHaveValidators
  <2>. QED
    BY <1>1, <1>2, <2>2 DEF JobsHaveValidators
<1>5. wk.pc # "idle" => /\ wk.job \in ShapedJob /\ ZerosFetched(wk)
                        /\ wk.pc = "validator" => wk.job.level = -1
                        /\ wk.pc \in {"first", "second"} => wk.job.level # -1
  BY <1>2 DEF IInv, JobsRight, WorkerRight, KnownJob, ZeroProofsRight
<1>6. /\ proofs \in [Key -> Seq(Leaf)] /\ validators \in [0 .. L -> Leaf]
      /\ \A d \in 0 .. Depth : proofs[<<d, L>>] \in {<<>>, Zero(d)}
  BY <1>2 DEF IInv, Values, ZeroProofsRight
<1>. HIDE DEF wk, new
<1>7. CASE UNCHANGED proofs /\ ~Save(w)
  <2>1. ASSUME new.pc # "idle", new.job.first = L PROVE ZerosFetched(new)
    <3>1. CASE WorkerLease(w)
      BY <3>1, WorkerBecomes DEF new, ZerosFetched
    <3>2. CASE FetchValidator(w)
      <4>1. /\ wk.pc = "validator" /\ new.job = wk.job /\ new.pc = "save"
            /\ new.left = <<validators[L]>> /\ new.job.level = -1
        BY <1>5, <2>1, <3>2, WorkerBecomes DEF new, wk
      <4>2. validators[L] # 0
        BY <2>1, <3>2, <4>1 DEF FetchValidator, new, wk
      <4>3. validators[L] = ZeroValidator
        <5>1. L \in 0 .. L
          BY TreeSize
        <5>2. validators[L] \in Nothing
          BY <5>1 DEF AllInPlace, ValidatorsInPlace
        <5>. QED
          BY <4>2, <5>2 DEF Nothing, ZeroChunk
      <4>4. Zero(0) = <<ZeroValidator>>
        BY PowerOfTwo DEF Zero
      <4>. QED
        BY <4>1, <4>3, <4>4 DEF ZerosFetched
    <3>3. CASE FetchFirst(w)
      <4>1. /\ wk.pc = "first" /\ new.job = wk.job /\ new.pc = "second"
            /\ new.left = proofs[Found(wk.job.level, wk.job.first)]
            /\ new.left # <<>>
        BY <3>3, WorkerBecomes DEF new, wk, FetchFirst
      <4>2. wk.job.level \in 0 .. Depth
        BY <1>5, <2>1, <4>1, ZeroJobsChildren
      <4>3. new.left = proofs[<<wk.job.level, L>>]
        BY <2>1, <4>1 DEF Found
      <4>. QED
        BY <1>6, <4>1, <4>2, <4>3 DEF ZerosFetched
    <3>4. CASE FetchSecond(w)
      <4>1. /\ wk.pc = "second" /\ new.job = wk.job /\ new.pc = "save" /\ new.left = wk.left
            /\ new.right = proofs[Found(wk.job.level, wk.job.second)]
            /\ new.right # <<>>
        BY <3>4, WorkerBecomes DEF new, wk, FetchSecond
      <4>2. wk.job.level \in 0 .. Depth /\ wk.job.second = L
        BY <1>5, <2>1, <4>1, ZeroJobsChildren
      <4>3. new.right = proofs[<<wk.job.level, L>>]
        BY <4>1, <4>2 DEF Found
      <4>4. new.left = Zero(wk.job.level)
        BY <1>5, <2>1, <4>1 DEF ZerosFetched
      <4>5. wk.job.level # -1
        BY <4>2
      <4>. QED
        BY <1>6, <4>1, <4>2, <4>3, <4>4, <4>5 DEF ZerosFetched
    <3>5. CASE worker'[w] = Idle
      BY <2>1, <3>5 DEF Idle, new
    <3>. QED
      BY <1>1, <1>7, <3>1, <3>2, <3>3, <3>4, <3>5
  <2>2. new.pc # "idle" => ZerosFetched(new)
    BY <2>1 DEF ZerosFetched
  <2>3. \A v \in Worker : worker'[v].pc # "idle" => ZerosFetched(worker'[v])
    BY <1>1, <1>2, <2>2 DEF ZeroProofsRight, new
  <2>. QED
    BY <1>2, <1>3, <1>4, <1>7, <2>3 DEF WorkIsRight, ZeroProofsRight
<1>8. CASE Save(w)
  <2>. DEFINE p == IF wk.job.level = -1 THEN wk.left ELSE Node(wk.job, wk.left, wk.right)
  <2>1. /\ wk.pc = "save" /\ new.pc = "complete"
        /\ proofs' = [proofs EXCEPT ![Target(wk.job)] = p]
    BY <1>8, WorkerBecomes DEF new, wk
  <2>2. wk.job \in ShapedJob /\ ZerosFetched(wk)
    BY <1>5, <2>1
  <2>3. ASSUME wk.job.first = L PROVE p = Zero(wk.job.level + 1)
    <3>1. CASE wk.job.level = -1
      BY <2>1, <2>2, <2>3, <3>1 DEF ZerosFetched
    <3>2. CASE wk.job.level # -1
      <4>1. wk.left = Zero(wk.job.level) /\ wk.right = Zero(wk.job.level)
        BY <2>1, <2>2, <2>3, <3>2 DEF ZerosFetched
      <4>2. wk.job.level \in Nat /\ (IsZero(wk.job) <=> wk.job.level = 0)
        BY <2>2, <2>3, <3>2, ZeroJobsChildren DEF IsZero
      <4>3. Node(wk.job, Zero(wk.job.level), Zero(wk.job.level)) = Zero(wk.job.level + 1)
        BY <4>2, ZerosJoin
      <4>. QED
        BY <3>2, <4>1, <4>3
    <3>. QED
      BY <3>1, <3>2
  <2>. HIDE DEF p
  <2>4. ASSUME NEW d \in 0 .. Depth PROVE proofs'[<<d, L>>] \in {<<>>, Zero(d)}
    <3>1. CASE Target(wk.job) = <<d, L>>
      <4>1. wk.job.first = L /\ wk.job.level + 1 = d
        BY <3>1 DEF Target
      <4>2. <<d, L>> \in Key
        BY TreeSize DEF Key
      <4>. QED
        BY <1>6, <2>1, <2>3, <3>1, <4>1, <4>2
    <3>2. CASE Target(wk.job) # <<d, L>>
      BY <1>6, <2>1, <3>2
    <3>. QED
      BY <3>1, <3>2
  <2>5. new.pc # "idle" => ZerosFetched(new)
    BY <2>1 DEF ZerosFetched
  <2>6. \A v \in Worker : worker'[v].pc # "idle" => ZerosFetched(worker'[v])
    BY <1>1, <1>2, <2>5 DEF ZeroProofsRight, new
  <2>. QED
    BY <1>3, <1>4, <2>4, <2>6 DEF WorkIsRight, ZeroProofsRight
<1>. QED
  BY <1>1, <1>7, <1>8

\* A lease ends, or the cleaner puts a job back.
LEMMA LeasesAndCleanerWork ==
  ASSUME IInv, WorkIsRight, LeaseExpires \/ Clean
  PROVE  WorkIsRight' /\ queue'.data = queue.data
<1>1. UNCHANGED <<beacon, validators, proofs, marked, todo, round, worker, scriptLost, disorder>>
  BY DEF LeaseExpires, Clean
<1>2. queue'.data = queue.data /\ IsKept(queue')
  <2>. DEFINE K == KnownJob(todo, round)
  <2>1. queue \in WorkQueues(K) /\ IsKept(queue)
    BY DEF IInv, JobsRight, WorkIsRight
  <2>. HIDE DEF K
  <2>. QED
    BY <2>1, ExpireKeeps, PutBackKeeps, ExpireIsKept, PutBackIsKept DEF LeaseExpires, Clean
<1>. QED
  BY <1>1, <1>2 DEF WorkIsRight, RegistryRight, JobsHaveValidators, ZeroProofsRight

\* All of this holds of every state.
LEMMA WorkStaysRight == Spec => []WorkIsRight
<1>1. Init => WorkIsRight
  BY InitWorkIsRight
<1>2. ASSUME IInv, IInv', AllInPlace, WorkIsRight, [Next]_vars PROVE WorkIsRight'
  <2>1. CASE NewRound
    BY <1>2, <2>1, NewRoundWork
  <2>2. CASE ScriptStep
    BY <1>2, <2>2, ScriptStepWork
  <2>3. CASE ScriptCrash
    BY <1>2, <2>3, ScriptCrashWork
  <2>4. CASE \E w \in Worker : WorkerStep(w) \/ Drop(w)
    BY <1>2, <2>4, WorkerStepWork
  <2>5. CASE LeaseExpires \/ Clean
    BY <1>2, <2>5, LeasesAndCleanerWork
  <2>6. CASE UNCHANGED vars
    BY <1>2, <2>6 DEF vars, WorkIsRight, RegistryRight, JobsHaveValidators, ZeroProofsRight
  <2>. QED
    BY <1>2, <2>1, <2>2, <2>3, <2>4, <2>5, <2>6 DEF Next
<1>. QED
  BY <1>1, <1>2, InvariantHolds, AllStaysInPlace, PTL DEF Spec

-----------------------------------------------------------------------------
(* The proofs that are to be made again *)

\* One job of a round is for a subtree.
LEMMA OneJobPerNode ==
  ASSUME NEW a \in NodeJob, NEW b \in NodeJob, Target(a) = Target(b), a.round = b.round
  PROVE  a = b
<1>1. a.level \in Int /\ b.level \in Int
  BY DEF NodeJob, ShapedJob, Job
<1>2. a.first = b.first /\ a.level = b.level
  BY <1>1 DEF Target
<1>. QED
  BY <1>2, NodeJobIsJobAt

\* The job above one below the root makes a proof of two, of which it makes one.
LEMMA ParentOfNode ==
  ASSUME NEW child \in NodeJob, child.level < Depth - 1
  PROVE  /\ Parent(child) \in NodeJob
         /\ Parent(child).level # -1
         /\ Parent(child).round = child.round
         /\ child # Parent(child)
         /\ Target(child) \in {<<Parent(child).level, Parent(child).first>>,
                               <<Parent(child).level, Parent(child).second>>}
<1>. DEFINE c == child.first
            d == child.level + 1
            up == Parent(child)
            f == up.first
            p == 2 ^ d
<1>1. /\ child.level \in -1 .. Depth - 1 /\ c \in Index /\ c \in Nat
      /\ child.round \in 0 .. MaxRound /\ d \in Nat
  BY NodeJobFields
<1>2. up = JobAt(c, d, child.round) /\ d \in -1 .. Depth - 1 /\ d + 1 \in Nat
  BY <1>1, ParentOfJobAt, NodeJobIsJobAt
<1>3. up \in NodeJob /\ up.level = d /\ up.round = child.round /\ f = c - (c % 2 ^ (d + 1))
  BY <1>1, <1>2, JobAtIs
<1>4. up.level # -1 /\ up # child
  BY <1>1, <1>3
<1>5. /\ f \in Nat /\ up.second = f + p /\ up.second \in Nat /\ p \in Nat \ {0}
      /\ f % p = 0 /\ up.second % p = 0
  <2>1. f \in Nat /\ up.second = f + p /\ p \in Nat \ {0} /\ up.second \in Nat
    BY <1>3, <1>4, NodeJobFields
  <2>2. <<d, f>> \in NodeKey /\ <<d, up.second>> \in NodeKey
    BY <1>3, <1>4, NodeJobKeys
  <2>. QED
    BY <2>1, <2>2 DEF NodeKey
<1>6. 2 ^ (d + 1) = 2 * p
  BY <1>1, PowerOfTwo
<1>7. f \in 0 .. c /\ c < f + 2 * p
  <2>. DEFINE q == 2 ^ (d + 1)
  <2>1. q \in Nat \ {0} /\ f = c - (c % q) /\ q = 2 * p
    BY <1>3, <1>5, <1>6
  <2>. HIDE DEF q, c, f, p
  <2>2. c - (c % q) \in 0 .. c /\ c < c - (c % q) + q
    BY <1>1, <2>1, RoundedIsMultiple
  <2>. QED
    BY <2>1, <2>2
<1>8. c = f \/ c = f + p
  <2>. DEFINE g == up.second
  <2>1. g = f + p /\ g \in Nat /\ g % p = 0
    BY <1>5
  <2>0. c % p = 0
    BY <1>1, NodeJobFields
  <2>. HIDE DEF g, f, c, p, up
  <2>2. CASE c < f + p
    <3>1. f = c - (c % p)
      BY <1>1, <1>5, <1>7, <2>2, OnlyMultiple
    <3>. QED
      BY <1>1, <2>0, <3>1
  <2>3. CASE f + p <= c
    <3>1. g \in 0 .. c /\ c < g + p
      BY <1>1, <1>5, <1>7, <2>1, <2>3
    <3>2. g = c - (c % p)
      BY <1>1, <1>5, <2>1, <3>1, OnlyMultiple
    <3>. QED
      BY <1>1, <2>0, <2>1, <3>2
  <2>. QED
    BY <1>1, <1>5, <2>2, <2>3
<1>9. Target(child) = <<d, c>>
  BY DEF Target
<1>. QED
  BY <1>3, <1>4, <1>5, <1>8, <1>9

\* A worker has already read the proof at that place for its job.
HasRead(wk, i) == wk.pc = "save" \/ (wk.pc = "second" /\ wk.job.first = i)

\* Jobs that will still make their proofs, among them all the script will add:
\* the one above is among them too, and has yet to read what this one makes.
WillRun(need, ops, data, wks) ==
  /\ need \subseteq {job \in Pending(ops) \cup data : job.first # L}
  /\ \A job \in Pending(ops) : job.first # L => job \in need
  /\ \A w \in Worker : wks[w].pc = "complete" => wks[w].job \notin need
  /\ \A job \in need : job.level < Depth - 1 =>
       /\ Parent(job) \in need
       /\ \A w \in Worker : wks[w].job = Parent(job) => ~HasRead(wks[w], job.first)

\* A proof is about the validators in Redis, or there is none where there is no
\* validator, or it will be made again.
IsCovered(key, need, proof, version) ==
  \/ proof = Content(version, key[1], key[2])
  \/ proof = <<>> /\ Content(version, key[1], key[2]) = Zero(key[1])
  \/ \E job \in need : Target(job) = key

\* A later job for the same proof will still run.
IsExcused(job, need) == \E k \in need : Target(k) = Target(job) /\ job.round < k.round

\* What a worker has fetched is about the validators in Redis, or will be
\* fetched again for a later job.
HasFetched(wk, need, version) ==
  \/ wk.pc \notin {"second", "save"} \/ wk.job.first = L \/ IsExcused(wk.job, need)
  \/ /\ wk.pc = "second" \/ wk.job.level # -1 =>
          wk.left = Content(version, wk.job.level, wk.job.first)
     /\ wk.pc = "save" /\ wk.job.level = -1 => wk.left = Content(version, 0, wk.job.first)
     /\ wk.pc = "save" /\ wk.job.level # -1 =>
          wk.right = Content(version, wk.job.level, wk.job.second)

\* The proofs in Redis, and those on their way, are about the validators in
\* Redis but where a job of these will still run.
IsTreeOf(need, ops, data, wks, prfs, version) ==
  /\ WillRun(need, ops, data, wks)
  /\ \A key \in NodeKey : IsCovered(key, need, prfs[key], version)
  /\ \A w \in Worker : HasFetched(wks[w], need, version)

\* No two workers are to save the same proof.
NoneShared(wks) ==
  \A v, w \in Worker :
    v # w /\ IsActive(wks[v]) /\ IsActive(wks[w]) => Target(wks[v].job) # Target(wks[w].job)

TreeIsRight ==
  \/ scriptLost
  \/ disorder
  \/ /\ NoneShared(worker)
     /\ \E need \in SUBSET Job : IsTreeOf(need, todo, queue.data, worker, proofs, validators)

\* What is pending, what is in the queue and what workers have.
LEMMA JobsInTheTree ==
  ASSUME IInv
  PROVE  /\ OpsRight(todo, round)
         /\ \A job \in Pending(todo) : job \in ShapedJob /\ job.round = round
         /\ \A job \in queue.data :
              job \in ShapedJob /\ job.round <= round /\ job \notin Pending(todo)
         /\ \A w \in Worker : worker[w].pc # "idle" =>
              /\ worker[w].job \in ShapedJob /\ worker[w].job.round <= round
              /\ worker[w].job \notin Pending(todo)
         /\ round \in Nat
<1>1. OpsRight(todo, round) /\ round \in Nat
  BY DEF IInv, JobsRight, Values
<1>2. \A job \in Pending(todo) : job \in ShapedJob /\ job.round = round
  BY <1>1 DEF Pending, OpsRight
<1>3. \A job \in KnownJob(todo, round) :
        job \in ShapedJob /\ job.round <= round /\ job \notin Pending(todo)
  BY DEF KnownJob
<1>4. /\ \A w \in Worker : worker[w].pc # "idle" => worker[w].job \in KnownJob(todo, round)
      /\ \A job \in queue.data : job \in KnownJob(todo, round)
  BY DEF IInv, JobsRight, WorkerRight, WorkQueues
<1>. QED
  BY <1>1, <1>2, <1>3, <1>4

\* What will run is a job for a subtree of this round or an earlier one.
LEMMA NeedIsNodes ==
  ASSUME IInv, NEW need, NEW wks, WillRun(need, todo, queue.data, wks), NEW job \in need
  PROVE  job \in NodeJob /\ job.round <= round /\ job.round \in Nat
<1>1. job \in Pending(todo) \cup queue.data /\ job.first # L
  BY DEF WillRun
<1>2. job \in ShapedJob /\ job.round <= round
  BY <1>1, JobsInTheTree
<1>. QED
  BY <1>1, <1>2, TreeSize DEF NodeJob, ShapedJob, Job

\* With more jobs that run again, what is covered or excused stays so.
LEMMA MoreRuns ==
  ASSUME NEW need, NEW more, need \subseteq more, NEW version
  PROVE  /\ \A key, proof : IsCovered(key, need, proof, version) => IsCovered(key, more, proof, version)
         /\ \A wk : HasFetched(wk, need, version) => HasFetched(wk, more, version)
<1>1. \A job : IsExcused(job, need) => IsExcused(job, more)
  BY DEF IsExcused
<1>. QED
  BY <1>1 DEF IsCovered, HasFetched

\* A new round adds all its jobs to those that will run: no one has them yet.
LEMMA NewRoundTree ==
  ASSUME IInv, IInv', WorkIsRight', NewRound,
         NEW need \in SUBSET Job, IsTreeOf(need, todo, queue.data, worker, proofs, validators)
  PROVE  \E more \in SUBSET Job : IsTreeOf(more, todo', queue'.data, worker', proofs', validators')
<1>. DEFINE fresh == {job \in Pending(todo') : job.first # L}
            more == need \cup fresh
<1>1. /\ todo = {} /\ round' = round + 1
      /\ UNCHANGED <<validators, proofs, marked, queue, worker, scriptLost, disorder>>
  BY DEF NewRound, redis
<1>2. WillRun(need, todo, queue.data, worker)
  BY DEF IsTreeOf
<1>3. OpsInOrder(todo', round')
  BY DEF WorkIsRight
<1>4. /\ round \in Nat
      /\ \A w \in Worker : worker[w].pc # "idle" => worker[w].job.round <= round
  BY JobsInTheTree
<1>5. \A job \in Pending(todo') : job \in ShapedJob /\ job.round = round + 1
  <2>1. OpsRight(todo', round')
    BY DEF IInv, JobsRight
  <2>. QED
    BY <1>1, <2>1 DEF OpsRight, Pending
<1>6. more \in SUBSET Job
  BY <1>5 DEF ShapedJob
<1>7. WillRun(more, todo', queue.data, worker)
  <2>1. need \subseteq queue.data /\ \A job \in need : job.first # L
    BY <1>1, <1>2 DEF WillRun, Pending
  <2>2. more \subseteq {job \in Pending(todo') \cup queue.data : job.first # L}
    BY <2>1
  <2>3. \A job \in Pending(todo') : job.first # L => job \in more
    OBVIOUS
  <2>4. ASSUME NEW w \in Worker, worker[w].pc # "idle" PROVE worker[w].job \notin fresh
    BY <1>4, <1>5, <2>4
  <2>5. \A w \in Worker : worker[w].pc = "complete" => worker[w].job \notin more
    BY <1>2, <2>4 DEF WillRun
  <2>6. ASSUME NEW job \in more, job.level < Depth - 1
        PROVE  /\ Parent(job) \in more
               /\ \A w \in Worker : worker[w].job = Parent(job) => ~HasRead(worker[w], job.first)
    <3>1. CASE job \in need
      BY <1>2, <2>6, <3>1 DEF WillRun
    <3>2. CASE job \in fresh
      <4>1. job \in NodeJob
        BY <1>5, <3>2 DEF NodeJob
      <4>2. Parent(job) \in NodeJob
        BY <2>6, <4>1, ParentOfNode
      <4>3. PICK a \in todo' : a.do = "add" /\ a.job = job
        BY <3>2 DEF Pending
      <4>4. IsAddedAfter(Parent(job), a.at, todo')
        BY <1>3, <2>6, <3>2, <4>3 DEF OpsInOrder
      <4>5. Parent(job) \in fresh
        BY <4>2, <4>4 DEF IsAddedAfter, Pending, NodeJob
      <4>6. ASSUME NEW w \in Worker, worker[w].job = Parent(job), HasRead(worker[w], job.first)
            PROVE  FALSE
        BY <2>4, <4>5, <4>6 DEF HasRead
      <4>. QED
        BY <4>5, <4>6
    <3>. QED
      BY <2>6, <3>1, <3>2
  <2>. QED
    BY <2>2, <2>3, <2>5, <2>6 DEF WillRun
<1>. HIDE DEF more
<1>8. need \subseteq more
  BY DEF more
<1>9. /\ \A key \in NodeKey : IsCovered(key, more, proofs[key], validators)
      /\ \A w \in Worker : HasFetched(worker[w], more, validators)
  BY <1>8, MoreRuns DEF IsTreeOf
<1>. QED
  BY <1>1, <1>6, <1>7, <1>9 DEF IsTreeOf

\* A batch of validators is saved: the jobs of the round above each of them
\* will run, and other subtrees stay as they are.
LEMMA SavedValidatorsTree ==
  ASSUME IInv, WorkIsRight, NEW op \in todo, SaveValidators(op),
         NEW need, IsTreeOf(need, todo, queue.data, worker, proofs, validators)
  PROVE  /\ \A key \in NodeKey : IsCovered(key, need, proofs[key], validators')
         /\ \A w \in Worker : HasFetched(worker[w], need, validators')
<1>1. WillRun(need, todo, queue.data, worker)
  BY DEF IsTreeOf
<1>2. OpsInOrder(todo, round) /\ op.do = "save"
  BY DEF WorkIsRight, SaveValidators
<1>. DEFINE Inside(x, key) == x \in key[2] .. key[2] + 2 ^ key[1] - 1
<1>3. round \in 0 .. MaxRound
  BY MapperAssumption DEF IInv, Values
<1>4. ASSUME NEW key \in NodeKey, NEW x \in op.indices, Inside(x, key)
      PROVE  \E k \in need : Target(k) = key /\ k \in Pending(todo)
  <2>1. x \in Index /\ key[1] - 1 \in -1 .. Depth - 1 /\ Target(JobAt(x, key[1] - 1, round)) = key
    BY <1>3, <1>4, JobAbove
  <2>2. x # L
    BY <2>1, TreeSize DEF Index
  <2>3. IsAddedAfter(JobAt(x, key[1] - 1, round), op.at, todo)
    BY <1>2, <2>1, <2>2 DEF OpsInOrder
  <2>4. JobAt(x, key[1] - 1, round) \in Pending(todo)
    BY <2>3 DEF IsAddedAfter, Pending
  <2>5. JobAt(x, key[1] - 1, round).first # L
    BY <1>3, <2>1, JobAtIs DEF NodeJob
  <2>. QED
    BY <1>1, <2>1, <2>4, <2>5 DEF WillRun
<1>5. ASSUME NEW key \in NodeKey, \A x \in op.indices : ~Inside(x, key)
      PROVE  Content(validators', key[1], key[2]) = Content(validators, key[1], key[2])
  <2>1. key[1] \in Nat /\ key[2] \in Nat /\ key[2] + 2 ^ key[1] <= L /\ 2 ^ key[1] \in Nat \ {0}
    BY NodeKeyFits
  <2>2. key[2] % 2 ^ key[1] = 0
    BY DEF NodeKey
  <2>3. \A x \in key[2] .. key[2] + 2 ^ key[1] - 1 : validators'[x] = validators[x]
    <3>. DEFINE i == key[2]
                p == 2 ^ key[1]
    <3>1. \A x \in 0 .. L : x \notin op.indices => validators'[x] = validators[x]
      BY DEF SaveValidators, IInv, Values
    <3>2. i \in Nat /\ p \in Nat \ {0} /\ i + p <= L /\ L \in Nat
      BY <2>1, TreeSize
    <3>3. \A x \in op.indices : x \notin i .. i + p - 1
      BY <1>5
    <3>. HIDE DEF i, p
    <3>4. \A x \in i .. i + p - 1 : x \in 0 .. L
      BY <3>2
    <3>. QED
      BY <3>1, <3>3, <3>4 DEF i, p
  <2>. QED
    BY <2>1, <2>2, <2>3, ContentStays
<1>6. ASSUME NEW key \in NodeKey PROVE IsCovered(key, need, proofs[key], validators')
  <2>1. CASE \E x \in op.indices : Inside(x, key)
    BY <1>4, <2>1 DEF IsCovered
  <2>2. CASE \A x \in op.indices : ~Inside(x, key)
    <3>1. IsCovered(key, need, proofs[key], validators)
      BY DEF IsTreeOf
    <3>. QED
      BY <1>5, <2>2, <3>1 DEF IsCovered
  <2>. QED
    BY <2>1, <2>2
<1>7. ASSUME NEW w \in Worker PROVE HasFetched(worker[w], need, validators')
  <2>. DEFINE job == worker[w].job
  <2>1. SUFFICES ASSUME worker[w].pc \in {"second", "save"}, job.first # L
                 PROVE  HasFetched(worker[w], need, validators')
    BY DEF HasFetched
  <2>2. job \in NodeJob /\ job \notin Pending(todo) /\ job.round <= round
    BY <2>1, JobsInTheTree DEF NodeJob
  <2>3. HasFetched(worker[w], need, validators)
    BY DEF IsTreeOf
  <2>4. Target(job) \in NodeKey
    BY <2>2, NodeJobKeys
  <2>5. CASE \E x \in op.indices : Inside(x, Target(job))
    <3>1. PICK k \in need : Target(k) = Target(job) /\ k \in Pending(todo)
      BY <1>4, <2>4, <2>5
    <3>2. k \in NodeJob /\ k.round = round /\ job.round \in Nat /\ round \in Nat
      <4>1. k \in NodeJob
        BY <1>1, NeedIsNodes
      <4>. QED
        BY <3>1, <4>1, JobsInTheTree, <2>2 DEF NodeJob, ShapedJob, Job
    <3>3. job.round # round
      BY <2>2, <3>1, <3>2, OneJobPerNode
    <3>4. IsExcused(job, need)
      BY <2>2, <3>1, <3>2, <3>3 DEF IsExcused
    <3>. QED
      BY <3>4 DEF HasFetched
  <2>6. CASE \A x \in op.indices : ~Inside(x, Target(job))
    <3>1. CASE job.level = -1
      <4>1. Target(job)[1] = 0 /\ Target(job)[2] = job.first
        BY <3>1 DEF Target
      <4>2. Content(validators', 0, job.first) = Content(validators, 0, job.first)
        BY <1>5, <2>4, <2>6, <4>1
      <4>3. worker[w].pc # "second"
        BY <3>1 DEF IInv, JobsRight, WorkerRight
      <4>. QED
        BY <2>3, <3>1, <4>2, <4>3 DEF HasFetched
    <3>2. CASE job.level # -1
      <4>. DEFINE f == job.first
                  g == job.second
                  d == job.level
                  p == 2 ^ d
                  one == <<d, f>>
                  two == <<d, g>>
      <4>1. one \in NodeKey /\ two \in NodeKey
        BY <2>2, <3>2, NodeJobKeys
      <4>2. /\ d \in Nat /\ f \in Nat /\ g = f + p /\ p \in Nat \ {0}
            /\ 2 ^ (d + 1) = 2 * p
        <5>1. d \in Nat /\ f \in Nat /\ g = f + p /\ p \in Nat \ {0}
          BY <2>2, <3>2, NodeJobFields
        <5>. QED
          BY <5>1, PowerOfTwo
      <4>3. \A x : Inside(x, one) \/ Inside(x, two) => Inside(x, Target(job))
        <5>1. /\ \A x : Inside(x, one) <=> x \in f .. f + p - 1
              /\ \A x : Inside(x, two) <=> x \in g .. g + p - 1
              /\ \A x : Inside(x, Target(job)) <=> x \in f .. f + 2 ^ (d + 1) - 1
          BY DEF Target
        <5>2. /\ f .. f + p - 1 \subseteq f .. f + 2 * p - 1
              /\ g .. g + p - 1 \subseteq f .. f + 2 * p - 1
          <6>. HIDE DEF f, g, p
          <6>. QED
            BY <4>2
        <5>. HIDE DEF Inside, one, two, f, g, p, d, job
        <5>. QED
          BY <4>2, <5>1, <5>2
      <4>4. /\ Content(validators', d, f) = Content(validators, d, f)
            /\ Content(validators', d, g) = Content(validators, d, g)
        <5>1. \A x \in op.indices : ~Inside(x, one) /\ ~Inside(x, two)
          BY <2>6, <4>3
        <5>2. one[1] = d /\ one[2] = f /\ two[1] = d /\ two[2] = g
          OBVIOUS
        <5>. HIDE DEF Inside, one, two
        <5>. QED
          BY <1>5, <4>1, <5>1, <5>2
      <4>. QED
        BY <2>3, <3>2, <4>4 DEF HasFetched
    <3>. QED
      BY <3>1, <3>2
  <2>. QED
    BY <2>5, <2>6
<1>. QED
  BY <1>6, <1>7

\* The script's next write.
LEMMA ScriptStepTree ==
  ASSUME IInv, WorkIsRight, ScriptStep,
         NEW need \in SUBSET Job, IsTreeOf(need, todo, queue.data, worker, proofs, validators)
  PROVE  IsTreeOf(need, todo', queue'.data, worker', proofs', validators')
<1>1. PICK op \in todo :
        /\ IsNext(op, todo)
        /\ todo' = todo \ {op}
        /\ SaveValidators(op) \/ MarkProof(op) \/ AddJob(op)
  BY DEF ScriptStep
<1>2. worker' = worker
  BY DEF ScriptStep
<1>3. OpsRight(todo, round) /\ proofs \in [Key -> Seq(Leaf)]
  BY DEF IInv, JobsRight, Values
<1>4. WillRun(need, todo, queue.data, worker)
  BY DEF IsTreeOf
<1>5. Pending(todo') \subseteq Pending(todo)
  BY <1>1 DEF Pending
<1>6. CASE SaveValidators(op)
  <2>1. Pending(todo') = Pending(todo)
    BY <1>1, <1>6 DEF Pending, SaveValidators
  <2>2. queue' = queue /\ proofs' = proofs
    BY <1>6 DEF SaveValidators
  <2>3. WillRun(need, todo', queue'.data, worker')
    BY <1>2, <1>4, <2>1, <2>2 DEF WillRun
  <2>. QED
    BY <1>2, <1>6, <2>2, <2>3, SavedValidatorsTree DEF IsTreeOf
<1>7. CASE MarkProof(op)
  <2>1. Pending(todo') = Pending(todo)
    BY <1>1, <1>7 DEF Pending, MarkProof
  <2>2. /\ queue' = queue /\ validators' = validators
        /\ proofs' = [proofs EXCEPT ![Target(op.job)] = <<>>]
    BY <1>7 DEF MarkProof
  <2>3. WillRun(need, todo', queue'.data, worker')
    BY <1>2, <1>4, <2>1, <2>2 DEF WillRun
  <2>4. op.job \in Pending(todo)
    BY <1>3, <1>7 DEF MarkProof, OpsRight, Pending
  <2>5. ASSUME NEW key \in NodeKey PROVE IsCovered(key, need, proofs'[key], validators)
    <3>1. CASE key = Target(op.job)
      <4>1. op.job.first # L
        BY <3>1 DEF NodeKey, Target
      <4>2. op.job \in need
        BY <1>4, <2>4, <4>1 DEF WillRun
      <4>. QED
        BY <3>1, <4>2 DEF IsCovered
    <3>2. CASE key # Target(op.job)
      BY <1>3, <2>2, <3>2 DEF IsTreeOf, NodeKey
    <3>. QED
      BY <3>1, <3>2
  <2>. QED
    BY <1>2, <2>2, <2>3, <2>5 DEF IsTreeOf
<1>8. CASE AddJob(op)
  <2>1. queue'.data = queue.data \cup {op.job}
    BY <1>8 DEF AddJob, AddItem, IInv, JobsRight, WorkQueues
  <2>2. proofs' = proofs /\ validators' = validators
    BY <1>8 DEF AddJob
  <2>3. Pending(todo) \subseteq Pending(todo') \cup {op.job}
    BY <1>1 DEF Pending
  <2>4. WillRun(need, todo', queue'.data, worker')
    BY <1>2, <1>4, <1>5, <2>1, <2>3 DEF WillRun
  <2>. QED
    BY <1>2, <2>2, <2>4 DEF IsTreeOf
<1>. QED
  BY <1>1, <1>6, <1>7, <1>8

\* What fetch_proof returns is about the validators in Redis, unless a later
\* job will make that proof again, and the job above it after that: an earlier
\* one was to be waited for.
LEMMA FetchesContent ==
  ASSUME IInv, WorkIsRight,
         NEW need, IsTreeOf(need, todo, queue.data, worker, proofs, validators),
         NEW job \in NodeJob, job.level # -1, job.round <= round, job \notin Pending(todo),
         NEW i \in {job.first, job.second}, ~IsDue(<<job.level, i>>, job)
  PROVE  /\ \A child \in need : Target(child) = <<job.level, i>> => job.round < child.round
         /\ proofs[Found(job.level, i)] # <<>> =>
              \/ IsExcused(job, need)
              \/ proofs[Found(job.level, i)] = Content(validators, job.level, i)
<1>. DEFINE key == <<job.level, i>>
<1>1. WillRun(need, todo, queue.data, worker) /\ OpsInOrder(todo, round)
  BY DEF IsTreeOf, WorkIsRight
<1>2. key \in NodeKey /\ job.level \in 0 .. Depth /\ job.level \in Nat
  <2>1. job.level \in Nat /\ job.level \in -1 .. Depth - 1 /\ Depth \in Nat
    BY NodeJobFields, TreeSize
  <2>2. key \in NodeKey
    BY NodeJobKeys
  <2>. QED
    BY <2>1, <2>2
<1>3. ASSUME NEW child \in need, Target(child) = key PROVE job.round < child.round
  <2>1. SUFFICES ASSUME child.round <= job.round PROVE FALSE
    BY JobsInTheTree, NeedIsNodes, <1>1 DEF NodeJob, ShapedJob, Job
  <2>2. child \in NodeJob
    BY <1>1, NeedIsNodes
  <2>3. child.level < Depth - 1 /\ (child.round = job.round => Parent(child) = job)
    BY <1>3, <2>2, ParentOfChild
  <2>4. CASE child \in Pending(todo)
    <3>1. child.round = round /\ child.round \in Nat /\ job.round \in Nat
      BY <2>2, <2>4, JobsInTheTree DEF NodeJob, ShapedJob, Job
    <3>2. child.round = job.round
      BY <2>1, <3>1
    <3>3. PICK a \in todo : a.do = "add" /\ a.job = child
      BY <2>4 DEF Pending
    <3>4. IsAddedAfter(job, a.at, todo)
      BY <1>1, <2>2, <2>3, <3>2, <3>3 DEF OpsInOrder, NodeJob
    <3>. QED
      BY <3>4 DEF IsAddedAfter, Pending
  <2>5. CASE child \notin Pending(todo)
    <3>1. child \in queue.data
      BY <1>1, <2>5 DEF WillRun
    <3>2. child # job
      <4>1. child.level + 1 = job.level /\ child.level \in Int
        BY <1>3, <2>2 DEF Target, NodeJob, ShapedJob, Job
      <4>. QED
        BY <4>1
    <3>3. \A w \in Worker : worker[w].job = child => worker[w].pc # "complete"
      BY <1>1 DEF WillRun
    <3>4. IsDue(key, job)
      BY <1>3, <2>1, <3>1, <3>2, <3>3 DEF IsDue
    <3>. QED
      BY <3>4
  <2>. QED
    BY <2>4, <2>5
<1>4. ASSUME proofs[Found(job.level, i)] # <<>>, ~IsExcused(job, need)
      PROVE  proofs[Found(job.level, i)] = Content(validators, job.level, i)
  <2>1. ~ \E child \in need : Target(child) = key
    <3>1. SUFFICES ASSUME NEW child \in need, Target(child) = key PROVE FALSE
      OBVIOUS
    <3>2. child \in NodeJob /\ job.round < child.round
      BY <1>1, <1>3, <3>1, NeedIsNodes
    <3>3. /\ child.level < Depth - 1
          /\ Target(Parent(child)) = Target(job) /\ Parent(child).round = child.round
      BY <3>1, <3>2, ParentOfChild
    <3>4. Parent(child) \in need
      BY <1>1, <3>3 DEF WillRun
    <3>. QED
      BY <1>4, <3>2, <3>3, <3>4 DEF IsExcused
  <2>2. IsCovered(key, need, proofs[key], validators)
    BY <1>2 DEF IsTreeOf
  <2>3. CASE proofs[key] = Content(validators, job.level, i)
    <3>1. proofs[key] # <<>>
      BY <1>2, <2>3, ContentIsThere
    <3>. QED
      BY <2>3, <3>1 DEF Found
  <2>4. CASE proofs[key] = <<>> /\ Content(validators, job.level, i) = Zero(job.level)
    <3>1. Found(job.level, i) = <<job.level, L>>
      BY <1>4, <2>4 DEF Found
    <3>2. proofs[<<job.level, L>>] \in {<<>>, Zero(job.level)}
      BY <1>2 DEF WorkIsRight, ZeroProofsRight
    <3>. QED
      BY <1>4, <2>4, <3>1, <3>2
  <2>. QED
    BY <2>1, <2>2, <2>3, <2>4 DEF IsCovered
<1>. QED
  BY <1>3, <1>4

\* A worker's step keeps apart what the workers are to save.
LEMMA WorkerStepShares ==
  ASSUME IInv, NEW w \in Worker, WorkerStep(w) \/ Drop(w), ~disorder', NoneShared(worker)
  PROVE  NoneShared(worker')
<1>1. /\ \A v \in Worker \ {w} : worker'[v] = worker[v]
      /\ \/ WorkerLease(w) \/ FetchValidator(w) \/ FetchFirst(w) \/ FetchSecond(w) \/ Save(w)
         \/ worker'[w] = Idle
  BY WorkerTouches
<1>. DEFINE new == worker'[w]
<1>2. ASSUME NEW v \in Worker \ {w}, IsActive(worker[v]), IsActive(new)
      PROVE  Target(worker[v].job) # Target(new.job)
  <2>1. CASE WorkerLease(w)
    <3>1. new.job = Head(queue.main) /\ ~IsShared(Head(queue.main), w)
      BY <2>1, WorkerBecomes
    <3>. QED
      BY <1>2, <3>1 DEF IsShared, IsActive
  <2>2. CASE FetchValidator(w) \/ FetchFirst(w) \/ FetchSecond(w) \/ Save(w)
    <3>1. new.job = worker[w].job /\ IsActive(worker[w])
      BY <2>2, WorkerBecomes DEF IsActive
    <3>. QED
      BY <1>2, <3>1 DEF NoneShared
  <2>3. CASE worker'[w] = Idle
    BY <1>2, <2>3 DEF IsActive, Idle
  <2>. QED
    BY <1>1, <2>1, <2>2, <2>3
<1>. HIDE DEF new
<1>3. ASSUME NEW u \in Worker, NEW v \in Worker, u # v, IsActive(worker'[u]), IsActive(worker'[v])
      PROVE  Target(worker'[u].job) # Target(worker'[v].job)
  <2>1. CASE u = w
    BY <1>1, <1>2, <1>3, <2>1 DEF new
  <2>2. CASE v = w
    BY <1>1, <1>2, <1>3, <2>2 DEF new
  <2>3. CASE u # w /\ v # w
    BY <1>1, <1>3, <2>3 DEF NoneShared
  <2>. QED
    BY <2>1, <2>2, <2>3
<1>. QED
  BY <1>3 DEF NoneShared

\* A worker that saves nothing leaves the tree as it is, when what it has
\* fetched is right and nothing that will run is to come before.
LEMMA OneWorkerMoves ==
  ASSUME NEW need, NEW ops, NEW data, NEW wks, NEW prfs, NEW version,
         IsTreeOf(need, ops, data, wks, prfs, version),
         NEW left, need \subseteq Pending(ops) \cup left,
         NEW moved, NEW w \in Worker, \A v \in Worker \ {w} : moved[v] = wks[v],
         moved[w].pc = "complete" => moved[w].job \notin need,
         \A job \in need : job.level < Depth - 1 /\ moved[w].job = Parent(job) =>
           ~HasRead(moved[w], job.first),
         HasFetched(moved[w], need, version)
  PROVE  IsTreeOf(need, ops, left, moved, prfs, version)
<1>1. WillRun(need, ops, data, wks) /\ \A v \in Worker : HasFetched(wks[v], need, version)
  BY DEF IsTreeOf
<1>2. WillRun(need, ops, left, moved)
  <2>1. \A v \in Worker : moved[v].pc = "complete" => moved[v].job \notin need
    BY <1>1 DEF WillRun
  <2>2. \A job \in need : job.level < Depth - 1 => Parent(job) \in need
    BY <1>1 DEF WillRun
  <2>3. ASSUME NEW job \in need, job.level < Depth - 1, NEW v \in Worker, moved[v].job = Parent(job)
        PROVE  ~HasRead(moved[v], job.first)
    BY <1>1, <2>3 DEF WillRun
  <2>4. need \subseteq {job \in Pending(ops) \cup left : job.first # L}
    BY <1>1 DEF WillRun
  <2>5. \A job \in Pending(ops) : job.first # L => job \in need
    BY <1>1 DEF WillRun
  <2>. QED
    BY <2>1, <2>2, <2>3, <2>4, <2>5 DEF WillRun
<1>3. \A v \in Worker : HasFetched(moved[v], need, version)
  BY <1>1
<1>. QED
  BY <1>2, <1>3 DEF IsTreeOf

\* A worker takes a job, fetches for it, drops it or is done with it.
LEMMA WorkerFetchesTree ==
  ASSUME IInv, WorkIsRight, NEW w \in Worker, WorkerStep(w) \/ Drop(w), ~Save(w), ~disorder',
         NEW need, IsTreeOf(need, todo, queue.data, worker, proofs, validators)
  PROVE  IsTreeOf(need, todo, queue'.data, worker', proofs, validators)
<1>. DEFINE wk == worker[w]
            new == worker'[w]
            job == wk.job
<1>1. /\ \A v \in Worker \ {w} : worker'[v] = worker[v]
      /\ queue'.data = queue.data \/ WorkerComplete(w)
      /\ \/ WorkerLease(w) \/ FetchValidator(w) \/ FetchFirst(w) \/ FetchSecond(w)
         \/ worker'[w] = Idle
  BY WorkerTouches
<1>2. WillRun(need, todo, queue.data, worker) /\ HasFetched(wk, need, validators)
  BY DEF IsTreeOf
<1>3. wk.pc # "idle" => /\ job \in ShapedJob /\ job.round <= round /\ job \notin Pending(todo)
                        /\ wk.pc = "validator" => job.level = -1
                        /\ wk.pc \in {"first", "second"} => job.level # -1
  BY JobsInTheTree DEF IInv, JobsRight, WorkerRight
<1>4. need \subseteq Pending(todo) \cup queue'.data
  <2>1. CASE queue'.data = queue.data
    BY <1>2, <2>1 DEF WillRun
  <2>2. CASE WorkerComplete(w)
    <3>1. queue'.data = queue.data \ {job} /\ wk.pc = "complete"
      BY <2>2, CompleteKeeps DEF WorkerComplete, IInv, JobsRight
    <3>. QED
      BY <1>2, <3>1 DEF WillRun
  <2>. QED
    BY <1>1, <2>1, <2>2
<1>5. ASSUME NEW child \in need, child.level < Depth - 1
      PROVE  /\ child \in NodeJob /\ Parent(child) \in NodeJob /\ Parent(child).level # -1
             /\ Parent(child).round = child.round /\ child.round \in Nat
             /\ Target(child) \in {<<Parent(child).level, Parent(child).first>>,
                                   <<Parent(child).level, Parent(child).second>>}
             /\ \A v \in Worker : worker[v].job = Parent(child) => ~HasRead(worker[v], child.first)
  <2>1. child \in NodeJob /\ child.round \in Nat
    BY <1>2, NeedIsNodes
  <2>. QED
    BY <1>2, <1>5, <2>1, ParentOfNode DEF WillRun
<1>. DEFINE Ok == /\ new.pc = "complete" => new.job \notin need
                  /\ \A child \in need : child.level < Depth - 1 /\ new.job = Parent(child) =>
                       ~HasRead(new, child.first)
                  /\ HasFetched(new, need, validators)
<1>6. ASSUME WorkerLease(w) PROVE Ok
  <2>1. /\ new.pc \in {"complete", "validator", "first"}
        /\ new.pc = "complete" => new.job \notin queue.data /\ new.job \in KnownJob(todo, round)
    BY <1>6, WorkerBecomes
  <2>2. Ok
    <3>. HIDE DEF new
    <3>1. new.pc = "complete" => new.job \notin need
      BY <1>2, <2>1 DEF WillRun, KnownJob
    <3>. QED
      BY <2>1, <3>1 DEF HasRead, HasFetched
  <2>. QED
    BY <2>2
<1>7. ASSUME FetchValidator(w) PROVE Ok
  <2>1. /\ wk.pc = "validator" /\ new.job = job /\ new.pc = "save"
        /\ new.left = <<validators[job.first]>> /\ validators[job.first] # 0
    BY <1>7, WorkerBecomes DEF FetchValidator
  <2>2. job.level = -1
    BY <1>3, <2>1
  <2>3. Content(validators, 0, job.first) = <<validators[job.first]>>
    <3>. DEFINE f == job.first
    <3>1. f \in Nat /\ 2 ^ 0 = 1
      BY <1>3, <2>1, PowerOfTwo, TreeSize DEF ShapedJob, Job
    <3>. HIDE DEF f
    <3>2. ContentLeaf(validators, 0, f + 1 - 1) = validators[f] \/ validators[f] = 0
      BY <3>1 DEF ContentLeaf
    <3>3. Content(validators, 0, f) = [n \in 1 .. 1 |-> ContentLeaf(validators, 0, f + n - 1)]
      BY <3>1 DEF Content
    <3>4. validators[f] # 0
      BY <2>1 DEF f
    <3>5. [n \in 1 .. 1 |-> ContentLeaf(validators, 0, f + n - 1)] = <<validators[f]>>
      BY <3>2, <3>4
    <3>. QED
      BY <3>3, <3>5 DEF f
  <2>4. HasFetched(new, need, validators)
    <3>. HIDE DEF new, job
    <3>. QED
      BY <2>1, <2>2, <2>3 DEF HasFetched
  <2>5. \A child \in need : ~(child.level < Depth - 1 /\ new.job = Parent(child))
    BY <1>5, <2>1, <2>2
  <2>. QED
    BY <2>1, <2>4, <2>5
<1>8. ASSUME ~wk.pc = "idle", job.first # L, wk.pc \in {"first", "second"},
             NEW i \in {job.first, job.second}, ~IsDue(<<job.level, i>>, job)
      PROVE  /\ job \in NodeJob /\ job.round \in Nat
             /\ \A child \in need : Target(child) = <<job.level, i>> => job.round < child.round
             /\ proofs[Found(job.level, i)] # <<>> =>
                  IsExcused(job, need) \/ proofs[Found(job.level, i)] = Content(validators, job.level, i)
  <2>1. job \in NodeJob /\ job.level # -1
    BY <1>3, <1>8 DEF NodeJob
  <2>2. job.round \in Nat
    BY <2>1 DEF NodeJob, ShapedJob, Job
  <2>. QED
    BY <1>3, <1>8, <2>1, <2>2, FetchesContent
<1>9. ASSUME FetchFirst(w) PROVE Ok
  <2>1. /\ wk.pc = "first" /\ new.job = job /\ new.pc = "second"
        /\ new.left = proofs[Found(job.level, job.first)]
        /\ proofs[Found(job.level, job.first)] # <<>>
        /\ ~IsDue(<<job.level, job.first>>, job)
    BY <1>9, WorkerBecomes DEF FetchFirst
  <2>2. HasFetched(new, need, validators)
    <3>1. CASE job.first = L
      BY <2>1, <3>1 DEF HasFetched
    <3>2. CASE job.first # L
      <4>1. IsExcused(job, need) \/ new.left = Content(validators, job.level, job.first)
        BY <1>8, <2>1, <3>2
      <4>. HIDE DEF new, job
      <4>. QED
        BY <2>1, <4>1 DEF HasFetched
    <3>. QED
      BY <3>1, <3>2
  <2>3. ASSUME NEW child \in need, child.level < Depth - 1, job = Parent(child),
               child.first = job.first
        PROVE  FALSE
    <3>1. job \in NodeJob /\ job.round = child.round
      BY <1>5, <2>3
    <3>2. Target(child) = <<job.level, job.first>>
      <4>1. child.level + 1 = job.level
        BY <2>3 DEF Parent, InnerJob
      <4>. QED
        BY <2>3, <4>1 DEF Target
    <3>3. job.round < child.round
      BY <1>8, <2>1, <3>1, <3>2 DEF NodeJob
    <3>. QED
      BY <1>5, <2>3, <3>1, <3>3
  <2>4. Ok
    <3>1. \A child \in need : child.level < Depth - 1 /\ new.job = Parent(child) =>
            ~HasRead(new, child.first)
      BY <2>1, <2>3 DEF HasRead
    <3>. QED
      BY <2>1, <2>2, <3>1
  <2>. QED
    BY <2>4
<1>10. ASSUME FetchSecond(w) PROVE Ok
  <2>1. /\ wk.pc = "second" /\ new.job = job /\ new.pc = "save" /\ new.left = wk.left
        /\ new.right = proofs[Found(job.level, job.second)]
        /\ proofs[Found(job.level, job.second)] # <<>>
        /\ ~IsDue(<<job.level, job.second>>, job)
    BY <1>10, WorkerBecomes DEF FetchSecond
  <2>2. HasFetched(new, need, validators)
    <3>1. CASE job.first = L
      BY <2>1, <3>1 DEF HasFetched
    <3>2. CASE job.first # L
      <4>1. IsExcused(job, need) \/ new.right = Content(validators, job.level, job.second)
        BY <1>8, <2>1, <3>2
      <4>2. IsExcused(job, need) \/ new.left = Content(validators, job.level, job.first)
        BY <1>2, <2>1, <3>2 DEF HasFetched
      <4>3. job.level # -1
        BY <1>3, <2>1
      <4>. HIDE DEF new, job
      <4>. QED
        BY <2>1, <4>1, <4>2, <4>3 DEF HasFetched
    <3>. QED
      BY <3>1, <3>2
  <2>3. ASSUME NEW child \in need, child.level < Depth - 1, job = Parent(child)
        PROVE  FALSE
    <3>1. job \in NodeJob /\ job.round = child.round /\ child.round \in Nat
      BY <1>5, <2>3
    <3>2. child.first # job.first
      BY <1>5, <2>1, <2>3 DEF HasRead
    <3>3. Target(child) = <<job.level, job.second>>
      BY <1>5, <2>3, <3>2 DEF Target
    <3>4. job.round < child.round
      BY <1>8, <2>1, <3>1, <3>3 DEF NodeJob
    <3>. QED
      BY <3>1, <3>4
  <2>4. Ok
    <3>1. \A child \in need : ~(child.level < Depth - 1 /\ new.job = Parent(child))
      BY <2>1, <2>3
    <3>. QED
      BY <2>1, <2>2, <3>1
  <2>. QED
    BY <2>4
<1>11. ASSUME worker'[w] = Idle PROVE Ok
  <2>1. new.pc = "idle"
    BY <1>11 DEF Idle
  <2>. HIDE DEF new
  <2>. QED
    BY <2>1 DEF HasRead, HasFetched
<1>12. Ok
  BY <1>1, <1>6, <1>7, <1>9, <1>10, <1>11
<1>13. \A v \in Worker \ {w} : worker'[v] = worker[v]
  BY <1>1
<1>14. /\ worker'[w].pc = "complete" => worker'[w].job \notin need
       /\ \A child \in need : child.level < Depth - 1 /\ worker'[w].job = Parent(child) =>
            ~HasRead(worker'[w], child.first)
       /\ HasFetched(worker'[w], need, validators)
  BY <1>12
<1>. DEFINE data == queue.data
            left == queue'.data
            moved == worker'
<1>15. /\ IsTreeOf(need, todo, data, worker, proofs, validators)
       /\ need \subseteq Pending(todo) \cup left
       /\ \A v \in Worker \ {w} : moved[v] = worker[v]
       /\ moved[w].pc = "complete" => moved[w].job \notin need
       /\ \A child \in need : child.level < Depth - 1 /\ moved[w].job = Parent(child) =>
            ~HasRead(moved[w], child.first)
       /\ HasFetched(moved[w], need, validators)
  BY <1>4, <1>13, <1>14
<1>. HIDE DEF data, left, moved, new, job, wk, Ok
<1>16. IsTreeOf(need, todo, left, moved, proofs, validators)
  BY <1>15, OneWorkerMoves
<1>. QED
  BY <1>16 DEF left, moved

\* A validator that has still to be saved: the jobs of this round above it are
\* later than any that a worker has.
LEMMA UnsavedIsExcused ==
  ASSUME IInv, WorkIsRight,
         NEW need, WillRun(need, todo, queue.data, worker),
         NEW job \in NodeJob, job.round <= round, job \notin Pending(todo), job.level = 0,
         NEW op \in todo, op.do = "save", job.first \in op.indices
  PROVE  IsExcused(job, need)
<1>1. round \in 0 .. MaxRound
  BY MapperAssumption DEF IInv, Values
<1>2. /\ job.first \in Index /\ job.level \in -1 .. Depth - 1 /\ job.round \in 0 .. MaxRound
      /\ job.first # L
  BY NodeJobFields DEF NodeJob
<1>. DEFINE k == JobAt(job.first, job.level, round)
<1>3. IsAddedAfter(k, op.at, todo)
  BY <1>2 DEF WorkIsRight, OpsInOrder
<1>4. k \in Pending(todo)
  BY <1>3 DEF IsAddedAfter, Pending
<1>5. k \in NodeJob /\ k.round = round /\ k.level = job.level
      /\ k.first = job.first - (job.first % 2 ^ (job.level + 1))
  <2>. DEFINE i == job.first
              level == job.level
  <2>1. i \in Index /\ level \in -1 .. Depth - 1
    BY <1>2
  <2>. HIDE DEF i, level
  <2>2. /\ JobAt(i, level, round) \in NodeJob
        /\ JobAt(i, level, round).level = level
        /\ JobAt(i, level, round).round = round
        /\ JobAt(i, level, round).first = i - (i % 2 ^ (level + 1))
    BY <1>1, <2>1, JobAtIs
  <2>. QED
    BY <2>2 DEF i, level
<1>6. k.first = job.first
  <2>. DEFINE f == job.first
              r == f % 2 ^ (job.level + 1)
  <2>1. r = 0 /\ f \in Nat
    BY NodeJobFields
  <2>. HIDE DEF r, f
  <2>2. f - r = f
    BY <2>1
  <2>. QED
    BY <1>5, <2>2 DEF r, f
<1>7. k \in need
  BY <1>4, <1>5 DEF WillRun, NodeJob
<1>. HIDE DEF k
<1>8. Target(k) = Target(job)
  BY <1>5, <1>6 DEF Target
<1>9. job.round # round
  BY <1>4, <1>5, <1>8, OneJobPerNode
<1>10. job.round < k.round
  BY <1>1, <1>2, <1>5, <1>9
<1>. QED
  BY <1>7, <1>8, <1>10 DEF IsExcused

\* What a worker saves is about the validators in Redis, or a later job will
\* save it again.
LEMMA SavesContent ==
  ASSUME IInv, WorkIsRight, ~scriptLost,
         NEW w \in Worker, worker[w].pc = "save", worker[w].job.first # L,
         NEW need, IsTreeOf(need, todo, queue.data, worker, proofs, validators),
         ~IsExcused(worker[w].job, need)
  PROVE  (IF worker[w].job.level = -1 THEN worker[w].left
          ELSE Node(worker[w].job, worker[w].left, worker[w].right))
           = Content(validators, worker[w].job.level + 1, worker[w].job.first)
<1>. DEFINE wk == worker[w]
            job == wk.job
            d == job.level
            f == job.first
            g == job.second
            p == 2 ^ d
<1>1. job \in NodeJob /\ job.round <= round /\ job \notin Pending(todo)
  BY JobsInTheTree DEF NodeJob
<1>2. HasFetched(wk, need, validators) /\ WillRun(need, todo, queue.data, worker)
  BY DEF IsTreeOf
<1>3. CASE d = -1
  <2>1. wk.left = Content(validators, 0, f)
    BY <1>2, <1>3 DEF HasFetched
  <2>. QED
    BY <1>3, <2>1
<1>4. CASE d # -1
  <2>1. wk.left = Content(validators, d, f) /\ wk.right = Content(validators, d, g)
    BY <1>2, <1>4 DEF HasFetched
  <2>2. d \in Nat /\ f \in Index /\ f \in Nat /\ g = f + p /\ g \in Nat /\ g < L /\ f % 2 ^ (d + 1) = 0
    BY <1>1, <1>4, NodeJobFields
  <2>3. d = 0 => validators[f] # 0
    <3>1. SUFFICES ASSUME d = 0 PROVE validators[f] # 0
      OBVIOUS
    <3>2. beacon[f] # 0
      BY DEF WorkIsRight, JobsHaveValidators, HasValidator, IsActive
    <3>3. ~ \E op \in todo : op.do = "save" /\ f \in op.indices
      <4>. HIDE DEF job
      <4>. QED
        BY <1>1, <1>2, <3>1, UnsavedIsExcused DEF job
    <3>4. validators[f] = beacon[f]
      BY <2>2, <3>3 DEF WorkIsRight, RegistryRight
    <3>. QED
      BY <3>2, <3>4
  <2>4. ~IsZero(job)
    <3>1. g # L
      BY <2>2, TreeSize
    <3>. QED
      BY <3>1 DEF IsZero
  <2>5. Content(validators, d, f) \o Content(validators, d, f + 2 ^ d) = Content(validators, d + 1, f)
    <3>. HIDE DEF d, f
    <3>. QED
      BY <2>2, <2>3, ContentJoins
  <2>6. Node(job, wk.left, wk.right) = Content(validators, d + 1, f)
    BY <2>1, <2>2, <2>4, <2>5 DEF Node
  <2>. QED
    BY <1>4, <2>6
<1>. QED
  BY <1>3, <1>4

\* A worker saves its proof: its job has run, and it was the only one at that
\* key.
LEMMA SaveTree ==
  ASSUME IInv, WorkIsRight, ~scriptLost, NEW w \in Worker, Save(w), NoneShared(worker),
         NEW need \in SUBSET Job, IsTreeOf(need, todo, queue.data, worker, proofs, validators)
  PROVE  \E more \in SUBSET Job : IsTreeOf(more, todo', queue'.data, worker', proofs', validators')
<1>. DEFINE wk == worker[w]
            job == wk.job
            p == IF job.level = -1 THEN wk.left ELSE Node(job, wk.left, wk.right)
            less == need \ {job}
<1>1. /\ UNCHANGED <<validators, todo, queue>>
      /\ \A v \in Worker \ {w} : worker'[v] = worker[v]
  BY WorkerTouches DEF Save, WorkerStep
<1>2. /\ wk.pc = "save" /\ worker'[w].job = job /\ worker'[w].pc = "complete"
      /\ proofs' = [proofs EXCEPT ![Target(job)] = p]
  BY WorkerBecomes
<1>3. /\ WillRun(need, todo, queue.data, worker)
      /\ \A v \in Worker : HasFetched(worker[v], need, validators)
  BY DEF IsTreeOf
<1>4. job \in ShapedJob /\ job \notin Pending(todo)
  BY <1>2, JobsInTheTree
<1>5. WillRun(less, todo, queue.data, worker')
  <2>1. less \subseteq {j \in Pending(todo) \cup queue.data : j.first # L}
    BY <1>3 DEF WillRun
  <2>2. \A j \in Pending(todo) : j.first # L => j \in less
    BY <1>3, <1>4 DEF WillRun
  <2>3. \A v \in Worker : worker'[v].pc = "complete" => worker'[v].job \notin less
    BY <1>1, <1>2, <1>3 DEF WillRun
  <2>4. ASSUME NEW j \in less, j.level < Depth - 1
        PROVE  /\ Parent(j) \in less
               /\ \A v \in Worker : worker'[v].job = Parent(j) => ~HasRead(worker'[v], j.first)
    <3>1. /\ Parent(j) \in need
          /\ \A v \in Worker : worker[v].job = Parent(j) => ~HasRead(worker[v], j.first)
      BY <1>3, <2>4 DEF WillRun
    <3>2. Parent(j) # job
      BY <1>2, <3>1 DEF HasRead
    <3>3. \A v \in Worker : worker'[v].job = Parent(j) => ~HasRead(worker'[v], j.first)
      BY <1>1, <1>2, <3>1, <3>2
    <3>. QED
      BY <3>1, <3>2, <3>3
  <2>. QED
    BY <2>1, <2>2, <2>3, <2>4 DEF WillRun
<1>6. job.round \in Nat /\ ~(job.round < job.round)
  BY <1>4 DEF ShapedJob, Job
<1>7. ASSUME NEW key \in NodeKey PROVE IsCovered(key, less, proofs'[key], validators)
  <2>1. key \in Key /\ proofs \in [Key -> Seq(Leaf)]
    BY DEF NodeKey, IInv, Values
  <2>2. CASE key = Target(job)
    <3>1. job.first # L /\ key[1] = job.level + 1 /\ key[2] = job.first /\ proofs'[key] = p
      BY <1>2, <2>1, <2>2 DEF NodeKey, Target
    <3>2. CASE IsExcused(job, need)
      BY <1>6, <2>2, <3>2 DEF IsExcused, IsCovered
    <3>3. CASE ~IsExcused(job, need)
      <4>1. p = Content(validators, key[1], key[2])
        BY <1>2, <3>1, <3>3, SavesContent
      <4>. QED
        BY <3>1, <4>1 DEF IsCovered
    <3>. QED
      BY <3>2, <3>3
  <2>3. CASE key # Target(job)
    <3>1. proofs'[key] = proofs[key] /\ IsCovered(key, need, proofs[key], validators)
      BY <1>2, <2>1, <2>3 DEF IsTreeOf
    <3>. QED
      BY <2>3, <3>1 DEF IsCovered
  <2>. QED
    BY <2>2, <2>3
<1>8. ASSUME NEW v \in Worker PROVE HasFetched(worker'[v], less, validators)
  <2>1. CASE v = w \/ worker[v].pc \notin {"second", "save"} \/ worker[v].job.first = L
    BY <1>1, <1>2, <2>1 DEF HasFetched
  <2>2. CASE v # w /\ worker[v].pc \in {"second", "save"} /\ worker[v].job.first # L
    <3>1. worker'[v] = worker[v] /\ Target(worker[v].job) # Target(job)
      BY <1>1, <1>2, <2>2 DEF NoneShared, IsActive
    <3>2. IsExcused(worker[v].job, need) => IsExcused(worker[v].job, less)
      BY <3>1 DEF IsExcused
    <3>. QED
      BY <1>3, <3>1, <3>2 DEF HasFetched
  <2>. QED
    BY <2>1, <2>2
<1>9. less \in SUBSET Job
  OBVIOUS
<1>. HIDE DEF less
<1>. QED
  BY <1>1, <1>5, <1>7, <1>8, <1>9 DEF IsTreeOf

\* Where there is no validator, a proof is about zeros.
LEMMA ContentOfNothing ==
  ASSUME NEW version, NEW d \in Nat, NEW i \in Nat, i % 2 ^ d = 0,
         \A x \in i .. i + 2 ^ d - 1 : version[x] = 0
  PROVE  Content(version, d, i) = Zero(d)
<1>. DEFINE p == 2 ^ d
<1>1. p \in Nat \ {0} /\ \A x \in i .. i + p - 1 : version[x] = 0
  BY PowerOfTwo
<1>2. \A x \in i .. i + p - 1 : d # 0 => Beside(x) \in i .. i + p - 1
  BY BesideIsInside
<1>. HIDE DEF p
<1>3. \A x \in i .. i + p - 1 :
        ContentLeaf(version, d, x) = (IF d = 0 THEN ZeroValidator ELSE ZeroChunk)
  BY <1>1, <1>2 DEF ContentLeaf
<1>4. \A n \in 1 .. p : i + n - 1 \in i .. i + p - 1
  BY <1>1
<1>5. \A n \in 1 .. p :
        ContentLeaf(version, d, i + n - 1) = (IF d = 0 THEN ZeroValidator ELSE ZeroChunk)
  BY <1>3, <1>4
<1>6. [n \in 1 .. p |-> ContentLeaf(version, d, i + n - 1)]
        = [n \in 1 .. p |-> IF d = 0 THEN ZeroValidator ELSE ZeroChunk]
  BY <1>5
<1>. QED
  BY <1>6 DEF Content, Zero, p

\* Validators are appended, so only the last one has none beside it: a proof
\* of more than a leaf has the leaves of the tree.
LEMMA TreeIsContent ==
  ASSUME NEW version, NEW d \in Nat \ {0}, NEW i \in Nat, i % 2 ^ d = 0,
         NEW x \in i .. i + 2 ^ d - 1,
         \A y \in i .. i + 2 ^ d - 1 : version[y] # 0 => \A k \in 0 .. y : version[k] # 0
  PROVE  TreeLeaf(version, x) = ContentLeaf(version, d, x)
<1>. DEFINE p == 2 ^ d
<1>1. p \in Nat \ {0} /\ x \in i .. i + p - 1
  BY PowerOfTwo
<1>2. Beside(x) \in i .. i + p - 1
  BY BesideIsInside
<1>3. \A y \in i .. i + p - 1 : version[y] # 0 => \A k \in 0 .. y : version[k] # 0
  OBVIOUS
<1>. HIDE DEF p
<1>4. x \in Nat /\ (x % 2 = 0 \/ x % 2 = 1)
  BY <1>1
<1>5. CASE version[x] # 0
  BY <1>5 DEF TreeLeaf, ContentLeaf
<1>6. CASE version[x] = 0 /\ x % 2 = 1
  BY <1>6 DEF TreeLeaf, ContentLeaf, Beside, ZeroChunk
<1>7. CASE version[x] = 0 /\ x % 2 = 0
  <2>1. Beside(x) = x + 1
    BY <1>7 DEF Beside
  <2>2. version[x + 1] = 0
    BY <1>2, <1>3, <1>4, <1>7, <2>1
  <2>. QED
    BY <1>7, <2>1, <2>2 DEF TreeLeaf, ContentLeaf, ZeroChunk
<1>. QED
  BY <1>4, <1>5, <1>6, <1>7

\* A Redis in which the work is done, or an empty one.
LEMMA InitTree == Init => TreeIsRight
<1>. SUFFICES ASSUME Init PROVE TreeIsRight
  OBVIOUS
<1>1. /\ todo = {} /\ queue = EmptyQueue /\ worker = [w \in Worker |-> Idle]
      /\ L \in Nat \ {0} /\ Depth \in Nat
  BY TreeSize DEF Init
<1>2. Pending(todo) = {} /\ queue.data = {} /\ \A w \in Worker : worker[w].pc = "idle"
  BY <1>1 DEF Pending, EmptyQueue, Idle
<1>3. NoneShared(worker)
  BY <1>2 DEF NoneShared, IsActive
<1>4. WillRun({}, todo, queue.data, worker)
  BY <1>2 DEF WillRun
<1>5. ASSUME NEW key \in NodeKey PROVE IsCovered(key, {}, proofs[key], validators)
  <2>. DEFINE d == key[1]
              i == key[2]
              p == 2 ^ d
  <2>1. /\ d \in Nat /\ i \in Nat /\ i + p <= L /\ p \in Nat \ {0} /\ i % p = 0
        /\ i # L /\ key \in Key
    BY NodeKeyFits DEF NodeKey
  <2>2. \A x \in i .. i + p - 1 : x \in Index /\ x \in 0 .. L /\ x # L
    <3>. HIDE DEF d, i, p
    <3>. QED
      BY <1>1, <2>1 DEF Index
  <2>3. CASE validators = [k \in 0 .. L |-> 0] /\ proofs = [k \in Key |-> <<>>]
    <3>1. \A x \in i .. i + p - 1 : validators[x] = 0
      BY <2>2, <2>3
    <3>2. Content(validators, d, i) = Zero(d)
      BY <2>1, <3>1, ContentOfNothing
    <3>. QED
      BY <2>1, <2>3, <3>2 DEF IsCovered
  <2>4. CASE /\ validators = [k \in 0 .. L |-> IF k = L THEN ZeroValidator ELSE beacon[k]]
             /\ proofs = SettledProofs(beacon)
    <3>1. \A x \in i .. i + p - 1 : validators[x] = beacon[x]
      BY <2>2, <2>4
    <3>2. Content(validators, d, i) = Content(beacon, d, i)
      BY <2>1, <3>1, ContentStays
    <3>3. CASE \A n \in 0 .. p - 1 : beacon[i + n] = 0
      <4>1. proofs[key] = <<>>
        BY <2>1, <2>4, <3>3 DEF SettledProofs
      <4>2. \A x \in i .. i + p - 1 : beacon[x] = 0
        <5>. HIDE DEF d, i, p
        <5>1. \A x \in i .. i + p - 1 : x - i \in 0 .. p - 1 /\ i + (x - i) = x
          BY <2>1
        <5>. QED
          BY <3>3, <5>1
      <4>3. Content(beacon, d, i) = Zero(d)
        BY <2>1, <4>2, ContentOfNothing
      <4>. QED
        BY <3>2, <4>1, <4>3 DEF IsCovered
    <3>4. CASE \E n \in 0 .. p - 1 : beacon[i + n] # 0
      <4>1. proofs[key] = [n \in 1 .. p |-> TreeLeaf(beacon, i + n - 1)]
        BY <2>1, <2>4, <3>4 DEF SettledProofs
      <4>2. ASSUME NEW n \in 1 .. p
            PROVE  TreeLeaf(beacon, i + n - 1) = ContentLeaf(beacon, d, i + n - 1)
        <5>1. CASE d = 0
          <6>1. p = 1 /\ n = 1
            BY <4>2, <5>1, PowerOfTwo
          <6>2. beacon[i] # 0 /\ i + n - 1 = i
            <7>. HIDE DEF d, i, p
            <7>. QED
              BY <2>1, <3>4, <6>1
          <6>. QED
            BY <6>2 DEF TreeLeaf, ContentLeaf
        <5>2. CASE d # 0
          <6>1. i + n - 1 \in i .. i + p - 1
            <7>. HIDE DEF d, i, p
            <7>. QED
              BY <2>1
          <6>2. \A y \in i .. i + p - 1 : beacon[y] # 0 => \A k \in 0 .. y : beacon[k] # 0
            BY <2>2, InitWorkIsRight DEF WorkIsRight, RegistryRight
          <6>. QED
            BY <2>1, <5>2, <6>1, <6>2, TreeIsContent
        <5>. QED
          BY <5>1, <5>2
      <4>3. proofs[key] = Content(beacon, d, i)
        BY <4>1, <4>2 DEF Content
      <4>. QED
        BY <3>2, <4>3 DEF IsCovered
    <3>. QED
      BY <3>3, <3>4
  <2>. QED
    BY <2>3, <2>4 DEF Init
<1>6. \A w \in Worker : HasFetched(worker[w], {}, validators)
  BY <1>2 DEF HasFetched
<1>. QED
  BY <1>3, <1>4, <1>5, <1>6 DEF TreeIsRight, IsTreeOf

\* It stays so with every step.
LEMMA NextTree ==
  ASSUME IInv, IInv', WorkIsRight, WorkIsRight', TreeIsRight, [Next]_vars
  PROVE  TreeIsRight'
<1>1. (scriptLost => scriptLost') /\ (disorder => disorder')
  <2>1. CASE NewRound \/ ScriptStep \/ ScriptCrash \/ LeaseExpires \/ Clean \/ UNCHANGED vars
    BY <2>1 DEF NewRound, ScriptStep, ScriptCrash, LeaseExpires, Clean, vars
  <2>2. CASE \E w \in Worker : WorkerStep(w) \/ Drop(w)
    BY <2>2, WorkerTouches
  <2>. QED
    BY <2>1, <2>2 DEF Next
<1>2. SUFFICES ASSUME ~scriptLost', ~disorder'
               PROVE  /\ NoneShared(worker')
                      /\ \E more \in SUBSET Job :
                           IsTreeOf(more, todo', queue'.data, worker', proofs', validators')
  BY DEF TreeIsRight
<1>3. /\ ~scriptLost /\ ~disorder /\ NoneShared(worker)
      /\ \E need \in SUBSET Job : IsTreeOf(need, todo, queue.data, worker, proofs, validators)
  BY <1>1, <1>2 DEF TreeIsRight
<1>4. PICK need \in SUBSET Job : IsTreeOf(need, todo, queue.data, worker, proofs, validators)
  BY <1>3
<1>5. CASE NewRound
  <2>1. worker' = worker
    BY <1>5 DEF NewRound
  <2>. QED
    BY <1>3, <1>4, <1>5, <2>1, NewRoundTree
<1>6. CASE ScriptStep
  <2>1. worker' = worker
    BY <1>6 DEF ScriptStep
  <2>. QED
    BY <1>3, <1>4, <1>6, <2>1, ScriptStepTree
<1>7. CASE ScriptCrash
  BY <1>2, <1>7 DEF ScriptCrash
<1>8. ASSUME NEW w \in Worker, WorkerStep(w) \/ Drop(w)
      PROVE  /\ NoneShared(worker')
             /\ \E more \in SUBSET Job :
                  IsTreeOf(more, todo', queue'.data, worker', proofs', validators')
  <2>1. NoneShared(worker')
    BY <1>2, <1>3, <1>8, WorkerStepShares
  <2>2. CASE Save(w)
    BY <1>3, <1>4, <2>1, <2>2, SaveTree
  <2>3. CASE ~Save(w)
    <3>1. UNCHANGED <<validators, todo, proofs>>
      BY <1>8, <2>3, WorkerTouches
    <3>2. IsTreeOf(need, todo, queue'.data, worker', proofs, validators)
      BY <1>2, <1>4, <1>8, <2>3, WorkerFetchesTree
    <3>. QED
      BY <2>1, <3>1, <3>2
  <2>. QED
    BY <2>2, <2>3
<1>9. CASE LeaseExpires \/ Clean
  <2>1. UNCHANGED <<validators, todo, worker, proofs>>
    BY <1>9 DEF LeaseExpires, Clean
  <2>2. queue'.data = queue.data
    BY <1>9, LeasesAndCleanerWork
  <2>. QED
    BY <1>3, <1>4, <2>1, <2>2
<1>10. CASE UNCHANGED vars
  BY <1>3, <1>4, <1>10 DEF vars
<1>. QED
  BY <1>5, <1>6, <1>7, <1>8, <1>9, <1>10 DEF Next

\* When nothing is left to do, no job will run, and the root is covered.
LEMMA QuietTree ==
  ASSUME IInv, WorkIsRight, TreeIsRight
  PROVE  RootIsCurrent
<1>. SUFFICES ASSUME Quiet, validators[L] # 0, ~scriptLost, ~disorder
              PROVE  proofs[<<Depth, 0>>] = ValidatorsTree
  BY DEF RootIsCurrent
<1>1. PICK need \in SUBSET Job : IsTreeOf(need, todo, queue.data, worker, proofs, validators)
  BY DEF TreeIsRight
<1>2. todo = {} /\ queue.data = {}
  BY DEF Quiet, IsDrained, WorkIsRight, IsKept, ToSet
<1>3. need = {}
  BY <1>1, <1>2 DEF IsTreeOf, WillRun, Pending
<1>4. L \in Nat \ {0} /\ Depth \in Nat \ {0} /\ 0 % L = 0
  BY TreeSize
<1>5. <<Depth, 0>> \in NodeKey
  BY <1>4 DEF NodeKey, Key, L
<1>6. \/ proofs[<<Depth, 0>>] = Content(validators, Depth, 0)
      \/ Content(validators, Depth, 0) = Zero(Depth)
  BY <1>1, <1>3, <1>5 DEF IsTreeOf, IsCovered
<1>7. \A i \in Index : validators[i] = beacon[i]
  BY <1>2 DEF WorkIsRight, RegistryRight
<1>8. \A x \in 0 .. 0 + L - 1 : x \in Index /\ 0 .. x \subseteq Index
  BY <1>4 DEF Index
<1>9. \A x \in 0 .. 0 + L - 1 : validators[x] # 0 => \A k \in 0 .. x : validators[k] # 0
  BY <1>7, <1>8 DEF WorkIsRight, RegistryRight
<1>10. \A x \in 0 .. 0 + L - 1 : TreeLeaf(validators, x) = ContentLeaf(validators, Depth, x)
  BY <1>4, <1>9, TreeIsContent DEF L
<1>11. \A n \in 1 .. L : n - 1 \in 0 .. 0 + L - 1 /\ 0 + n - 1 = n - 1
  BY <1>4
<1>12. Content(validators, Depth, 0) = ValidatorsTree
  <2>1. Content(validators, Depth, 0) = [n \in 1 .. L |-> ContentLeaf(validators, Depth, 0 + n - 1)]
    BY DEF Content, L
  <2>2. \A n \in 1 .. L : ContentLeaf(validators, Depth, 0 + n - 1) = TreeLeaf(validators, n - 1)
    BY <1>10, <1>11
  <2>. QED
    BY <2>1, <2>2 DEF ValidatorsTree
<1>13. Content(validators, Depth, 0) # Zero(Depth)
  <2>1. 0 \in Index /\ 1 \in 1 .. L /\ 0 % 2 = 0
    BY <1>4 DEF Index
  <2>2. validators[0] # 0
    BY <1>7, <2>1 DEF WorkIsRight, RegistryRight
  <2>3. ValidatorsTree[1] = validators[0]
    BY <2>1, <2>2 DEF ValidatorsTree, TreeLeaf
  <2>4. Zero(Depth)[1] = 0
    BY <1>4, <2>1 DEF Zero, ZeroChunk, L
  <2>. QED
    BY <1>12, <2>2, <2>3, <2>4
<1>. QED
  BY <1>6, <1>12, <1>13

\* When everything is done, the root is a proof about the validators saved,
\* leaf by leaf, for a tree of any depth, any batches and any workers: whatever
\* a worker made too early, dropped or made twice is made again by a job that
\* the script added, or was to be waited for.  It takes that the script did not
\* crash, and that the jobs were worked on in order where no mark protects them.
THEOREM RootIsRight == Spec => []RootIsCurrent
<1>1. Spec => []TreeIsRight
  <2>1. Init => TreeIsRight
    BY InitTree
  <2>2. IInv /\ IInv' /\ WorkIsRight /\ WorkIsRight' /\ TreeIsRight /\ [Next]_vars => TreeIsRight'
    BY NextTree
  <2>. QED
    BY <2>1, <2>2, InvariantHolds, WorkStaysRight, PTL DEF Spec
<1>2. IInv /\ WorkIsRight /\ TreeIsRight => RootIsCurrent
  BY QuietTree
<1>. QED
  BY <1>1, <1>2, InvariantHolds, WorkStaysRight, PTL
=============================================================================
