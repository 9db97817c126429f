-------------------------- MODULE CommitmentMapper --------------------------
(***************************************************************************)
(* The validators commitment mapper.  A script follows the validators of   *)
(* the beacon chain, saves those that changed in Redis and adds one job    *)
(* per leaf and inner node of the validators' Merkle tree above them; the  *)
(* workers turn jobs into recursive proofs, each from the proofs of two    *)
(* children; a cleaner puts the jobs of lost workers back.  What a proof   *)
(* proves about (its two hashes) is represented by the leaves it covers.   *)
(***************************************************************************)
EXTENDS Integers, Sequences, FiniteSets, WorkQueue, ScriptWrites

CONSTANTS
  Depth,            \* height of the tree, 40 in the code
  BatchSize,        \* validators saved at once, 200 in the code
  Worker,           \* the processes that run commitment_mapper.rs
  Budgets,          \* bound: starts of the script, and what may happen then:
                    \* validators of an earlier run, validators of this one,
                    \* rounds, faults of workers, crashes of the script
  MaxRound,         \* bound: the last stamp of a round
  NoJob             \* what an idle worker holds

ASSUME MapperAssumption ==
  /\ Depth \in Nat \ {0}
  /\ BatchSize \in Nat \ {0}
  /\ MaxRound \in Nat \ {0}
  /\ Budgets \subseteq [initial : 0 .. 2 ^ Depth, count : 1 .. 2 ^ Depth,
                         rounds : 0 .. MaxRound - 1, faults : Nat, crashes : Nat]

VARIABLES
  beacon,      \* the version of every validator, 0 for one that is not there
  validators,  \* Redis: the version saved under `validator:<index>'
  proofs,      \* Redis: `validator_proof:<depth>:<index>', <<>> if not there
  marked,      \* Redis: the keys whose value says needsChange
  queue,       \* the work queue
  todo,        \* the script: the writes left in this round
  round,       \* the stamp of this round, also the version of what changes
  worker,      \* the workers
  budget,      \* bound: the rounds, faults and crashes that may still come
  scriptLost,  \* history: a crash left a round unfinished
  disorder     \* history: a proof was read before its job was done, or
               \* two workers were to save the same proof

vars == <<beacon, validators, proofs, marked, queue, todo, round, worker,
          budget, scriptLost, disorder>>

redis == <<validators, proofs, marked, queue>>

-----------------------------------------------------------------------------
(* The tree *)

\* VALIDATOR_REGISTRY_LIMIT: the index that stands for a validator that does
\* not exist, and at depth d for a subtree of 2^d of them.
L == 2 ^ Depth

Index == 0 .. L - 1

Key == (0 .. Depth) \X (0 .. L)

\* A leaf is a version, or one of the two kinds of nothing: the hash of a
\* validator whose fields are zero, and the zero chunk of an SSZ list.
ZeroValidator == -1

ZeroChunk == 0

Leaf == {ZeroValidator} \cup (0 .. MaxRound)

\* A job of 8 bytes proves a leaf (level -1), one of 24 bytes the node above
\* two proofs of a level.  The round makes a job distinct, as its id does.
Job == [level : -1 .. Depth - 1, first : 0 .. L, second : 0 .. L, round : 0 .. MaxRound]

\* The key a worker saves its proof under.
Target(job) == <<job.level + 1, job.first>>

\* Mutant: calculateIndexes does not round down to the first leaf.
UnroundedFirst(i, level) == i

\* calculateIndexes: the two children, at a level, of the node above a leaf.
FirstOf(i, level) == i - (i % 2 ^ (level + 1))

InnerJob(i, level, r) ==
  [level |-> level, first |-> FirstOf(i, level),
   second |-> FirstOf(i, level) + 2 ^ level, round |-> r]

LeafJob(i, r) == [level |-> -1, first |-> i, second |-> i, round |-> r]

-----------------------------------------------------------------------------
(* The script get_changed_validators.ts *)

SaveOp(at, indices) == [at |-> at, do |-> "save", indices |-> indices, job |-> NoJob]

MarkOp(at, job) == [at |-> at, do |-> "mark", indices |-> {}, job |-> job]

AddOp(at, job) == [at |-> at, do |-> "add", indices |-> {}, job |-> job]

ZeroJob(level, r) == [level |-> level, first |-> L, second |-> L, round |-> r]

\* Mutant: addZeroTasks adds no job for the zero validator.
ZeroOpsWithoutLeaf(r) ==
  {SaveOp(<<0, 0, 0, 0>>, {L})}
    \cup {AddOp(<<0, 2, l, 0>>, ZeroJob(l, r)) : l \in 0 .. Depth - 1}

\* The proofs about validators that do not exist.
ZeroOps(r) ==
  {SaveOp(<<0, 0, 0, 0>>, {L}), AddOp(<<0, 1, 0, 0>>, LeafJob(L, r))}
    \cup {AddOp(<<0, 2, l, 0>>, ZeroJob(l, r)) : l \in 0 .. Depth - 1}

\* saveValidatorsInBatches: every batch is saved, then its leaves are added.
LeafOps(changed, r) ==
  LET BatchOf(i) == Cardinality({n \in changed : n < i}) \div BatchSize
  IN  {SaveOp(<<1, b, 0, 0>>, {i \in changed : BatchOf(i) = b}) : b \in {BatchOf(i) : i \in changed}}
        \cup {AddOp(<<1, BatchOf(i), 1, i>>, LeafJob(i, r)) : i \in changed}

\* Mutant: addInnerLevelProofs adds the job before it marks the proof.
AddBeforeMark(changed, r) ==
  LET Nodes == {InnerJob(n[2], n[1], r) : n \in (0 .. Depth - 1) \X changed}
  IN  {AddOp(<<2, job.level, job.first, 0>>, job) : job \in Nodes}
        \cup {MarkOp(<<2, job.level, job.first, 1>>, job) : job \in Nodes}

\* addInnerLevelProofs: from the leaves up, every node above a change is
\* marked, so that no one takes its old proof, and added.  Leaves are not.
InnerOps(changed, r) ==
  LET Nodes == {InnerJob(n[2], n[1], r) : n \in (0 .. Depth - 1) \X changed}
  IN  {MarkOp(<<2, job.level, job.first, 0>>, job) : job \in Nodes}
        \cup {AddOp(<<2, job.level, job.first, 1>>, job) : job \in Nodes}

-----------------------------------------------------------------------------

Idle == [pc |-> "idle", job |-> NoJob, left |-> <<>>, right |-> <<>>]

\* The leaf of a validator in the proofs above it: fetch_proof has a validator
\* of zeros beside the last one of an odd number, and chunks of zeros after it.
TreeLeaf(version, i) ==
  IF version[i] = 0 /\ i % 2 = 1 /\ version[i - 1] # 0 THEN ZeroValidator ELSE version[i]

\* Proofs of a Redis in which the work for these validators is done.
SettledProofs(version) ==
  [k \in Key |->
     IF k[2] = L THEN [n \in 1 .. 2 ^ k[1] |-> IF k[1] = 0 THEN ZeroValidator ELSE ZeroChunk]
     ELSE IF k[2] % 2 ^ k[1] = 0 /\ \E n \in 0 .. 2 ^ k[1] - 1 : version[k[2] + n] # 0
     THEN [n \in 1 .. 2 ^ k[1] |-> TreeLeaf(version, k[2] + n - 1)]
     ELSE <<>>]

\* The script starts with an empty Redis, or with one in which an earlier
\* run of it is done with the first validators.
Init ==
  /\ budget \in Budgets
  /\ round = 1
  /\ \/ /\ budget.initial = 0
        /\ beacon = [i \in Index |-> 0]
        /\ validators = [i \in 0 .. L |-> 0]
        /\ proofs = [k \in Key |-> <<>>]
     \/ /\ budget.initial > 0
        /\ beacon = [i \in Index |-> IF i < budget.initial THEN 1 ELSE 0]
        /\ validators = [i \in 0 .. L |-> IF i = L THEN ZeroValidator ELSE beacon[i]]
        /\ proofs = SettledProofs(beacon)
  /\ marked = {}
  /\ queue = EmptyQueue
  /\ todo = {}
  /\ worker = [w \in Worker |-> Idle]
  /\ scriptLost = FALSE
  /\ disorder = FALSE

\* The next epoch, or the first one after a start of the script: the zero
\* tasks unless the zero validator is there, then what differs from Redis.
\* prevValidators is what Redis has: it was read from there or saved there.
NewRound ==
  /\ todo = {}
  /\ budget.rounds > 0
  /\ budget' = [budget EXCEPT !.rounds = @ - 1]
  /\ round' = round + 1
  /\ \E touched \in SUBSET (0 .. budget.count - 1) :
       beacon' = [i \in Index |->
         IF i \in touched \/ (i < budget.count /\ beacon[i] = 0) THEN round + 1 ELSE beacon[i]]
  /\ LET changed == {i \in Index : beacon'[i] # validators[i]}
     IN  todo' = (IF validators[L] = 0 THEN ZeroOps(round + 1) ELSE {})
                   \cup LeafOps(changed, round + 1) \cup InnerOps(changed, round + 1)
  /\ UNCHANGED <<redis, worker, scriptLost, disorder>>

\* The script makes its next write.
SaveValidators(op) ==
  /\ op.do = "save"
  /\ validators' = [i \in 0 .. L |->
       IF i \in op.indices THEN (IF i = L THEN ZeroValidator ELSE beacon[i]) ELSE validators[i]]
  /\ UNCHANGED <<proofs, marked, queue>>

MarkProof(op) ==
  /\ op.do = "mark"
  /\ proofs' = [proofs EXCEPT ![Target(op.job)] = <<>>]
  /\ marked' = marked \cup {Target(op.job)}
  /\ UNCHANGED <<validators, queue>>

AddJob(op) ==
  /\ op.do = "add"
  /\ queue' = AddItem(queue, op.job)
  /\ UNCHANGED <<validators, proofs, marked>>

ScriptStep ==
  /\ \E op \in todo :
       /\ IsNext(op, todo)
       /\ todo' = todo \ {op}
       /\ SaveValidators(op) \/ MarkProof(op) \/ AddJob(op)
  /\ UNCHANGED <<beacon, round, worker, budget, scriptLost, disorder>>

\* A crash of the script between two writes; the writes left are forgotten.
ScriptCrash ==
  /\ budget.crashes > 0
  /\ budget' = [budget EXCEPT !.crashes = @ - 1]
  /\ todo # {}
  /\ todo' = {}
  /\ scriptLost' = TRUE
  /\ UNCHANGED <<beacon, redis, round, worker, disorder>>

-----------------------------------------------------------------------------
(* The workers, commitment_mapper.rs *)

\* A job of this round or an earlier one will still save a proof at key.
IsDue(key, job) ==
  \E j \in queue.data \ {job} :
    /\ Target(j) = key /\ j.round <= job.round
    /\ \A w \in Worker : worker[w].job = j => worker[w].pc # "complete"

\* Another worker is about to save a proof at the same key.
IsShared(job, w) ==
  \E v \in Worker \ {w} :
    worker[v].pc \notin {"idle", "complete"} /\ Target(worker[v].job) = Target(job)

WorkerLease(w) ==
  /\ worker[w].pc = "idle"
  /\ CanLease(queue)
  /\ queue' = Lease(queue)
  /\ LET job == Head(queue.main) IN
       /\ worker' = [worker EXCEPT ![w] =
            [Idle EXCEPT !.job = job,
                         !.pc = IF job \notin queue.data THEN "complete"
                                  ELSE IF job.level = -1 THEN "validator" ELSE "first"]]
       /\ disorder' = (disorder \/ IsShared(job, w))
  /\ UNCHANGED <<beacon, validators, proofs, marked, todo, round, budget, scriptLost>>

\* fetch_validator.
FetchValidator(w) ==
  /\ worker[w].pc = "validator"
  /\ validators[worker[w].job.first] # 0
  /\ worker' = [worker EXCEPT ![w].left = <<validators[worker[w].job.first]>>,
                              ![w].pc = "save"]
  /\ UNCHANGED <<beacon, redis, todo, round, budget, scriptLost, disorder>>

\* The key fetch_proof reads in the end: the proof of zeros of that depth
\* where there is none of its own.
Found(level, i) ==
  IF <<level, i>> \in marked \/ proofs[<<level, i>>] # <<>>
  THEN <<level, i>> ELSE <<level, L>>

\* fetch_proof has a proof to return.
FetchFirst(w) ==
  LET key == Found(worker[w].job.level, worker[w].job.first) IN
  /\ worker[w].pc = "first"
  /\ proofs[key] # <<>>
  /\ worker' = [worker EXCEPT ![w].left = proofs[key], ![w].pc = "second"]
  /\ disorder' = (disorder \/ IsDue(<<worker[w].job.level, worker[w].job.first>>, worker[w].job))
  /\ UNCHANGED <<beacon, redis, todo, round, budget, scriptLost>>

FetchSecond(w) ==
  LET key == Found(worker[w].job.level, worker[w].job.second) IN
  /\ worker[w].pc = "second"
  /\ proofs[key] # <<>>
  /\ worker' = [worker EXCEPT ![w].right = proofs[key], ![w].pc = "save"]
  /\ disorder' = (disorder \/ IsDue(<<worker[w].job.level, worker[w].job.second>>, worker[w].job))
  /\ UNCHANGED <<beacon, redis, todo, round, budget, scriptLost>>

\* fetch_proof fails: there is no proof, not even of zeros, or it stayed
\* marked through six reads ten seconds apart.  The lease is left to run out.
GiveUp(w) ==
  /\ \/ /\ worker[w].pc = "validator"
        /\ validators[worker[w].job.first] = 0
     \/ /\ worker[w].pc = "first"
        /\ proofs[Found(worker[w].job.level, worker[w].job.first)] = <<>>
     \/ /\ worker[w].pc = "second"
        /\ proofs[Found(worker[w].job.level, worker[w].job.second)] = <<>>
  /\ worker' = [worker EXCEPT ![w] = Idle]
  /\ UNCHANGED <<beacon, redis, todo, round, budget, scriptLost, disorder>>

\* Mutant: no inner node is taken for one of zeros.
NeverZero(job) == FALSE

\* is_zero, the last argument of handle_commitment_mapper_inner_level_proof.
IsZero(job) == job.second = L /\ job.level = 0

\* Mutant: the children are hashed in the other order.
SwappedNode(job, left, right) ==
  IF IsZero(job) THEN [k \in 1 .. Len(left) + Len(right) |-> ZeroChunk]
                 ELSE right \o left

\* What the circuit proves from two proofs: each hash times `not is_zero'.
Node(job, left, right) ==
  IF IsZero(job) THEN [k \in 1 .. Len(left) + Len(right) |-> ZeroChunk]
                 ELSE left \o right

\* prove and save_validator_proof; the new value says needs_change: false.
Save(w) ==
  LET job == worker[w].job IN
  /\ worker[w].pc = "save"
  /\ proofs' = [proofs EXCEPT ![Target(job)] =
       IF job.level = -1 THEN worker[w].left ELSE Node(job, worker[w].left, worker[w].right)]
  /\ marked' = marked \ {Target(job)}
  /\ worker' = [worker EXCEPT ![w].pc = "complete"]
  /\ UNCHANGED <<beacon, validators, queue, todo, round, budget, scriptLost, disorder>>

WorkerComplete(w) ==
  /\ worker[w].pc = "complete"
  /\ queue' = Complete(queue, worker[w].job)
  /\ worker' = [worker EXCEPT ![w] = Idle]
  /\ UNCHANGED <<beacon, validators, proofs, marked, todo, round, budget, scriptLost, disorder>>

\* The worker crashes and is started again, or Redis fails one of its calls.
Drop(w) ==
  /\ budget.faults > 0
  /\ budget' = [budget EXCEPT !.faults = @ - 1]
  /\ worker[w].pc # "idle"
  /\ worker' = [worker EXCEPT ![w] = Idle]
  /\ UNCHANGED <<beacon, redis, todo, round, scriptLost, disorder>>

\* A lease runs out (30 seconds), of a job nobody works on any more or, as a
\* proof may take longer, under a worker that goes on with it ...
LeaseExpires ==
  /\ CanExpire(queue)
  /\ queue' = Expire(queue)
  /\ IF \E w \in Worker : worker[w].job = Expiring(queue)
     THEN budget.faults > 0 /\ budget' = [budget EXCEPT !.faults = @ - 1]
     ELSE UNCHANGED budget
  /\ UNCHANGED <<beacon, validators, proofs, marked, todo, round, worker, scriptLost, disorder>>

\* ... and ligth_cleaner.ts, which looks every five seconds, puts the job back.
Clean ==
  /\ CanPutBack(queue)
  /\ queue' = PutBack(queue)
  /\ UNCHANGED <<beacon, validators, proofs, marked, todo, round, worker, budget, scriptLost, disorder>>

WorkerStep(w) ==
  \/ WorkerLease(w) \/ FetchValidator(w) \/ FetchFirst(w) \/ FetchSecond(w)
  \/ GiveUp(w) \/ Save(w) \/ WorkerComplete(w)

Next ==
  \/ NewRound \/ ScriptStep \/ ScriptCrash
  \/ \E w \in Worker : WorkerStep(w) \/ Drop(w)
  \/ LeaseExpires \/ Clean

\* Every process goes on, a lease ends and the cleaner cleans.
Fairness ==
  /\ WF_vars(ScriptStep)
  /\ \A w \in Worker : WF_vars(WorkerStep(w))
  /\ WF_vars(LeaseExpires)
  /\ WF_vars(Clean)

Spec == Init /\ [][Next]_vars /\ Fairness
-----------------------------------------------------------------------------
(* Properties *)

WorkerState ==
  [pc : {"idle", "validator", "first", "second", "save", "complete"},
   job : Job \cup {NoJob}, left : Seq(Leaf), right : Seq(Leaf)]

Op ==
  [at : Place, do : {"save", "mark", "add"}, indices : SUBSET (0 .. L), job : Job \cup {NoJob}]

\* The values every variable keeps to.
TypeOK ==
  /\ beacon \in [Index -> 0 .. MaxRound]
  /\ validators \in [0 .. L -> Leaf]
  /\ proofs \in [Key -> Seq(Leaf)]
  /\ marked \subseteq Key
  /\ queue \in WorkQueues(Job)
  /\ todo \subseteq Op
  /\ round \in 0 .. MaxRound
  /\ worker \in [Worker -> WorkerState]
  /\ budget \in [initial : 0 .. L, count : 1 .. L, rounds : Nat, faults : Nat, crashes : Nat]
  /\ scriptLost \in BOOLEAN
  /\ disorder \in BOOLEAN

\* A job for this key is in Redis and has its data, or the script will add it.
IsAwaited(key) ==
  \/ \E job \in queue.data : Target(job) = key
  \/ \E op \in todo : op.do = "add" /\ Target(op.job) = key

\* Whoever waits for a marked proof does not wait in vain: its job is still
\* due, unless the script crashed after the mark (saveValidatorProof) and
\* before addItem.
MarkedIsAwaited == scriptLost \/ \A key \in marked : IsAwaited(key)

\* The leaves of a proof are of the validators at its place in the tree, at
\* a version they once had, or are nothing.  Children are never swapped,
\* taken from another subtree or counted at another depth, whatever workers
\* race.
ProofsKeepPlaces ==
  \A key \in Key : proofs[key] # <<>> =>
    /\ Len(proofs[key]) = 2 ^ key[1]
    /\ \A k \in 1 .. 2 ^ key[1] :
         proofs[key][k] \notin {ZeroChunk, ZeroValidator}
           => key[2] # L /\ proofs[key][k] <= beacon[key[2] + k - 1]

Quiet ==
  /\ todo = {}
  /\ IsDrained(queue)
  /\ \A w \in Worker : worker[w].pc = "idle"

\* The SSZ list of the validators Redis has, chunks of zero after its end;
\* but a validator of zeros beside the last one of an odd number of them.
ValidatorsTree == [k \in 1 .. L |-> TreeLeaf(validators, k - 1)]

\* When everything is done, the proof at the root is about the validators
\* that were saved, leaf by leaf: the claim of Commitment_Mapper.md, but for
\* what fetch_proof puts beside the last of an odd number of them.  It needs
\* the jobs to be worked on in order where no mark protects them (`disorder')
\* and no crash of the script between a save and its jobs.
RootIsCurrent ==
  Quiet /\ validators[L] # 0 /\ ~scriptLost /\ ~disorder => proofs[<<Depth, 0>>] = ValidatorsTree

\* Nothing is left undone: the workers get through what a script that does
\* not crash gave them, whatever they dropped and whichever lease ran out.
EventuallyQuiet == []<>(Quiet \/ scriptLost)
=============================================================================
