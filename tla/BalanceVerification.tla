------------------------- MODULE BalanceVerification -------------------------
(***************************************************************************)
(* The balance verification: a script that runs once for one beacon state  *)
(* saves the inputs of the circuits and adds one job per proof, the jobs   *)
(* of each level to a queue of their own; workers that each serve one      *)
(* level build the tree of proofs; the final layer combines its root with  *)
(* the root of the commitment mapper.  Indices count groups of CircuitSize *)
(* validators; the code multiplies them by CircuitSize.                    *)
(***************************************************************************)
EXTENDS Integers, Sequences, FiniteSets, WorkQueue, ScriptWrites

CONSTANTS
  Top,          \* the highest level, 37 in the code
  CircuitSize,  \* validators of a proof of level 0, 8 in the code
  ChunkSize,    \* balances of a chunk of the SSZ list, 4 in the code
  BatchSize,    \* inputs saved at once, 100 in the code
  Counted,      \* validators that are active and have the credentials
  Balance,      \* the balance of every validator
  Worker,       \* the processes that run balance_verification.rs
  LevelOf,      \* the --level of each
  Budgets,      \* bound: numbers of validators taken, with crashes of workers,
                \* leases that run out on a slow one, and whether workers
                \* wait shorter for a job than it may take to come
  NoJob         \* what an idle worker holds

ASSUME BalanceAssumption ==
  /\ Top \in Nat \ {0}
  /\ CircuitSize \in Nat \ {0} /\ ChunkSize \in 1 .. CircuitSize
  /\ BatchSize \in Nat \ {0}
  /\ LevelOf \in [Worker -> 0 .. Top]
  \* The zero validator, 0, ends with epoch 0 (getZeroValidator) and never counts.
  /\ Counted \subseteq Nat \ {0} /\ \A v \in Counted : Balance[v] \in Nat
  /\ Budgets \subseteq
       [take : 1 .. CircuitSize * 2 ^ Top, crashes : Nat, slow : Nat, stops : BOOLEAN]

VARIABLES
  budget,      \* bound: TAKE, and what may still go wrong
  todo,        \* the script: the writes left
  failed,      \* the script: ended by an error
  inputs,      \* Redis: `validator_balance_input:<index>', the keys there
  proofs,      \* Redis: `balance_verification_proof:<depth>:<index>'
  marked,      \* Redis: the keys among these that hold a placeholder
  queues,      \* the work queue of every level
  worker,      \* the workers
  final,       \* Redis: the sum in `final_layer_proof'
  hasty,       \* history: a proof of zeros was taken for one not yet made
  overwritten  \* history: the keys where a placeholder replaced a proof

vars == <<budget, todo, failed, inputs, proofs, marked, queues, worker,
          final, hasty, overwritten>>

history == <<hasty, overwritten>>

-----------------------------------------------------------------------------
(* The tree of proofs *)

\* VALIDATOR_REGISTRY_LIMIT: the index that stands for no validators.
L == 2 ^ Top

Index == 0 .. L

Key == (0 .. Top) \X Index

Take == budget.take

\* i < TAKE / CIRCUIT_SIZE, a division of numbers that are not integers.
Groups == (Take + CircuitSize - 1) \div CircuitSize

\* The validators of a group; 0 stands for the zero validator.
GroupLeaves(g) ==
  [n \in 1 .. CircuitSize |->
     IF g # L /\ g * CircuitSize + n <= Take THEN g * CircuitSize + n ELSE 0]

\* The circuit's term for a validator: its balance times whether it counts.
Term(v) == IF v \in Counted THEN Balance[v] ELSE 0

SumOf(leaves) ==
  LET sum[n \in 0 .. Len(leaves)] == IF n = 0 THEN 0 ELSE sum[n - 1] + Term(leaves[n])
  IN  sum[Len(leaves)]

\* What a proof is about: the validators (their Poseidon root, and the root
\* of their balances) and the sum.  NoProof: nothing, or a placeholder.
NoProof == [leaves |-> <<>>, sum |-> 0]

\* validator_balance_verification: the sum over the counted validators.
FirstLevelProof(g) == [leaves |-> GroupLeaves(g), sum |-> SumOf(GroupLeaves(g))]

\* Mutant: the two children are hashed in the other order.
SwappedProof(left, right) ==
  [leaves |-> right.leaves \o left.leaves, sum |-> left.sum + right.sum]

\* build_inner_level_circuit.
InnerProof(left, right) ==
  [leaves |-> left.leaves \o right.leaves, sum |-> left.sum + right.sum]

\* A job: the level of its queue, and the two children one level below.
Job == [level : 0 .. Top + 1, first : Index, second : Index]

Target(job) == <<job.level, job.first>>

\* calculateIndexes.
InnerJob(g, level) ==
  LET first == g - (g % 2 ^ level)
  IN  [level |-> level, first |-> first, second |-> first + 2 ^ (level - 1)]

GroupJob(g) == [level |-> 0, first |-> g, second |-> g]

ZeroJob(level) == [level |-> level, first |-> L, second |-> L]

-----------------------------------------------------------------------------
(* The script get_balances_input.ts *)

InputOp(at, groups) == [at |-> at, do |-> "input", groups |-> groups, job |-> NoJob]

MarkOp(at, job) == [at |-> at, do |-> "mark", groups |-> {}, job |-> job]

AddOp(at, job) == [at |-> at, do |-> "add", groups |-> {}, job |-> job]

\* The jobs of the inner nodes above the groups.
Nodes == {InnerJob(n[2], n[1]) : n \in (1 .. Top) \X (0 .. Groups - 1)}

\* Mutant: one zero job more than there are levels.
OneLevelTooMany ==
  {InputOp(<<0, 0, 0, 0>>, {L}), AddOp(<<0, 1, 0, 0>>, GroupJob(L))}
    \cup {AddOp(<<0, 2, l, 0>>, ZeroJob(l)) : l \in 1 .. Top + 2}

\* Zero tasks.
ZeroOps ==
  {InputOp(<<0, 0, 0, 0>>, {L}), AddOp(<<0, 1, 0, 0>>, GroupJob(L))}
    \cup {AddOp(<<0, 2, l, 0>>, ZeroJob(l)) : l \in 1 .. Top + 1}

BatchOp(b) == InputOp(<<1, b, 0, 0>>, {g \in 0 .. Groups - 1 : g \div BatchSize = b})

\* Mutant: the groups, not the validators, are divided into batches.
BatchesOfGroups == {BatchOp(b) : b \in 0 .. Groups \div BatchSize}

\* i <= TAKE / CIRCUIT_SIZE / batchSize, again not of integers: the last of
\* the batches is empty only when TAKE is a multiple of what a batch takes.
BatchOps == {BatchOp(b) : b \in 0 .. Take \div (CircuitSize * BatchSize)}

\* Mutant: the second child gets a placeholder too.
MarkBothChildren ==
  {MarkOp(<<3, job.level, job.first, 0>>, job) : job \in Nodes}
    \cup {MarkOp(<<3, job.level, job.first, 1>>, [job EXCEPT !.first = job.second]) : job \in Nodes}
    \cup {AddOp(<<3, job.level, job.first, 2>>, job) : job \in Nodes}

\* Mutant: the job is there before the placeholder.
AddBeforeMark ==
  {AddOp(<<3, job.level, job.first, 0>>, job) : job \in Nodes}
    \cup {MarkOp(<<3, job.level, job.first, 1>>, job) : job \in Nodes}

\* Level by level a placeholder for the first child and the job of the node.
NodeOps ==
  {MarkOp(<<3, job.level, job.first, 0>>, job) : job \in Nodes}
    \cup {AddOp(<<3, job.level, job.first, 1>>, job) : job \in Nodes}

ScriptOps ==
  ZeroOps \cup BatchOps
    \cup {AddOp(<<2, g, 0, 0>>, GroupJob(g)) : g \in 0 .. Groups - 1}
    \cup NodeOps
    \cup {[at |-> <<4, 0, 0, 0>>, do |-> "final", groups |-> {}, job |-> NoJob]}

\* A process that waits for a job, and one that does not run.
Idle == [pc |-> "idle", job |-> NoJob, left |-> NoProof, right |-> NoProof]

Ended == [Idle EXCEPT !.pc = "ended"]

Init ==
  /\ budget \in Budgets
  /\ todo = ScriptOps
  /\ failed = FALSE
  /\ inputs = {}
  /\ proofs = [k \in Key |-> NoProof]
  /\ marked = {}
  /\ queues = [l \in 0 .. Top + 1 |-> EmptyQueue]
  /\ worker = [w \in Worker |-> Idle]
  /\ final = -1
  /\ hasty = FALSE
  /\ overwritten = {}

\* The script makes its next write ...
SaveInput(op) ==
  /\ op.do = "input" /\ op.groups # {}
  /\ inputs' = inputs \cup op.groups
  /\ todo' = todo \ {op}
  /\ UNCHANGED <<failed, proofs, marked, queues, overwritten>>

\* ... but MSET without arguments is an error, which nobody catches ...
InputFails(op) ==
  /\ op.do = "input" /\ op.groups = {}
  /\ todo' = {}
  /\ failed' = TRUE
  /\ UNCHANGED <<inputs, proofs, marked, queues, overwritten>>

\* ... a placeholder goes to the first child of the job ...
Placeholder(job) == <<job.level - 1, job.first>>

MarkProof(op) ==
  /\ op.do = "mark"
  /\ overwritten' = overwritten \cup
       {key \in {Placeholder(op.job)} : proofs[key] # NoProof}
  /\ proofs' = [proofs EXCEPT ![Placeholder(op.job)] = NoProof]
  /\ marked' = marked \cup {Placeholder(op.job)}
  /\ todo' = todo \ {op}
  /\ UNCHANGED <<failed, inputs, queues>>

AddJob(op) ==
  /\ op.do = "add"
  /\ queues' = [queues EXCEPT ![op.job.level] = AddItem(@, op.job)]
  /\ todo' = todo \ {op}
  /\ UNCHANGED <<failed, inputs, proofs, marked, overwritten>>

\* ... and the input of the final layer is the last.
SaveFinalInput(op) ==
  /\ op.do = "final"
  /\ todo' = todo \ {op}
  /\ UNCHANGED <<failed, inputs, proofs, marked, queues, overwritten>>

ScriptStep ==
  /\ \E op \in todo :
       /\ IsNext(op, todo)
       /\ SaveInput(op) \/ InputFails(op) \/ MarkProof(op) \/ AddJob(op) \/ SaveFinalInput(op)
  /\ UNCHANGED <<budget, worker, final, hasty>>

-----------------------------------------------------------------------------
(* The workers, balance_verification.rs *)

QueueOf(w) == queues[LevelOf[w]]

\* The program is run for a level.
Start(w) ==
  /\ worker[w].pc = "ended"
  /\ worker' = [worker EXCEPT ![w] = Idle]
  /\ UNCHANGED <<budget, todo, failed, inputs, proofs, marked, queues, final, history>>

\* "No jobs left in queue": for --stop-after seconds, 20 by default, which is
\* less than a lease; nothing runs the program again by itself.
Stop(w) ==
  /\ budget.stops
  /\ worker[w].pc = "idle"
  /\ ~CanLease(QueueOf(w))
  /\ worker' = [worker EXCEPT ![w] = Ended]
  /\ UNCHANGED <<budget, todo, failed, inputs, proofs, marked, queues, final, history>>

\* process_queue leases a job; one without data is only completed.
WorkerLease(w) ==
  /\ worker[w].pc = "idle"
  /\ CanLease(QueueOf(w))
  /\ queues' = [queues EXCEPT ![LevelOf[w]] = Lease(@)]
  /\ LET job == Head(QueueOf(w).main) IN
       worker' = [worker EXCEPT ![w] =
         [Idle EXCEPT !.job = job,
                      !.pc = IF job \notin QueueOf(w).data THEN "complete"
                               ELSE IF job.level = 0 THEN "input" ELSE "first"]]
  /\ UNCHANGED <<budget, todo, failed, inputs, proofs, marked, final, history>>

\* The chunks of balances in the input of a group; the zero input has all.
Chunks(g) ==
  LET all == (Take + ChunkSize - 1) \div ChunkSize
      each == CircuitSize \div ChunkSize
  IN  IF g = L \/ (g + 1) * each <= all THEN each ELSE all - g * each

\* set_pw_values walks over the chunks of the circuit: too few, and it panics.
IsShort(g) == Chunks(g) < CircuitSize \div ChunkSize

\* process_first_level_job fetches its input and sets the witness.
FetchInput(w) ==
  /\ worker[w].pc = "input"
  /\ worker[w].job.first \in inputs
  /\ ~IsShort(worker[w].job.first)
  /\ worker' = [worker EXCEPT ![w].left = FirstLevelProof(worker[w].job.first),
                              ![w].pc = "save"]
  /\ UNCHANGED <<budget, todo, failed, inputs, proofs, marked, queues, final, history>>

\* fetch_proof: a placeholder has no currentEpoch and cannot be parsed; where
\* there is nothing, the proof of zeros of that depth is read.
Found(depth, i) ==
  IF <<depth, i>> \in marked \/ proofs[<<depth, i>>] # NoProof
  THEN <<depth, i>> ELSE <<depth, L>>

FirstKey(w) == Found(LevelOf[w] - 1, worker[w].job.first)

SecondKey(w) == Found(LevelOf[w] - 1, worker[w].job.second)

\* The proof of this key is still to be made.
IsDue(key) ==
  \/ \E job \in queues[key[1]].data : Target(job) = key
  \/ \E op \in todo : op.do = "add" /\ Target(op.job) = key

\* process_inner_level_job fetches the proofs of the two children.
FetchFirst(w) ==
  /\ worker[w].pc = "first"
  /\ proofs[FirstKey(w)] # NoProof
  /\ worker' = [worker EXCEPT ![w].left = proofs[FirstKey(w)], ![w].pc = "second"]
  /\ hasty' = (hasty \/ FirstKey(w)[2] # worker[w].job.first)
  /\ UNCHANGED <<budget, todo, failed, inputs, proofs, marked, queues, final, overwritten>>

FetchSecond(w) ==
  LET own == <<LevelOf[w] - 1, worker[w].job.second>> IN
  /\ worker[w].pc = "second"
  /\ proofs[SecondKey(w)] # NoProof
  /\ worker' = [worker EXCEPT ![w].right = proofs[SecondKey(w)], ![w].pc = "save"]
  /\ hasty' = (hasty \/ (SecondKey(w) # own /\ IsDue(own)))
  /\ UNCHANGED <<budget, todo, failed, inputs, proofs, marked, queues, final, overwritten>>

\* An error of a fetch: the next job is tried, the lease is left to run out.
GiveUp(w) ==
  /\ \/ worker[w].pc = "input" /\ worker[w].job.first \notin inputs
     \/ worker[w].pc = "first" /\ proofs[FirstKey(w)] = NoProof
     \/ worker[w].pc = "second" /\ proofs[SecondKey(w)] = NoProof
  /\ worker' = [worker EXCEPT ![w] = Idle]
  /\ UNCHANGED <<budget, todo, failed, inputs, proofs, marked, queues, final, history>>

\* set_pw_values panics and the process ends.
Panic(w) ==
  /\ worker[w].pc = "input"
  /\ worker[w].job.first \in inputs
  /\ IsShort(worker[w].job.first)
  /\ worker' = [worker EXCEPT ![w] = Ended]
  /\ UNCHANGED <<budget, todo, failed, inputs, proofs, marked, queues, final, history>>

\* prove and save_balance_proof.
Save(w) ==
  /\ worker[w].pc = "save"
  /\ proofs' = [proofs EXCEPT ![Target(worker[w].job)] =
       IF LevelOf[w] = 0 THEN worker[w].left ELSE InnerProof(worker[w].left, worker[w].right)]
  /\ marked' = marked \ {Target(worker[w].job)}
  /\ worker' = [worker EXCEPT ![w].pc = "complete"]
  /\ UNCHANGED <<budget, todo, failed, inputs, queues, final, history>>

WorkerComplete(w) ==
  /\ worker[w].pc = "complete"
  /\ queues' = [queues EXCEPT ![LevelOf[w]] = Complete(@, worker[w].job)]
  /\ worker' = [worker EXCEPT ![w] = Idle]
  /\ UNCHANGED <<budget, todo, failed, inputs, proofs, marked, final, history>>

\* A worker crashes at its job.
Crash(w) ==
  /\ budget.crashes > 0
  /\ budget' = [budget EXCEPT !.crashes = @ - 1]
  /\ worker[w].pc \notin {"idle", "ended"}
  /\ worker' = [worker EXCEPT ![w] = Ended]
  /\ UNCHANGED <<todo, failed, inputs, proofs, marked, queues, final, history>>

\* A lease runs out, maybe under a worker that is slow ...
LeaseExpires(l) ==
  /\ CanExpire(queues[l])
  /\ queues' = [queues EXCEPT ![l] = Expire(@)]
  /\ IF \E w \in Worker : worker[w].job = Expiring(queues[l])
     THEN budget.slow > 0 /\ budget' = [budget EXCEPT !.slow = @ - 1]
     ELSE UNCHANGED budget
  /\ UNCHANGED <<todo, failed, inputs, proofs, marked, worker, final, history>>

\* ... and ligth_cleaner.ts, which serves all queues, puts the job back.
Clean(l) ==
  /\ CanPutBack(queues[l])
  /\ queues' = [queues EXCEPT ![l] = PutBack(@)]
  /\ UNCHANGED <<budget, todo, failed, inputs, proofs, marked, worker, final, history>>

-----------------------------------------------------------------------------
(* The final layer, final_layer.rs *)

\* The validators of the beacon state the script took, and their sum.
StateLeaves == [n \in 1 .. CircuitSize * L |-> IF n <= Take THEN n ELSE 0]

RightSum ==
  LET sum[n \in 0 .. Take] == IF n = 0 THEN 0 ELSE sum[n - 1] + Term(n)
  IN  sum[Take]

\* What the commitment mapper may have as its root: it follows the head of
\* the beacon chain by itself, not the state the script took.
MapperRoots == {[n \in 1 .. CircuitSize * L |-> IF n <= m THEN n ELSE 0] : m \in 0 .. Take}

\* Mutant: the final circuit leaves the roots of the beacon state alone.
AnyMapperRoot(proof, root) == proof.leaves = root

\* build_final_circuit: the balances are of the mapper's validators, and both
\* roots are, mixed with the same length, in the beacon state.
FinalAccepts(proof, root) == proof.leaves = root /\ root = StateLeaves

\* final_layer.rs: fetch_final_layer_input, fetch_proof of the balances and
\* of the mapper, prove and save_final_proof.  Without input, on a placeholder
\* or if there is no proof, the program ends and nothing changes.
FinalLayer ==
  /\ ~failed /\ \A op \in todo : op.do # "final"
  /\ \E root \in MapperRoots : FinalAccepts(proofs[Found(Top, 0)], root)
  /\ final' = proofs[Found(Top, 0)].sum
  /\ UNCHANGED <<budget, todo, failed, inputs, proofs, marked, queues, worker, history>>

WorkerStep(w) ==
  \/ WorkerLease(w) \/ FetchInput(w)
  \/ FetchFirst(w) \/ FetchSecond(w) \/ GiveUp(w) \/ Panic(w) \/ Save(w)
  \/ WorkerComplete(w)

Next ==
  \/ ScriptStep
  \/ \E w \in Worker : Start(w) \/ WorkerStep(w) \/ Stop(w) \/ Crash(w)
  \/ \E l \in 0 .. Top + 1 : LeaseExpires(l) \/ Clean(l)
  \/ FinalLayer

\* The script goes on, and so does a worker while it runs; leases end, and the
\* cleaner runs.  Whether the workers are run is the operator's affair.
Fairness ==
  /\ WF_vars(ScriptStep)
  /\ \A w \in Worker : WF_vars(WorkerStep(w))
  /\ \A l \in 0 .. Top : WF_vars(LeaseExpires(l) \/ Clean(l))

Spec == Init /\ [][Next]_vars /\ Fairness
-----------------------------------------------------------------------------
(* Properties *)

Proof == [leaves : Seq(Nat), sum : Nat]

Op ==
  [at : Place, do : {"input", "mark", "add", "final"}, groups : SUBSET Index,
   job : Job \cup {NoJob}]

WorkerState ==
  [pc : {"ended", "idle", "input", "first", "second", "save", "complete"},
   job : Job \cup {NoJob}, left : Proof, right : Proof]

\* The values every variable keeps to.
TypeOK ==
  /\ budget \in [take : Nat, crashes : Nat, slow : Nat, stops : BOOLEAN]
  /\ todo \subseteq Op
  /\ failed \in BOOLEAN
  /\ hasty \in BOOLEAN /\ overwritten \subseteq Key
  /\ inputs \subseteq Index
  /\ proofs \in [Key -> Proof]
  /\ marked \subseteq Key
  /\ queues \in [0 .. Top + 1 -> WorkQueues(Job)]
  /\ worker \in [Worker -> WorkerState]
  /\ final \in Int

\* Whatever the workers raced for and the mapper did meanwhile, a final proof
\* states the sum over the active validators with the credentials, of the
\* whole registry taken.  The roots connected in build_final_circuit see to
\* it: proofs that took zeros for a child not yet made exist.
FinalProofIsRight == final # -1 => final = RightSum

\* A proof that is not there yet, where a placeholder stands, is still to be
\* made, unless this very placeholder destroyed it: a worker may be faster
\* than the script.
PlaceholdersAwaited == \A key \in marked : IsDue(key) \/ key \in overwritten

\* Above a placeholder nothing has been made yet, also where it destroyed a
\* proof: no node is about a first child that is missing, or was made anew.
NothingAboveMarked == \A key \in marked : proofs[<<key[1] + 1, key[2]>>] = NoProof

Drained == \A l \in 0 .. Top : IsDrained(queues[l])

\* When all levels are done, the root is about all validators taken: unless
\* a worker took zeros for a second child, which carries no placeholder.
RootIsComplete ==
  (todo = {} /\ ~failed /\ ~hasty /\ overwritten = {} /\ Drained)
    => proofs[<<Top, 0>>] = [leaves |-> StateLeaves, sum |-> RightSum]

\* A worker of the level runs, or there is nothing to do.
IsServed(l) ==
  IsDrained(queues[l]) \/ \E w \in Worker : LevelOf[w] = l /\ worker[w].pc # "ended"

\* The levels are done some day, if every level with jobs gets a worker again
\* and again, and though no worker waits for a child.  Not if a placeholder
\* destroyed a proof, an input is short, or TAKE is a multiple of what a batch
\* takes, when the script fails.
LevelsAreDone ==
  (\A l \in 0 .. Top : []<>IsServed(l))
    => <>(\/ overwritten # {}
          \/ \E g \in 0 .. Groups - 1 : IsShort(g)
          \/ Take % (CircuitSize * BatchSize) = 0
          \/ todo = {} /\ ~failed /\ Drained)
=============================================================================
