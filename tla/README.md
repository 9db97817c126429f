# DendrETH: a verification development

DendrETH relays the beacon chain of Ethereum to other chains. A **relay** follows the
beacon chain, has a zero-knowledge circuit prove the step from one header to a later
one, and posts the proof to a **verifier contract** that remembers the headers it was
led to. This directory models that pipeline in TLA+, checks it with TLC on small
instances, and proves its main safety properties with TLAPS for every value of the
constants. Paths are relative to `src/`.

Beside the relay, the repository holds a second pipeline: recursive plonky2 proofs about the
validators of the beacon chain and their balances, made by scripts and workers that share
work queues and a Redis. It is modelled too, from the queues down to the limbs of a number.

## 1. The system

### Components, their state and their operations

| Component | Code | State | Operations |
|---|---|---|---|
| Publisher, one process per target chain | `relay/on_chain_publisher.ts`, `relay/implementations/publish_evm_transaction.ts`, `solidity-contract.ts` | the flag `isDrainRunning`; activations of `drainUpdatesInRedis` with slot, proof, failures in a row; activations of `publishTransaction` with nonce and number of sends | start, notification, one turn of the drain, retry with bumped fee, `handleFailure`, crash |
| Scheduler, a loop in every publisher | `askForUpdates` in `on_chain_publisher.ts`, `relay/utils/orchestrator.ts` | the contract's slot and the head read at the beginning of a round | read both, walk over the jobs, choose the next slot, add a job |
| Beacon API client | `relay/implementations/beacon-api.ts` | index of the current endpoint | head, walks to the closest existing block, states, fallback between endpoints |
| Polling worker | `relay/workers/poll-updates/` | the job it is at | fetch the proof input, add a proof job |
| Proof workers and proving server | `relay/workers/prover/`, `relay/implementations/prover.ts` | the job; busy or ready | look for the proof, prove, save, notify |
| Cleaner | `relay/workers/cleaner.ts` | the waiting jobs it listed | remove duplicates |
| Redis and BullMQ | `relay/implementations/redis.ts`, external | two job queues, the proofs by `from` and `to`, a notification channel | save, find, publish, subscribe |
| Circuit `light_client` | `beacon-light-client/circom/circuits/light_client.circom` | none | accept or refuse a witness |
| Solidity verifier | `beacon-light-client/solidity/contracts/bridge/` | four ring buffers of 32 entries, an index, a domain | constructor, `light_client_update`, reads |
| CosmWasm and EOS verifiers | `contracts/cosmos/verifier`, `contracts/eos` | the same history with other index conventions | instantiate, update, queries |
| Nim light client | `beacon-light-client/nim/light-client/light_client.nim` | a store with finalized and optimistic headers, two committees, a best update | initialize, validate, apply, process |
| Commitment mapper | `beacon-light-client/plonky2/validators_commitment_mapper_tree`, `circuits_executables/bin/commitment_mapper.rs`, `src/crud.rs` | in Redis: validators, proofs by depth and index with a mark `needsChange`, a work queue; in the script: the writes left in a round | detect changes, save, mark, enqueue; lease a job, fetch two proofs, prove, save, complete; put jobs of lost workers back |
| Balance verification | `beacon-light-client/plonky2/get_balances_input`, `circuits_executables/bin/balance_verification.rs`, `final_layer.rs` | in Redis: inputs, proofs by level, a work queue for each level from 0 to 37, and two that no worker serves | prepare, prove a group, prove a node, final layer |
| Circuits of both | `beacon-light-client/plonky2/circuits` | none: a circuit is its constraints | numbers in limbs and bits, SHA-256, Merkle trees, validators, balances, the final statement |
| Circuit files | `circuits_executables/bin/*_data_generation.rs`, `src/*.rs` | files of circuits and targets, one per level | build, write, read, take public inputs by offset |
| Validators accumulator | `beacon-light-client/solidity/contracts/validators_accumulator` | incremental Merkle tree | deposit, root |

### How they interact

```
 beacon node ──> askForUpdates ──update job──> polling worker ──proof job──> prover
                      ^                            (cleaner removes duplicates)  │
                      │ slot on chain                                            │ saveProof, then notify
               verifier contract <──transaction── drainUpdatesInRedis <──────── Redis
```

Every publisher, worker and the cleaner is a process of its own (`conf.d/programs.conf`);
they share only Redis. Inside a publisher, JavaScript interleaves `askForUpdates` and the
drains at every `await`. All publishers of one deployment follow the same beacon network
and use the same two queues and the same proofs.

The second pipeline works on one machine's Redis, apart from the first:

```
 beacon state ─> get_changed_validators ─jobs─> commitment_mapper (many) ─> proof of the root ─┐
                                                   ^ light cleaner                             ├─> final_layer
 beacon state ─> get_balances_input ──jobs──> balance_verification (each for one level) ─> sum ┘
                                                   ^ light cleaner
```

The script writes validators, marks and jobs with one command each; workers lease a job for
thirty seconds, read the proofs of its two children, and save their own. Nobody waits for a
child: a worker that finds a mark gives up, its lease runs out, and a cleaner puts the job
back. What is absent is taken for zeros.

### What is hard

- drains interleave at every await, guarded by one Boolean that several exits must clear;
- a notification is only a hint: it is lost when nobody is subscribed and ignored while the
  flag is set;
- transactions are re-sent with the same nonce while older ones are pending, and a crashed
  process leaves some behind;
- two publishers list the jobs, then add one; the cleaner lists the duplicates, then removes
  them;
- a worker may die between its effect and the completion of its job;
- the slots between which the circuit can prove a step change at period boundaries, over empty
  slots and weakly signed blocks;
- the buffers of the contract wrap;
- the mark on a proof is one bit for all rounds, a job's order is that of a list, a lease may
  end under a slow worker, and a script may stop between any two writes;
- a late child and a child that does not exist look the same;
- circuits pop carries, compare without strictness, reverse bytes and bits, and agree on
  offsets and orders that no type holds together.

`PROJECT.json` lists each of these under `hazards`, at its line, with the property that covers it.

### What makes each component correct

- *Publisher*: the contract's header moves only along saved proofs; no transaction of the relay
  reverts; a drain that believes it published has published; nothing that can be published
  stays unpublished.
- *Scheduler*: updates chain up, each ends at a block with enough signers, none skips a period
  the circuit cannot skip, and the schedule reaches the head.
- *Queues and workers*: an update counts as done only when its proof job exists, a proof job
  only when its proof is saved; no update disappears; contracts catch up.
- *Verifier*: it remembers exactly the last accepted updates, each proved from its predecessor.
- *Commitment mapper*: a proof is about the leaves at its own place; when all is done, the root
  is about the validators saved; whoever waits does not wait in vain.
- *Balance verification*: a final proof states the right sum or is not made; the levels get
  done.
- *Circuits*: they compute what their names say, over integers; the final circuit can be
  satisfied for consistent data and for no other.
- *Light client, accumulator, EOS*: see the plan.

## 2. Modules

| Module | What it models | Uses |
|---|---|---|
| `HeaderHistory` | abstract: what an on-chain verifier promises | |
| `BeaconLightClient` | the Solidity contract | instance of `HeaderHistory` |
| `BeaconLightClient_proofs` | theorems | |
| `CosmosVerifier` | the CosmWasm contract, with its queries | instance of `HeaderHistory` |
| `CosmosVerifier_proofs` | theorems | |
| `ProofPublication` | abstract: the header moves along saved proofs | |
| `Publisher` | one publisher process, its drains and the execution chain | instance of `ProofPublication` |
| `Publisher_proofs` | theorems | |
| `BeaconSlots` | slot arithmetic: block walks, `findClosestValidBlock`, `getNextSlot`, the circuit's slot constraints | |
| `UpdateSchedule` | the updates scheduled as the chain grows | extends `BeaconSlots` |
| `UpdateSchedule_proofs` | theorems | |
| `Relay` | publishers, queues, polling worker, provers, cleaner | |
| `Relay_proofs` | theorems | |
| `WorkQueue` | external: the queue library of the plonky2 programs, as they use it | |
| `ScriptWrites` | the order in which the scripts of the plonky2 programs make their writes | |
| `CommitmentMapper` | `get_changed_validators`, `commitment_mapper`, cleaner | extends `WorkQueue`, `ScriptWrites` |
| `BalanceVerification` | `get_balances_input`, `balance_verification`, `final_layer`, cleaner | extends `WorkQueue`, `ScriptWrites` |
| `ProverLemmas` | lemmas of the two: powers of two, the queue, the writes; theorems about the numbers in the circuits | extends `WorkQueue`, `ScriptWrites`, `NumberCircuits` |
| `CommitmentMapper_proofs`, `BalanceVerification_proofs` | theorems | extend `ProverLemmas` |
| `Bits`, `LimbArithmetic` | bits; `biguint.rs` | |
| `CircuitNumbers` | conversions and comparisons of `utils.rs` and `is_active_validator.rs` | extends the two |
| `NumberCircuits` | these gadgets on three operands, and what they compute | extends `CircuitNumbers` |
| `Sha256Circuit` | `sha256.rs`, one step per round | extends `Bits` |
| `MerkleCircuits`, `ValidatorCircuits` | hash trees and branches; the circuits about validators, balances and the final statement, with their inputs | extend `CircuitNumbers` |
| `CircuitFiles` | levels, files, order of targets, offsets of public inputs | |
| `Circuits` | all circuits at work: on numbers, messages, files and a registry | extends `ValidatorCircuits`, `NumberCircuits`, `Sha256Circuit`, `CircuitFiles` |
| `MC*` | constants of the checked instances | |

### `BeaconLightClient` and `HeaderHistory`

The variables are the contract's. `light_client_update` is the whole function: the
`require`, then the index, then the four buffers at the new index. A Groth16 proof is
the tuple of public inputs it was made for (the circuit commits to them with one hash),
and `verifyUpdate` compares that tuple with the one the contract computes from its own
newest header, the submitted fields and its domain. `HeaderHistory` says what this is
for: a sequence of the last `HistorySize` accepted updates, newest first. The refinement
mapping reads the ring backwards from `currentIndex`.

### `CosmosVerifier`

The same promise kept another way: the index counts from 1, the slot is a value of its own
beside three arrays instead of a fourth array, and `execute_update` stores the root it
had loaded *before* the verification, which the Nim verifier overwrites in place when it
succeeds (`HeaderAfter`). Storage writes of a failed execution are undone by the chain, and
the code writes nothing before the verification, so a refused update is no step. The
queries are operators of the state, each with the wrap-around the code gives it.

### `Publisher` and `ProofPublication`

An action is the code between two awaits of a drain, together with the remote call that
ends it. `drain[d].pc` names the await: the contract's slot (`slot`), the next proof
(`next`), the handling of the reply (`reply`), the gas estimate, the broadcast, the
receipt, and the report after it (`posted`). Reading the reply and acting on it are two
steps, as the promise of Redis resolves after the reply was made.

The environment is explicit. `Save` and `Notify` are the provers. The execution chain
keeps `pending` transactions and the account's nonce `txCount`; including one uses up the
nonce for all others that carry it. The node accepts a broadcast only with the next nonce
(a stale one throws, see `Refused`), and the estimate runs the contract on its present
state. `RemoteFailure` is an exception of whichever call the drain awaits, after a
broadcast reached the node or not; `Restart` is a crash with the supervisor's restart:
the process's variables are lost, the pending transactions are not.

`handleFailure` is both its branches: `WillRetry` and `Stop`. The loop of
`drainUpdatesInRedis` has no exit but the empty reply of Redis, so a drain that has
"stopped" is at the top of its loop again with the flag cleared.

Left out: the pauses of 2 and 10 seconds (time passes between any two steps), the
fee itself, and the fallback for nodes without `eth_feeHistory`, which broadcasts the same
transaction. The Hashi adapter's path differs in the contract called. Assumed: the
relay's account is the only one that updates the contract, as in the deployment.

### `BeaconSlots` and `UpdateSchedule`

A chain maps each slot to `none` (no block), `weak` or `strong` (the block's sync
aggregate has two thirds of the committee or not). `findClosestValidBlock` is a recursive
function that follows the code's loop; `NotFound` stands for its exception. `addUpdate`
adds the job from the end of the last one. `CircuitAccepts` is the part of the circuit
that talks about slots: signature after next, next after the previous finalized header,
signature period at most one above the period of that finalized header, and a committee
taken from its state. Finality is as fast as it can be: the finalized header in the state
of a slot is the last block at the checkpoint two epochs back; every slower chain makes
the period constraint harder. The chain is not reorganised: no code handles that.

### `Relay`

Here publishing a proof is one step, because `Publisher` implements it, and a slot stands for a
multiple of `slotsJump`. The state is both queues with *all* jobs (BullMQ keeps completed and
failed ones, and `addUpdate` walks over every job that has not failed), the position of every
publisher in `askForUpdates` and of every worker in its job. A bag, because two publishers can
add equal jobs. The walk is the end of a chain of jobs from the contract's slot; several jobs
from one slot come in no fixed order. A job whose processor throws waits again until its
attempts are used up; a job whose worker disappeared is stalled and waits again at most
`MaxStalled` times (BullMQ's default is one). Left out: priorities and back-off delays, which
only restrict which waiting job is taken when; and a lock that runs out under a worker that is
busy but alive. The `isFailed` queries of one walk are one step with the listing.

The cleaner takes one list of the waiting jobs per pass and removes from it, job by job, every
one that is preceded on the list by a job of the same update. The marks `listed` on jobs of the
bag are this list. By the time a listed job's turn comes it may be taken, finished or failed,
and so may the job it duplicates: `remove()` takes it out all the same, except while a worker
has it locked. Then, or if Redis fails, an exception is caught and the next job is tried
(`CleanerSkips`). So the removal may leave a *failed* job as the only one of its update; the
walk of the publishers leaves failed jobs out, and they add the update again.

### `WorkQueue`, `CommitmentMapper` and `BalanceVerification`

The script of either component is the set `todo` of the writes to Redis it has left, so that a
worker or a crash comes between any two of them. A write carries its place in the program (the
statement and the counters of the loops around it), and the script makes the one whose place
precedes all others (`IsNext` in `ScriptWrites`). A set says what is left, and a place in which
order, without the loops; that is also what the proofs can reason about. The queue keeps lists,
since the library does: an item that was put back and completed all the same still waits in one,
without data, and `complete` removes one occurrence, as LREM does. In the mapper a round is made
when the beacon chain moves on (`NewRound`): what changed is saved in batches, each batch
followed by its leaf jobs, then every inner node above a change is marked and its job added,
from below. `validators`, `proofs` and `marked` are Redis; a proof is represented by the leaves
it covers, since its two hashes are functions of them. A worker's `pc` names the call it makes
next (`first` and `second` are the two `fetch_proof`s), and a lease may end at any time.

Four behaviours of the code shape the properties. Leaves are not marked, and a mark is a
Boolean: the save of an older job clears the mark that a newer round has set, so that the
parent may take the stale proof; the history variable `disorder` says that a proof was read
before its job was done, or that two workers had one proof in hand. `fetch_proof` falls back to
the proof of zeros where there is none, so an odd number of validators has a *validator* of
zeros beside the last one where the SSZ list has a chunk of zeros (`ValidatorsTree`), and the
root is then not the root of the SSZ list. A script that stops after saving validators and
before adding their jobs takes them for unchanged at its next start (`scriptLost`).

In the balance verification every worker serves one level. The placeholder that is written for the
first child of a node cannot be parsed, which stops the worker's attempt at once; only first
children have one, so a second child that is merely late counts as zeros (`hasty`); and it is
written after the jobs of the level below were queued, so that it replaces proofs of workers that
were faster than the script (the keys in `overwritten`). Sizes that TAKE need not be a multiple of
are kept. The loop over batches divides real numbers (`get_balances_input.ts:166`), so that its
last batch is empty exactly when TAKE is a multiple of what a batch takes, `CIRCUIT_SIZE` times
the batch size; MSET then fails and ends the script (`failed`). A group with too few chunks makes
the worker panic. A worker that finds no job for `--stop-after` seconds ends (`Stop`); that is 20
seconds by default, less than the 30 of a lease, and nothing in the repository runs it again
(`Start` is the operator's). The zero job of the queue above the top level (`Top + 1`) has no
consumer; it waits there for ever. `FinalLayer` meets whatever root the mapper has, which follows
the head of the chain and not the state the balances are of.

Left out: the wait of ten seconds between the six reads of a marked proof (`GiveUp` is what it
comes to); `--run-for`, whose default is for ever; and failures of Redis, of which `fetch_proof`
takes one for the absence of the proof: it then reads the proof of zeros. Two workers of one
level are the interleaving that the mapper has; here the workers of different levels race.

### The circuits

An operator stands for the value a gadget computes, or, where its name says so (`...Accepts`,
`Can...`), for the constraint it adds; a circuit of `ValidatorCircuits` is the record of its
public inputs, or `NoProof` if it cannot be satisfied. Numbers are real: limbs with carries that
callers pop, bits in SSZ order, division with a generator that is serialized into the circuit
file. Limbs made as targets without a value (`add_virtual_biguint_target`, `biguint.rs:135`) are
not range-checked where they are made; the model, and what is said about it, is about limbs in
range, which other uses of the same targets enforce. SHA-256 is modelled twice: word by word in
`Sha256Circuit`, where words are pairs of 16-bit halves because TLC's integers have 32 bits with a
sign, and as a term in the trees, where two hashes are equal if what was hashed is. Poseidon (with
its zero padding), the proof system and SSZ as the scripts use it are external. The sizes are
parameters: a limb has `LimbBits` bits (32 in the code), a number `NumBits`, twice as many, a hash
eight times as many, and a byte any number of bits that divides a limb.

A behaviour of `Circuits` is of one of four kinds: an arithmetic sample, a message to hash, a
program that writes circuit files, or a registry whose mapper tree and balance tree grow level
by level, independently of each other, until the final circuit takes both. Jobs and faults of
these trees are the subject of the two modules above; here they succeed if their circuits can
be satisfied.

## 3. Runs

| Run | Instance and bounds | What it shows |
|---|---|---|
| `solidity_history` | 3 buffer entries, 7 headers, two domains | across several wrap-arounds, the buffers keep exactly the history, neighbours are proved from each other |
| `cosmos_history` | 3 places, 7 headers, two domains, two finalized headers for each | arrays, slot and queries tell one history, across two wrap-arounds; 228 states |
| `cosmos_all_headers` | the same | **violated**: the unordered queries leave out the last place |
| `publisher` | 2 drains, 3 slots with all proofs between them, 2 sends, 3 faults, limit of failures 1 | see below; 338 515 states |
| `schedule` | epochs of 2, periods of 6, `slotsJump` 3, 22 slots (four periods), 2 empty slots, 1 weak block | the choice of slots; 176 075 states |
| `schedule_provable` | the same, perfect chains | **violated**: an update the circuit refuses |
| `relay` | one contract, 2 provers, 2 updates, 2 attempts, 1 stall, 2 faults | nothing is lost, the contract catches up; 494 227 states |
| `relay_shared` | two contracts at slots 0 and 1, 1 prover, 2 attempts, no stall, 1 fault | duplicates, and a cleaner with an old list; 1 221 020 states |
| `mapper` | 4 leaves, batches of 2, 2 workers; five budgets: two rounds with a crash of the script, a round after a single validator with a fault of a worker, a first round with a crash, a round that fills the other half, a single validator | proofs keep their places, the root becomes current, everything gets done; 531 495 states |
| `balance` | groups of 4 validators, chunks of 2 balances, 2 levels, batches of 1 group, one worker per level; TAKE 7; 3 with a crash, with a slow worker, with workers that stop; 2; 8 | the sum, the placeholders and what is above them, the end of the levels; 496 138 states |
| `circuits` | limbs of 4 bits, bytes of 2, epochs of 4 slots, 16 places in 2 groups; see below | arithmetic, SHA-256, files, the final statement; 10 545 states |
| `circuits_slashed` | the registries of that run | **violated**: the mapper takes no validator for slashed |

*Verifiers.* Arrays of three places have all the cases of 32: the first place, a middle one
and the last, and seven headers fill them twice. A second domain gives proofs the
contract must refuse. `QueriesTellHistory` compares the four loops and the subtraction of
the queries with the one mapping of ages to places; `SlotOfNewest` compares the slot that is
stored beside the arrays with the newest header in them. (The relay does not query that slot: it
takes the newest header's root and asks the beacon node for its slot.)

*Publisher.* Two drains are enough for every conflict of two activations; three slots
give a header that two different chains of proofs reach, so that a drain may hold a proof
the contract has gone past; two sends give a retry with a pending elder; three faults allow
a crash and a failure on either side of it, and reach `Stop` with the limit 1.
`FlagMeansDraining`: no exit leaves the flag set. `OneDrainUnlessStopping`: the flag
excludes a second drain until `handleFailure` gives up. `PendingLinked`: whatever waits to
be included has the next nonce and starts at the contract's header, so nothing reverts;
this is what reading the nonce *before* the estimate buys. `PostedIsOnChain`: a receipt is
not taken for one's own because of the nonce alone. `Publication`: refinement of
`ProofPublication`. `ProofsArePublished`: if a proof starts at the contract's header, the
contract gets past that header.

*Schedule.* `PollFindsTheJob`: the worker that searches again with a later head finds the
scheduled blocks, so the proof is saved under the job's slots. `SearchIsExact`: the search
loop ends at the first valid block, compared with a direct definition.
`UpdatesArePeriodic`: the updates the circuit can prove, with the exact condition.
`NothingToAddOnlyAtHead`: the schedule does not stop before the head.

*Relay.* `WorkIsHandedOver`, `UpdatesStay` (no step takes the last job of an update away), and
`ContractsCatchUp`: every contract reaches the head unless some proof job has used up its
attempts. One contract suffices for the
handing-over; duplicates need two, which is why they have a run of their own without
liveness. Two faults are as many as the attempts and one more than the stalls, so both
limits are reached.

*Mapper.* Four leaves have two levels of inner nodes, so a parent can meet a stale child that
is itself a parent, and a half that is empty; batches of two make the script save and add in
turns. Two workers are enough for one proof made twice, for a parent that overtakes its child
and for two rounds at once. The budgets keep what can be combined apart: rounds, faults and
crashes all at once exceed what can be searched. `MarkedIsAwaited`: a mark always has its job
due. `ProofsKeepPlaces`: whatever workers race, no leaf is at another place or counted at
another depth. `RootIsCurrent`: the claim of `Commitment_Mapper.md`, with the exceptions above
as conditions. `EventuallyQuiet`: all work that a script which does not crash has given is
done, again after every round.

*Balance.* Two levels above the groups have a node whose second child is late and one whose second
child does not exist. Seven validators in groups of four leave a place to a validator of zeros;
two are a group without all its chunks. One group is enough for a crash, an end without jobs or an
early end of a lease at every level. Seven validators are two batches of which the second is not
full; eight are two full batches, after which the script fails at an empty third. Balances are
powers of two: different sets of validators have different sums. `FinalProofIsRight`: proofs that
took zeros for a late child exist, and the roots that `build_final_circuit` connects keep them
from becoming a final proof; it excuses nothing. `RootIsComplete` and `LevelsAreDone` say when
there is a right one to be made. They and `PlaceholdersAwaited` have conditions that are cases in
which the code does go wrong, and which no property can rule out: zeros taken for a late child
(`hasty`), a proof destroyed by its placeholder (`overwritten`). `NothingAboveMarked` says what
holds in the second case too: above a placeholder nothing has been made, so that the proof that is
missing or made again is never one that was already used. In the same way `RootIsCurrent` excuses
`disorder` and `scriptLost`, and `MarkedIsAwaited` the second.

*Circuits.* `LimbsAreIntegers` and `DivisionIsExact` try all triples of numbers of up to two
limbs from 0, 1, 4 and 15 (zero, one, a power of two and the largest): sums with and without
carry, operands of different lengths, every candidate for quotient and remainder.
`DigestIsSha256` compares four messages that pad to one and two blocks, the empty one
and a full block among them, with their published digests.
`FilesAreReadBack` tries the option `--level` at both ends of either program's levels, outside
them, and with "all". `FinalIffConsistent` has eleven plain registries of 1 to 16 validators,
with sums that overflow, and fifteen that are about more than one state or have an odd setting:
a validator or a balance that differs in one of the places, a wrong TAKE, epochs and slots at
their boundaries, other credentials. The sizes keep the ratios of the code: a hash is several
numbers, a number two limbs, a limb several bytes, a group several chunks. `CHECK_DEADLOCK` is
off, as in all runs whose behaviours end.

### Fairness

- `Publisher`: weak fairness of every drain's turn, of delivery and of the subscription (the
  event loop runs every continuation), of inclusion of a pending transaction (fees are bumped
  until it is), and of `Notify`: provers go on announcing proofs as the chain grows and also
  announce proofs they find again. `BumpFee`, failures, restarts and `Save` are not fair. The
  faults are bounded, so eventually remote calls answer.
- `Relay`: weak fairness of every publisher's round and publication, of the workers' normal
  steps (BullMQ and the supervisor restart them) and of the growth of the chain. Faults and the
  cleaner are not fair.
- `CommitmentMapper`: weak fairness of the script's next write, of every worker's step (it
  serves for ever and is run again when it ends), of the end of a lease (a timer of Redis) and of
  the cleaner, which loops for ever. New rounds, crashes and faults are not fair; a script that
  has crashed is excused (`scriptLost`), as nothing restarts it with its writes.
- `BalanceVerification`: weak fairness of the script's next write, of the step of every worker
  *while it runs*, and, level by level, of the end of a lease with the cleaner's putting back.
  `Start` is not fair: a worker that has stopped, panicked or crashed is run again by the
  operator, if at all. `LevelsAreDone` therefore has the premise that every level with jobs
  has a worker again and again (`IsServed`); it may end in between, also while a lease runs.
- `BeaconLightClient`, `CosmosVerifier`, `UpdateSchedule` and `Circuits` are checked for safety
  only.

### Where the code and its words differ

- `cosmos_all_headers`: `AllHeaderHashes` and its two siblings loop over `2..32`
  (`contract.rs:221`, `253`, `285`), which ends at 31: with full arrays they return 31 of the
  32 remembered entries, and it is the newest that is missing whenever it is at place 32. The
  ordered queries return all.
- `schedule_provable`: `getNextSlot` compares the head's period with the period of the header
  the update starts from; the circuit (`light_client.circom:75`) with the period of that
  header's *finalized* header, two epochs behind. For a start in the first epochs of a period
  and a head in the next, the scheduled update has no proof.
- `circuits_slashed`: the mapper's circuit takes `slashed[0]`, the first bit of the SSZ leaf
  (`validator_commitment_mapper.rs:67`); SSZ's `true` has its 1 in the eighth. So every
  validator is "not slashed" in the Poseidon tree, and once one is slashed the roots of mapper
  and balances differ and the final circuit cannot be satisfied.

Other things the models state without a run of their own:

- `handleFailure` logs 'STOPPING' (`relay/on_chain_publisher.ts:227`), but the drain goes on
  with the flag cleared, and the next notification starts another one. `OneDrainUnlessStopping`
  has the exception in its name; `PendingLinked` and `Publication` hold all the same: the
  drains only compete for a nonce.
- 'the task will repeat in case something fails' (`do_update.ts:22`) is true for ten attempts.
  Afterwards the update job still counts as completed and nobody adds it again: the exception
  in `ContractsCatchUp`. Update jobs that *failed* are added again, because the walk leaves
  them out.
- The balance script takes 1024 validators by default; `plonky2/README.md:90` says it takes
  all. A TAKE that is not the number of validators contradicts the length in the state's root
  (`IsConsistent`), one that leaves 1 to 4 validators to the last group makes its worker panic
  (`LevelsAreDone`), and one that is a multiple of 800 (`CIRCUIT_SIZE` times the batch size)
  ends the script before it adds any job but those of zeros (`failed`).
- A worker of a balance level ends 20 seconds after the last job, while the lease of a job that
  somebody gave up takes 30 to run out: without an operator the level may stay unfinished.
- The mapper's root is the root of the SSZ list only for an even number of validators
  (`IsEven`).
- `div_rem_biguint` compares remainder and divisor without strictness; `DivisionIsExact` states
  the one extra pair it accepts, which the generator never gives.

## 4. Proofs

All theorems hold for every value of the constants that satisfies the named assumption of the
module (`ContractAssumption`, `CosmosAssumption`, `PublisherAssumption`, `RelayAssumption`,
`BeaconSlotsAssumption` with `ScheduleAssumption`, `MapperAssumption`, `BalanceAssumption`; for
the numbers `LimbAssumption`, `NumbersAssumption` and `OperandsAssumption`); TLC evaluates those
assumptions in every run. They say that sizes are positive, that a period has whole epochs, and
which values there are; `BalanceAssumption` also says that the zero validator never counts, as
`getZeroValidator` gives it an end at epoch 0, and `NumbersAssumption` that a limb has whole
bytes and that the slots of an epoch are a number of one limb, other than zero.

**`BeaconLightClient_proofs`.** The inductive invariant `IInv` is `TypeOK`, `HistoryLinked`,
and what the next update needs: the newest entry is a submitted update or the deployed one, and
the domain is the constructor's. The lemma `UpdatePushes` is the arithmetic of the ring: after
an accepted update, the place of age `k > 0` is the former place of age `k - 1`, for every
buffer size, with the wrap-around as a case. From it follow `HistoryIsLinked` and the step of
`ImplementsHistory`.

**`CosmosVerifier_proofs`.** The same argument for the other index convention: `IInv` is
`TypeOK`, `SlotOfNewest`, the constructor's domain, and that the newest entry is one an
update can leave. `SlotOfNewest` is inductive because the slot and the newest entry are
replaced together. `QueriesAreRight` is about what the queries return: their walk back through
the array is a recursive function, of which the prover knows the equation only. The closed form
(the place of age `k` is `current - k` with a wrap-around) satisfies that equation, and at the
least step where a walk differed from it, the step before would differ too (`WalkIsUnique`).

**`Publisher_proofs`.** `IInv` adds three parts to the checked invariants. `HeldProofs`: from
the estimate on a drain holds a saved proof, and its nonce is at most `txCount`.
`EstimatesHold`: if a drain is about to broadcast and its nonce still equals `txCount`, its
proof starts at the contract's header, because whoever moved the contract since the estimate
has used that nonce. `MinedIsOnChain`: the contract has reached every included update. The
flag's part, `Exclusion`, is inductive with the types alone and gives `FlagIsNeverStuck` and
`DrainsExclude`. `PendingLinked` is not inductive by itself, since it says nothing of a drain
that has estimated and not yet broadcast: `EstimatesHold` fills that gap. With it, inclusion of
one transaction moves the contract along that transaction's proof and removes all others with
its nonce, that is, all of them (`PendingIsLinked`, `MinedIsOnChain`, hence `PostedIsRight`).
`ImplementsPublication` maps `Mine` to `Publish`, `Save` to `Save` and every other step to a
stutter.

**`Relay_proofs`.** `IInv` has three parts. `TypeInv` adds to the types that every job is sound (a
job that waits has an attempt left, and its update is a step forward), that a worker holds an
active job, and that a publisher about to add a job is below the head it has read; the last needs
that a bounded, non-empty set of slots has a maximum (`MaxIsThere`, from the well-ordering of the
naturals). `HandOver` is `WorkIsHandedOver` with what the workers know just before they complete a
job: the polling worker's proof job is there, the prover's proof is saved. This is why a crash
between the effect and the completion loses nothing. `CleanerInv` says that for every job on the
cleaner's list the queue has a job of the same update that is *not* on it, in whatever state
either is by now: the first of its update on the list of waiting jobs is never a duplicate, jobs
change their state and are added, and only the cleaner removes any, from its list. From it follows
`NoUpdateDisappears`, an action property, though a pass of the cleaner is many steps and its list
is old after the first. The lemmas on bags (`AddedBag`, `RemovedBag`, `MovedBag` and their kin)
are stated once, for any bag.

**`UpdateSchedule_proofs`.** What the search of `findClosestValidBlock` computes is a recursive
function over slots, and induction is out of reach; but the natural numbers are well-ordered.
`FirstValid` is the closed form: the first block from a slot on whose next block carries enough
signers. It satisfies the equation of the search (`FirstValidIsSearch`, one round of the loop in
`SearchRound`), and nothing else does, as there is no greatest slot at which another solution
differs (`SearchIsUnique`). `SearchFindsFirst` is the theorem about the code's loop, for every
chain. `IInv` is the shape of the chain, that a job goes forward between two of its slots, and
`JobIsFound`: a job is the first valid block from its own slot on, and either its signers are at
most a period after its start or it caught up. A later head brings no earlier valid block
(`FoundStays`); hence the polling worker finds the scheduled blocks again. `UpdatesAreProvable`
is the arithmetic of periods. `ScheduleReachesHead` has the hypothesis `JumpsReachPeriods`,
which is about an operator's setting: `slotsJump` is at most an epoch, or a number of jumps makes
a period, as for the 64 of `README.md:175`. With another value the last multiple of `slotsJump`
can be before the target of catching up.

**`ProverLemmas`.** Powers of two: `2 ^ (n + 1)` is twice `2 ^ n` for the library's recursive
definition too, by the cardinality of sets of subsets, whence the subtrees of a lower level fill
one of a higher level (`PowerDivides`) and a node lies in the tree (`SubtreeFits`). The queue is
treated over an arbitrary set of items: no operation makes an item up, and an item with data is
in one of the two lists whatever is done to the queue (`IsKept`).

The rest of this module is about the numbers in the circuits. `LimbsAreExact` and `DivisionExact`
prove `LimbsAreIntegers` and `DivisionIsExact` for limbs and bytes of any width and for operands
of any length. They are theorems of `NumbersSpec`, in which three operands are chosen and stay;
`Circuits` starts with the same choice (or with none, for its other kinds of behaviours) and
leaves `operands` alone in every step. What takes work is the operators:

- The gadgets are loops, and the model writes them as the library's folds: a `CHOOSE` of a function
  on subsets that satisfies an equation. `FoldExists` says that there is one for every finite
  set, whatever the order in which it takes the elements. It needs an induction over
  cardinalities, which the library only offers with an operator as parameter; `Induction` gets it
  from the least element of the set of counterexamples, and a set is something a lemma can be
  given.
- `LowValue(a, n)` is the value of the lowest `n` limbs. `LowLaws` say how it grows, `LowBound`
  that it is below `Weight(n)`, `TopDecides` and `LowCompares` that the highest limb in which two
  numbers differ decides which is greater: with them numbers are compared by value
  (`ComparedByValue`) and have one form of each length (`OneForm`).
- `Sweep` carries exactly (`SweepIsExact`): the limbs it leaves, with the carry times the weight
  above them, are worth what its columns are, whether these are too large or below zero. A sum
  therefore fits with its carry as a limb (`AddIsExact`), and a difference is right but for the
  borrow, which the code pops (`SubIsExact`).
- A column of a product collects the low halves of the products of its limbs and the high halves
  of the column below. `PairCounts` and `NextPair` add the pairs one by one, `RowIs` and
  `ColumnsOfProduct` by rows; what is popped from the end is zero (`ProductBound`, `MulIsExact`).
- `DigitsAre` says that `to_u32_digits` gives the fewest limbs that hold a number, and
  `NumberIsRead` with `JoinedInAnyOrder` that what the generator of a division writes behind its
  counts is what it reads (`GeneratorReadBack`).
- The constraint of a division compares remainder and divisor without strictness. `TwoQuotients`
  has the whole truth about it: Euclid's pair is accepted, and if the divisor divides, so is the
  quotient less one with the divisor for remainder. `EpochOfSlot` carries this to the final
  circuit: the generator never gives the second pair, and a slot has one provable epoch.
- Flattening pieces of one size puts place `j` of piece `i` at `(i - 1) * size + j` (`FlattenIs`),
  cutting undoes it (`ChunksAre`), and turning the bytes around twice does nothing
  (`TurnedTwice`). So the bits of a number come back as the number (`BitsComeBack`), and the leaf
  of a 64-bit number has the bytes of the number from the lowest one up, then zeros
  (`BytesOfLeaf`), which is SSZ's form.

**`CommitmentMapper_proofs`.** `IInv` adds to the types who can know which job: the queue and the
workers have only jobs the script has made and not those it is still to add (`KnownJob`), each of
which it adds once and after its mark (`OpsRight`). That a job is known only when it was added is
what `MarkedAreExpected` needs: a marked key has a job that is pending, or one with data that no
worker is about to delete. Since a worker saves before it completes, and a job it completes
without saving had no data, `MarksAreAwaited` follows. `AllInPlace` is `ProofsKeepPlaces` for
everything that holds proofs: those a worker has fetched and not yet combined are in place where
its job says, and saved validators are at a version not above the beacon chain's. A node's two
children are neighbouring halves of it (`NodeInPlace`). It holds for all races, crashes and
stale reads.

`RootIsRight` proves `RootIsCurrent`: when everything is done, the root is about the validators
saved. Two invariants lead to it. `WorkIsRight` says what the script and the beacon chain see to:
validators are appended, what Redis lacks of them is in a batch still to be saved, every job's
first leaf is a validator's, proofs of zeros are of zeros, no job with data is lost from the
queue, and the script's writes come in their order (`OpsInOrder`): validators before the jobs
above them, every job before the one above it. `TreeIsRight` says that there is a set of jobs
that will still run (`WillRun`): all that are pending, none whose worker is about to delete its
data, and with every job the one above it, which has yet to read what this one makes. Every proof
in Redis is about the validators in Redis (`Content`) or will be made again by one of them
(`IsCovered`); what a worker has fetched is right too, or a later job for the same proof will run
(`IsExcused`). The set grows with a round and loses a job when a worker saves its proof. A batch
that is saved leaves no subtree uncovered, since the round's jobs above it are pending
(`SavedValidatorsTree`). A worker that reads a proof which will be made again reads it for
nothing: the job that makes it is later than its own, and the one above that is in the set, or it
was an earlier one that had to be waited for, and then `disorder` says so (`FetchesContent`). A
quiet state has nothing pending and nothing in the queue, so the set is empty and the root is
right. The proof found that `SettledProofs` was wrong for an odd number of earlier
validators, which no run had begun with: `fetch_proof` puts a validator of zeros beside the last
one (`TreeLeaf`), and now a run begins with one validator.

**`BalanceVerification_proofs`.** `IInv` says that every proof, saved or in a worker's hands, is
honest: its sum is the sum over its leaves. Sums are folds; `IsSum` describes one by its partial
sums, which exist for every sequence (`SumsExist`, by a least counterexample) and are joined end
to end (`SumsAppend`), so the sum of a node is the sum over the leaves of both children
(`SumOfNode`). `SumIsRight` follows with what the final circuit compares. `ChildrenAreExpected`
strengthens `PlaceholdersAwaited` by the placeholders still to be written, whose jobs are in the
queue before, and by the order of the writes: all inputs are saved before the first placeholder,
so that the script, which fails at an input if at all, leaves none behind. `NothingIsAboveMarked`
is the order of two other writes, the placeholder and the job of the node above it (`NodesWait`):
before the job is added, no worker has it and its target is empty; afterwards the placeholder is
cleared by the save of the child only, and a worker has got past its first `fetch_proof` only when
that has happened. `RootIsWhole` is the converse of `SumIsRight`: when the levels are done there
is a right root. `JobsKept` says the queues lose no job with data, `IsAccounted` that every job of
the script is pending, due or done, and `ProofsAreWhole` that every proof, or pair of fetched
ones, is about all validators below it. The second child of a node is zeros exactly when there is
no job for it, as there are then no validators under it (`NothingBeyond`); if there is a job, to
take zeros is what `hasty` records.

Model-checked only: all liveness (`ProofsArePublished`, `ContractsCatchUp`, `EventuallyQuiet`,
`LevelsAreDone`), which is out of the prover's reach; and four properties of `Circuits`. Of these
`DigestIsSha256` compares the rounds of SHA-256 with digests that are known for four messages, so
there is nothing to prove for others. `FinalIffConsistent` and `TypeOK` are about trees of
terms, nested as deep as the tree is high: their proof is an induction over the levels of two
trees at once, for which it must first be said, apart from these terms, what a hash without
collisions is; no theorem says so yet. `FilesAreReadBack` compares two fixed lists of targets and
offsets, level by level; TLC tries every level that differs, and no constant of interest is left.

## 5. Plan

Done, in this order: Solidity history with proofs; publisher with proofs; slots and
schedule; relay; CosmWasm history with proofs; commitment mapper and work queue; balance
verification; the plonky2 circuits and their files; proofs about the relay, the schedule, the
work queue, the mapper, the balance verification, and the numbers in the circuits. Next:

1. `EosVerifier`: `verifier.cpp` and its native twin as a further implementation of
   `HeaderHistory`, several instances in one table, with the width of `uint8_t
   current_slot`. Theorems: type correctness and the refinement.
2. `SyncCommitteeStore`: the Nim light client with the direct CosmWasm contract: periods,
   `next_sync_committee`, the best valid update and the timeout; invariant: the finalized
   header never goes back and never passes the optimistic one. Theorem: that monotonicity.
3. `ValidatorsAccumulator`: the incremental tree against the full one, depth 3.
4. `BeaconApi` (fallback between endpoints) and `ProvingServer` (several workers on one
   server).
5. The overlap of two workers on one job of BullMQ when a lock runs out, in `Relay`.
6. Proofs: the trees of the circuits at a fixed depth, with hashes as an arbitrary injective
   function in place of terms.

## 6. Not modelled

Of the relay: the Merkle branches, SSZ roots and signatures of the proof input, and the circom
circuits apart from the light client's constraints on slots and periods: their inputs are
honest or they have no proof, and their field arithmetic is out of TLC's reach. Groth16
verifiers: a proof is the tuple of public inputs it was made for. Of the plonky2 pipeline: the
proof system, Poseidon, and the bytes of gates and generators (but for the generator of the
division). EOS verifiers, validators accumulator and the Nim light client with the CosmWasm
contract around it are planned (above). Adapters that start command line tools for Cosmos and
EOS: their part of the protocol is the publisher's. Deployment scripts, metrics, logging; the
TypeScript experiments the deployment does not start. `PROJECT.json` lists each with its status
and reason.

## 7. How to run

`tlc -config X.cfg M` for every pair of module and configuration under `runs` in
`PROJECT.json`; `tlapm` on the seven modules named `*_proofs` and on `ProverLemmas`, which takes
longest. Every property of a passing run has a mutant: an operator named `Mutant: ...` in a
comment, which replaces a definition and under which TLC finds the property violated.
