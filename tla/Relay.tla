-------------------------------- MODULE Relay --------------------------------
(***************************************************************************)
(* The whole relay: publishers (one per contract) that ask for updates,    *)
(* the polling worker that turns an update into a proof input, the provers *)
(* that turn it into a saved proof, the cleaner, and the two BullMQ queues *)
(* between them.  Publishing a proof is one step here: module Publisher    *)
(* implements it.  Which slots an update can go between is module          *)
(* UpdateSchedule; here slots are multiples of slotsJump, every one with   *)
(* a valid block, and an update spans at most `Span' of them.              *)
(***************************************************************************)
EXTENDS Integers, FiniteSetsExt, Bags, TLC

CONSTANTS
  Contract,     \* the contracts updated through one Redis
  Prover,       \* the proof generation workers
  FirstSlot,    \* slots of the headers the contracts are deployed with
  Span,         \* how far one update can go
  MaxHead,      \* bound: the last slot of the beacon chain
  MaxAttempts,  \* `attempts' of both kinds of jobs, 10 in the code
  MaxStalled,   \* BullMQ's maxStalledCount, 1 by default
  MaxFaults,    \* bound: exceptions in workers, and crashes
  NoJob         \* what a worker that waits for work holds

ASSUME RelayAssumption ==
  /\ Contract # {}
  /\ MaxHead \in Nat
  /\ FirstSlot \in [Contract -> 0 .. MaxHead]
  /\ Span \in Nat \ {0}
  /\ MaxAttempts \in Nat \ {0}
  /\ MaxStalled \in Nat
  /\ MaxFaults \in Nat

VARIABLES
  head,        \* beacon chain: the head the publishers see
  onChain,     \* slot of every contract's optimistic header
  ask,         \* askForUpdates of every publisher
  updateJobs,  \* UPDATE_POLING_QUEUE: a bag of jobs, in every state
  poller,      \* the polling worker
  proofJobs,   \* PROOF_GENERATOR_QUEUE: a bag of jobs, in every state
  prover,      \* the provers
  proofs,      \* Redis: the saved proofs
  faults       \* history: exceptions and crashes so far

vars == <<head, onChain, ask, updateJobs, poller, proofJobs, prover, proofs,
          faults>>

Slot == 0 .. MaxHead

Proof == {p \in [from : Slot, to : Slot] : p.from < p.to}

\* `listed': the cleaner is going to remove the job in its current pass.
Job ==
  [from : Slot, to : Slot,
   state : {"waiting", "active", "completed", "failed"},
   attempts : 0 .. MaxAttempts, stalls : 0 .. MaxStalled, listed : BOOLEAN]

ASSUME NoJobAssumption == NoJob \notin Job

NewJob(from, to) ==
  [from |-> from, to |-> to, state |-> "waiting", attempts |-> 0, stalls |-> 0,
   listed |-> FALSE]

\* A worker (concurrency 1) and the job it is at: for the polling worker
\* before and after its proof job is added, for a prover before the look for
\* an existing proof, before the save, and after it.
WorkerState ==
  [job : Job \cup {NoJob}, pc : {"idle", "work", "proving", "done"}]

IdleWorker == [job |-> NoJob, pc |-> "idle"]

\* askForUpdates before it reads the contract, before it reads the head,
\* before addUpdate lists the jobs, and before it adds the job from `from'.
AskState ==
  [pc : {"slot", "head", "jobs", "add"}, optimisticSlot : Slot, headSlot : Slot,
   from : Slot]

AskAgain ==
  [pc |-> "slot", optimisticSlot |-> 0, headSlot |-> 0, from |-> 0]

TypeOK ==
  /\ head \in Slot
  /\ onChain \in [Contract -> Slot]
  /\ ask \in [Contract -> AskState]
  /\ IsABag(updateJobs) /\ BagToSet(updateJobs) \subseteq Job
  /\ poller \in WorkerState
  /\ IsABag(proofJobs) /\ BagToSet(proofJobs) \subseteq Job
  /\ prover \in [Prover -> WorkerState]
  /\ proofs \subseteq Proof
  /\ faults \in 0 .. MaxFaults

Init ==
  /\ head = Max({FirstSlot[c] : c \in Contract})
  /\ onChain = FirstSlot
  /\ ask = [c \in Contract |-> AskAgain]
  /\ updateJobs = EmptyBag
  /\ poller = IdleWorker
  /\ proofJobs = EmptyBag
  /\ prover = [w \in Prover |-> IdleWorker]
  /\ proofs = {}
  /\ faults = 0

-----------------------------------------------------------------------------
(***************************************************************************)
(* BullMQ.                                                                 *)
(***************************************************************************)

Update(job) == [from |-> job.from, to |-> job.to]

Waiting(jobs) == {job \in BagToSet(jobs) : job.state = "waiting"}

Added(jobs, job) == jobs (+) SetToBag({job})

Removed(jobs, job) == jobs (-) SetToBag({job})

Moved(jobs, job, next) == Added(Removed(jobs, job), next)

Active(job) == [job EXCEPT !.state = "active"]

Completed(job) == [job EXCEPT !.state = "completed"]

\* A job whose processor threw waits for its next attempt, or has failed.
Thrown(job) ==
  [job EXCEPT !.attempts = @ + 1,
              !.state = IF job.attempts + 1 < MaxAttempts THEN "waiting"
                                                          ELSE "failed"]

\* Mutant: stalled jobs go round for ever.
StalledForever(job) == [job EXCEPT !.stalls = @ + 1, !.state = "waiting"]

\* A job whose worker disappeared goes to a worker again, MaxStalled times.
Stalled(job) ==
  IF job.stalls < MaxStalled
  THEN [job EXCEPT !.stalls = @ + 1, !.state = "waiting"]
  ELSE [job EXCEPT !.state = "failed"]

-----------------------------------------------------------------------------
(***************************************************************************)
(* Publishers: askForUpdates, addUpdate, and the publication of a proof.   *)
(***************************************************************************)

\* The contract's slot and the head are read once for a whole round.
AskSlot(c) ==
  /\ ask[c].pc = "slot"
  /\ ask' = [ask EXCEPT ![c] = [@ EXCEPT !.pc = "head",
                                         !.optimisticSlot = onChain[c]]]
  /\ UNCHANGED <<head, onChain, updateJobs, poller, proofJobs, prover, proofs,
                 faults>>

AskHead(c) ==
  /\ ask[c].pc = "head"
  /\ ask' = [ask EXCEPT ![c] = [@ EXCEPT !.pc = "jobs", !.headSlot = head]]
  /\ UNCHANGED <<head, onChain, updateJobs, poller, proofJobs, prover, proofs,
                 faults>>

\* Mutant: failed jobs are walked over like the others.
WalkedWithFailed(job) == TRUE

\* addUpdate's walk goes over the jobs getJobs() lists, in every state but
\* failed.
Walked(job) == job.state # "failed"

\* Where the walk over the jobs, sorted by `from', can end; several jobs from
\* one slot come in no particular order.
Tips(slot) ==
  LET walk[s \in Slot] ==
        LET nexts == {job.to : job \in
                        {j \in BagToSet(updateJobs) : Walked(j) /\ j.from = s}}
        IN  IF nexts = {} THEN {s} ELSE UNION {walk[t] : t \in nexts}
  IN  walk[slot] \cap Slot

\* getNextSlot.
NextSlot(slot, headSlot) ==
  IF headSlot - slot <= Span THEN headSlot ELSE slot + Span

\* addUpdate up to its last await: it ends the round, or adds a job.
ListJobs(c) ==
  /\ ask[c].pc = "jobs"
  /\ \E tip \in Tips(ask[c].optimisticSlot) :
       ask' = [ask EXCEPT ![c] =
                 IF tip >= ask[c].headSlot
                 THEN AskAgain
                 ELSE [@ EXCEPT !.pc = "add", !.from = tip]]
  /\ UNCHANGED <<head, onChain, updateJobs, poller, proofJobs, prover, proofs,
                 faults>>

AddUpdate(c) ==
  /\ ask[c].pc = "add"
  /\ updateJobs' =
       Added(updateJobs,
             NewJob(ask[c].from, NextSlot(ask[c].from, ask[c].headSlot)))
  /\ ask' = [ask EXCEPT ![c].pc = "jobs"]
  /\ UNCHANGED <<head, onChain, poller, proofJobs, prover, proofs, faults>>

Fault ==
  /\ faults < MaxFaults
  /\ faults' = faults + 1

\* A remote call of the round throws, or the publisher's process starts
\* again: a new round.
RestartPublisher(c) ==
  /\ Fault
  /\ ask' = [ask EXCEPT ![c] = AskAgain]
  /\ UNCHANGED <<head, onChain, updateJobs, poller, proofJobs, prover, proofs>>

Publish(c) ==
  /\ \E p \in proofs : /\ p.from = onChain[c]
                       /\ onChain' = [onChain EXCEPT ![c] = p.to]
  /\ UNCHANGED <<head, ask, updateJobs, poller, proofJobs, prover, proofs,
                 faults>>

-----------------------------------------------------------------------------
(***************************************************************************)
(* The polling worker: doUpdate.                                           *)
(***************************************************************************)

PollTake ==
  /\ poller = IdleWorker
  /\ \E job \in Waiting(updateJobs) :
       /\ updateJobs' = Moved(updateJobs, job, Active(job))
       /\ poller' = [job |-> Active(job), pc |-> "work"]
  /\ UNCHANGED <<head, onChain, ask, proofJobs, prover, proofs, faults>>

\* Mutant: a job is done when its input has been fetched.
PollSkipsProofJob ==
  /\ poller.pc = "work"
  /\ poller' = [poller EXCEPT !.pc = "done"]
  /\ UNCHANGED <<head, onChain, ask, updateJobs, proofJobs, prover, proofs,
                 faults>>

\* getInputFromTo has returned: the proof job is added.
PollAddProofJob ==
  /\ poller.pc = "work"
  /\ proofJobs' = Added(proofJobs, NewJob(poller.job.from, poller.job.to))
  /\ poller' = [poller EXCEPT !.pc = "done"]
  /\ UNCHANGED <<head, onChain, ask, updateJobs, prover, proofs, faults>>

PollComplete ==
  /\ poller.pc = "done"
  /\ updateJobs' = Moved(updateJobs, poller.job, Completed(poller.job))
  /\ poller' = IdleWorker
  /\ UNCHANGED <<head, onChain, ask, proofJobs, prover, proofs, faults>>

\* The beacon node or Redis fails; the proof job may have been added.
PollThrow ==
  /\ poller # IdleWorker
  /\ Fault
  /\ updateJobs' = Moved(updateJobs, poller.job, Thrown(poller.job))
  /\ poller' = IdleWorker
  /\ UNCHANGED <<head, onChain, ask, proofJobs, prover, proofs>>

PollCrash ==
  /\ poller # IdleWorker
  /\ Fault
  /\ updateJobs' = Moved(updateJobs, poller.job, Stalled(poller.job))
  /\ poller' = IdleWorker
  /\ UNCHANGED <<head, onChain, ask, proofJobs, prover, proofs>>

-----------------------------------------------------------------------------
(***************************************************************************)
(* The proof generation workers: genProof.                                 *)
(***************************************************************************)

ProverTake(w) ==
  /\ prover[w] = IdleWorker
  /\ \E job \in Waiting(proofJobs) :
       /\ proofJobs' = Moved(proofJobs, job, Active(job))
       /\ prover' = [prover EXCEPT ![w] = [job |-> Active(job), pc |-> "work"]]
  /\ UNCHANGED <<head, onChain, ask, updateJobs, poller, proofs, faults>>

\* A proof that exists already is only announced again.
LookForProof(w) ==
  /\ prover[w].pc = "work"
  /\ prover' = [prover EXCEPT ![w].pc =
       IF Update(prover[w].job) \in proofs THEN "done" ELSE "proving"]
  /\ UNCHANGED <<head, onChain, ask, updateJobs, poller, proofJobs, proofs,
                 faults>>

\* The proving server has answered.
SaveProof(w) ==
  /\ prover[w].pc = "proving"
  /\ proofs' = proofs \cup {Update(prover[w].job)}
  /\ prover' = [prover EXCEPT ![w].pc = "done"]
  /\ UNCHANGED <<head, onChain, ask, updateJobs, poller, proofJobs, faults>>

\* After notifyAboutNewProof.
ProverComplete(w) ==
  /\ prover[w].pc = "done"
  /\ proofJobs' = Moved(proofJobs, prover[w].job, Completed(prover[w].job))
  /\ prover' = [prover EXCEPT ![w] = IdleWorker]
  /\ UNCHANGED <<head, onChain, ask, updateJobs, poller, proofs, faults>>

\* The proving server is busy, unreachable or refuses, or Redis fails.
ProverThrow(w) ==
  /\ prover[w] # IdleWorker
  /\ Fault
  /\ proofJobs' = Moved(proofJobs, prover[w].job, Thrown(prover[w].job))
  /\ prover' = [prover EXCEPT ![w] = IdleWorker]
  /\ UNCHANGED <<head, onChain, ask, updateJobs, poller, proofs>>

ProverCrash(w) ==
  /\ prover[w] # IdleWorker
  /\ Fault
  /\ proofJobs' = Moved(proofJobs, prover[w].job, Stalled(prover[w].job))
  /\ prover' = [prover EXCEPT ![w] = IdleWorker]
  /\ UNCHANGED <<head, onChain, ask, updateJobs, poller, proofs>>

-----------------------------------------------------------------------------
(***************************************************************************)
(* The cleaner.                                                            *)
(***************************************************************************)

\* The waiting jobs with the data of a job.
Twins(job) == {twin \in Waiting(updateJobs) : Update(twin) = Update(job)}

\* How many copies of a job a pass leaves, of which it lists `listing[job]'.
Left(listing, job) == updateJobs[job] - listing[job]

\* Mutant: the first of the jobs with the same data is removed too.
KeepsNone(listing, job) == TRUE

\* The first of the jobs with the same data is kept.
KeepsFirst(listing, job) ==
  listing[job] > 0 => \E twin \in Twins(job) : Left(listing, twin) > 0

\* All the others are listed, but those which threw: they may be delayed, and
\* getWaiting() lists no delayed jobs.
ListsOthers(listing, job) ==
  job.attempts = 0 /\ Left(listing, job) > 0 =>
    /\ Left(listing, job) = 1
    /\ \A twin \in Twins(job) \ {job} :
         twin.attempts = 0 => Left(listing, twin) = 0

Listings ==
  {listing \in [Waiting(updateJobs) ->
                  UNION {0 .. updateJobs[job] : job \in Waiting(updateJobs)}] :
     \A job \in Waiting(updateJobs) : /\ listing[job] <= updateJobs[job]
                                      /\ KeepsFirst(listing, job)
                                      /\ ListsOthers(listing, job)}

Listed(job) == [job EXCEPT !.listed = TRUE]

Unlisted(job) == [job EXCEPT !.listed = FALSE]

\* The queue with the copies of a listing marked.
WithListed(jobs, listing) ==
  LET copies ==
        [job \in BagToSet(jobs) \cup {Listed(j) : j \in DOMAIN listing} |->
           CASE job.listed                -> listing[Unlisted(job)]
             [] job \in DOMAIN listing    -> jobs[job] - listing[job]
             [] OTHER                     -> jobs[job]]
  IN  [job \in {j \in DOMAIN copies : copies[j] > 0} |-> copies[job]]

\* A pass starts: the one getWaiting() whose list all the removals are from.
CleanerLists ==
  /\ \A job \in BagToSet(updateJobs) : ~job.listed
  /\ \E listing \in Listings :
       /\ \E job \in DOMAIN listing : listing[job] > 0
       /\ updateJobs' = WithListed(updateJobs, listing)
  /\ UNCHANGED <<head, onChain, ask, poller, proofJobs, prover, proofs,
                 faults>>

\* remove() takes a job out whatever became of it since, unless a worker has
\* it locked.
CleanerRemoves ==
  /\ \E job \in BagToSet(updateJobs) :
       /\ job.listed
       /\ job.state # "active"
       /\ updateJobs' = Removed(updateJobs, job)
  /\ UNCHANGED <<head, onChain, ask, poller, proofJobs, prover, proofs,
                 faults>>

\* The pass goes on without the job: it is locked, or Redis fails (a cleaner
\* that is restarted skips all that its list still has).
CleanerSkips ==
  /\ \E job \in BagToSet(updateJobs) :
       /\ job.listed
       /\ \/ job.state = "active" /\ UNCHANGED faults
          \/ job.state # "active" /\ Fault
       /\ updateJobs' = Moved(updateJobs, job, Unlisted(job))
       /\ poller' = IF poller.job = job
                    THEN [poller EXCEPT !.job = Unlisted(job)] ELSE poller
  /\ UNCHANGED <<head, onChain, ask, proofJobs, prover, proofs>>

NewHead ==
  /\ head < MaxHead
  /\ head' = head + 1
  /\ UNCHANGED <<onChain, ask, updateJobs, poller, proofJobs, prover, proofs,
                 faults>>

-----------------------------------------------------------------------------
Asking(c) == AskSlot(c) \/ AskHead(c) \/ ListJobs(c) \/ AddUpdate(c)

Polling == PollTake \/ PollAddProofJob \/ PollComplete

Proving(w) ==
  ProverTake(w) \/ LookForProof(w) \/ SaveProof(w) \/ ProverComplete(w)

Next ==
  \/ \E c \in Contract : Asking(c) \/ RestartPublisher(c) \/ Publish(c)
  \/ Polling \/ PollThrow \/ PollCrash
  \/ \E w \in Prover : Proving(w) \/ ProverThrow(w) \/ ProverCrash(w)
  \/ CleanerLists \/ CleanerRemoves \/ CleanerSkips
  \/ NewHead

\* The loops of the publishers and the workers run on (supervisord restarts
\* them), and the beacon chain grows.
Fairness ==
  /\ \A c \in Contract : WF_vars(Asking(c)) /\ WF_vars(Publish(c))
  /\ WF_vars(Polling)
  /\ \A w \in Prover : WF_vars(Proving(w))
  /\ WF_vars(NewHead)

SafetySpec == Init /\ [][Next]_vars

Spec == SafetySpec /\ Fairness
-----------------------------------------------------------------------------
\* Nothing is lost between the queues: an update job counts as done only when
\* its proof job exists, and a proof job only when its proof is saved, whatever
\* failed or crashed in between.
WorkIsHandedOver ==
  /\ \A u \in BagToSet(updateJobs) : u.state = "completed" =>
       \E p \in BagToSet(proofJobs) : Update(p) = Update(u)
  /\ \A p \in BagToSet(proofJobs) : p.state = "completed" => Update(p) \in proofs

\* An update never leaves the queue altogether, although the cleaner removes
\* from a list that is old by then, and in whatever state the jobs are: the
\* job it kept for them is still there.
UpdatesStay ==
  [][{Update(u) : u \in BagToSet(updateJobs)}
       \subseteq {Update(u) : u \in BagToSet(updateJobs')}]_vars

FailedProofJob == \E p \in BagToSet(proofJobs) : p.state = "failed"

\* Every contract reaches the head of the beacon chain, although jobs fail
\* and workers crash, unless a proof job has used up its attempts.
ContractsCatchUp ==
  \A c \in Contract : <>(onChain[c] = MaxHead \/ FailedProofJob)
=============================================================================
