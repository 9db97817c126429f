---------------------------- MODULE Relay_proofs ----------------------------
(***************************************************************************)
(* Proofs about the relay for any number of contracts and provers, any     *)
(* slots, and any limits of attempts, stalls and faults.                   *)
(***************************************************************************)
EXTENDS Relay, WellFoundedInduction, TLAPS

-----------------------------------------------------------------------------
(* Bags of jobs *)

\* One more copy of a job.
LEMMA AddedBag ==
  ASSUME NEW B, IsABag(B), NEW job
  PROVE  /\ IsABag(Added(B, job))
         /\ BagToSet(Added(B, job)) = BagToSet(B) \cup {job}
         /\ \A e \in BagToSet(B) \ {job} : Added(B, job)[e] = B[e]
         /\ Added(B, job)[job] = IF job \in BagToSet(B) THEN B[job] + 1 ELSE 1
  BY DEF Added, IsABag, BagToSet, SetToBag, (+)

\* One copy of a job less.
LEMMA RemovedBag ==
  ASSUME NEW B, IsABag(B), NEW job
  PROVE  /\ IsABag(Removed(B, job))
         /\ BagToSet(Removed(B, job)) \subseteq BagToSet(B)
         /\ BagToSet(B) \ {job} \subseteq BagToSet(Removed(B, job))
         /\ \A e \in BagToSet(B) \ {job} : Removed(B, job)[e] = B[e]
         /\ job \in BagToSet(B) /\ B[job] > 1 =>
              /\ job \in BagToSet(Removed(B, job))
              /\ Removed(B, job)[job] = B[job] - 1
  BY DEF Removed, IsABag, BagToSet, SetToBag, (-)

\* A job that goes to another state.
LEMMA MovedBag ==
  ASSUME NEW B, IsABag(B), NEW job, NEW next
  PROVE  /\ IsABag(Moved(B, job, next))
         /\ BagToSet(Moved(B, job, next)) \subseteq BagToSet(B) \cup {next}
         /\ next \in BagToSet(Moved(B, job, next))
         /\ BagToSet(B) \ {job} \subseteq BagToSet(Moved(B, job, next))
<1>1. IsABag(Removed(B, job))
  BY RemovedBag
<1>2. QED
  BY <1>1, RemovedBag, AddedBag DEF Moved

\* The update of a job stays in the queue, whatever state the job goes to.
LEMMA MovedUpdates ==
  ASSUME NEW B, IsABag(B), NEW job, NEW next, Update(next) = Update(job), NEW e \in BagToSet(B)
  PROVE  \E f \in BagToSet(Moved(B, job, next)) : Update(f) = Update(e)
<1>1. CASE e = job
  BY <1>1, MovedBag
<1>2. CASE e # job
  BY <1>2, MovedBag
<1>3. QED
  BY <1>1, <1>2

-----------------------------------------------------------------------------
(* Types *)

\* A job for a step forward, with an attempt left if it is not over.
Sound(job) ==
  /\ job \in Job
  /\ job.from < job.to
  /\ job.state \in {"waiting", "active"} => job.attempts < MaxAttempts

\* A worker has nothing, or a sound job that is active.
Holds(worker) ==
  \/ worker = IdleWorker
  \/ worker.pc \in {"work", "proving", "done"} /\ Sound(worker.job) /\ worker.job.state = "active"

\* TypeOK with what keeps it: every job is sound, every worker holds one, and
\* a publisher adds an update only below the head.
TypeInv ==
  /\ TypeOK
  /\ \A job \in BagToSet(updateJobs) : Sound(job)
  /\ \A job \in BagToSet(proofJobs) : Sound(job)
  /\ Holds(poller)
  /\ \A w \in Prover : Holds(prover[w])
  /\ \A c \in Contract : ask[c].pc = "add" => ask[c].from < ask[c].headSlot

\* What BullMQ makes of a job it gives to a worker or takes back from it.
LEMMA JobStates ==
  ASSUME NEW job, Sound(job)
  PROVE  /\ Active(job).state = "active" /\ Update(Active(job)) = Update(job)
         /\ job.state = "waiting" => Sound(Active(job))
         /\ Completed(job).state = "completed" /\ Update(Completed(job)) = Update(job)
         /\ Sound(Completed(job))
         /\ Thrown(job).state \in {"waiting", "failed"} /\ Update(Thrown(job)) = Update(job)
         /\ job.state = "active" => Sound(Thrown(job))
         /\ Stalled(job).state \in {"waiting", "failed"} /\ Update(Stalled(job)) = Update(job)
         /\ job.state = "active" => Sound(Stalled(job))
         /\ Active(job).listed = job.listed /\ Completed(job).listed = job.listed
         /\ Thrown(job).listed = job.listed /\ Stalled(job).listed = job.listed
<1>. /\ job \in Job
     /\ job.from \in Slot /\ job.to \in Slot /\ job.from < job.to
     /\ job.attempts \in Nat /\ job.attempts \in 0 .. MaxAttempts
     /\ job.stalls \in Nat /\ job.stalls \in 0 .. MaxStalled
  BY RelayAssumption DEF Sound, Job
<1>1. /\ Active(job).state = "active" /\ Update(Active(job)) = Update(job)
      /\ Completed(job).state = "completed" /\ Update(Completed(job)) = Update(job)
      /\ Sound(Completed(job))
  BY DEF Sound, Job, Active, Completed, Update
<1>2. job.state = "waiting" => Sound(Active(job))
  BY DEF Sound, Job, Active
<1>3. /\ Thrown(job).state \in {"waiting", "failed"} /\ Update(Thrown(job)) = Update(job)
      /\ Stalled(job).state \in {"waiting", "failed"} /\ Update(Stalled(job)) = Update(job)
  BY DEF Job, Thrown, Stalled, Update
<1>4. ASSUME job.state = "active" PROVE Sound(Thrown(job))
  <2>1. job.attempts + 1 \in 0 .. MaxAttempts
    BY <1>4, RelayAssumption DEF Sound
  <2>2. Thrown(job) \in Job
    BY <2>1 DEF Thrown, Job
  <2>3. Thrown(job).state = "waiting" => Thrown(job).attempts < MaxAttempts
    BY DEF Thrown, Job
  <2>4. Thrown(job).from < Thrown(job).to /\ Thrown(job).state # "active"
    BY DEF Thrown, Job
  <2>5. QED
    BY <2>2, <2>3, <2>4 DEF Sound
<1>5. ASSUME job.state = "active" PROVE Sound(Stalled(job))
  <2>1. CASE job.stalls < MaxStalled
    <3>1. job.stalls + 1 \in 0 .. MaxStalled
      BY <2>1, RelayAssumption
    <3>2. QED
      BY <1>5, <2>1, <3>1 DEF Stalled, Job, Sound
  <2>2. CASE ~(job.stalls < MaxStalled)
    BY <1>5, <2>2 DEF Stalled, Job, Sound
  <2>3. QED
    BY <2>1, <2>2
<1>6. /\ Active(job).listed = job.listed /\ Completed(job).listed = job.listed
      /\ Thrown(job).listed = job.listed /\ Stalled(job).listed = job.listed
  BY DEF Job, Active, Completed, Thrown, Stalled
<1>7. QED
  BY <1>1, <1>2, <1>3, <1>4, <1>5, <1>6

\* The cleaner's mark changes nothing else.
LEMMA Marks ==
  ASSUME NEW job, Sound(job)
  PROVE  /\ Sound(Listed(job)) /\ Listed(job).listed
         /\ Update(Listed(job)) = Update(job) /\ Listed(job).state = job.state
         /\ Sound(Unlisted(job)) /\ ~Unlisted(job).listed
         /\ Update(Unlisted(job)) = Update(job) /\ Unlisted(job).state = job.state
         /\ ~job.listed => Unlisted(Listed(job)) = job
  BY DEF Sound, Job, Listed, Unlisted, Update

\* A new job of a step forward is sound.
LEMMA NewJobIsSound ==
  ASSUME NEW from \in Slot, NEW to \in Slot, from < to
  PROVE  /\ Sound(NewJob(from, to))
         /\ Update(NewJob(from, to)) = [from |-> from, to |-> to]
         /\ NewJob(from, to).state = "waiting"
         /\ ~NewJob(from, to).listed
  BY RelayAssumption DEF Sound, NewJob, Job, Update, Slot

\* getNextSlot goes forward and not past the head.
LEMMA NextSlotType ==
  ASSUME NEW slot \in Slot, NEW headSlot \in Slot, slot < headSlot
  PROVE  NextSlot(slot, headSlot) \in Slot /\ slot < NextSlot(slot, headSlot)
  BY RelayAssumption DEF NextSlot, Slot

\* The head the publishers start from is a slot: bounded sets of naturals
\* have a maximum.
LEMMA MaxIsThere ==
  ASSUME NEW S, S # {}, S \subseteq Slot
  PROVE  Max(S) \in S
<1>. DEFINE T == {MaxHead - s : s \in S}
            Less == {pair \in Nat \X Nat : pair[1] < pair[2]}
<1>0. IsWellFoundedOn(Less, Nat)
  BY NatLessThanWellFounded DEF OpToRel
<1>1. PICK t \in T : \A u \in T : <<u, t>> \notin Less
  <2>1. T # {}
    OBVIOUS
  <2>2. ASSUME NEW s \in S PROVE MaxHead - s \in Nat
    BY RelayAssumption DEF Slot
  <2>3. T \subseteq Nat
    BY <2>2
  <2>4. QED
    BY <1>0, <2>1, <2>3, WFMin
<1>2. PICK m \in S : t = MaxHead - m
  OBVIOUS
<1>3. \A s \in S : m >= s
  <2>1. SUFFICES ASSUME NEW s \in S, m < s PROVE FALSE
    BY RelayAssumption DEF Slot
  <2>2. MaxHead - s \in Nat /\ t \in Nat /\ MaxHead - s < t
    BY <1>2, <2>1, RelayAssumption DEF Slot
  <2>3. <<MaxHead - s, t>> \in Less
    BY <2>2
  <2>4. QED
    BY <1>1, <2>3
<1>4. QED
  BY <1>3 DEF Max

\* The relay starts with its types.
LEMMA InitTypes == Init => TypeInv
<1>. SUFFICES ASSUME Init PROVE TypeInv
  OBVIOUS
<1>1. head \in Slot
  <2>. DEFINE S == {FirstSlot[c] : c \in Contract}
  <2>1. S # {} /\ S \subseteq Slot
    BY RelayAssumption DEF Slot
  <2>2. QED
    BY <2>1, MaxIsThere DEF Init, Slot
<1>2. IsABag(EmptyBag) /\ BagToSet(EmptyBag) = {}
  BY DEF IsABag, EmptyBag, SetToBag, BagToSet
<1>3. 0 \in Slot /\ 0 \in 0 .. MaxFaults
  BY RelayAssumption DEF Slot
<1>4. onChain \in [Contract -> Slot]
  BY RelayAssumption DEF Init, Slot
<1>5. IdleWorker \in WorkerState
  BY DEF IdleWorker, WorkerState
<1>6. AskAgain \in AskState /\ AskAgain.pc # "add"
  BY <1>3 DEF AskAgain, AskState
<1>7. TypeOK
  BY <1>1, <1>2, <1>3, <1>4, <1>5, <1>6 DEF Init, TypeOK
<1>8. QED
  BY <1>2, <1>6, <1>7 DEF Init, TypeInv, Holds

\* askForUpdates and addUpdate keep the types.
LEMMA AskingTypes ==
  ASSUME TypeInv, NEW c \in Contract, Asking(c)
  PROVE  TypeInv'
<1>. USE DEF TypeInv
<1>. ask[c] \in AskState /\ onChain[c] \in Slot /\ head \in Slot
  BY DEF TypeOK
<1>1. CASE AskSlot(c) \/ AskHead(c)
  <2>1. ask' \in [Contract -> AskState]
    <3>1. [ask[c] EXCEPT !.pc = "head", !.optimisticSlot = onChain[c]] \in AskState
      BY DEF AskState
    <3>2. [ask[c] EXCEPT !.pc = "jobs", !.headSlot = head] \in AskState
      BY DEF AskState
    <3>3. QED
      BY <1>1, <3>1, <3>2 DEF AskSlot, AskHead, TypeOK
  <2>2. \A d \in Contract : ask'[d].pc = "add" => ask'[d].from < ask'[d].headSlot
    BY <1>1 DEF AskSlot, AskHead, TypeOK, AskState
  <2>3. QED
    BY <1>1, <2>1, <2>2 DEF AskSlot, AskHead, TypeOK, Holds
<1>2. CASE ListJobs(c)
  <2>1. PICK tip \in Tips(ask[c].optimisticSlot) :
          ask' = [ask EXCEPT ![c] = IF tip >= ask[c].headSlot THEN AskAgain
                                    ELSE [ask[c] EXCEPT !.pc = "add", !.from = tip]]
    BY <1>2 DEF ListJobs
  <2>2. tip \in Slot
    BY <2>1 DEF Tips
  <2>3. AskAgain \in AskState /\ AskAgain.pc # "add"
    BY RelayAssumption DEF AskAgain, AskState, Slot
  <2>4. [ask[c] EXCEPT !.pc = "add", !.from = tip] \in AskState
    BY <2>2 DEF AskState
  <2>5. ask' \in [Contract -> AskState]
    BY <2>1, <2>3, <2>4 DEF TypeOK
  <2>6. ASSUME NEW d \in Contract, ask'[d].pc = "add" PROVE ask'[d].from < ask'[d].headSlot
    <3>1. CASE d # c
      BY <2>1, <2>6, <3>1 DEF TypeOK
    <3>2. CASE d = c
      <4>1. ~(tip >= ask[c].headSlot)
        BY <2>1, <2>3, <2>6, <3>2 DEF TypeOK
      <4>2. ask'[c].from = tip /\ ask'[c].headSlot = ask[c].headSlot
        BY <2>1, <4>1 DEF TypeOK, AskState
      <4>3. QED
        BY <2>2, <3>2, <4>1, <4>2, RelayAssumption DEF AskState, Slot
    <3>3. QED
      BY <3>1, <3>2
  <2>7. QED
    BY <1>2, <2>5, <2>6 DEF ListJobs, TypeOK, Holds
<1>3. CASE AddUpdate(c)
  <2>. DEFINE next == NextSlot(ask[c].from, ask[c].headSlot)
              job == NewJob(ask[c].from, next)
  <2>1. ask[c].from \in Slot /\ ask[c].headSlot \in Slot /\ ask[c].from < ask[c].headSlot
    BY <1>3 DEF AddUpdate, AskState
  <2>2. next \in Slot /\ ask[c].from < next
    BY <2>1, NextSlotType
  <2>3. Sound(job)
    BY <2>1, <2>2, NewJobIsSound
  <2>4. updateJobs' = Added(updateJobs, job)
    BY <1>3 DEF AddUpdate
  <2>5. IsABag(updateJobs') /\ \A j \in BagToSet(updateJobs') : Sound(j)
    BY <2>3, <2>4, AddedBag DEF TypeOK
  <2>6. /\ ask' \in [Contract -> AskState]
        /\ \A d \in Contract : ask'[d].pc = "add" => ask'[d].from < ask'[d].headSlot
    BY <1>3 DEF AddUpdate, TypeOK, AskState
  <2>7. QED
    BY <1>3, <2>5, <2>6 DEF AddUpdate, TypeOK, Holds, Sound
<1>4. QED
  BY <1>1, <1>2, <1>3 DEF Asking

\* The publications, the restarts of the publishers and the beacon chain do.
LEMMA OutsideTypes ==
  ASSUME TypeInv,
         \/ NewHead
         \/ \E c \in Contract : RestartPublisher(c) \/ Publish(c)
  PROVE  TypeInv'
<1>. USE DEF TypeInv
<1>1. CASE NewHead
  <2>1. head' \in Slot
    BY <1>1, RelayAssumption DEF NewHead, TypeOK, Slot
  <2>2. QED
    BY <1>1, <2>1 DEF NewHead, TypeOK, Holds
<1>2. ASSUME NEW c \in Contract, RestartPublisher(c) PROVE TypeInv'
  <2>1. AskAgain \in AskState /\ AskAgain.pc # "add"
    BY RelayAssumption DEF AskAgain, AskState, Slot
  <2>2. ask' \in [Contract -> AskState]
    BY <1>2, <2>1 DEF RestartPublisher, TypeOK
  <2>3. \A d \in Contract : ask'[d].pc = "add" => ask'[d].from < ask'[d].headSlot
    BY <1>2, <2>1 DEF RestartPublisher, TypeOK
  <2>4. faults' \in 0 .. MaxFaults
    BY <1>2, RelayAssumption DEF RestartPublisher, Fault, TypeOK
  <2>5. QED
    BY <1>2, <2>2, <2>3, <2>4 DEF RestartPublisher, TypeOK, Holds
<1>3. ASSUME NEW c \in Contract, Publish(c) PROVE TypeInv'
  <2>1. PICK p \in proofs : p.from = onChain[c] /\ onChain' = [onChain EXCEPT ![c] = p.to]
    BY <1>3 DEF Publish
  <2>2. p.to \in Slot
    BY DEF TypeOK, Proof
  <2>3. onChain' \in [Contract -> Slot]
    BY <2>1, <2>2 DEF TypeOK
  <2>4. QED
    BY <1>3, <2>3 DEF Publish, TypeOK, Holds
<1>4. QED
  BY <1>1, <1>2, <1>3

\* A queue of sound jobs of which one goes to another state or is added.
LEMMA QueueTypes ==
  ASSUME NEW B, IsABag(B), \A j \in BagToSet(B) : Sound(j), NEW job, NEW next, Sound(next)
  PROVE  /\ IsABag(Moved(B, job, next)) /\ IsABag(Added(B, next)) /\ IsABag(Removed(B, job))
         /\ \A j \in BagToSet(Moved(B, job, next)) : Sound(j)
         /\ \A j \in BagToSet(Added(B, next)) : Sound(j)
         /\ \A j \in BagToSet(Removed(B, job)) : Sound(j)
  BY MovedBag, AddedBag, RemovedBag

\* The polling worker does.
LEMMA PollerTypes ==
  ASSUME TypeInv, Polling \/ PollThrow \/ PollCrash
  PROVE  TypeInv'
<1>. USE DEF TypeInv
<1>1. CASE PollTake
  <2>1. PICK job \in Waiting(updateJobs) :
          /\ updateJobs' = Moved(updateJobs, job, Active(job))
          /\ poller' = [job |-> Active(job), pc |-> "work"]
    BY <1>1 DEF PollTake
  <2>2. Sound(job) /\ job.state = "waiting"
    BY DEF Waiting
  <2>3. Sound(Active(job)) /\ Active(job).state = "active"
    BY <2>2, JobStates
  <2>4. IsABag(updateJobs') /\ \A j \in BagToSet(updateJobs') : Sound(j)
    BY <2>1, <2>3, QueueTypes DEF TypeOK
  <2>5. Holds(poller)' /\ poller' \in WorkerState
    BY <2>1, <2>3 DEF Holds, WorkerState, Sound
  <2>6. QED
    BY <1>1, <2>4, <2>5 DEF PollTake, TypeOK, Holds, Sound
<1>2. CASE PollAddProofJob
  <2>. DEFINE job == NewJob(poller.job.from, poller.job.to)
  <2>1. Sound(poller.job) /\ poller.job.state = "active"
    BY <1>2 DEF PollAddProofJob, Holds, IdleWorker
  <2>2. Sound(job)
    BY <2>1, NewJobIsSound DEF Sound, Job
  <2>3. IsABag(proofJobs') /\ \A j \in BagToSet(proofJobs') : Sound(j)
    BY <1>2, <2>2, QueueTypes DEF PollAddProofJob, TypeOK
  <2>4. Holds(poller)' /\ poller' \in WorkerState
    BY <1>2, <2>1 DEF PollAddProofJob, Holds, WorkerState, TypeOK
  <2>5. QED
    BY <1>2, <2>3, <2>4 DEF PollAddProofJob, TypeOK, Holds, Sound
<1>3. CASE PollComplete \/ PollThrow \/ PollCrash
  <2>1. PICK next : Sound(next) /\ updateJobs' = Moved(updateJobs, poller.job, next)
    <3>1. Sound(poller.job) /\ poller.job.state = "active"
      BY <1>3 DEF PollComplete, PollThrow, PollCrash, Holds, IdleWorker
    <3>2. QED
      BY <1>3, <3>1, JobStates DEF PollComplete, PollThrow, PollCrash
  <2>2. IsABag(updateJobs') /\ \A j \in BagToSet(updateJobs') : Sound(j)
    BY <2>1, QueueTypes DEF TypeOK
  <2>3. Holds(poller)' /\ poller' \in WorkerState
    BY <1>3 DEF PollComplete, PollThrow, PollCrash, Holds, WorkerState, IdleWorker
  <2>4. faults' \in 0 .. MaxFaults
    BY <1>3, RelayAssumption DEF PollComplete, PollThrow, PollCrash, Fault, TypeOK
  <2>5. QED
    BY <1>3, <2>2, <2>3, <2>4 DEF PollComplete, PollThrow, PollCrash, TypeOK, Holds, Sound
<1>4. QED
  BY <1>1, <1>2, <1>3 DEF Polling

\* The provers do.
LEMMA ProverTypes ==
  ASSUME TypeInv, NEW w \in Prover, Proving(w) \/ ProverThrow(w) \/ ProverCrash(w)
  PROVE  TypeInv'
<1>. USE DEF TypeInv
<1>1. CASE ProverTake(w)
  <2>1. PICK job \in Waiting(proofJobs) :
          /\ proofJobs' = Moved(proofJobs, job, Active(job))
          /\ prover' = [prover EXCEPT ![w] = [job |-> Active(job), pc |-> "work"]]
    BY <1>1 DEF ProverTake
  <2>2. Sound(job) /\ job.state = "waiting"
    BY DEF Waiting
  <2>3. Sound(Active(job)) /\ Active(job).state = "active"
    BY <2>2, JobStates
  <2>4. IsABag(proofJobs') /\ \A j \in BagToSet(proofJobs') : Sound(j)
    BY <2>1, <2>3, QueueTypes DEF TypeOK
  <2>5. prover' \in [Prover -> WorkerState]
    BY <2>1, <2>3 DEF WorkerState, Sound, TypeOK
  <2>6. \A v \in Prover : Holds(prover'[v])
    BY <2>1, <2>3 DEF Holds, TypeOK
  <2>7. QED
    BY <1>1, <2>4, <2>5, <2>6 DEF ProverTake, TypeOK, Holds, Sound
<1>2. CASE LookForProof(w) \/ SaveProof(w)
  <2>1. Sound(prover[w].job) /\ prover[w].job.state = "active"
    BY <1>2 DEF LookForProof, SaveProof, Holds, IdleWorker
  <2>2. PICK pc \in {"proving", "done"} : prover' = [prover EXCEPT ![w].pc = pc]
    BY <1>2 DEF LookForProof, SaveProof
  <2>3. prover' \in [Prover -> WorkerState]
    BY <2>2 DEF WorkerState, TypeOK
  <2>4. \A v \in Prover : Holds(prover'[v])
    BY <2>1, <2>2 DEF Holds, TypeOK, WorkerState
  <2>5. Update(prover[w].job) \in Proof
    BY <2>1 DEF Sound, Job, Update, Proof
  <2>6. proofs' \subseteq Proof
    BY <1>2, <2>5 DEF LookForProof, SaveProof, TypeOK
  <2>7. QED
    BY <1>2, <2>3, <2>4, <2>6 DEF LookForProof, SaveProof, TypeOK, Holds
<1>3. CASE ProverComplete(w) \/ ProverThrow(w) \/ ProverCrash(w)
  <2>1. PICK next : Sound(next) /\ proofJobs' = Moved(proofJobs, prover[w].job, next)
    <3>1. Sound(prover[w].job) /\ prover[w].job.state = "active"
      BY <1>3 DEF ProverComplete, ProverThrow, ProverCrash, Holds, IdleWorker
    <3>2. QED
      BY <1>3, <3>1, JobStates DEF ProverComplete, ProverThrow, ProverCrash
  <2>2. IsABag(proofJobs') /\ \A j \in BagToSet(proofJobs') : Sound(j)
    BY <2>1, QueueTypes DEF TypeOK
  <2>3. prover' = [prover EXCEPT ![w] = IdleWorker] /\ IdleWorker \in WorkerState
    BY <1>3 DEF ProverComplete, ProverThrow, ProverCrash, WorkerState, IdleWorker
  <2>4. prover' \in [Prover -> WorkerState] /\ \A v \in Prover : Holds(prover'[v])
    BY <2>3 DEF Holds, TypeOK
  <2>5. faults' \in 0 .. MaxFaults
    BY <1>3, RelayAssumption DEF ProverComplete, ProverThrow, ProverCrash, Fault, TypeOK
  <2>6. QED
    BY <1>3, <2>2, <2>4, <2>5 DEF ProverComplete, ProverThrow, ProverCrash, TypeOK, Holds, Sound
<1>4. QED
  BY <1>1, <1>2, <1>3 DEF Proving

\* What a listing is, and what the cleaner does to a queue with it: a copy is
\* marked or left as it was.
LEMMA ListingFacts ==
  ASSUME TypeInv, NEW listing \in Listings
  PROVE  /\ DOMAIN listing = Waiting(updateJobs)
         /\ \A job \in Waiting(updateJobs) :
              /\ listing[job] \in Nat /\ listing[job] <= updateJobs[job]
              /\ KeepsFirst(listing, job)
<1>1. \A job \in BagToSet(updateJobs) : updateJobs[job] \in Nat
  BY DEF TypeInv, TypeOK, IsABag, BagToSet
<1>2. UNION {0 .. updateJobs[job] : job \in Waiting(updateJobs)} \subseteq Nat
  BY <1>1 DEF Waiting
<1>3. QED
  BY <1>2 DEF Listings

\* The marked queue, when nothing was marked before.
LEMMA WithListedBag ==
  ASSUME NEW B, IsABag(B), \A job \in BagToSet(B) : Sound(job) /\ ~job.listed,
         NEW listing, DOMAIN listing \subseteq BagToSet(B),
         \A job \in DOMAIN listing : listing[job] \in Nat /\ listing[job] <= B[job]
  PROVE  /\ IsABag(WithListed(B, listing))
         /\ \A e \in BagToSet(WithListed(B, listing)) :
              \/ e \in BagToSet(B)
              \/ \E job \in DOMAIN listing : e = Listed(job) /\ listing[job] > 0
         /\ \A job \in BagToSet(B) \ DOMAIN listing : job \in BagToSet(WithListed(B, listing))
         /\ \A job \in DOMAIN listing :
              /\ listing[job] < B[job] => job \in BagToSet(WithListed(B, listing))
              /\ listing[job] > 0 => Listed(job) \in BagToSet(WithListed(B, listing))
<1>. DEFINE Dom == BagToSet(B) \cup {Listed(j) : j \in DOMAIN listing}
            copies == [job \in Dom |->
                         CASE job.listed             -> listing[Unlisted(job)]
                           [] job \in DOMAIN listing -> B[job] - listing[job]
                           [] OTHER                  -> B[job]]
            W == [job \in {j \in DOMAIN copies : copies[j] > 0} |-> copies[job]]
<1>1. WithListed(B, listing) = W
  BY DEF WithListed
<1>2. \A job \in BagToSet(B) : B[job] \in Nat /\ B[job] > 0
  BY DEF IsABag, BagToSet
<1>3. \A job \in BagToSet(B) \ DOMAIN listing : copies[job] = B[job]
  OBVIOUS
<1>4. \A job \in DOMAIN listing : copies[job] = B[job] - listing[job]
  OBVIOUS
<1>5. \A job \in DOMAIN listing : copies[Listed(job)] = listing[job]
  BY Marks
<1>. HIDE DEF copies
<1>6. \A e \in Dom : copies[e] \in Nat
  <2>1. \A job \in DOMAIN listing : B[job] - listing[job] \in Nat
    BY <1>2
  <2>2. QED
    BY <1>2, <1>3, <1>4, <1>5, <2>1
<1>7. BagToSet(W) = {j \in Dom : copies[j] > 0}
  BY DEF BagToSet, copies
<1>8. IsABag(W)
  <2>1. \A e \in {j \in Dom : copies[j] > 0} : copies[e] \in {n \in Nat : n > 0}
    BY <1>6
  <2>2. DOMAIN copies = Dom
    BY DEF copies
  <2>3. QED
    BY <2>1, <2>2 DEF IsABag
<1>9. QED
  BY <1>1, <1>2, <1>3, <1>4, <1>5, <1>7, <1>8

\* The cleaner does.
LEMMA CleanerTypes ==
  ASSUME TypeInv, CleanerLists \/ CleanerRemoves \/ CleanerSkips
  PROVE  TypeInv'
<1>. USE DEF TypeInv
<1>1. CASE CleanerLists
  <2>1. PICK listing \in Listings : updateJobs' = WithListed(updateJobs, listing)
    BY <1>1 DEF CleanerLists
  <2>2. \A job \in BagToSet(updateJobs) : Sound(job) /\ ~job.listed
    BY <1>1 DEF CleanerLists
  <2>3. DOMAIN listing \subseteq BagToSet(updateJobs)
    BY ListingFacts DEF Waiting
  <2>4. IsABag(updateJobs') /\ \A e \in BagToSet(updateJobs') :
          e \in BagToSet(updateJobs) \/ \E job \in BagToSet(updateJobs) : e = Listed(job)
    BY <2>1, <2>2, <2>3, ListingFacts, WithListedBag DEF TypeOK
  <2>5. \A e \in BagToSet(updateJobs') : Sound(e)
    BY <2>4, Marks
  <2>6. QED
    BY <1>1, <2>4, <2>5 DEF CleanerLists, TypeOK, Holds, Sound
<1>2. CASE CleanerRemoves
  <2>1. IsABag(updateJobs') /\ \A j \in BagToSet(updateJobs') : Sound(j)
    BY <1>2, RemovedBag DEF CleanerRemoves, TypeOK
  <2>2. QED
    BY <1>2, <2>1 DEF CleanerRemoves, TypeOK, Holds, Sound
<1>3. CASE CleanerSkips
  <2>1. PICK job \in BagToSet(updateJobs) :
          /\ updateJobs' = Moved(updateJobs, job, Unlisted(job))
          /\ poller' = IF poller.job = job
                       THEN [poller EXCEPT !.job = Unlisted(job)] ELSE poller
    BY <1>3 DEF CleanerSkips
  <2>2. Sound(Unlisted(job)) /\ Unlisted(job).state = job.state
    BY Marks
  <2>3. IsABag(updateJobs') /\ \A j \in BagToSet(updateJobs') : Sound(j)
    BY <2>1, <2>2, QueueTypes DEF TypeOK
  <2>4. Holds(poller)' /\ poller' \in WorkerState
    <3>1. CASE poller.job = job /\ poller # IdleWorker
      BY <2>1, <2>2, <3>1 DEF Holds, WorkerState, TypeOK, Sound
    <3>2. CASE poller.job # job
      BY <2>1, <3>2 DEF TypeOK, Holds
    <3>3. CASE poller = IdleWorker /\ poller.job = job
      BY <3>3, NoJobAssumption DEF IdleWorker, Sound
    <3>4. QED
      BY <3>1, <3>2, <3>3
  <2>5. faults' \in 0 .. MaxFaults
    BY <1>3, RelayAssumption DEF CleanerSkips, Fault, TypeOK
  <2>6. QED
    BY <1>3, <2>3, <2>4, <2>5 DEF CleanerSkips, TypeOK, Holds, Sound
<1>4. QED
  BY <1>1, <1>2, <1>3

\* Every step keeps the types.
LEMMA TypeStep == TypeInv /\ [Next]_vars => TypeInv'
<1>. SUFFICES ASSUME TypeInv, [Next]_vars PROVE TypeInv'
  OBVIOUS
<1>1. CASE Next
  BY <1>1, AskingTypes, OutsideTypes, PollerTypes, ProverTypes, CleanerTypes DEF Next
<1>2. CASE UNCHANGED vars
  BY <1>2 DEF vars, TypeInv, TypeOK, Holds
<1>3. QED
  BY <1>1, <1>2

-----------------------------------------------------------------------------
(* Nothing is lost between the queues *)

\* A worker that is done with its job has done what WorkIsHandedOver says of
\* the job once it is completed.
HandOver ==
  /\ WorkIsHandedOver
  /\ poller.pc = "done" => \E p \in BagToSet(proofJobs) : Update(p) = Update(poller.job)
  /\ \A w \in Prover : prover[w].pc = "done" => Update(prover[w].job) \in proofs

\* Steps that leave both queues and their workers alone.
LEMMA OtherHandOver ==
  ASSUME HandOver, UNCHANGED <<poller, proofJobs, prover, proofs>>,
         \A u \in BagToSet(updateJobs') : u \in BagToSet(updateJobs) \/ u.state # "completed"
  PROVE  HandOver'
  BY DEF HandOver, WorkIsHandedOver

\* The cleaner's mark on a job changes nothing of what is handed over.
LEMMA CleanerHandOver ==
  ASSUME TypeInv, HandOver, CleanerLists \/ CleanerRemoves \/ CleanerSkips
  PROVE  HandOver'
<1>1. CASE CleanerLists
  <2>1. PICK listing \in Listings : updateJobs' = WithListed(updateJobs, listing)
    BY <1>1 DEF CleanerLists
  <2>2. \A job \in BagToSet(updateJobs) : Sound(job) /\ ~job.listed
    BY <1>1 DEF CleanerLists, TypeInv
  <2>3. \A e \in BagToSet(updateJobs') :
          e \in BagToSet(updateJobs) \/ \E job \in Waiting(updateJobs) : e = Listed(job)
    <3>1. DOMAIN listing = Waiting(updateJobs) /\ Waiting(updateJobs) \subseteq BagToSet(updateJobs)
      BY ListingFacts DEF Waiting
    <3>2. QED
      BY <2>1, <2>2, <3>1, ListingFacts, WithListedBag DEF TypeInv, TypeOK
  <2>4. \A job \in Waiting(updateJobs) : Listed(job).state # "completed"
    BY <2>2, Marks DEF Waiting
  <2>5. QED
    BY <1>1, <2>3, <2>4, OtherHandOver DEF CleanerLists
<1>2. CASE CleanerRemoves
  <2>1. \A u \in BagToSet(updateJobs') : u \in BagToSet(updateJobs)
    BY <1>2, RemovedBag DEF CleanerRemoves, TypeInv, TypeOK
  <2>2. QED
    BY <1>2, <2>1, OtherHandOver DEF CleanerRemoves
<1>3. CASE CleanerSkips
  <2>1. PICK job \in BagToSet(updateJobs) :
          /\ updateJobs' = Moved(updateJobs, job, Unlisted(job))
          /\ poller' = IF poller.job = job
                       THEN [poller EXCEPT !.job = Unlisted(job)] ELSE poller
    BY <1>3 DEF CleanerSkips
  <2>2. Update(Unlisted(job)) = Update(job) /\ Unlisted(job).state = job.state
    BY Marks DEF TypeInv
  <2>3. \A u \in BagToSet(updateJobs') : u \in BagToSet(updateJobs) \/ u = Unlisted(job)
    BY <2>1, MovedBag DEF TypeInv, TypeOK
  <2>4. \A u \in BagToSet(updateJobs') : u.state = "completed" =>
          \E p \in BagToSet(proofJobs) : Update(p) = Update(u)
    BY <2>2, <2>3 DEF HandOver, WorkIsHandedOver
  <2>5. poller'.pc = poller.pc /\ Update(poller'.job) = Update(poller.job)
    BY <2>1, <2>2 DEF TypeInv, TypeOK, WorkerState
  <2>6. UNCHANGED <<proofJobs, prover, proofs>>
    BY <1>3 DEF CleanerSkips
  <2>7. QED
    BY <2>4, <2>5, <2>6 DEF HandOver, WorkIsHandedOver
<1>4. QED
  BY <1>1, <1>2, <1>3

\* A queue of proof jobs that still has all updates, and completes a job
\* only when its proof is there.
LEMMA ProofJobsHandOver ==
  ASSUME HandOver, UNCHANGED <<updateJobs, poller>>, proofs \subseteq proofs',
         \A p \in BagToSet(proofJobs) : \E q \in BagToSet(proofJobs') : Update(q) = Update(p),
         \A p \in BagToSet(proofJobs') :
           \/ p \in BagToSet(proofJobs)
           \/ p.state = "completed" => Update(p) \in proofs',
         \A w \in Prover : prover'[w].pc = "done" => Update(prover'[w].job) \in proofs'
  PROVE  HandOver'
<1>1. ASSUME NEW u \in BagToSet(updateJobs), u.state = "completed"
      PROVE  \E q \in BagToSet(proofJobs') : Update(q) = Update(u)
  BY <1>1 DEF HandOver, WorkIsHandedOver
<1>2. poller.pc = "done" => \E q \in BagToSet(proofJobs') : Update(q) = Update(poller.job)
  BY DEF HandOver
<1>3. \A p \in BagToSet(proofJobs') : p.state = "completed" => Update(p) \in proofs'
  BY DEF HandOver, WorkIsHandedOver
<1>4. QED
  BY <1>1, <1>2, <1>3 DEF HandOver, WorkIsHandedOver

\* The polling worker hands its updates over: the proof job first.
LEMMA PollerHandOver ==
  ASSUME TypeInv, HandOver, Polling \/ PollThrow \/ PollCrash
  PROVE  HandOver'
<1>. USE DEF TypeInv
<1>1. CASE PollTake
  <2>1. PICK job \in Waiting(updateJobs) :
          /\ updateJobs' = Moved(updateJobs, job, Active(job))
          /\ poller' = [job |-> Active(job), pc |-> "work"]
    BY <1>1 DEF PollTake
  <2>2. Active(job).state = "active"
    BY <2>1, JobStates DEF Waiting
  <2>3. \A u \in BagToSet(updateJobs') : u \in BagToSet(updateJobs) \/ u.state # "completed"
    BY <2>1, <2>2, MovedBag DEF TypeOK
  <2>4. QED
    BY <1>1, <2>1, <2>3 DEF PollTake, HandOver, WorkIsHandedOver
<1>2. CASE PollAddProofJob
  <2>. DEFINE job == NewJob(poller.job.from, poller.job.to)
  <2>1. Sound(poller.job)
    BY <1>2 DEF PollAddProofJob, Holds, IdleWorker
  <2>2. Update(job) = Update(poller.job) /\ job.state = "waiting"
    BY <2>1, NewJobIsSound DEF Sound, Job, Update
  <2>3. BagToSet(proofJobs') = BagToSet(proofJobs) \cup {job}
    BY <1>2, AddedBag DEF PollAddProofJob, TypeOK
  <2>4. poller'.job = poller.job
    BY <1>2 DEF PollAddProofJob, TypeOK, WorkerState
  <2>5. QED
    BY <1>2, <2>2, <2>3, <2>4 DEF PollAddProofJob, HandOver, WorkIsHandedOver
<1>3. CASE PollComplete
  <2>1. Sound(poller.job)
    BY <1>3 DEF PollComplete, Holds, IdleWorker
  <2>2. Update(Completed(poller.job)) = Update(poller.job)
    BY <2>1, JobStates
  <2>3. \E p \in BagToSet(proofJobs) : Update(p) = Update(Completed(poller.job))
    BY <1>3, <2>2 DEF PollComplete, HandOver
  <2>4. \A u \in BagToSet(updateJobs') : u \in BagToSet(updateJobs) \/ u = Completed(poller.job)
    BY <1>3, MovedBag DEF PollComplete, TypeOK
  <2>5. QED
    BY <1>3, <2>3, <2>4 DEF PollComplete, HandOver, WorkIsHandedOver, IdleWorker
<1>4. CASE PollThrow \/ PollCrash
  <2>1. Sound(poller.job)
    BY <1>4 DEF PollThrow, PollCrash, Holds
  <2>2. PICK next : next.state # "completed" /\ updateJobs' = Moved(updateJobs, poller.job, next)
    BY <1>4, <2>1, JobStates DEF PollThrow, PollCrash
  <2>3. \A u \in BagToSet(updateJobs') : u \in BagToSet(updateJobs) \/ u.state # "completed"
    BY <2>2, MovedBag DEF TypeOK
  <2>4. QED
    BY <1>4, <2>3 DEF PollThrow, PollCrash, HandOver, WorkIsHandedOver, IdleWorker
<1>5. QED
  BY <1>1, <1>2, <1>3, <1>4 DEF Polling

\* A prover completes its job after the proof was saved or found.
LEMMA ProverHandOver ==
  ASSUME TypeInv, HandOver, NEW w \in Prover, Proving(w) \/ ProverThrow(w) \/ ProverCrash(w)
  PROVE  HandOver'
<1>. USE DEF TypeInv
<1>1. CASE ProverTake(w)
  <2>1. PICK job \in Waiting(proofJobs) :
          /\ proofJobs' = Moved(proofJobs, job, Active(job))
          /\ prover' = [prover EXCEPT ![w] = [job |-> Active(job), pc |-> "work"]]
    BY <1>1 DEF ProverTake
  <2>2. Active(job).state = "active" /\ Update(Active(job)) = Update(job)
    BY <2>1, JobStates DEF Waiting
  <2>3. \A p \in BagToSet(proofJobs) : \E q \in BagToSet(proofJobs') : Update(q) = Update(p)
    BY <2>1, <2>2, MovedUpdates DEF TypeOK
  <2>4. \A p \in BagToSet(proofJobs') : p \in BagToSet(proofJobs) \/ p.state # "completed"
    BY <2>1, <2>2, MovedBag DEF TypeOK
  <2>5. \A v \in Prover : prover'[v].pc = "done" => Update(prover'[v].job) \in proofs
    BY <2>1 DEF HandOver, TypeOK
  <2>6. QED
    BY <1>1, <2>3, <2>4, <2>5, ProofJobsHandOver DEF ProverTake
<1>2. CASE LookForProof(w) \/ SaveProof(w)
  <2>1. proofs \subseteq proofs' /\ proofJobs' = proofJobs
    BY <1>2 DEF LookForProof, SaveProof
  <2>2. \A v \in Prover : prover'[v].pc = "done" => Update(prover'[v].job) \in proofs'
    BY <1>2 DEF LookForProof, SaveProof, HandOver, TypeOK, WorkerState
  <2>3. QED
    BY <1>2, <2>1, <2>2, ProofJobsHandOver DEF LookForProof, SaveProof
<1>3. CASE ProverComplete(w) \/ ProverThrow(w) \/ ProverCrash(w)
  <2>1. Sound(prover[w].job)
    BY <1>3 DEF ProverComplete, ProverThrow, ProverCrash, Holds, IdleWorker
  <2>2. PICK next : /\ Update(next) = Update(prover[w].job)
                    /\ next.state = "completed" => ProverComplete(w)
                    /\ proofJobs' = Moved(proofJobs, prover[w].job, next)
    BY <1>3, <2>1, JobStates DEF ProverComplete, ProverThrow, ProverCrash
  <2>3. \A p \in BagToSet(proofJobs) : \E q \in BagToSet(proofJobs') : Update(q) = Update(p)
    BY <2>2, MovedUpdates DEF TypeOK
  <2>4. next.state = "completed" => Update(next) \in proofs
    BY <2>2 DEF ProverComplete, HandOver
  <2>5. \A p \in BagToSet(proofJobs') : p \in BagToSet(proofJobs) \/ p = next
    BY <2>2, MovedBag DEF TypeOK
  <2>6. prover' = [prover EXCEPT ![w] = IdleWorker]
    BY <1>3 DEF ProverComplete, ProverThrow, ProverCrash
  <2>7. \A v \in Prover : prover'[v].pc = "done" => Update(prover'[v].job) \in proofs
    BY <2>6 DEF HandOver, TypeOK, IdleWorker
  <2>8. UNCHANGED <<updateJobs, poller, proofs>>
    BY <1>3 DEF ProverComplete, ProverThrow, ProverCrash
  <2>9. QED
    BY <2>3, <2>4, <2>5, <2>7, <2>8, ProofJobsHandOver
<1>4. QED
  BY <1>1, <1>2, <1>3 DEF Proving

\* Every step hands over what it takes.
LEMMA HandOverStep == TypeInv /\ HandOver /\ [Next]_vars => HandOver'
<1>. SUFFICES ASSUME TypeInv, HandOver, [Next]_vars PROVE HandOver'
  OBVIOUS
<1>1. ASSUME NEW c \in Contract, Asking(c) PROVE HandOver'
  <2>1. CASE AddUpdate(c)
    <3>1. NewJob(ask[c].from, NextSlot(ask[c].from, ask[c].headSlot)).state # "completed"
      BY DEF NewJob
    <3>2. \A u \in BagToSet(updateJobs') : u \in BagToSet(updateJobs) \/ u.state # "completed"
      BY <2>1, <3>1, AddedBag DEF AddUpdate, TypeInv, TypeOK
    <3>3. QED
      BY <2>1, <3>2, OtherHandOver DEF AddUpdate
  <2>2. CASE AskSlot(c) \/ AskHead(c) \/ ListJobs(c)
    BY <2>2, OtherHandOver DEF AskSlot, AskHead, ListJobs
  <2>3. QED
    BY <1>1, <2>1, <2>2 DEF Asking
<1>2. ASSUME NEW c \in Contract, RestartPublisher(c) \/ Publish(c) PROVE HandOver'
  BY <1>2, OtherHandOver DEF RestartPublisher, Publish
<1>3. CASE NewHead \/ UNCHANGED vars
  BY <1>3, OtherHandOver DEF NewHead, vars
<1>4. QED
  BY <1>1, <1>2, <1>3, PollerHandOver, ProverHandOver, CleanerHandOver DEF Next

-----------------------------------------------------------------------------
(* An update never leaves the queue *)

\* The job the cleaner kept for a job of its list is in the queue, and not
\* itself in the list; the polling worker's job is in the queue.
CleanerInv ==
  /\ \A job \in BagToSet(updateJobs) : job.listed =>
       \E kept \in BagToSet(updateJobs) : ~kept.listed /\ Update(kept) = Update(job)
  /\ poller # IdleWorker => poller.job \in BagToSet(updateJobs)

\* A job that is added, or goes to another state with its mark, leaves
\* every marked job its kept one.
LEMMA KeptStays ==
  ASSUME NEW B, IsABag(B),
         \A j \in BagToSet(B) : j.listed =>
           \E kept \in BagToSet(B) : ~kept.listed /\ Update(kept) = Update(j),
         NEW job \in BagToSet(B), NEW next, Update(next) = Update(job),
         next.listed => job.listed, ~job.listed => ~next.listed
  PROVE  \A j \in BagToSet(Moved(B, job, next)) : j.listed =>
           \E kept \in BagToSet(Moved(B, job, next)) :
             ~kept.listed /\ Update(kept) = Update(j)
<1>. DEFINE M == Moved(B, job, next)
<1>1. /\ BagToSet(M) \subseteq BagToSet(B) \cup {next}
      /\ next \in BagToSet(M)
      /\ BagToSet(B) \ {job} \subseteq BagToSet(M)
  BY MovedBag
<1>. HIDE DEF M
<1>2. SUFFICES ASSUME NEW j \in BagToSet(M), j.listed
               PROVE  \E kept \in BagToSet(M) : ~kept.listed /\ Update(kept) = Update(j)
  BY DEF M
<1>3. \E i \in BagToSet(B) : i.listed /\ Update(i) = Update(j)
  BY <1>1, <1>2
<1>4. PICK kept \in BagToSet(B) : ~kept.listed /\ Update(kept) = Update(j)
  BY <1>3
<1>5. CASE kept = job
  BY <1>1, <1>4, <1>5
<1>6. CASE kept # job
  BY <1>1, <1>4, <1>6
<1>7. QED
  BY <1>5, <1>6

\* What a step of anybody but the cleaner does to the queue of updates.
UpdateJobsStep ==
  \/ updateJobs' = updateJobs
  \/ \E job : ~job.listed /\ updateJobs' = Added(updateJobs, job)
  \/ \E job \in BagToSet(updateJobs) : \E next :
       /\ Update(next) = Update(job) /\ next.listed = job.listed
       /\ updateJobs' = Moved(updateJobs, job, next)

\* The polling worker takes a job, hands it on, and gives it back.
LEMMA PollerSteps ==
  ASSUME TypeInv, CleanerInv, Polling \/ PollThrow \/ PollCrash
  PROVE  /\ UpdateJobsStep
         /\ poller' # IdleWorker => poller'.job \in BagToSet(updateJobs')
<1>. USE DEF TypeInv
<1>1. CASE PollTake
  <2>1. PICK job \in Waiting(updateJobs) :
          /\ updateJobs' = Moved(updateJobs, job, Active(job))
          /\ poller' = [job |-> Active(job), pc |-> "work"]
    BY <1>1 DEF PollTake
  <2>2. Update(Active(job)) = Update(job) /\ Active(job).listed = job.listed
    BY JobStates DEF Waiting
  <2>3. job \in BagToSet(updateJobs)
    BY DEF Waiting
  <2>4. Active(job) \in BagToSet(updateJobs')
    BY <2>1, MovedBag DEF TypeOK
  <2>5. QED
    BY <2>1, <2>2, <2>3, <2>4 DEF UpdateJobsStep
<1>2. CASE PollAddProofJob
  <2>1. updateJobs' = updateJobs /\ poller'.job = poller.job
    BY <1>2 DEF PollAddProofJob, TypeOK, WorkerState
  <2>2. poller # IdleWorker
    BY <1>2 DEF PollAddProofJob, IdleWorker
  <2>3. QED
    BY <2>1, <2>2 DEF UpdateJobsStep, CleanerInv
<1>3. CASE PollComplete \/ PollThrow \/ PollCrash
  <2>1. poller # IdleWorker /\ poller' = IdleWorker
    BY <1>3 DEF PollComplete, PollThrow, PollCrash, IdleWorker
  <2>2. Sound(poller.job) /\ poller.job \in BagToSet(updateJobs)
    BY <2>1 DEF Holds, CleanerInv
  <2>3. PICK next : /\ Update(next) = Update(poller.job) /\ next.listed = poller.job.listed
                    /\ updateJobs' = Moved(updateJobs, poller.job, next)
    BY <1>3, <2>2, JobStates DEF PollComplete, PollThrow, PollCrash
  <2>4. QED
    BY <2>1, <2>2, <2>3 DEF UpdateJobsStep
<1>4. QED
  BY <1>1, <1>2, <1>3 DEF Polling

\* Nobody but the cleaner takes an update out of the queue, or marks one.
LEMMA StepsOfUpdateJobs ==
  ASSUME TypeInv, CleanerInv, [Next]_vars, ~CleanerLists, ~CleanerRemoves, ~CleanerSkips
  PROVE  /\ UpdateJobsStep
         /\ poller' # IdleWorker => poller'.job \in BagToSet(updateJobs')
<1>1. CASE Polling \/ PollThrow \/ PollCrash
  BY <1>1, PollerSteps
<1>2. ASSUME NEW c \in Contract, Asking(c) \/ RestartPublisher(c) \/ Publish(c)
      PROVE  /\ UpdateJobsStep /\ poller' = poller
             /\ BagToSet(updateJobs) \subseteq BagToSet(updateJobs')
  <2>1. CASE AddUpdate(c)
    <3>1. ~NewJob(ask[c].from, NextSlot(ask[c].from, ask[c].headSlot)).listed
      BY DEF NewJob
    <3>2. QED
      BY <2>1, <3>1, AddedBag DEF AddUpdate, UpdateJobsStep, TypeInv, TypeOK
  <2>2. CASE ~AddUpdate(c)
    BY <1>2, <2>2 DEF Asking, AskSlot, AskHead, ListJobs, RestartPublisher, Publish,
                      UpdateJobsStep
  <2>3. QED
    BY <2>1, <2>2
<1>3. ASSUME NEW w \in Prover, Proving(w) \/ ProverThrow(w) \/ ProverCrash(w)
      PROVE  UpdateJobsStep /\ UNCHANGED <<poller, updateJobs>>
  BY <1>3 DEF Proving, ProverTake, LookForProof, SaveProof, ProverComplete, ProverThrow,
              ProverCrash, UpdateJobsStep
<1>4. CASE NewHead \/ UNCHANGED vars
  BY <1>4 DEF NewHead, vars, UpdateJobsStep, CleanerInv
<1>5. QED
  BY <1>1, <1>2, <1>3, <1>4 DEF Next, CleanerInv

\* What the cleaner marks and leaves of the queue in a pass.
LEMMA ListsUpdates ==
  ASSUME TypeInv, CleanerLists
  PROVE  /\ \A e \in BagToSet(updateJobs) :
              \E f \in BagToSet(updateJobs') : Update(f) = Update(e)
         /\ \A e \in BagToSet(updateJobs') : e.listed =>
              \E kept \in BagToSet(updateJobs') : ~kept.listed /\ Update(kept) = Update(e)
         /\ \A e \in BagToSet(updateJobs) : e.state # "waiting" => e \in BagToSet(updateJobs')
<1>1. PICK listing \in Listings : updateJobs' = WithListed(updateJobs, listing)
  BY DEF CleanerLists
<1>2. \A job \in BagToSet(updateJobs) : Sound(job) /\ ~job.listed
  BY DEF CleanerLists, TypeInv
<1>3. \A job \in DOMAIN listing : job \in BagToSet(updateJobs) /\ job.state = "waiting"
  BY ListingFacts DEF Waiting
<1>4. /\ \A e \in BagToSet(updateJobs') :
           \/ e \in BagToSet(updateJobs)
           \/ \E job \in DOMAIN listing : e = Listed(job) /\ listing[job] > 0
      /\ \A job \in BagToSet(updateJobs) \ DOMAIN listing : job \in BagToSet(updateJobs')
      /\ \A job \in DOMAIN listing :
           /\ listing[job] < updateJobs[job] => job \in BagToSet(updateJobs')
           /\ listing[job] > 0 => Listed(job) \in BagToSet(updateJobs')
  BY <1>1, <1>2, <1>3, ListingFacts, WithListedBag DEF TypeInv, TypeOK
<1>5. \A e \in BagToSet(updateJobs) : updateJobs[e] \in Nat /\ updateJobs[e] > 0
  BY DEF TypeInv, TypeOK, IsABag, BagToSet
<1>6. ASSUME NEW e \in BagToSet(updateJobs)
      PROVE  \E f \in BagToSet(updateJobs') : Update(f) = Update(e)
  <2>1. CASE e \notin DOMAIN listing
    BY <1>4, <2>1
  <2>2. CASE e \in DOMAIN listing
    <3>1. listing[e] < updateJobs[e] \/ listing[e] > 0
      BY <1>5, <2>2, ListingFacts
    <3>2. Update(Listed(e)) = Update(e)
      BY <1>2, Marks
    <3>3. QED
      BY <1>4, <2>2, <3>1, <3>2
  <2>3. QED
    BY <2>1, <2>2
<1>7. ASSUME NEW e \in BagToSet(updateJobs'), e.listed
      PROVE  \E kept \in BagToSet(updateJobs') : ~kept.listed /\ Update(kept) = Update(e)
  <2>1. PICK job \in DOMAIN listing : e = Listed(job) /\ listing[job] > 0
    BY <1>2, <1>4, <1>7
  <2>2. PICK twin \in Twins(job) : Left(listing, twin) > 0
    BY <2>1, ListingFacts DEF KeepsFirst
  <2>3. twin \in DOMAIN listing /\ Update(twin) = Update(job)
    BY ListingFacts DEF Twins
  <2>4. listing[twin] < updateJobs[twin]
    BY <1>3, <1>5, <2>2, <2>3, ListingFacts DEF Left
  <2>5. twin \in BagToSet(updateJobs') /\ ~twin.listed
    BY <1>2, <1>3, <1>4, <2>3, <2>4
  <2>6. Update(e) = Update(job)
    BY <1>2, <1>3, <2>1, Marks
  <2>7. QED
    BY <2>3, <2>5, <2>6
<1>8. ASSUME NEW e \in BagToSet(updateJobs), e.state # "waiting"
      PROVE  e \in BagToSet(updateJobs')
  BY <1>3, <1>4, <1>8
<1>9. QED
  BY <1>6, <1>7, <1>8

\* Whoever works during a pass of the cleaner, the kept jobs stay.
LEMMA CleanerStep == TypeInv /\ CleanerInv /\ [Next]_vars => CleanerInv'
<1>. SUFFICES ASSUME TypeInv, CleanerInv, [Next]_vars PROVE CleanerInv'
  OBVIOUS
<1>. IsABag(updateJobs)
  BY DEF TypeInv, TypeOK
<1>1. CASE CleanerLists
  <2>1. poller' = poller
    BY <1>1 DEF CleanerLists
  <2>2. poller # IdleWorker => poller.job.state # "waiting"
    BY DEF TypeInv, Holds
  <2>3. QED
    BY <1>1, <2>1, <2>2, ListsUpdates DEF CleanerInv
<1>2. CASE CleanerRemoves
  <2>1. PICK job \in BagToSet(updateJobs) :
          job.listed /\ job.state # "active" /\ updateJobs' = Removed(updateJobs, job)
    BY <1>2 DEF CleanerRemoves
  <2>2. /\ BagToSet(updateJobs') \subseteq BagToSet(updateJobs)
        /\ BagToSet(updateJobs) \ {job} \subseteq BagToSet(updateJobs')
    BY <2>1, RemovedBag
  <2>3. poller # IdleWorker => poller.job # job
    BY <2>1 DEF TypeInv, Holds
  <2>4. poller' = poller
    BY <1>2 DEF CleanerRemoves
  <2>5. QED
    BY <2>1, <2>2, <2>3, <2>4 DEF CleanerInv
<1>3. CASE CleanerSkips
  <2>1. PICK job \in BagToSet(updateJobs) :
          /\ job.listed /\ updateJobs' = Moved(updateJobs, job, Unlisted(job))
          /\ poller' = IF poller.job = job
                       THEN [poller EXCEPT !.job = Unlisted(job)] ELSE poller
    BY <1>3 DEF CleanerSkips
  <2>2. Update(Unlisted(job)) = Update(job) /\ ~Unlisted(job).listed
    BY Marks DEF TypeInv
  <2>3. \A j \in BagToSet(updateJobs') : j.listed =>
          \E kept \in BagToSet(updateJobs') : ~kept.listed /\ Update(kept) = Update(j)
    BY <2>1, <2>2, KeptStays DEF CleanerInv
  <2>4. /\ Unlisted(job) \in BagToSet(updateJobs')
        /\ BagToSet(updateJobs) \ {job} \subseteq BagToSet(updateJobs')
    BY <2>1, MovedBag
  <2>5. poller' # IdleWorker => poller'.job \in BagToSet(updateJobs')
    <3>1. CASE poller.job = job
      BY <2>1, <2>4, <3>1 DEF TypeInv, TypeOK, WorkerState
    <3>2. CASE poller.job # job
      BY <2>1, <2>4, <3>2 DEF CleanerInv
    <3>3. QED
      BY <3>1, <3>2
  <2>6. QED
    BY <2>3, <2>5 DEF CleanerInv
<1>4. CASE ~CleanerLists /\ ~CleanerRemoves /\ ~CleanerSkips
  <2>1. /\ UpdateJobsStep
        /\ poller' # IdleWorker => poller'.job \in BagToSet(updateJobs')
    BY <1>4, StepsOfUpdateJobs
  <2>2. CASE updateJobs' = updateJobs
    BY <2>1, <2>2 DEF CleanerInv
  <2>3. CASE \E job : ~job.listed /\ updateJobs' = Added(updateJobs, job)
    <3>1. PICK job : ~job.listed /\ BagToSet(updateJobs') = BagToSet(updateJobs) \cup {job}
      BY <2>3, AddedBag
    <3>2. QED
      BY <2>1, <3>1 DEF CleanerInv
  <2>4. CASE \E job \in BagToSet(updateJobs) : \E next :
               /\ Update(next) = Update(job) /\ next.listed = job.listed
               /\ updateJobs' = Moved(updateJobs, job, next)
    BY <2>1, <2>4, KeptStays DEF CleanerInv
  <2>5. QED
    BY <2>1, <2>2, <2>3, <2>4 DEF UpdateJobsStep
<1>5. QED
  BY <1>1, <1>2, <1>3, <1>4

\* No step takes an update out of the queue altogether.
LEMMA UpdatesStep ==
  ASSUME TypeInv, CleanerInv, [Next]_vars
  PROVE  \A e \in BagToSet(updateJobs) : \E f \in BagToSet(updateJobs') : Update(f) = Update(e)
<1>. IsABag(updateJobs)
  BY DEF TypeInv, TypeOK
<1>1. CASE CleanerLists
  BY <1>1, ListsUpdates
<1>2. CASE CleanerRemoves
  <2>1. PICK job \in BagToSet(updateJobs) :
          job.listed /\ updateJobs' = Removed(updateJobs, job)
    BY <1>2 DEF CleanerRemoves
  <2>2. PICK kept \in BagToSet(updateJobs) : ~kept.listed /\ Update(kept) = Update(job)
    BY <2>1 DEF CleanerInv
  <2>3. BagToSet(updateJobs) \ {job} \subseteq BagToSet(updateJobs')
    BY <2>1, RemovedBag
  <2>4. kept \in BagToSet(updateJobs')
    BY <2>1, <2>2, <2>3
  <2>5. QED
    BY <2>2, <2>3, <2>4
<1>3. CASE CleanerSkips
  <2>1. PICK job \in BagToSet(updateJobs) : updateJobs' = Moved(updateJobs, job, Unlisted(job))
    BY <1>3 DEF CleanerSkips
  <2>2. Update(Unlisted(job)) = Update(job)
    BY Marks DEF TypeInv
  <2>3. QED
    BY <2>1, <2>2, MovedUpdates
<1>4. CASE ~CleanerLists /\ ~CleanerRemoves /\ ~CleanerSkips
  <2>1. UpdateJobsStep
    BY <1>4, StepsOfUpdateJobs
  <2>2. QED
    BY <2>1, AddedBag, MovedUpdates DEF UpdateJobsStep
<1>5. QED
  BY <1>1, <1>2, <1>3, <1>4

-----------------------------------------------------------------------------
\* The inductive invariant.
IInv == TypeInv /\ HandOver /\ CleanerInv

\* The invariant holds when the relay starts.
LEMMA InitInvariant == Init => IInv
<1>. SUFFICES ASSUME Init PROVE IInv
  OBVIOUS
<1>1. BagToSet(EmptyBag) = {}
  BY DEF EmptyBag, SetToBag, BagToSet
<1>2. HandOver /\ CleanerInv
  BY <1>1 DEF Init, HandOver, WorkIsHandedOver, CleanerInv, IdleWorker
<1>3. QED
  BY <1>2, InitTypes DEF IInv

\* IInv holds in every reachable state of the relay.
THEOREM Invariant == SafetySpec => []IInv
<1>1. IInv /\ [Next]_vars => IInv'
  BY TypeStep, HandOverStep, CleanerStep DEF IInv
<1>2. QED
  BY <1>1, InitInvariant, PTL DEF SafetySpec

\* The queues, the workers and the publishers' rounds keep their types: no
\* job has more attempts or stalls than BullMQ allows it, and every update
\* and every saved proof is a step forward (addUpdate, doUpdate, genProof).
THEOREM TypeCorrect == Spec => []TypeOK
  BY Invariant, PTL DEF Spec, IInv, TypeInv

\* An update job is completed only when its proof job exists, and a proof
\* job only when its proof is saved (doUpdate, genProof).
THEOREM NothingIsLost == Spec => []WorkIsHandedOver
  BY Invariant, PTL DEF Spec, IInv, HandOver

\* No step takes the last job of an update out of the queue, the removals of
\* the cleaner from its old list included (cleaner.ts).
THEOREM NoUpdateDisappears == SafetySpec => UpdatesStay
<1>1. IInv /\ [Next]_vars => [{Update(u) : u \in BagToSet(updateJobs)}
                                 \subseteq {Update(u) : u \in BagToSet(updateJobs')}]_vars
  BY UpdatesStep DEF IInv
<1>2. QED
  BY <1>1, Invariant, PTL DEF SafetySpec, UpdatesStay
=============================================================================
