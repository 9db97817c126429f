---------------------------- MODULE UpdateSchedule ----------------------------
(***************************************************************************)
(* The updates askForUpdates schedules as the beacon chain grows, and what *)
(* the polling worker and the circuit will make of them.  Every update     *)
(* starts where the one before it ends, so the last one stands for the     *)
(* whole queue; queues and failing jobs are in module Relay.               *)
(***************************************************************************)
EXTENDS BeaconSlots, FiniteSets

CONSTANTS
  FirstSlot,  \* slot of the header the contract is deployed with
  MaxSlot,    \* bound: the last slot of the chain
  MaxEmpty,   \* bound: slots without a block
  MaxWeak     \* bound: blocks with too few signers

\* The slot before the deployed header is one too.
ASSUME ScheduleAssumption ==
  /\ FirstSlot \in Nat \ {0}
  /\ MaxSlot \in Nat
  /\ FirstSlot < MaxSlot

VARIABLES
  chain,  \* the beacon chain
  job     \* the last scheduled update, and the signature it was seen with

vars == <<chain, job>>

LastSlot == Max(DOMAIN chain)

\* askForUpdates leaves out the head: its signers are in the next block.
headSlot == getCurrentHeadSlot(chain) - 1

NoJob == [from |-> -1, to |-> FirstSlot, signature |-> -1]

TypeOK ==
  /\ LastSlot \in FirstSlot .. MaxSlot
  /\ chain \in [0 .. LastSlot -> BlockKind]
  /\ job \in [from : -1 .. LastSlot, to : 0 .. LastSlot,
              signature : -1 .. LastSlot]
  /\ job.from < job.to

Init ==
  /\ chain = [s \in 0 .. FirstSlot |-> "strong"]
  /\ job = NoJob

CountOf(kind) == Cardinality({s \in DOMAIN chain : chain[s] = kind})

NewSlot(kind) ==
  /\ LastSlot < MaxSlot
  /\ kind = "none" => CountOf("none") < MaxEmpty
  /\ kind = "weak" => CountOf("weak") < MaxWeak
  /\ chain' = [s \in 0 .. LastSlot + 1 |->
                IF s <= LastSlot THEN chain[s] ELSE kind]
  /\ UNCHANGED job

\* Mutant: an update is added although it goes nowhere.
addUpdateUnguarded ==
  /\ LET next == getNextSlot(job.to, chain, headSlot)
     IN  /\ next # NotFound
         /\ job' = [from |-> job.to, to |-> next.slot,
                    signature |-> next.signature]
  /\ UNCHANGED chain

addUpdate ==
  /\ LET next == getNextSlot(job.to, chain, headSlot)
     IN  /\ next # NotFound
         /\ job.to < next.slot
         /\ job' = [from |-> job.to, to |-> next.slot,
                    signature |-> next.signature]
  /\ UNCHANGED chain

Next == (\E kind \in BlockKind : NewSlot(kind)) \/ addUpdate

Spec == Init /\ [][Next]_vars
-----------------------------------------------------------------------------
\* The polling worker, which looks for the block again with the head of its
\* own time, finds the job's own blocks: the proof is saved under the slots
\* the next job and the contract go by.
PollFindsTheJob ==
  job # NoJob =>
    findClosestValidBlock(job.to, chain, getCurrentHeadSlot(chain))
      = [slot |-> job.to, signature |-> job.signature]

\* The blocks from `slot' on whose next block carries enough signers.
ValidBlocks(slot, limitSlot) ==
  {h \in BlocksBetween(chain, slot, limitSlot) :
     \E a \in BlocksBetween(chain, h + 1, limitSlot) :
       /\ chain[a] = "strong"
       /\ BlocksBetween(chain, h + 1, a - 1) = {}}

\* findClosestValidBlock's loop goes to the first valid block from the place
\* the next update asks for, and fails only when there is none.
SearchIsExact ==
  LET valid == ValidBlocks(HeadTarget(headSlot), headSlot)
      found == findClosestValidBlock(HeadTarget(headSlot), chain, headSlot)
  IN  IF valid = {} THEN found = NotFound ELSE found.slot = Min(valid)

Provable(update) ==
  CircuitAccepts(FinalizedSlot(chain, update.from), update.to, update.signature)

\* The circuit can prove every scheduled update: its period constraint asks
\* for a signature at most one period after the finalized header.
EveryUpdateIsProvable == job # NoJob => Provable(job)

\* It can whenever the header the update starts from has its finalized header
\* in its own period, and the last epoch of the next period has a valid block
\* whose signers are in that period: catching up stops there in time.
UpdatesArePeriodic ==
  LET fromPeriod == computeSyncCommitteePeriodAt(job.from)
      stop == findClosestValidBlock(CatchUpTarget(job.from), chain,
                                    getCurrentHeadSlot(chain))
  IN  ( /\ job # NoJob
        /\ computeSyncCommitteePeriodAt(FinalizedSlot(chain, job.from)) = fromPeriod
        /\ stop.signature < (fromPeriod + 2) * SLOTS_PER_PERIOD )
      => Provable(job)

\* askForUpdates has nothing to add only when the updates have reached the
\* last multiple of slotsJump that has a valid block at or after it, so the
\* schedule catches up through however many periods it lies behind.
NothingToAddOnlyAtHead ==
  LET next == getNextSlot(job.to, chain, headSlot)
      last == findClosestValidBlock(HeadTarget(headSlot), chain, headSlot)
  IN  (next = NotFound \/ next.slot <= job.to) =>
        (last = NotFound \/ last.slot <= job.to)
=============================================================================
