----------------------------- MODULE BeaconSlots -----------------------------
(***************************************************************************)
(* The slot arithmetic of the relay: which blocks an update goes between   *)
(* (orchestrator.ts, get_light_client_input_from_to.ts, beacon-api.ts) and *)
(* which updates the light_client circuit can prove.                       *)
(*                                                                         *)
(* A chain maps every slot up to its head to "none" (no block), "weak" or  *)
(* "strong": a block whose sync aggregate has too few signers, or enough,  *)
(* for its parent block.                                                   *)
(***************************************************************************)
EXTENDS Integers, FiniteSetsExt

CONSTANTS
  SLOTS_PER_EPOCH,   \* 32
  SLOTS_PER_PERIOD,  \* 8192
  slotsJump          \* updates go to multiples of it

ASSUME BeaconSlotsAssumption ==
  /\ SLOTS_PER_EPOCH \in Nat \ {0}
  /\ SLOTS_PER_PERIOD \in Nat \ {0}
  /\ SLOTS_PER_PERIOD % SLOTS_PER_EPOCH = 0
  /\ slotsJump \in Nat \ {0}

BlockKind == {"none", "weak", "strong"}

NotFound == [slot |-> -1, signature |-> -1]

getCurrentHeadSlot(chain) == Max({s \in DOMAIN chain : chain[s] # "none"})

computeSyncCommitteePeriodAt(slot) == slot \div SLOTS_PER_PERIOD

\* What getBlockHeaderOrClosestExisting and
\* getBlockSyncAggregateOrClosestExisting walk over.
BlocksBetween(chain, slot, limitSlot) ==
  {s \in slot .. limitSlot : chain[s] # "none"}

\* Mutant: after too few signers the search skips the block that carried them.
findClosestValidBlockSkipping(to, chain, headSlot) ==
  LET search[slot \in Nat] ==
        LET headers == BlocksBetween(chain, slot, headSlot)
            header == Min(headers)
            carriers == BlocksBetween(chain, header + 1, headSlot)
            carrier == Min(carriers)
        IN  CASE headers = {} -> NotFound
              [] headers # {} /\ carriers = {} -> NotFound
              [] headers # {} /\ carriers # {} /\ chain[carrier] = "strong" ->
                   [slot |-> header, signature |-> carrier]
              [] OTHER -> search[carrier + 1]
  IN  search[to]

\* NotFound stands for the exception `Closest existing block is beyond the
\* limit'.
findClosestValidBlock(to, chain, headSlot) ==
  LET search[slot \in Nat] ==
        LET headers == BlocksBetween(chain, slot, headSlot)
            header == Min(headers)
            carriers == BlocksBetween(chain, header + 1, headSlot)
            carrier == Min(carriers)
        IN  CASE headers = {} -> NotFound
              [] headers # {} /\ carriers = {} -> NotFound
              [] headers # {} /\ carriers # {} /\ chain[carrier] = "strong" ->
                   [slot |-> header, signature |-> carrier]
              [] OTHER -> search[carrier]
  IN  search[to]

\* Mutant: catching up goes to the last epoch of the period after the next.
CatchUpTargetTooFar(slot) ==
  (computeSyncCommitteePeriodAt(slot) + 2) * SLOTS_PER_PERIOD
    + (SLOTS_PER_PERIOD - SLOTS_PER_EPOCH)

\* The first slot of the last epoch of the next period.
CatchUpTarget(slot) ==
  (computeSyncCommitteePeriodAt(slot) + 1) * SLOTS_PER_PERIOD
    + (SLOTS_PER_PERIOD - SLOTS_PER_EPOCH)

HeadTarget(headSlot) == headSlot - (headSlot % slotsJump)

\* Mutant: the head branch is taken a period too early.
WithinTwoPeriods(slot, headSlot) ==
  computeSyncCommitteePeriodAt(slot) + 2 >= computeSyncCommitteePeriodAt(headSlot)

WithinNextPeriod(slot, headSlot) ==
  computeSyncCommitteePeriodAt(slot) + 1 >= computeSyncCommitteePeriodAt(headSlot)

\* Mutant: the target is taken without looking for a valid block.
getNextSlotUnchecked(slot, chain, headSlot) ==
  LET target == IF WithinNextPeriod(slot, headSlot) THEN HeadTarget(headSlot)
                                                    ELSE CatchUpTarget(slot)
  IN  [slot |-> target, signature |-> target + 1]

getNextSlot(slot, chain, headSlot) ==
  findClosestValidBlock(
    IF WithinNextPeriod(slot, headSlot) THEN HeadTarget(headSlot)
                                        ELSE CatchUpTarget(slot),
    chain, headSlot)

\* The finalized header in the state of `slot' when the chain finalizes as
\* fast as it can: the last block at the checkpoint two epochs back.
FinalizedSlot(chain, slot) ==
  LET epoch == slot \div SLOTS_PER_EPOCH
      checkpoint == IF epoch < 2 THEN 0 ELSE (epoch - 2) * SLOTS_PER_EPOCH
  IN  Max(BlocksBetween(chain, 0, checkpoint))

\* getPrevBlockHeaderStateInfo: the period of the committee it takes from the
\* finalized state, the current one or the next one.
CommitteePeriod(finalizedSlot, signatureSlot) ==
  LET period == computeSyncCommitteePeriodAt(finalizedSlot)
  IN  IF period = computeSyncCommitteePeriodAt(signatureSlot) THEN period
                                                              ELSE period + 1

\* light_client.circom on the witness getProofInput makes: its constraints on
\* the three slots, and a signature by the committee it is checked against.
CircuitAccepts(prevFinalizedSlot, nextSlot, signatureSlot) ==
  /\ signatureSlot > nextSlot
  /\ nextSlot > prevFinalizedSlot
  /\ computeSyncCommitteePeriodAt(prevFinalizedSlot) + 1
       >= computeSyncCommitteePeriodAt(signatureSlot)
  /\ CommitteePeriod(prevFinalizedSlot, signatureSlot)
       = computeSyncCommitteePeriodAt(signatureSlot)
=============================================================================
