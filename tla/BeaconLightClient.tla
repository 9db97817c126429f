-------------------------- MODULE BeaconLightClient --------------------------
(***************************************************************************)
(* The Solidity contract BeaconLightClient.sol with its base               *)
(* LightClientUpdateVerifier.sol: four parallel ring buffers, the index of *)
(* the newest entry and the signing domain.  A Groth16 proof is the tuple  *)
(* of public inputs it commits to; `Provable' is the set of tuples the     *)
(* circuit can prove, and the contract recomputes the commitment from its  *)
(* own newest header and from the fields of the submitted update.          *)
(***************************************************************************)
EXTENDS Integers

CONSTANTS
  BUFER_SIZE,   \* the source's constant (and spelling), 32 in the contract
  Root,         \* header and execution state roots
  Domain,       \* signing domains a contract can be deployed with
  Provable,     \* the commitments the circuit can prove
  Genesis,      \* the constructor's header, slot and roots
  ZeroRoot,     \* bytes32(0), the initial content of the ring buffers
  MyDomain      \* the constructor's domain

LightClientUpdate ==
  [attestedHeaderRoot : Root, attestedHeaderSlot : Nat,
   finalizedHeaderRoot : Root, finalizedExecutionStateRoot : Root]

Commitment ==
  [prevHeaderHash : Root, update : LightClientUpdate, domain : Domain]

ASSUME ContractAssumption ==
  /\ BUFER_SIZE \in Nat \ {0}
  /\ ZeroRoot \notin Root
  /\ Genesis \in LightClientUpdate
  /\ MyDomain \in Domain
  /\ Provable \subseteq Commitment

VARIABLES
  optimisticHeaders,
  optimisticSlots,
  finalizedHeaders,
  executionStateRoots,
  currentIndex,
  domain

vars == <<optimisticHeaders, optimisticSlots, finalizedHeaders,
          executionStateRoots, currentIndex, domain>>

Index == 0 .. BUFER_SIZE - 1

TypeOK ==
  /\ optimisticHeaders \in [Index -> Root \cup {ZeroRoot}]
  /\ optimisticSlots \in [Index -> Nat]
  /\ finalizedHeaders \in [Index -> Root \cup {ZeroRoot}]
  /\ executionStateRoots \in [Index -> Root \cup {ZeroRoot}]
  /\ currentIndex \in Index
  /\ domain \in Domain

Init ==
  /\ currentIndex = 0
  /\ optimisticHeaders =
       [i \in Index |-> IF i = 0 THEN Genesis.attestedHeaderRoot ELSE ZeroRoot]
  /\ optimisticSlots =
       [i \in Index |-> IF i = 0 THEN Genesis.attestedHeaderSlot ELSE 0]
  /\ finalizedHeaders =
       [i \in Index |-> IF i = 0 THEN Genesis.finalizedHeaderRoot ELSE ZeroRoot]
  /\ executionStateRoots =
       [i \in Index |-> IF i = 0 THEN Genesis.finalizedExecutionStateRoot
                        ELSE ZeroRoot]
  /\ domain = MyDomain

optimisticHeaderRoot == optimisticHeaders[currentIndex]

\* Mutant: a proof made from any earlier header is accepted.
verifyUpdateAnyPrev(proof, prevHeaderHash, update, dom) ==
  /\ proof \in Provable
  /\ proof = [prevHeaderHash |-> proof.prevHeaderHash, update |-> update,
              domain |-> dom]

\* The proof stands for the commitment it was made for: it verifies against
\* no other public input.
verifyUpdate(proof, prevHeaderHash, update, dom) ==
  /\ proof \in Provable
  /\ proof = [prevHeaderHash |-> prevHeaderHash, update |-> update,
              domain |-> dom]

\* Mutant: the index is never wrapped.
NextIndexNoWrap(i) == i + 1

NextIndex(i) == (i + 1) % BUFER_SIZE

\* Mutant: the finalized root is stored before the index moves.
UpdateStoredEarly(update, proof) ==
  /\ verifyUpdate(proof, optimisticHeaderRoot, update, domain)
  /\ currentIndex' = NextIndex(currentIndex)
  /\ optimisticHeaders' =
       [optimisticHeaders EXCEPT ![currentIndex'] = update.attestedHeaderRoot]
  /\ optimisticSlots' =
       [optimisticSlots EXCEPT ![currentIndex'] = update.attestedHeaderSlot]
  /\ finalizedHeaders' =
       [finalizedHeaders EXCEPT ![currentIndex] = update.finalizedHeaderRoot]
  /\ executionStateRoots' =
       [executionStateRoots EXCEPT
          ![currentIndex'] = update.finalizedExecutionStateRoot]
  /\ UNCHANGED domain

light_client_update(update, proof) ==
  /\ verifyUpdate(proof, optimisticHeaderRoot, update, domain)
  /\ currentIndex' = NextIndex(currentIndex)
  /\ optimisticHeaders' =
       [optimisticHeaders EXCEPT ![currentIndex'] = update.attestedHeaderRoot]
  /\ optimisticSlots' =
       [optimisticSlots EXCEPT ![currentIndex'] = update.attestedHeaderSlot]
  /\ finalizedHeaders' =
       [finalizedHeaders EXCEPT ![currentIndex'] = update.finalizedHeaderRoot]
  /\ executionStateRoots' =
       [executionStateRoots EXCEPT
          ![currentIndex'] = update.finalizedExecutionStateRoot]
  /\ UNCHANGED domain

\* The updates somebody can submit with a proof, and the deployed one.
Submitted == {Genesis} \cup {p.update : p \in Provable}

Next ==
  \E proof \in Provable, update \in Submitted :
    light_client_update(update, proof)

Spec == Init /\ [][Next]_vars
-----------------------------------------------------------------------------
(***************************************************************************)
(* The refinement of HeaderHistory.                                        *)
(***************************************************************************)

\* Where a ring whose newest entry is at place `index' keeps the update
\* accepted k updates ago.
PlaceOf(index, k) ==
  IF k <= index THEN index - k ELSE index - k + BUFER_SIZE

EntryAt(i) ==
  [attestedHeaderRoot |-> optimisticHeaders[i],
   attestedHeaderSlot |-> optimisticSlots[i],
   finalizedHeaderRoot |-> finalizedHeaders[i],
   finalizedExecutionStateRoot |-> executionStateRoots[i]]

\* A place of the ring buffers no update has reached.
Empty ==
  [attestedHeaderRoot |-> ZeroRoot, attestedHeaderSlot |-> 0,
   finalizedHeaderRoot |-> ZeroRoot, finalizedExecutionStateRoot |-> ZeroRoot]

Steps ==
  {step \in Submitted \X Submitted :
     [prevHeaderHash |-> step[1].attestedHeaderRoot, update |-> step[2],
      domain |-> MyDomain] \in Provable}

historyBar == [k \in Index |-> EntryAt(PlaceOf(currentIndex, k))]

HH == INSTANCE HeaderHistory
        WITH HistorySize <- BUFER_SIZE, Update <- Submitted,
             history <- historyBar

\* The four buffers and the index implement the promised history: every
\* accepted update pushes the whole entry, and drops the one 32 updates old.
Refinement == HH!Spec

\* Any two neighbouring remembered updates are joined by a proof the circuit
\* can make, across the wrap-around of the index: a reader who trusts one
\* remembered header may walk to every newer one (light_client_update's
\* require and its index arithmetic).
HistoryLinked ==
  \A k \in Index :
    (k > 0 /\ historyBar[k] # Empty) => <<historyBar[k], historyBar[k - 1]>> \in Steps
=============================================================================
