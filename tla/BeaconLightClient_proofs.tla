---------------------- MODULE BeaconLightClient_proofs ----------------------
(***************************************************************************)
(* Proofs about BeaconLightClient.sol for every ring size, every set of    *)
(* roots and every set of provable commitments: type correctness, the      *)
(* links between remembered updates, and the refinement of HeaderHistory.  *)
(***************************************************************************)
EXTENDS BeaconLightClient, TLAPS

\* The index arithmetic of light_client_update on the indices the contract
\* can hold: one up, or back to zero from the last place.
LEMMA NextIndexValue ==
  ASSUME NEW i \in Index
  PROVE  /\ NextIndex(i) \in Index
         /\ NextIndex(i) = IF i = BUFER_SIZE - 1 THEN 0 ELSE i + 1
  BY ContractAssumption DEF Index, NextIndex

\* The inductive invariant: the newest entry is one somebody submitted (or the deployed one), its
\* domain is the constructor's, and neighbours are linked.
IInv ==
  /\ TypeOK
  /\ domain = MyDomain
  /\ historyBar[0] \in Submitted
  /\ HistoryLinked

\* What Submitted contains.
LEMMA SubmittedType == Submitted \subseteq LightClientUpdate
  BY ContractAssumption DEF Submitted, Commitment

\* One accepted update pushes its entry on the history read from the ring,
\* and is a step the circuit proves (light_client_update).
LEMMA UpdatePushes ==
  ASSUME TypeOK, domain = MyDomain, historyBar[0] \in Submitted,
         NEW proof \in Provable, NEW update \in Submitted,
         light_client_update(update, proof)
  PROVE  /\ historyBar' = [k \in Index |-> IF k = 0 THEN update
                                            ELSE historyBar[k - 1]]
         /\ <<historyBar[0], update>> \in Steps
         /\ domain' = MyDomain
         /\ TypeOK'
<1>. DEFINE n == NextIndex(currentIndex)
<1>1. /\ n \in Index
      /\ n = IF currentIndex = BUFER_SIZE - 1 THEN 0 ELSE currentIndex + 1
  BY NextIndexValue DEF TypeOK
<1>2. update \in LightClientUpdate
  BY SubmittedType
<1>3. TypeOK'
  BY <1>1, <1>2 DEF TypeOK, light_client_update, LightClientUpdate
<1>4. <<historyBar[0], update>> \in Steps
  <2>1. historyBar[0].attestedHeaderRoot = optimisticHeaders[currentIndex]
    BY ContractAssumption DEF historyBar, PlaceOf, EntryAt, TypeOK, Index
  <2>2. QED
    BY <2>1 DEF light_client_update, verifyUpdate, Steps, optimisticHeaderRoot
<1>5. \A k \in Index : historyBar'[k] = IF k = 0 THEN update
                                         ELSE historyBar[k - 1]
  <2>. SUFFICES ASSUME NEW k \in Index
                PROVE  historyBar'[k] = IF k = 0 THEN update
                                         ELSE historyBar[k - 1]
    OBVIOUS
  <2>. DEFINE place == PlaceOf(n, k)
  <2>1. historyBar'[k] = [attestedHeaderRoot |-> optimisticHeaders'[place],
                          attestedHeaderSlot |-> optimisticSlots'[place],
                          finalizedHeaderRoot |-> finalizedHeaders'[place],
                          finalizedExecutionStateRoot |->
                            executionStateRoots'[place]]
    BY DEF historyBar, light_client_update, EntryAt
  <2>2. CASE k = 0
    <3>1. place = n
      BY <1>1, <2>2 DEF PlaceOf, Index
    <3>2. /\ optimisticHeaders'[n] = update.attestedHeaderRoot
          /\ optimisticSlots'[n] = update.attestedHeaderSlot
          /\ finalizedHeaders'[n] = update.finalizedHeaderRoot
          /\ executionStateRoots'[n] = update.finalizedExecutionStateRoot
      BY <1>1 DEF light_client_update, TypeOK
    <3>3. QED
      BY <2>1, <2>2, <3>1, <3>2, <1>2 DEF LightClientUpdate
  <2>3. CASE k # 0
    <3>1. k - 1 \in Index
      BY <2>3, ContractAssumption DEF Index
    <3>2. /\ place = PlaceOf(currentIndex, k - 1)
          /\ place \in Index
          /\ place # n
      BY <1>1, <2>3, <3>1, ContractAssumption DEF PlaceOf, Index, TypeOK
    <3>3. /\ optimisticHeaders'[place] = optimisticHeaders[place]
          /\ optimisticSlots'[place] = optimisticSlots[place]
          /\ finalizedHeaders'[place] = finalizedHeaders[place]
          /\ executionStateRoots'[place] = executionStateRoots[place]
      BY <3>2, <1>1 DEF light_client_update, TypeOK
    <3>4. historyBar[k - 1] = EntryAt(place)
      BY <3>1, <3>2 DEF historyBar
    <3>5. QED
      BY <2>1, <2>3, <3>3, <3>4 DEF EntryAt
  <2>4. QED
    BY <2>2, <2>3
<1>6. historyBar' = [k \in Index |-> IF k = 0 THEN update
                                      ELSE historyBar[k - 1]]
  BY <1>5 DEF historyBar
<1>7. domain' = MyDomain
  BY DEF light_client_update
<1>8. QED
  BY <1>3, <1>4, <1>6, <1>7

-----------------------------------------------------------------------------
\* The deployed contract satisfies the invariant (constructor).
LEMMA InitInvariant == Init => IInv
<1>. SUFFICES ASSUME Init PROVE IInv
  OBVIOUS
<1>1. Genesis \in LightClientUpdate /\ MyDomain \in Domain /\ 0 \in Index
  BY ContractAssumption DEF Index
<1>2. TypeOK
  BY <1>1 DEF Init, TypeOK, LightClientUpdate
<1>3. historyBar = [k \in Index |-> IF k = 0 THEN Genesis ELSE Empty]
  <2>. SUFFICES ASSUME NEW k \in Index
                PROVE  EntryAt(PlaceOf(0, k)) = IF k = 0 THEN Genesis ELSE Empty
    BY DEF historyBar, Init
  <2>1. PlaceOf(0, k) \in Index /\ (PlaceOf(0, k) = 0 <=> k = 0)
    BY ContractAssumption DEF PlaceOf, Index
  <2>2. CASE k = 0
    BY <1>1, <2>1, <2>2 DEF Init, EntryAt, LightClientUpdate
  <2>3. CASE k # 0
    BY <2>1, <2>3 DEF Init, EntryAt, Empty
  <2>4. QED
    BY <2>2, <2>3
<1>4. historyBar[0] \in Submitted
  BY <1>1, <1>3 DEF Submitted
<1>5. HistoryLinked
  BY <1>3 DEF HistoryLinked
<1>6. QED
  BY <1>2, <1>4, <1>5 DEF IInv, Init

\* Every accepted update keeps it (light_client_update).
LEMMA NextInvariant == IInv /\ [Next]_vars => IInv'
<1>. SUFFICES ASSUME IInv, [Next]_vars PROVE IInv'
  OBVIOUS
<1>1. CASE Next
  <2>1. PICK proof \in Provable, update \in Submitted :
          light_client_update(update, proof)
    BY <1>1 DEF Next
  <2>2. /\ historyBar' = [k \in Index |-> IF k = 0 THEN update
                                            ELSE historyBar[k - 1]]
        /\ <<historyBar[0], update>> \in Steps
        /\ domain' = MyDomain
        /\ TypeOK'
    BY <2>1, UpdatePushes DEF IInv
  <2>3. historyBar'[0] \in Submitted
    BY <2>2, ContractAssumption DEF Index
  <2>4. HistoryLinked'
    <3>. SUFFICES ASSUME NEW k \in Index, k > 0, historyBar'[k] # Empty
                  PROVE  <<historyBar'[k], historyBar'[k - 1]>> \in Steps
      BY DEF HistoryLinked
    <3>1. k - 1 \in Index
      BY ContractAssumption DEF Index
    <3>2. CASE k = 1
      BY <2>2, <3>1, <3>2
    <3>3. CASE k # 1
      <4>1. k - 1 > 0 /\ k - 1 # 0 /\ (k - 1) - 1 \in Index
        BY <3>1, <3>3, ContractAssumption DEF Index
      <4>2. historyBar'[k] = historyBar[k - 1]
        BY <2>2
      <4>3. historyBar'[k - 1] = historyBar[(k - 1) - 1]
        BY <2>2, <3>1, <4>1
      <4>4. QED
        BY <3>1, <4>1, <4>2, <4>3 DEF IInv, HistoryLinked
    <3>4. QED
      BY <3>2, <3>3
  <2>5. QED
    BY <2>2, <2>3, <2>4 DEF IInv
<1>2. CASE UNCHANGED vars
  BY <1>2 DEF vars, IInv, TypeOK, historyBar, HistoryLinked, EntryAt
<1>3. QED
  BY <1>1, <1>2

\* IInv holds in every reachable state of the contract.
THEOREM Invariant == Spec => []IInv
  BY InitInvariant, NextInvariant, PTL DEF Spec

\* The contract's state keeps its types for every ring size
\* (BeaconLightClient.sol).
THEOREM TypeCorrect == Spec => []TypeOK
  BY Invariant, PTL DEF IInv

\* Neighbouring remembered updates are joined by a provable step, for every
\* ring size and however often the index has wrapped (light_client_update).
THEOREM HistoryIsLinked == Spec => []HistoryLinked
  BY Invariant, PTL DEF IInv

\* The ring buffers implement the history of the last BUFER_SIZE updates:
\* the constructor is the abstract start, every accepted update one abstract
\* push.
THEOREM ImplementsHistory == Spec => Refinement
<1>1. Init => HH!Init
  <2>. SUFFICES ASSUME Init PROVE HH!Init
    OBVIOUS
  <2>1. \A k \in Index : EntryAt(PlaceOf(0, k)) = IF k = 0 THEN Genesis ELSE Empty
    <3>. SUFFICES ASSUME NEW k \in Index
                  PROVE  EntryAt(PlaceOf(0, k)) = IF k = 0 THEN Genesis ELSE Empty
      OBVIOUS
    <3>1. PlaceOf(0, k) \in Index /\ (PlaceOf(0, k) = 0 <=> k = 0)
      BY ContractAssumption DEF PlaceOf, Index
    <3>2. QED
      BY <3>1, ContractAssumption
      DEF Init, EntryAt, Empty, LightClientUpdate
  <2>2. QED
    BY <2>1 DEF HH!Init, HH!Age, Index, historyBar, Init
<1>2. IInv /\ [Next]_vars => [HH!Next]_historyBar
  <2>. SUFFICES ASSUME IInv, [Next]_vars PROVE [HH!Next]_historyBar
    OBVIOUS
  <2>1. CASE Next
    <3>1. PICK proof \in Provable, update \in Submitted :
            light_client_update(update, proof)
      BY <2>1 DEF Next
    <3>2. HH!Accept(update)
      BY <3>1, UpdatePushes DEF IInv, HH!Accept, HH!Age, Index
    <3>3. QED
      BY <3>2 DEF HH!Next
  <2>2. CASE UNCHANGED vars
    BY <2>2 DEF vars, historyBar, EntryAt
  <2>3. QED
    BY <2>1, <2>2
<1>3. QED
  BY <1>1, <1>2, Invariant, PTL DEF Spec, HH!Spec, Refinement
=============================================================================
