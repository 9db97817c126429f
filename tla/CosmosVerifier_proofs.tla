------------------------ MODULE CosmosVerifier_proofs ------------------------
(***************************************************************************)
(* Proofs about contract.rs for every array size and every set of provable *)
(* commitments: type correctness, the refinement of HeaderHistory, the     *)
(* slot kept beside the arrays, and what the queries return.               *)
(***************************************************************************)
EXTENDS CosmosVerifier, WellFoundedInduction, TLAPS

\* The index of execute_update stays within the array's places.
LEMMA NextIndexValue ==
  ASSUME NEW i \in Place
  PROVE  NextIndex(i) \in Place
  BY CosmosAssumption DEF Place, NextIndex

\* The place of age k is a place of the arrays.
LEMMA PlaceOfType ==
  ASSUME NEW i \in Place, NEW k \in 0 .. Size - 1
  PROVE  /\ PlaceOf(i, k) \in Place
         /\ PlaceOf(i, k) = i <=> k = 0
  BY CosmosAssumption DEF Place, PlaceOf

\* The inductive invariant: what the next update reads of the state, and
\* that the slot is the newest header's.
IInv ==
  /\ TypeOK
  /\ domain = MyDomain
  /\ historyBar[0] \in Entries
  /\ SlotOfNewest

\* One accepted update pushes its three roots on the history read from the
\* arrays, and is a step the circuit proves (execute_update).
LEMMA UpdatePushes ==
  ASSUME TypeOK, domain = MyDomain, historyBar[0] \in Entries,
         NEW proof \in Provable, execute_update(proof.update, proof)
  PROVE  /\ historyBar' = [k \in 0 .. Size - 1 |->
                             IF k = 0 THEN EntryOf(proof.update)
                             ELSE historyBar[k - 1]]
         /\ <<historyBar[0], EntryOf(proof.update)>> \in Steps
         /\ TypeOK'
<1>. DEFINE n == NextIndex(current_index)
            update == proof.update
<1>1. /\ n \in Place
      /\ n = IF current_index = Size THEN 1 ELSE current_index + 1
  BY NextIndexValue DEF TypeOK, NextIndex
<1>2. update \in Update /\ proof \in Commitment
  BY CosmosAssumption DEF Commitment
<1>3. TypeOK'
  BY <1>1, <1>2 DEF TypeOK, execute_update, HeaderAfter, Update
<1>4. <<historyBar[0], EntryOf(update)>> \in Steps
  <2>1. historyBar[0].header = optimistic_header_hash_array[current_index]
    BY CosmosAssumption DEF historyBar, PlaceOf, EntryAt, TypeOK, Place
  <2>2. /\ proof.domain = MyDomain
        /\ proof.current_header_root = historyBar[0].header
    BY <1>2, <2>1
    DEF execute_update, makePairsAndVerify, stored_current_header_root
  <2>3. EntryOf(update) \in Entries
    BY DEF Entries
  <2>4. QED
    BY <2>2, <2>3 DEF Steps
<1>5. ASSUME NEW k \in 0 .. Size - 1
      PROVE  historyBar'[k] = IF k = 0 THEN EntryOf(update)
                              ELSE historyBar[k - 1]
  <2>. DEFINE place == PlaceOf(n, k)
  <2>1. historyBar'[k] =
          [header |-> optimistic_header_hash_array'[place],
           finalized |-> finalized_header_hash_array'[place],
           executionState |-> execution_state_root_array'[place]]
    BY DEF historyBar, execute_update, EntryAt
  <2>2. CASE k = 0
    <3>1. place = n
      BY <1>1, <2>2, PlaceOfType
    <3>2. /\ optimistic_header_hash_array'[n] = update.new_optimistic_header_root
          /\ finalized_header_hash_array'[n] = update.new_finalized_header_root
          /\ execution_state_root_array'[n] = update.new_execution_state_root
      BY <1>1 DEF execute_update, TypeOK, HeaderAfter
    <3>3. QED
      BY <2>1, <2>2, <3>1, <3>2 DEF EntryOf
  <2>3. CASE k # 0
    <3>1. k - 1 \in 0 .. Size - 1
      BY <2>3, CosmosAssumption
    <3>2. /\ place = PlaceOf(current_index, k - 1)
          /\ place \in Place
          /\ place # n
      BY <1>1, <2>3, CosmosAssumption DEF PlaceOf, Place, TypeOK
    <3>3. /\ optimistic_header_hash_array'[place]
               = optimistic_header_hash_array[place]
          /\ finalized_header_hash_array'[place]
               = finalized_header_hash_array[place]
          /\ execution_state_root_array'[place]
               = execution_state_root_array[place]
      BY <3>2, <1>1 DEF execute_update, TypeOK
    <3>4. historyBar[k - 1] = EntryAt(place)
      BY <3>1, <3>2 DEF historyBar
    <3>5. QED
      BY <2>1, <2>3, <3>3, <3>4 DEF EntryAt
  <2>4. QED
    BY <2>2, <2>3
<1>6. historyBar' = [k \in 0 .. Size - 1 |->
                       IF k = 0 THEN EntryOf(update) ELSE historyBar[k - 1]]
  BY <1>5 DEF historyBar
<1>7. QED
  BY <1>3, <1>4, <1>6

-----------------------------------------------------------------------------
\* The history a contract starts with (instantiate).
LEMMA InitHistory ==
  ASSUME Init
  PROVE  historyBar = [k \in 0 .. Size - 1 |-> IF k = 0 THEN FirstEntry ELSE Empty]
<1>. SUFFICES ASSUME NEW k \in 0 .. Size - 1
              PROVE  EntryAt(PlaceOf(1, k)) = IF k = 0 THEN FirstEntry ELSE Empty
  BY DEF historyBar, Init
<1>1. 1 \in Place
  BY CosmosAssumption DEF Place
<1>2. PlaceOf(1, k) \in Place /\ (PlaceOf(1, k) = 1 <=> k = 0)
  BY <1>1, PlaceOfType
<1>3. QED
  BY <1>2 DEF Init, EntryAt, FirstEntry, Empty

\* instantiate establishes the invariant.
LEMMA InitInvariant == Init => IInv
<1>. SUFFICES ASSUME Init PROVE IInv
  OBVIOUS
<1>1. TypeOK
  BY CosmosAssumption DEF Init, TypeOK, Place
<1>2. historyBar[0] = FirstEntry
  BY InitHistory, CosmosAssumption
<1>3. SlotOfNewest
  BY <1>2 DEF SlotOfNewest, Init
<1>4. QED
  BY <1>1, <1>2, <1>3 DEF IInv, Init, Entries

\* Every accepted update keeps it (execute_update).
LEMMA NextInvariant == IInv /\ [Next]_vars => IInv'
<1>. SUFFICES ASSUME IInv, [Next]_vars PROVE IInv'
  OBVIOUS
<1>1. CASE Next
  <2>1. PICK proof \in Provable : execute_update(proof.update, proof)
    BY <1>1 DEF Next
  <2>2. TypeOK' /\ historyBar'[0] = EntryOf(proof.update)
    <3>1. /\ TypeOK'
          /\ historyBar' = [k \in 0 .. Size - 1 |->
                              IF k = 0 THEN EntryOf(proof.update)
                              ELSE historyBar[k - 1]]
      BY <2>1, UpdatePushes DEF IInv
    <3>2. 0 \in 0 .. Size - 1
      BY CosmosAssumption
    <3>3. QED
      BY <3>1, <3>2
  <2>3. domain' = MyDomain
    BY <2>1 DEF execute_update, IInv
  <2>4. SlotOfNewest'
    <3>1. proof.domain = MyDomain
      BY <2>1, CosmosAssumption
      DEF execute_update, makePairsAndVerify, IInv, Commitment
    <3>2. current_slot' = proof.update.new_slot
      BY <2>1 DEF execute_update
    <3>3. QED
      BY <2>2, <3>1, <3>2 DEF SlotOfNewest
  <2>5. QED
    BY <2>2, <2>3, <2>4 DEF IInv, Entries
<1>2. CASE UNCHANGED vars
  BY <1>2 DEF vars, IInv, TypeOK, historyBar, EntryAt, SlotOfNewest
<1>3. QED
  BY <1>1, <1>2

\* IInv holds in every reachable state of the contract.
THEOREM Invariant == Spec => []IInv
  BY InitInvariant, NextInvariant, PTL DEF Spec

\* The contract's storage keeps its types for every array size; the index
\* never leaves the places (contract.rs).
THEOREM TypeCorrect == Spec => []TypeOK
  BY Invariant, PTL DEF IInv

\* current_slot is always the slot the newest header was proved for
\* (execute_update stores it apart from the arrays).
THEOREM SlotIsNewest == Spec => []SlotOfNewest
  BY Invariant, PTL DEF IInv

\* The three arrays implement the history of the last Size updates:
\* instantiate is the abstract start, every accepted update one push.
THEOREM ImplementsHistory == Spec => Refinement
<1>1. Init => HH!Init
  BY InitHistory DEF HH!Init, HH!Age
<1>2. IInv /\ [Next]_vars => [HH!Next]_historyBar
  <2>. SUFFICES ASSUME IInv, [Next]_vars PROVE [HH!Next]_historyBar
    OBVIOUS
  <2>1. CASE Next
    <3>1. PICK proof \in Provable : execute_update(proof.update, proof)
      BY <2>1 DEF Next
    <3>2. HH!Accept(EntryOf(proof.update))
      BY <3>1, UpdatePushes DEF IInv, HH!Accept, HH!Age
    <3>3. QED
      BY <3>2 DEF HH!Next, Entries
  <2>2. CASE UNCHANGED vars
    BY <2>2 DEF vars, historyBar, EntryAt
  <2>3. QED
    BY <2>1, <2>2
<1>3. QED
  BY <1>1, <1>2, Invariant, PTL DEF Spec, HH!Spec, Refinement

-----------------------------------------------------------------------------
(* The queries *)

\* The places an ordered query walks over, one before the other.
IsWalk(place) ==
  place = [k \in 1 .. Size |->
             IF k = 1 THEN current_index
             ELSE IF place[k - 1] - 1 = 0 THEN Size ELSE place[k - 1] - 1]

\* The ordered queries read the array along such a walk.
LEMMA OrderedIsWalk ==
  ASSUME NEW arr
  PROVE  get_all_ordered(arr) = [k \in 1 .. Size |-> arr[(CHOOSE place : IsWalk(place))[k]]]
  BY DEF get_all_ordered, IsWalk

\* Going back from place to place is subtracting with a wrap-around.
LEMMA PlacesAreWalk ==
  ASSUME current_index \in Place
  PROVE  IsWalk([k \in 1 .. Size |-> PlaceOf(current_index, k - 1)])
<1>. DEFINE place == [k \in 1 .. Size |-> PlaceOf(current_index, k - 1)]
<1>1. ASSUME NEW k \in 1 .. Size
      PROVE  PlaceOf(current_index, k - 1) =
               IF k = 1 THEN current_index
               ELSE IF place[k - 1] - 1 = 0 THEN Size ELSE place[k - 1] - 1
  <2>1. CASE k = 1
    BY <2>1 DEF PlaceOf, Place
  <2>2. CASE k # 1
    <3>1. k - 1 \in 1 .. Size /\ place[k - 1] = PlaceOf(current_index, (k - 1) - 1)
      BY <2>2, CosmosAssumption
    <3>. HIDE DEF place
    <3>2. QED
      BY <2>2, <3>1, CosmosAssumption DEF PlaceOf, Place
  <2>3. QED
    BY <2>1, <2>2
<1>2. QED
  BY <1>1 DEF IsWalk

\* There is only one walk: the least step at which two differ would have a
\* step before it at which they differ.
LEMMA WalkIsUnique ==
  ASSUME NEW p, IsWalk(p), NEW q, IsWalk(q)
  PROVE  p = q
<1>. DEFINE Differ == {k \in 1 .. Size : p[k] # q[k]}
            Less == {pair \in Nat \X Nat : pair[1] < pair[2]}
<1>1. Differ = {}
  <2>1. SUFFICES ASSUME Differ # {} PROVE FALSE
    OBVIOUS
  <2>2. IsWellFoundedOn(Less, Nat)
    BY NatLessThanWellFounded DEF OpToRel
  <2>3. Differ \subseteq Nat
    BY CosmosAssumption
  <2>4. PICK k \in Differ : \A j \in Differ : ~(<<j, k>> \in Less)
    BY <2>1, <2>2, <2>3, WFMin
  <2>5. k \in 1 .. Size /\ p[k] # q[k]
    BY <2>4
  <2>6. k # 1
    BY <2>5 DEF IsWalk
  <2>7. k - 1 \in 1 .. Size /\ k - 1 < k /\ k - 1 \in Nat /\ k \in Nat
    BY <2>5, <2>6, CosmosAssumption
  <2>8. p[k - 1] # q[k - 1]
    BY <2>5, <2>6, <2>7 DEF IsWalk
  <2>9. QED
    BY <2>4, <2>7, <2>8
<1>2. \A k \in 1 .. Size : p[k] = q[k]
  BY <1>1
<1>3. QED
  BY <1>2 DEF IsWalk

\* The k-th entry an ordered query returns is at the place of age k - 1.
LEMMA OrderedGoesBack ==
  ASSUME current_index \in Place, NEW arr, NEW k \in 0 .. Size - 1
  PROVE  get_all_ordered(arr)[k + 1] = arr[PlaceOf(current_index, k)]
<1>. DEFINE places == [j \in 1 .. Size |-> PlaceOf(current_index, j - 1)]
            walk == CHOOSE place : IsWalk(place)
<1>1. IsWalk(places)
  BY PlacesAreWalk
<1>2. IsWalk(walk)
  BY <1>1
<1>3. walk = places
  BY <1>1, <1>2, WalkIsUnique
<1>4. k + 1 \in 1 .. Size /\ (k + 1) - 1 = k
  BY CosmosAssumption
<1>5. places[k + 1] = PlaceOf(current_index, k)
  BY <1>4
<1>. HIDE DEF places, walk
<1>6. get_all_ordered(arr)[k + 1] = arr[walk[k + 1]]
  BY <1>4, OrderedIsWalk DEF walk
<1>7. QED
  BY <1>3, <1>5, <1>6

\* The three ordered queries and HeaderHashBeforeNum tell the history, for
\* every size and wherever the newest place is.
THEOREM QueriesAreRight == Spec => []QueriesTellHistory
<1>1. ASSUME TypeOK, NEW k \in 0 .. Size - 1
      PROVE  /\ get_header_before_n_headers(k) = historyBar[k].header
             /\ get_all_ordered(optimistic_header_hash_array)[k + 1] = historyBar[k].header
             /\ get_all_ordered(finalized_header_hash_array)[k + 1] = historyBar[k].finalized
             /\ get_all_ordered(execution_state_root_array)[k + 1]
                  = historyBar[k].executionState
  <2>. DEFINE place == PlaceOf(current_index, k)
  <2>1. current_index \in Place
    BY <1>1 DEF TypeOK
  <2>2. /\ historyBar[k].header = optimistic_header_hash_array[place]
        /\ historyBar[k].finalized = finalized_header_hash_array[place]
        /\ historyBar[k].executionState = execution_state_root_array[place]
    BY DEF historyBar, EntryAt
  <2>3. get_header_before_n_headers(k) = optimistic_header_hash_array[place]
    BY <2>1, CosmosAssumption DEF get_header_before_n_headers, PlaceOf, Place
  <2>4. QED
    BY <2>1, <2>2, <2>3, OrderedGoesBack
<1>2. TypeOK => QueriesTellHistory
  BY <1>1 DEF QueriesTellHistory
<1>3. QED
  BY <1>2, TypeCorrect, PTL
=============================================================================
