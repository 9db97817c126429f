---------------------------- MODULE CosmosVerifier ----------------------------
(***************************************************************************)
(* The CosmWasm contract (contracts/cosmos/verifier): three arrays in the  *)
(* contract's storage, filled round and round from place 1, the place of   *)
(* the newest header, its slot, and the queries that read them back.  A    *)
(* proof is the tuple of public inputs it commits to, and `Provable' is    *)
(* the set of tuples the circuit can prove, as in BeaconLightClient.       *)
(***************************************************************************)
EXTENDS Integers

CONSTANTS
  Size,      \* places of an array, 32 in the contract
  Root,      \* header and execution state roots
  Domain,    \* signing domains a contract can be instantiated with
  Provable,  \* the commitments the circuit can prove
  Genesis,   \* the header and the slot of InstantiateMsg
  ZeroRoot,  \* 32 zero bytes, the initial content of the arrays
  MyDomain   \* the domain of InstantiateMsg

Update ==
  [new_optimistic_header_root : Root, new_finalized_header_root : Root,
   new_execution_state_root : Root, new_slot : Nat]

Commitment == [current_header_root : Root, update : Update, domain : Domain]

ASSUME CosmosAssumption ==
  /\ Size \in Nat \ {0}
  /\ ZeroRoot \notin Root
  /\ Genesis \in [header : Root, slot : Nat]
  /\ MyDomain \in Domain
  /\ Provable \subseteq Commitment

VARIABLES
  current_index,
  current_slot,
  domain,
  optimistic_header_hash_array,
  finalized_header_hash_array,
  execution_state_root_array

vars == <<current_index, current_slot, domain, optimistic_header_hash_array,
          finalized_header_hash_array, execution_state_root_array>>

Place == 1 .. Size

TypeOK ==
  /\ current_index \in Place
  /\ current_slot \in Nat
  /\ domain \in Domain
  /\ optimistic_header_hash_array \in [Place -> Root \cup {ZeroRoot}]
  /\ finalized_header_hash_array \in [Place -> Root \cup {ZeroRoot}]
  /\ execution_state_root_array \in [Place -> Root \cup {ZeroRoot}]

\* instantiate.
Init ==
  /\ current_index = 1
  /\ current_slot = Genesis.slot
  /\ domain = MyDomain
  /\ optimistic_header_hash_array =
       [i \in Place |-> IF i = 1 THEN Genesis.header ELSE ZeroRoot]
  /\ finalized_header_hash_array = [i \in Place |-> ZeroRoot]
  /\ execution_state_root_array = [i \in Place |-> ZeroRoot]

stored_current_header_root == optimistic_header_hash_array[current_index]

makePairsAndVerify(proof, currentHeaderHash, update, dom) ==
  /\ proof \in Provable
  /\ proof = [current_header_root |-> currentHeaderHash, update |-> update,
              domain |-> dom]

\* Mutant: the verifier leaves its argument alone.
HeaderAfterUntouched(update) == stored_current_header_root

\* The buffer of the stored root after a successful verification: the
\* verifier has overwritten it with the new root.
HeaderAfter(update) == update.new_optimistic_header_root

\* Mutant: the index is never wrapped.
NextIndexNoWrap(i) == i + 1

NextIndex(i) == IF i = Size THEN 1 ELSE i + 1

\* Mutant: the slot of the contract is not brought forward.
UpdateKeepsSlot(update, proof) ==
  /\ makePairsAndVerify(proof, stored_current_header_root, update, domain)
  /\ current_index' = NextIndex(current_index)
  /\ optimistic_header_hash_array' =
       [optimistic_header_hash_array EXCEPT
          ![current_index'] = HeaderAfter(update)]
  /\ finalized_header_hash_array' =
       [finalized_header_hash_array EXCEPT
          ![current_index'] = update.new_finalized_header_root]
  /\ execution_state_root_array' =
       [execution_state_root_array EXCEPT
          ![current_index'] = update.new_execution_state_root]
  /\ UNCHANGED <<current_slot, domain>>

execute_update(update, proof) ==
  /\ makePairsAndVerify(proof, stored_current_header_root, update, domain)
  /\ current_index' = NextIndex(current_index)
  /\ optimistic_header_hash_array' =
       [optimistic_header_hash_array EXCEPT
          ![current_index'] = HeaderAfter(update)]
  /\ finalized_header_hash_array' =
       [finalized_header_hash_array EXCEPT
          ![current_index'] = update.new_finalized_header_root]
  /\ execution_state_root_array' =
       [execution_state_root_array EXCEPT
          ![current_index'] = update.new_execution_state_root]
  /\ current_slot' = update.new_slot
  /\ UNCHANGED domain

Next == \E proof \in Provable : execute_update(proof.update, proof)

Spec == Init /\ [][Next]_vars

-----------------------------------------------------------------------------
(***************************************************************************)
(* The queries.                                                            *)
(***************************************************************************)

\* Mutant: one place too far.
HeaderBeforeTooFar(minus_pos) ==
  LET pos == current_index - minus_pos - 1
  IN  optimistic_header_hash_array[IF pos <= 0 THEN pos + Size ELSE pos]

get_header_before_n_headers(minus_pos) ==
  LET pos == current_index - minus_pos
  IN  optimistic_header_hash_array[IF pos <= 0 THEN pos + Size ELSE pos]

\* The three ordered queries walk back from the newest place, Size places in
\* all.
get_all_ordered(arr) ==
  LET place[k \in 1 .. Size] ==
        IF k = 1 THEN current_index
        ELSE IF place[k - 1] - 1 = 0 THEN Size ELSE place[k - 1] - 1
  IN  [k \in 1 .. Size |-> arr[place[k]]]

\* The three other queries: place 1, and the places of Rust's range 2..32.
get_all(arr) == [i \in 1 .. Size - 1 |-> arr[i]]

-----------------------------------------------------------------------------
(***************************************************************************)
(* The refinement of HeaderHistory.                                        *)
(***************************************************************************)

PlaceOf(index, k) == IF k < index THEN index - k ELSE index - k + Size

EntryAt(i) ==
  [header |-> optimistic_header_hash_array[i],
   finalized |-> finalized_header_hash_array[i],
   executionState |-> execution_state_root_array[i]]

EntryOf(update) ==
  [header |-> update.new_optimistic_header_root,
   finalized |-> update.new_finalized_header_root,
   executionState |-> update.new_execution_state_root]

\* What instantiate stores, and what a place holds before its first update.
FirstEntry ==
  [header |-> Genesis.header, finalized |-> ZeroRoot,
   executionState |-> ZeroRoot]

Empty ==
  [header |-> ZeroRoot, finalized |-> ZeroRoot, executionState |-> ZeroRoot]

Entries == {FirstEntry} \cup {EntryOf(p.update) : p \in Provable}

\* The steps some proof for the contract's domain makes.
Steps ==
  {step \in Entries \X Entries :
     \E p \in Provable : /\ p.domain = MyDomain
                         /\ p.current_header_root = step[1].header
                         /\ EntryOf(p.update) = step[2]}

historyBar == [k \in 0 .. Size - 1 |-> EntryAt(PlaceOf(current_index, k))]

HH == INSTANCE HeaderHistory
        WITH HistorySize <- Size, Update <- Entries, Genesis <- FirstEntry,
             history <- historyBar

\* The three arrays, written round and round, are the history an on-chain
\* verifier promises: an accepted update pushes its three roots together.
Refinement == HH!Spec

\* What readers of the contract rely on: the ordered queries and the query
\* for the header of n updates ago tell the history, wherever the newest
\* place is (three loops and a subtraction with their own wrap-arounds).
QueriesTellHistory ==
  \A k \in 0 .. Size - 1 :
    /\ get_header_before_n_headers(k) = historyBar[k].header
    /\ get_all_ordered(optimistic_header_hash_array)[k + 1] = historyBar[k].header
    /\ get_all_ordered(finalized_header_hash_array)[k + 1] = historyBar[k].finalized
    /\ get_all_ordered(execution_state_root_array)[k + 1]
         = historyBar[k].executionState

\* current_slot, which is kept apart from the arrays, belongs to the newest
\* header: the proof that brought the header was made for this slot.
SlotOfNewest ==
  \/ historyBar[0] = FirstEntry /\ current_slot = Genesis.slot
  \/ \E p \in Provable : /\ p.domain = MyDomain
                         /\ EntryOf(p.update) = historyBar[0]
                         /\ p.update.new_slot = current_slot

\* AllHeaderHashes (msg.rs:38) returns all header hashes the contract
\* remembers, as its name says and its ordered twin does.
AllHeadersReturned ==
  \A k \in 0 .. Size - 1 :
    historyBar[k] # Empty =>
    \E i \in DOMAIN get_all(optimistic_header_hash_array) :
      get_all(optimistic_header_hash_array)[i] = historyBar[k].header
=============================================================================
