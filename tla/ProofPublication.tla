-------------------------- MODULE ProofPublication --------------------------
(***************************************************************************)
(* What the relay's publisher promises its environment: proofs are only    *)
(* ever added to the store, and the contract's optimistic header moves     *)
(* only along a stored proof that starts at that very header.              *)
(***************************************************************************)
EXTENDS Integers

CONSTANTS
  Slot,       \* slots a header can have
  FirstSlot   \* slot of the header the contract is deployed with

VARIABLES
  proofs,     \* the proofs in Redis, by the slots of their two headers
  onChain     \* slot of the contract's optimistic header

Proof == {p \in [from : Slot, to : Slot] : p.from < p.to}

TypeOK ==
  /\ proofs \subseteq Proof
  /\ onChain \in Slot

Init ==
  /\ proofs = {}
  /\ onChain = FirstSlot

Save(p) ==
  /\ proofs' = proofs \cup {p}
  /\ UNCHANGED onChain

Publish(p) ==
  /\ p \in proofs
  /\ p.from = onChain
  /\ onChain' = p.to
  /\ UNCHANGED proofs

Next == \E p \in Proof : Save(p) \/ Publish(p)

Spec == Init /\ [][Next]_<<proofs, onChain>>
=============================================================================
