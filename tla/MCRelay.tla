------------------------------- MODULE MCRelay -------------------------------
(***************************************************************************)
(* Contracts on two networks, the second deployed one slot later, fed      *)
(* through one Redis; and one contract with two provers.                   *)
(***************************************************************************)
EXTENDS Relay

CONSTANTS goerli, sepolia

MCFirstSlot == goerli :> 0 @@ sepolia :> 1

MCFirstSlotOne == goerli :> 0
=============================================================================
