---------------------------- MODULE HeaderHistory ----------------------------
(***************************************************************************)
(* What an on-chain DendrETH verifier promises, whatever chain it runs on: *)
(* it remembers the last HistorySize updates it accepted, newest first,    *)
(* and accepts an update only with a proof that steps from the newest      *)
(* remembered header to the header the update attests.                     *)
(*                                                                         *)
(* The Solidity contract (module BeaconLightClient) keeps this history in  *)
(* four parallel ring buffers, the CosmWasm contract (CosmosVerifier) in   *)
(* three of another index convention, with the slot beside them.           *)
(***************************************************************************)
EXTENDS Integers

CONSTANTS
  HistorySize,  \* how many accepted updates are remembered, at least one
  Update,       \* the updates that can be submitted
  Genesis,      \* the update the verifier is deployed with
  Empty,        \* the content of a place no update has reached; no update
  Steps         \* <<u, v>>: the circuit proves v from the header of u

VARIABLE history  \* history[k] is the update accepted k updates ago

Age == 0 .. HistorySize - 1

TypeOK == history \in [Age -> Update \cup {Empty}]

Init == history = [k \in Age |-> IF k = 0 THEN Genesis ELSE Empty]

Accept(u) ==
  /\ <<history[0], u>> \in Steps
  /\ history' = [k \in Age |-> IF k = 0 THEN u ELSE history[k - 1]]

Next == \E u \in Update : Accept(u)

Spec == Init /\ [][Next]_history
=============================================================================
