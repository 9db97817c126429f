----------------------------- MODULE MCPublisher -----------------------------
(***************************************************************************)
(* Two drains, three headers, every proof between them: one header can be  *)
(* reached by a direct proof and by two successive ones.                   *)
(***************************************************************************)
EXTENDS Publisher

MCSlot == 0 .. 2
=============================================================================
