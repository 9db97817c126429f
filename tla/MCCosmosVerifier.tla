--------------------------- MODULE MCCosmosVerifier ---------------------------
(***************************************************************************)
(* Seven headers, numbered by age; header r can be proved from every older *)
(* header, with the finalized header two or three behind it, and for two   *)
(* signing domains.  The arrays of three are filled twice.                 *)
(***************************************************************************)
EXTENDS CosmosVerifier

MCRoot == 1 .. 7

Behind(r, n) == IF r > n THEN r - n ELSE 1

UpdateFor(r, lag) ==
  [new_optimistic_header_root |-> r, new_slot |-> 32 * r,
   new_finalized_header_root |-> Behind(r, lag),
   new_execution_state_root |-> Behind(r, lag)]

MCGenesis == [header |-> 1, slot |-> 32]

MCCommitment ==
  [current_header_root : MCRoot,
   update : {UpdateFor(r, lag) : r \in MCRoot, lag \in {2, 3}},
   domain : {"mainnet", "prater"}]

MCProvable ==
  {c \in MCCommitment :
     c.current_header_root < c.update.new_optimistic_header_root}
=============================================================================
