------------------------- MODULE MCBeaconLightClient -------------------------
(***************************************************************************)
(* Seven headers, numbered by age; header r can be proved from every older *)
(* header, with the finalized header two or three behind it, and for two   *)
(* signing domains.  The ring of three wraps around twice.                 *)
(***************************************************************************)
EXTENDS BeaconLightClient

MCRoot == 1 .. 7

Behind(r, n) == IF r > n THEN r - n ELSE 1

UpdateFor(r, lag) ==
  [attestedHeaderRoot |-> r, attestedHeaderSlot |-> 32 * r,
   finalizedHeaderRoot |-> Behind(r, lag),
   finalizedExecutionStateRoot |-> Behind(r, lag)]

MCGenesis == UpdateFor(1, 2)

MCCommitment ==
  [prevHeaderHash : MCRoot,
   update : {UpdateFor(r, lag) : r \in MCRoot, lag \in {2, 3}},
   domain : {"mainnet", "prater"}]

MCProvable ==
  {c \in MCCommitment : c.prevHeaderHash < c.update.attestedHeaderRoot}
=============================================================================
