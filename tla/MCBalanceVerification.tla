------------------------ MODULE MCBalanceVerification ------------------------
(***************************************************************************)
(* Groups of four validators in a tree of two levels above them; a worker  *)
(* for each level.                                                         *)
(***************************************************************************)
EXTENDS BalanceVerification, TLC

CONSTANTS w0, w1, w2

MCLevelOf == w0 :> 0 @@ w1 :> 1 @@ w2 :> 2

\* Different sums for different sets of counted validators.
MCCounted == {1, 3, 4, 6, 7, 8}

MCBalance == [n \in 1 .. 16 |-> 2 ^ n]

\* Two groups, with one validator missing, in two batches; one group, with a
\* crash, a slow worker or workers that stop when there is no job; a chunk of
\* balances too few; two full groups, after which the script makes an empty
\* third batch.
MCBudgets ==
  {[take |-> 7, crashes |-> 0, slow |-> 0, stops |-> FALSE],
   [take |-> 3, crashes |-> 1, slow |-> 0, stops |-> FALSE],
   [take |-> 3, crashes |-> 0, slow |-> 1, stops |-> FALSE],
   [take |-> 3, crashes |-> 0, slow |-> 0, stops |-> TRUE],
   [take |-> 2, crashes |-> 0, slow |-> 0, stops |-> FALSE],
   [take |-> 8, crashes |-> 0, slow |-> 0, stops |-> FALSE]}
=============================================================================
