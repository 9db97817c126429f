------------------------- MODULE MCCommitmentMapper -------------------------
(***************************************************************************)
(* A tree of four leaves, one half of which may be empty, and two workers. *)
(***************************************************************************)
EXTENDS CommitmentMapper

\* Two rounds one after the other, the second maybe after a crash of the
\* script; a round after a single validator, with a fault of a worker; a first
\* round, with a crash; a round that fills the other half of the tree.
MCBudgets ==
  {[initial |-> 2, count |-> 2, rounds |-> 2, faults |-> 0, crashes |-> 1],
   [initial |-> 1, count |-> 2, rounds |-> 1, faults |-> 1, crashes |-> 0],
   [initial |-> 0, count |-> 2, rounds |-> 1, faults |-> 0, crashes |-> 1],
   [initial |-> 2, count |-> 4, rounds |-> 1, faults |-> 0, crashes |-> 0],
   [initial |-> 0, count |-> 1, rounds |-> 1, faults |-> 0, crashes |-> 0]}
=============================================================================
