----------------------------- MODULE ScriptWrites -----------------------------
(***************************************************************************)
(* The order in which a script makes its writes.  The scripts of the       *)
(* provers await every write before the next, in nested loops; a write is  *)
(* a record whose field `at' says where in the program it is made: the     *)
(* statement, and the counters of the loops around it.  What a script has  *)
(* left to do is a set of writes.                                          *)
(***************************************************************************)
EXTENDS Integers

Place == Nat \X Nat \X Nat \X Nat

\* Outer counters come before inner ones.
Precedes(a, b) ==
  \E n \in 1 .. 4 : a[n] < b[n] /\ \A m \in 1 .. n - 1 : a[m] = b[m]

IsNext(write, writes) ==
  /\ write \in writes
  /\ \A other \in writes \ {write} : Precedes(write.at, other.at)
=============================================================================
