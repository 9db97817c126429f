--------------------------------- MODULE Bits ---------------------------------
(***************************************************************************)
(* Numbers as bits, the most significant one first, as the circuits keep   *)
(* them: sequences of 0 and 1.                                             *)
(***************************************************************************)
EXTENDS Integers, Sequences, SequencesExt

Zeros(n) == [i \in 1 .. n |-> 0]

\* split_le_base and le_sum of the builder, with the bits in reverse.
BitsOf(v, n) == [i \in 1 .. n |-> (v \div 2 ^ (n - i)) % 2]

BitsValue(bits) == FoldLeft(LAMBDA acc, b : 2 * acc + b, 0, bits)

Flag(condition) == IF condition THEN 1 ELSE 0
=============================================================================
