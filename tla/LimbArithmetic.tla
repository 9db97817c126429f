---------------------------- MODULE LimbArithmetic ----------------------------
(***************************************************************************)
(* Big integers in a circuit, biguint.rs: sequences of limbs, the least    *)
(* significant first.  An operator is the value a gadget computes for the  *)
(* values of its arguments, or, where its name says so, the constraint it  *)
(* adds.  What the library does with single limbs (mul_u32, add_many_u32,  *)
(* sub_u32, list_le_u32_circuit) is part of the operators that use it.     *)
(***************************************************************************)
EXTENDS Integers, Sequences, SequencesExt, FiniteSetsExt

CONSTANT LimbBits  \* bits of a limb, 32 in the code

ASSUME LimbAssumption == LimbBits \in Nat \ {0}

\* The limbs are below it.
Base == 2 ^ LimbBits

\* What a limb above n others counts.
Weight(n) == 2 ^ (LimbBits * n)

-----------------------------------------------------------------------------
(* Constants and witnesses *)

\* get_biguint_target.
Value(a) == FoldRight(LAMBDA limb, acc : acc * Base + limb, a, 0)

\* to_u32_digits: as few limbs as the value needs, none for zero.
Digits(v) ==
  LET n == CHOOSE k \in 0 .. v : Weight(k) > v /\ (k = 0 \/ Weight(k - 1) <= v)
  IN  [i \in 1 .. n |-> (v \div Weight(i - 1)) % Base]

ConstantBiguint(v) == Digits(v)

LimbAt(a, i) == IF i \in DOMAIN a THEN a[i] ELSE 0

PaddedTo(a, n) == [i \in 1 .. n |-> LimbAt(a, i)]

MaxLen(a, b) == Max({Len(a), Len(b)})

\* set_biguint_target panics if the value needs more limbs than there are.
Fits(v, limbs) == Len(Digits(v)) <= limbs

SetBiguint(v, limbs) == PaddedTo(Digits(v), limbs)

-----------------------------------------------------------------------------
(* Comparisons *)

\* connect_biguint: equal where both have limbs, zero where only one has.
Connected(a, b) ==
  /\ \A i \in DOMAIN a \cap DOMAIN b : a[i] = b[i]
  /\ \A i \in DOMAIN a \ DOMAIN b : a[i] = 0
  /\ \A i \in DOMAIN b \ DOMAIN a : b[i] = 0

PadBiguints(a, b) == <<PaddedTo(a, MaxLen(a, b)), PaddedTo(b, MaxLen(a, b))>>

\* cmp_biguint: a <= b, decided by the highest limb in which they differ.
Cmp(a, b) ==
  LET p == PadBiguints(a, b)[1]
      q == PadBiguints(a, b)[2]
  IN  \A i \in DOMAIN p : p[i] > q[i] => \E j \in i + 1 .. Len(p) : p[j] < q[j]

-----------------------------------------------------------------------------
(* Arithmetic *)

\* One pass from the lowest limb up: what a column is too large (or, below
\* zero, too small) for goes into the next one.
Sweep(columns) ==
  FoldLeft(LAMBDA s, c : [limbs |-> Append(s.limbs, (c + s.carry) % Base),
                          carry |-> (c + s.carry) \div Base],
           [limbs |-> <<>>, carry |-> 0], columns)

\* Mutant: add_biguint leaves out the last carry.
AddWithoutCarry(a, b) ==
  Sweep([i \in 1 .. MaxLen(a, b) |-> LimbAt(a, i) + LimbAt(b, i)]).limbs \o <<0>>

\* add_biguint: one limb more than the longer of the two, the carry.
Add(a, b) ==
  LET s == Sweep([i \in 1 .. MaxLen(a, b) |-> LimbAt(a, i) + LimbAt(b, i)])
  IN  Append(s.limbs, s.carry)

\* sub_biguint: the last borrow is forgotten.
Sub(a, b) ==
  Sweep([i \in 1 .. MaxLen(a, b) |-> LimbAt(a, i) - LimbAt(b, i)]).limbs

\* mul_biguint: the low half of a product of limbs goes into one column, the
\* high half into the next.
Mul(a, b) ==
  LET Low(p) == (a[p[1]] * b[p[2]]) % Base
      High(p) == (a[p[1]] * b[p[2]]) \div Base
      Pairs(k) == {p \in (1 .. Len(a)) \X (1 .. Len(b)) : p[1] + p[2] = k}
      s == Sweep([k \in 1 .. Len(a) + Len(b) |->
                    MapThenSumSet(Low, Pairs(k + 1)) + MapThenSumSet(High, Pairs(k))])
  IN  Append(s.limbs, s.carry)

MulByBool(a, bool) == [i \in DOMAIN a |-> a[i] * bool]

MulAdd(x, y, z) == Add(Mul(x, y), z)

-----------------------------------------------------------------------------
(* Division *)

\* The limbs of the quotient; where the code computes a_len - b_len + 1 with
\* b_len = a_len + 1 it means none.
DivLimbs(a, b) == IF Len(b) > Len(a) + 1 THEN 0 ELSE Len(a) - Len(b) + 1

\* Mutant: div_rem_biguint without the comparison of remainder and divisor.
DivRemUnbounded(a, b, div, rem) == Connected(a, Add(Mul(div, b), rem))

\* What div_rem_biguint asks of a quotient and a remainder.  The comparison
\* is not strict.
DivRemAccepts(a, b, div, rem) ==
  /\ Connected(a, Add(Mul(div, b), rem))
  /\ Cmp(rem, b)

\* What BigUintDivRemGenerator gives them; it panics if it cannot.
CanDivide(a, b) ==
  /\ Value(b) # 0
  /\ Fits(Value(a) \div Value(b), DivLimbs(a, b)) /\ Fits(Value(a) % Value(b), Len(b))

DivRemGenerated(a, b) ==
  [div |-> SetBiguint(Value(a) \div Value(b), DivLimbs(a, b)),
   rem |-> SetBiguint(Value(a) % Value(b), Len(b))]

\* The generator is saved with the circuit: the count and the limbs of each
\* of its four numbers; the last limb of the last one is written by itself.
Serialize(gen) ==
  LET Written(a) == <<Len(a)>> \o a
  IN  Written(gen.a) \o Written(gen.b) \o Written(gen.div)
        \o <<Len(gen.rem)>> \o Front(gen.rem) \o <<Last(gen.rem)>>

Deserialize(src) ==
  LET First(buffer) == SubSeq(buffer, 2, buffer[1] + 1)
      Rest(buffer) == SubSeq(buffer, buffer[1] + 2, Len(buffer))
      afterB == Rest(Rest(src))
  IN  [a |-> First(src), b |-> First(Rest(src)),
       div |-> First(afterB), rem |-> First(Rest(afterB))]
=============================================================================
