---------------------------- MODULE NumberCircuits ----------------------------
(***************************************************************************)
(* The gadgets of biguint.rs, utils.rs and is_active_validator.rs on three *)
(* operands.  They have no state: nothing changes the operands, and what   *)
(* is said here about the gadgets is said about each of their values.      *)
(***************************************************************************)
EXTENDS CircuitNumbers

CONSTANT Operands  \* bound: the numbers, as limbs

Limb == 0 .. Base - 1

ASSUME OperandsAssumption == \A a \in Operands : a \in Seq(Limb)

VARIABLE operands

NoNumbers == operands = <<>>

NumbersInit == \E a, b, c \in Operands : operands = <<a, b, c>>

NumbersSpec == (NoNumbers \/ NumbersInit) /\ [][FALSE]_operands

-----------------------------------------------------------------------------
(* Properties *)

\* Sums and products are exact whatever the lengths, a difference is exact
\* but for the borrow it forgets.
ArithmeticIsExact(a, b, c) ==
  /\ Value(Add(a, b)) = Value(a) + Value(b)
  /\ Value(Sub(a, b)) = (Value(a) - Value(b)) % Weight(MaxLen(a, b))
  /\ Value(Mul(a, b)) = Value(a) * Value(b)
  /\ Value(MulAdd(a, b, c)) = Value(a) * Value(b) + Value(c)

\* Numbers are compared by their values, and have one form of each length.
ComparisonsAreExact(a, b) ==
  /\ Cmp(a, b) <=> Value(a) <= Value(b)
  /\ Connected(a, b) <=> Value(a) = Value(b)
  /\ SetBiguint(Value(a), Len(a)) = a

\* The two gadgets for numbers of one length.
ChoicesAreExact(a, b, c) ==
  Len(a) = Len(b) =>
    /\ Value(IfBiguint(1, a, b)) = Value(a)
    /\ Value(IfBiguint(0, a, b)) = Value(b)
    /\ Len(b) = Len(c) =>
         (IsActiveValidator(a, b, c) <=> Value(a) <= Value(b) /\ Value(b) < Value(c))

\* The bits of a number come back as the number, and those of a 64-bit
\* number are its SSZ leaf: byte i of it, from the lowest one up, filled up
\* with zeros.
BitsAreExact(a) ==
  /\ BitsToBiguint(BiguintToBits(a)) = a
  /\ Len(a) = 2 =>
       /\ SszNumFromBits(SubSeq(SszNumToBits(a, NumBits), 1, NumBits)) = a
       /\ \A i \in 1 .. HashBits \div ByteBits :
            BitsValue(ChunksOf(SszNumToBits(a, NumBits), ByteBits)[i])
              = (Value(a) \div 2 ^ (ByteBits * (i - 1))) % 2 ^ ByteBits

\* What a division keeps in a circuit file is read back.
GeneratorIsReadBack(a, b) ==
  b # <<>> /\ CanDivide(a, b) =>
    LET generated == DivRemGenerated(a, b)
        gen == [a |-> a, b |-> b, div |-> generated.div, rem |-> generated.rem]
    IN  Deserialize(Serialize(gen)) = gen

\* div_rem_biguint, and with it the epoch of a slot in the final circuit,
\* has the one quotient and remainder that Euclid's division has.  The
\* comparison of remainder and divisor is not strict: where the divisor
\* divides there is a second pair, the quotient less one and the divisor for
\* remainder.  The generator never gives that pair, so the epoch of a proof
\* that this program makes is always the epoch of the slot.
QuotientIsExact(a, b) ==
  Value(b) # 0 =>
    LET LimbsOf(n) == [1 .. n -> Limb]
        q == Value(a) \div Value(b)
        r == Value(a) % Value(b)
    IN  /\ \A div \in LimbsOf(DivLimbs(a, b)), rem \in LimbsOf(Len(b)) :
             DivRemAccepts(a, b, div, rem) <=>
               \/ Value(div) = q /\ Value(rem) = r
               \/ r = 0 /\ Value(div) = q - 1 /\ Value(rem) = Value(b)
        /\ CanDivide(a, b) => /\ Value(DivRemGenerated(a, b).div) = q
                              /\ Value(DivRemGenerated(a, b).rem) = r
        /\ Len(a) = 2 /\ Len(b) = 2 =>
             (SlotIsProvable(a, b) <=> Value(b) = Value(a) \div SlotsPerEpoch)

\* The gadgets of biguint.rs, utils.rs and is_active_validator.rs compute
\* with the integers their limbs stand for.
LimbsAreIntegers ==
  operands # <<>> =>
    LET a == operands[1]
        b == operands[2]
        c == operands[3]
    IN  /\ ArithmeticIsExact(a, b, c)
        /\ ComparisonsAreExact(a, b)
        /\ ChoicesAreExact(a, b, c)
        /\ BitsAreExact(a)
        /\ GeneratorIsReadBack(a, b)

\* A division, and the epoch of a slot, are those of the integers.  (The
\* third operand plays no part.)
DivisionIsExact ==
  operands # <<>> /\ operands[3] = <<>> => QuotientIsExact(operands[1], operands[2])
===============================================================================
