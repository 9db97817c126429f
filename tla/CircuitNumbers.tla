---------------------------- MODULE CircuitNumbers ----------------------------
(***************************************************************************)
(* Numbers between their forms in a circuit, utils.rs: limbs, bits with    *)
(* the most significant one first, and SSZ, whose bytes are in the         *)
(* opposite order; and the two comparisons of epochs built on them.        *)
(***************************************************************************)
EXTENDS LimbArithmetic, Bits

CONSTANTS
  ByteBits,       \* bits of a byte, 8 in the code
  SlotsPerEpoch   \* 32 in the code, a number of one limb

ASSUME NumbersAssumption ==
  /\ ByteBits \in 1 .. LimbBits /\ LimbBits % ByteBits = 0
  /\ SlotsPerEpoch \in 1 .. Base - 1

NumBits == 2 * LimbBits  \* of a 64-bit number

HashBits == 8 * LimbBits  \* ETH_SHA256_BIT_SIZE

-----------------------------------------------------------------------------
(* Bits *)

ChunksOf(s, size) ==
  [k \in 1 .. (Len(s) + size - 1) \div size |->
     SubSeq(s, (k - 1) * size + 1, Min({k * size, Len(s)}))]

BitsToBiguint(bits) ==
  Reverse([i \in 1 .. Len(bits) \div LimbBits |-> BitsValue(ChunksOf(bits, LimbBits)[i])])

BiguintToBits(a) ==
  FlattenSeq([i \in DOMAIN a |-> BitsOf(a[Len(a) + 1 - i], LimbBits)])

ReverseEndianness(bits) == FlattenSeq(Reverse(ChunksOf(bits, ByteBits)))

\* A leaf of an SSZ tree: the bytes of the number, filled up with zeros.
SszNumToBits(num, bit_len) ==
  ReverseEndianness(BiguintToBits(num)) \o Zeros(HashBits - bit_len)

SszNumFromBits(bits) == BitsToBiguint(ReverseEndianness(bits))

-----------------------------------------------------------------------------
(* Choices and comparisons *)

\* Defined for numbers with equally many limbs; the builder panics else.
BiguintIsEqual(a, b) == \A i \in DOMAIN a : a[i] = b[i]

\* The sum of the two, one of which is zero, without the limb of the carry.
IfBiguint(b, x, y) == Front(Add(MulByBool(y, 1 - b), MulByBool(x, b)))

IsActiveValidator(activation_epoch, current_epoch, exit_epoch) ==
  /\ Cmp(activation_epoch, current_epoch)
  /\ Cmp(current_epoch, exit_epoch) /\ ~BiguintIsEqual(current_epoch, exit_epoch)

\* verify_slot_is_in_range, by a prover that takes the generated quotient.
SlotIsProvable(slot, current_epoch) ==
  LET generated == DivRemGenerated(slot, ConstantBiguint(SlotsPerEpoch))
  IN  /\ DivRemAccepts(slot, ConstantBiguint(SlotsPerEpoch), generated.div, generated.rem)
      /\ Connected(generated.div, current_epoch)
=============================================================================
