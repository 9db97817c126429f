-------------------------- MODULE ValidatorCircuits --------------------------
(***************************************************************************)
(* The circuits about validators and their balances, and the inputs that   *)
(* the scripts make for them.  A circuit is the public inputs it gives; it *)
(* gives NoProof if its constraints cannot be satisfied.                   *)
(***************************************************************************)
EXTENDS MerkleCircuits

CONSTANT Credentials  \* the bits of the withdrawal credentials that count

NoProof == [proof |-> "none"]

\* Limbs of the numbers of ValidatorPoseidonTargets.
PubkeyLimbs == 12

HashLimbs == 8

NumLimbs == 2

\* Validators of a balance circuit, and balances in a chunk of their list.
GroupSize == 8

PerChunk == 4

-----------------------------------------------------------------------------
(* Inputs from the scripts *)

\* hashTreeRoot of a number of so many bits, as hexToBits gives it.
SszLeaf(num, bits) == ReverseEndianness(BitsOf(num, bits)) \o Zeros(HashBits - bits)

NumLeaf(num) == SszLeaf(num, NumBits)

\* convertValidatorToProof; SSZ writes a Boolean as a byte.
ConvertValidatorToProof(v) ==
  [pubkey |-> v.pubkey, withdrawalCredentials |-> v.withdrawalCredentials,
   effectiveBalance |-> NumLeaf(v.effectiveBalance),
   slashed |-> SszLeaf(Flag(v.slashed), ByteBits),
   activationEligibilityEpoch |-> NumLeaf(v.activationEligibilityEpoch),
   activationEpoch |-> NumLeaf(v.activationEpoch), exitEpoch |-> NumLeaf(v.exitEpoch),
   withdrawableEpoch |-> NumLeaf(v.withdrawableEpoch)]

\* The zero validator of the commitment mapper.
ZeroShaInput ==
  [pubkey |-> Zeros(PubkeyLimbs * LimbBits), withdrawalCredentials |-> ZeroSha,
   effectiveBalance |-> ZeroSha, slashed |-> ZeroSha, activationEligibilityEpoch |-> ZeroSha,
   activationEpoch |-> ZeroSha, exitEpoch |-> ZeroSha, withdrawableEpoch |-> ZeroSha]

\* convertValidator: everything is a number.
ConvertValidator(v) ==
  [v EXCEPT !.pubkey = BitsValue(v.pubkey),
            !.withdrawalCredentials = BitsValue(v.withdrawalCredentials),
            !.slashed = Flag(v.slashed)]

ZeroValidator ==
  [pubkey |-> 0, withdrawalCredentials |-> 0, effectiveBalance |-> 0, slashed |-> 0,
   activationEligibilityEpoch |-> 0, activationEpoch |-> 0, exitEpoch |-> 0,
   withdrawableEpoch |-> 0]

\* The first chunks of the list of balances, as many as TAKE needs.
BalanceChunks(balances, take) ==
  [c \in 1 .. (take + PerChunk - 1) \div PerChunk |->
     FlattenSeq([k \in 1 .. PerChunk |->
       IF PerChunk * (c - 1) + k <= Len(balances)
       THEN ReverseEndianness(BitsOf(balances[PerChunk * (c - 1) + k], NumBits)) ELSE Zeros(NumBits)])]

\* The input of a group, saved by saveValidatorBalancesInput; it is made for
\* every group that begins below TAKE.
GroupInput(validators, balances, take, epoch, g) ==
  LET size == Min({GroupSize, Len(validators) - GroupSize * g})
      chunks == BalanceChunks(balances, take)
      each == GroupSize \div PerChunk
  IN  [validators |-> [k \in 1 .. GroupSize |->
                         IF k <= size THEN ConvertValidator(validators[GroupSize * g + k])
                                      ELSE ZeroValidator],
       balances |-> SubSeq(chunks, each * g + 1, Min({each * (g + 1), Len(chunks)})),
       withdrawalCredentials |-> BitsValue(Credentials), currentEpoch |-> epoch,
       validatorIsZero |-> [k \in 1 .. GroupSize |-> Flag(k > size)]]

ZeroGroupInput(epoch) ==
  [validators |-> [k \in 1 .. GroupSize |-> ZeroValidator],
   balances |-> [c \in 1 .. GroupSize \div PerChunk |-> ZeroSha],
   withdrawalCredentials |-> BitsValue(Credentials), currentEpoch |-> epoch,
   validatorIsZero |-> [k \in 1 .. GroupSize |-> 1]]

-----------------------------------------------------------------------------
(* One validator *)

\* hash_tree_root_validator_sha256.
HashTreeRootValidatorSha256(v) ==
  HashTreeRoot(
    <<Sha256(v.pubkey \o Zeros(2 * HashBits - Len(v.pubkey))), v.withdrawalCredentials,
      v.effectiveBalance, v.slashed, v.activationEligibilityEpoch, v.activationEpoch,
      v.exitEpoch, v.withdrawableEpoch>>)

\* hash_tree_root_validator_poseidon.
HashTreeRootValidatorPoseidon(t) ==
  HashTreeRootPoseidon(
    <<Poseidon(t.pubkey), Poseidon(t.withdrawalCredentials), Poseidon(t.effectiveBalance),
      Poseidon(<<t.slashed>>), Poseidon(t.activationEligibilityEpoch),
      Poseidon(t.activationEpoch), Poseidon(t.exitEpoch), Poseidon(t.withdrawableEpoch)>>)

\* set_pw_values of ValidatorPoseidonTargets.
ValidatorPoseidonTargets(input) ==
  [pubkey |-> SetBiguint(input.pubkey, PubkeyLimbs),
   withdrawalCredentials |-> SetBiguint(input.withdrawalCredentials, HashLimbs),
   effectiveBalance |-> SetBiguint(input.effectiveBalance, NumLimbs),
   slashed |-> Flag(input.slashed = 1),
   activationEligibilityEpoch |-> SetBiguint(input.activationEligibilityEpoch, NumLimbs),
   activationEpoch |-> SetBiguint(input.activationEpoch, NumLimbs),
   exitEpoch |-> SetBiguint(input.exitEpoch, NumLimbs),
   withdrawableEpoch |-> SetBiguint(input.withdrawableEpoch, NumLimbs)]

\* validator_poseidon_mapped: numbers are in the first bits of their leaves,
\* and slashed is said to be the first bit of its leaf.
ValidatorPoseidonMapped(v) ==
  LET Num(leaf) == SszNumFromBits(SubSeq(leaf, 1, NumBits))
  IN  [pubkey |-> BitsToBiguint(v.pubkey),
       withdrawalCredentials |-> BitsToBiguint(v.withdrawalCredentials),
       effectiveBalance |-> Num(v.effectiveBalance), slashed |-> v.slashed[1],
       activationEligibilityEpoch |-> Num(v.activationEligibilityEpoch),
       activationEpoch |-> Num(v.activationEpoch), exitEpoch |-> Num(v.exitEpoch),
       withdrawableEpoch |-> Num(v.withdrawableEpoch)]

\* validator_commitment_mapper, the public inputs of the first level.
ValidatorCommitmentMapper(v) ==
  [poseidon |-> HashTreeRootValidatorPoseidon(ValidatorPoseidonMapped(v)),
   sha256 |-> HashTreeRootValidatorSha256(v)]

\* build_commitment_mapper_inner_circuit: with is_zero both hashes of both
\* proofs are multiplied by zero.
CommitmentMapperInner(proof1, proof2, is_zero) ==
  IF is_zero
  THEN [poseidon |-> PoseidonNode(ZeroPoseidon, ZeroPoseidon), sha256 |-> ShaNode(ZeroSha, ZeroSha)]
  ELSE [poseidon |-> PoseidonNode(proof1.poseidon, proof2.poseidon),
        sha256 |-> ShaNode(proof1.sha256, proof2.sha256)]

-----------------------------------------------------------------------------
(* Balances *)

\* set_pw_values walks over the chunks of the circuit and panics if there
\* are fewer in the input.
CanSetBalances(input) == Len(input.balances) >= GroupSize \div PerChunk

\* Mutant: validator_balance_verification counts inactive validators too.
WillBeCountedAlways(t, credentials, epoch) ==
  BiguintIsEqual(t.withdrawalCredentials, credentials)

WillBeCounted(t, credentials, epoch) ==
  /\ BiguintIsEqual(t.withdrawalCredentials, credentials)
  /\ IsActiveValidator(t.activationEpoch, epoch, t.exitEpoch)

\* The balance at this place of the chunks.
BalanceAt(chunks, i) ==
  LET place == ((i - 1) % PerChunk) * NumBits
  IN  SszNumFromBits(SubSeq(chunks[(i - 1) \div PerChunk + 1], place + 1, place + NumBits))

\* A sum without the limb of the carry.
SumOf(a, b) == Front(Add(a, b))

\* validator_balance_verification: the sum starts without limbs.
ValidatorBalanceVerification(input) ==
  LET targets == [i \in 1 .. GroupSize |-> ValidatorPoseidonTargets(input.validators[i])]
      credentials == SetBiguint(input.withdrawalCredentials, HashLimbs)
      epoch == SetBiguint(input.currentEpoch, NumLimbs)
      Leaf(i) == IF input.validatorIsZero[i] = 1 THEN ZeroPoseidon
                 ELSE HashTreeRootValidatorPoseidon(targets[i])
      Current(i) == IfBiguint(Flag(WillBeCounted(targets[i], credentials, epoch)),
                              BalanceAt(input.balances, i), ConstantBiguint(0))
  IN  [rangeTotalValue |-> FoldLeft(LAMBDA sum, i : SumOf(sum, Current(i)),
                                    ConstantBiguint(0), [i \in 1 .. GroupSize |-> i]),
       rangeBalancesRoot |-> HashTreeRoot(input.balances),
       withdrawalCredentials |-> credentials,
       rangeValidatorCommitment |-> HashTreeRootPoseidon([i \in 1 .. GroupSize |-> Leaf(i)]),
       currentEpoch |-> epoch]

\* build_inner_level_circuit.
BalanceInner(proof1, proof2) ==
  IF /\ Connected(proof1.withdrawalCredentials, proof2.withdrawalCredentials)
     /\ Connected(proof1.currentEpoch, proof2.currentEpoch)
  THEN [rangeTotalValue |-> SumOf(proof1.rangeTotalValue, proof2.rangeTotalValue),
        rangeBalancesRoot |-> ShaNode(proof1.rangeBalancesRoot, proof2.rangeBalancesRoot),
        withdrawalCredentials |-> proof1.withdrawalCredentials,
        rangeValidatorCommitment |->
          PoseidonNode(proof1.rangeValidatorCommitment, proof2.rangeValidatorCommitment),
        currentEpoch |-> proof1.currentEpoch]
  ELSE NoProof

-----------------------------------------------------------------------------
(* The final layer *)

\* The constraints of build_final_circuit under the inputs of final_layer.rs;
\* the credentials are set both from the proof and from the input.
FinalIsProvable(input, balance, mapper) ==
  LET slot == SetBiguint(input.slot, NumLimbs) IN
  /\ Connected(SetBiguint(input.withdrawalCredentials, HashLimbs), balance.withdrawalCredentials)
  /\ mapper.poseidon = balance.rangeValidatorCommitment
  /\ IsOnBranch(43, ShaNode(mapper.sha256, input.validatorsSizeBits),
                input.validatorsBranch, input.stateRoot)
  /\ IsOnBranch(44, ShaNode(balance.rangeBalancesRoot, input.validatorsSizeBits),
                input.balanceBranch, input.stateRoot)
  /\ SlotIsProvable(slot, balance.currentEpoch)
  /\ IsOnBranch(34, SszNumToBits(slot, NumBits), input.slotBranch, input.stateRoot)

FinalCircuit(input, balance, mapper) ==
  IF FinalIsProvable(input, balance, mapper)
  THEN [stateRoot |-> input.stateRoot, withdrawalCredentials |-> balance.withdrawalCredentials,
        balanceSum |-> balance.rangeTotalValue]
  ELSE NoProof
=============================================================================
