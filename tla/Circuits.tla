------------------------------- MODULE Circuits -------------------------------
(***************************************************************************)
(* The circuits of the commitment mapper and of the balance verification   *)
(* at work.  A behaviour is about one of four things, its kind:            *)
(*   numbers   the gadgets for big integers, on every operand of a sample  *)
(*   sha256    the hash of a message, round by round                       *)
(*   files     a program that writes circuits and targets, level by level  *)
(*   registry  proofs for a validator registry: the tree of the mapper and *)
(*             the tree of balances, level by level and independently of   *)
(*             each other, and the final circuit on both                   *)
(* Jobs, retries and crashes are in CommitmentMapper and                   *)
(* BalanceVerification; here every job succeeds if its circuit can.        *)
(***************************************************************************)
EXTENDS ValidatorCircuits, NumberCircuits, Sha256Circuit, CircuitFiles

CONSTANTS
  Kinds,          \* bound: the kinds of behaviours
  KnownDigests,   \* the SHA-256 of every message, as words
  RegistryDepth,  \* levels above the validators, 40 in the code
  Registries      \* bound: what the scripts and the programs start from

ASSUME CircuitsAssumption ==
  /\ Kinds \subseteq {"numbers", "sha256", "files", "registry"}
  /\ DOMAIN KnownDigests = Messages
  /\ RegistryDepth \in Nat /\ 2 ^ RegistryDepth >= GroupSize

VARIABLES
  kind,
  sample,         \* the registry
  mapperLevel,    \* levels of the mapper's tree that are done
  mapper,         \* its proofs on the last of them
  mapperZero,     \* and the proof for validators that do not exist
  balanceLevel,   \* the same of the tree of balances
  balances,
  balanceZero,
  final,          \* the public inputs of the final proof
  refused         \* a circuit of this registry could not be satisfied

mapperVars == <<mapperLevel, mapper, mapperZero>>

balanceVars == <<balanceLevel, balances, balanceZero>>

registryVars == <<mapperVars, balanceVars, final, refused>>

inputVars == <<kind, sample, operands>>

vars == <<inputVars, shaVars, filesVars, registryVars>>

-----------------------------------------------------------------------------
(* A registry sample:                                                       *)
(*   mapped       the validators get_changed_validators has followed        *)
(*   validators, balances, slot   the state of get_balances_input           *)
(*   counted, countedBalances     those in the inputs of the groups         *)
(*   epochs       the epoch in the inputs of each group                     *)
(*   take         the option --take                                         *)
(*   credentials  the credentials in the input of the final layer           *)

TopBalanceLevel == RegistryDepth - 3

Groups == 2 ^ TopBalanceLevel

\* External: the SSZ library.  The root of a list of leaves filled up to a
\* depth, and a state with its 32 fields.
Filled(leaves, depth) ==
  LET node[d \in 0 .. depth, i \in 1 .. 2 ^ depth] ==
        IF d = 0 THEN IF i <= Len(leaves) THEN leaves[i] ELSE ZeroSha
        ELSE ShaNode(node[d - 1, 2 * i - 1], node[d - 1, 2 * i])
  IN  node[depth, 1]

SszValidatorRoot(v) ==
  Filled(<<Sha256(v.pubkey \o Zeros(2 * HashBits - Len(v.pubkey))), v.withdrawalCredentials,
           NumLeaf(v.effectiveBalance), SszLeaf(Flag(v.slashed), ByteBits),
           NumLeaf(v.activationEligibilityEpoch), NumLeaf(v.activationEpoch),
           NumLeaf(v.exitEpoch), NumLeaf(v.withdrawableEpoch)>>, 3)

StateField(s, i) ==
  CASE i = 3 -> NumLeaf(s.slot)
    [] i = 12 -> ShaNode(Filled([k \in DOMAIN s.validators |-> SszValidatorRoot(s.validators[k])],
                                RegistryDepth), NumLeaf(Len(s.validators)))
    [] i = 13 -> ShaNode(Filled(BalanceChunks(s.balances, Len(s.balances)),
                                RegistryDepth - 2), NumLeaf(Len(s.balances)))
    [] OTHER -> <<-5, i>>

\* A node of a state's tree by its generalized index, and the branch to it.
StateNode(s, gindex) ==
  LET node[g \in 1 .. 63] == IF g > 31 THEN StateField(s, g - 31)
                             ELSE ShaNode(node[2 * g], node[2 * g + 1])
  IN  node[gindex]

SingleProof(s, gindex) ==
  [k \in 1 .. 5 |->
     LET g == gindex \div 2 ^ (k - 1)
     IN  StateNode(s, IF g % 2 = 0 THEN g + 1 ELSE g - 1)]

\* What get_balances_input saves for the final layer.
FinalInput(s) ==
  [stateRoot |-> StateNode(s, 1), slot |-> s.slot, slotBranch |-> SingleProof(s, 34),
   withdrawalCredentials |-> s.credentials, balanceBranch |-> SingleProof(s, 44),
   validatorsBranch |-> SingleProof(s, 43), validatorsSizeBits |-> NumLeaf(s.take)]

-----------------------------------------------------------------------------

NoSha == message = <<>> /\ state = <<>> /\ x = <<>> /\ work = <<>> /\ round = 0 /\ blk = 0

NoFiles == program = "none" /\ level = 0 /\ built = 0 /\ files = <<>> /\ ended = FALSE

NoRegistry ==
  /\ mapperLevel = 0 /\ mapper = <<>> /\ mapperZero = NoProof
  /\ balanceLevel = 0 /\ balances = <<>> /\ balanceZero = NoProof
  /\ final = NoProof /\ refused = FALSE

Init ==
  /\ NoRegistry
  /\ kind \in Kinds
  /\ \/ kind = "numbers" /\ NumbersInit /\ sample = <<>> /\ NoSha /\ NoFiles
     \/ kind = "sha256" /\ NoNumbers /\ sample = <<>> /\ ShaInit /\ NoFiles
     \/ kind = "files" /\ NoNumbers /\ sample = <<>> /\ NoSha /\ FilesInit
     \/ kind = "registry" /\ NoNumbers /\ sample \in Registries /\ NoSha /\ NoFiles

\* fetch_proofs: the two proofs under each node of a tree's next level; the
\* proof for zeros stands in for one that is not there.
Siblings(proofs, zero) ==
  [i \in 1 .. (Len(proofs) + 1) \div 2 |->
     <<proofs[2 * i - 1], IF 2 * i <= Len(proofs) THEN proofs[2 * i] ELSE zero>>]

ShaStep == kind = "sha256" /\ ShaNext /\ UNCHANGED <<inputVars, filesVars, registryVars>>

FilesStep == kind = "files" /\ FilesNext /\ UNCHANGED <<inputVars, shaVars, registryVars>>

MapValidators ==
  /\ kind = "registry" /\ mapperLevel = 0
  /\ mapper' = [i \in DOMAIN sample.mapped |->
                  ValidatorCommitmentMapper(ConvertValidatorToProof(sample.mapped[i]))]
  /\ mapperZero' = ValidatorCommitmentMapper(ZeroShaInput)
  /\ mapperLevel' = 1
  /\ UNCHANGED <<inputVars, shaVars, filesVars, balanceVars, final, refused>>

\* The zero proof of the first inner level is the one with is_zero.
MapLevel ==
  /\ kind = "registry" /\ mapperLevel \in 1 .. RegistryDepth
  /\ LET pairs == Siblings(mapper, mapperZero)
     IN  mapper' = [i \in DOMAIN pairs |-> CommitmentMapperInner(pairs[i][1], pairs[i][2], FALSE)]
  /\ mapperZero' = CommitmentMapperInner(mapperZero, mapperZero, mapperLevel = 1)
  /\ mapperLevel' = mapperLevel + 1
  /\ UNCHANGED <<inputVars, shaVars, filesVars, balanceVars, final, refused>>

\* The input of the group after g others.
InputOf(g) ==
  GroupInput(sample.counted, sample.countedBalances, sample.take, sample.epochs[g + 1], g)

\* Where an input or a proof does not fit its circuit the program stops and
\* nothing is saved.
Refuse ==
  /\ refused' = TRUE
  /\ UNCHANGED <<inputVars, shaVars, filesVars, mapperVars, balanceVars, final>>

VerifyBalances ==
  LET inputs == [g \in 1 .. (sample.take + GroupSize - 1) \div GroupSize |-> InputOf(g - 1)] IN
  /\ kind = "registry" /\ balanceLevel = 0 /\ ~refused
  /\ IF \A g \in DOMAIN inputs : CanSetBalances(inputs[g])
     THEN /\ balances' = [g \in DOMAIN inputs |-> ValidatorBalanceVerification(inputs[g])]
          /\ balanceZero' = ValidatorBalanceVerification(ZeroGroupInput(Last(sample.epochs)))
          /\ balanceLevel' = 1
          /\ UNCHANGED <<inputVars, shaVars, filesVars, mapperVars, final, refused>>
     ELSE Refuse

SumLevel ==
  LET pairs == Siblings(balances, balanceZero)
      next == [i \in DOMAIN pairs |-> BalanceInner(pairs[i][1], pairs[i][2])]
  IN
  /\ kind = "registry" /\ balanceLevel \in 1 .. TopBalanceLevel /\ ~refused
  /\ IF NoProof \notin Range(next)
     THEN /\ balances' = next
          /\ balanceZero' = BalanceInner(balanceZero, balanceZero)
          /\ balanceLevel' = balanceLevel + 1
          /\ UNCHANGED <<inputVars, shaVars, filesVars, mapperVars, final, refused>>
     ELSE Refuse

FinishProof ==
  LET proof == FinalCircuit(FinalInput(sample), balances[1], mapper[1]) IN
  /\ kind = "registry" /\ final = NoProof /\ ~refused
  /\ mapperLevel > RegistryDepth /\ balanceLevel > TopBalanceLevel
  /\ IF proof # NoProof
     THEN /\ final' = proof
          /\ UNCHANGED <<inputVars, shaVars, filesVars, mapperVars, balanceVars, refused>>
     ELSE Refuse

Next ==
  ShaStep \/ FilesStep \/ MapValidators \/ MapLevel \/ VerifyBalances \/ SumLevel \/ FinishProof

Spec == Init /\ [][Next]_vars

-----------------------------------------------------------------------------
(* Properties *)

\* The values every variable keeps to: those of the rounds of make_circuits,
\* those of the circuit files, and trees that have as many proofs on a level
\* as it takes to hold the validators.
TypeOK ==
  /\ kind \in Kinds
  /\ kind = "sha256" => ShaTypeOK
  /\ kind = "files" =>
       /\ built \in 0 .. LastLevel(program) + 1
       /\ DOMAIN files \subseteq 0 .. LastLevel(program)
  /\ kind = "registry" /\ mapperLevel > 0 =>
       /\ 2 ^ (mapperLevel - 1) * Len(mapper) >= Len(sample.mapped)
       /\ 2 ^ (mapperLevel - 1) * (Len(mapper) - 1) < Len(sample.mapped)
  /\ kind = "registry" /\ balanceLevel > 0 => Len(balances) \in 1 .. Groups
  /\ final # NoProof => mapperLevel > RegistryDepth /\ balanceLevel > TopBalanceLevel

\* make_circuits hashes as SHA-256 does, over messages of no, one and two
\* blocks and over the one that the trees are made of, 512 bits.
DigestIsSha256 ==
  kind = "sha256" /\ ShaDone =>
    \E m \in Messages : message = Padded(m) /\ state = KnownDigests[m]

\* What one program of the circuits writes another one reads: every getter
\* takes the public inputs it is named for, every file of targets is read
\* back as it was written, and a program that was asked for all levels has
\* left every file that the workers and the final layer load, with the
\* circuit that verifies the level below.
FilesAreReadBack ==
  kind = "files" /\ ended =>
    LET Labelled(inputs, name) ==
          LET i == CHOOSE k \in DOMAIN inputs : inputs[k][1] = name
          IN  [k \in 1 .. inputs[i][2] |-> <<name, k>>]
        Reads(inputs, getters) ==
          \A name \in DOMAIN getters : Got(inputs, getters[name]) = Labelled(inputs, name)
        Targets(first, n) == [k \in 1 .. n |-> first + k]
        sha == [pubkey |-> Targets(0, 384), withdrawal_credentials |-> Targets(384, 256),
                effective_balance |-> Targets(640, 256), slashed |-> Targets(896, 256),
                activation_eligibility_epoch |-> Targets(1152, 256),
                activation_epoch |-> Targets(1408, 256), exit_epoch |-> Targets(1664, 256),
                withdrawable_epoch |-> Targets(1920, 256)]
        Poseidons(i) ==
          [pubkey |-> Targets(100 * i, 12), withdrawal_credentials |-> Targets(100 * i + 12, 8),
           effective_balance |-> Targets(100 * i + 20, 2), slashed |-> Targets(100 * i + 22, 1),
           activation_eligibility_epoch |-> Targets(100 * i + 23, 2),
           activation_epoch |-> Targets(100 * i + 25, 2), exit_epoch |-> Targets(100 * i + 27, 2),
           withdrawable_epoch |-> Targets(100 * i + 29, 2)]
        mapperFirst == [validator |-> sha, sha256_hash_tree_root |-> Targets(3000, 256),
                        poseidon_hash_tree_root |-> Targets(4000, 4)]
        mapperInner == [proof1 |-> <<1>>, proof2 |-> <<2>>, verifier_circuit_target |-> <<3>>,
                        is_zero |-> <<4>>]
        balanceFirst == [range_total_value |-> Targets(0, 2), range_balances_root |-> Targets(10, 256),
                         range_validator_commitment |-> Targets(300, 4),
                         validators |-> [i \in 1 .. CircuitSize |-> Poseidons(i + 10)],
                         validator_is_zero |-> Targets(400, CircuitSize),
                         balances |-> [i \in 1 .. CircuitSize \div 4 |-> Targets(1000 * (i + 1), 256)],
                         withdrawal_credentials |-> Targets(500, 8), current_epoch |-> Targets(600, 2)]
        balanceInner == [proof1 |-> <<1>>, proof2 |-> <<2>>, verifier_circuit_target |-> <<3>>]
    IN  /\ Reads(BalanceInputs, BalanceGetters)
        /\ Reads(MapperInputs, MapperGetters)
        /\ Reads(FinalInputs, FinalGetters)
        /\ ReadMapperFirst(WriteMapperFirst(mapperFirst)) = mapperFirst
        /\ ReadMapperInner(WriteMapperInner(mapperInner)) = mapperInner
        /\ ReadBalanceFirst(WriteBalanceFirst(balanceFirst)) = balanceFirst
        /\ ReadBalanceInner(WriteBalanceInner(balanceInner)) = balanceInner
        /\ \A i \in DOMAIN files : files[i] = i + 1
        /\ level # AllLevels => DOMAIN files = {level} \cap 0 .. LastLevel(program)
        /\ level = AllLevels /\ program = "mapper" =>
             LoadedByMapper \cup {LoadedByFinalLayer.mapper} \subseteq DOMAIN files
        /\ level = AllLevels /\ program = "balance" =>
             \A l \in 0 .. LoadedByFinalLayer.balance : LoadedByBalance(l) \subseteq DOMAIN files

\* The two trees of validators as they should be.
ShaRoot(validators) ==
  Filled([i \in DOMAIN validators |-> SszValidatorRoot(validators[i])], RegistryDepth)

PoseidonRoot(validators) ==
  HashTreeRootPoseidon(
    [i \in 1 .. 2 ^ RegistryDepth |->
       IF i > Len(validators) THEN ZeroPoseidon
       ELSE HashTreeRootValidatorPoseidon(ValidatorPoseidonTargets(ConvertValidator(validators[i])))])

IsEven(validators) == Len(validators) % 2 = 0

NoneSlashed(validators) == \A i \in DOMAIN validators : ~validators[i].slashed

ExpectedSum(s) ==
  LET Counted == {i \in DOMAIN s.validators :
                    /\ s.validators[i].withdrawalCredentials = Credentials
                    /\ s.validators[i].activationEpoch <= s.slot \div SlotsPerEpoch
                    /\ s.slot \div SlotsPerEpoch < s.validators[i].exitEpoch}
  IN  MapThenSumSet(LAMBDA i : s.balances[i], Counted) % 2 ^ NumBits

\* Everything is about one state: the mapper followed its validators, the
\* groups have them and their balances, at the epoch of its slot, and TAKE is
\* their number.  The code adds conditions of its own: the last group must
\* have more than one chunk of balances, the mapper wants an even number of
\* validators, and it takes each of them for not slashed.
IsConsistent(s) ==
  /\ s.mapped = s.validators /\ s.counted = s.validators /\ s.countedBalances = s.balances
  /\ \A g \in 1 .. Groups : s.epochs[g] = s.slot \div SlotsPerEpoch
  /\ s.credentials = BitsValue(Credentials)
  /\ s.take = Len(s.validators)
  /\ s.take % GroupSize \notin 1 .. PerChunk
  /\ IsEven(s.validators) /\ NoneSlashed(s.validators)

\* The final proof is about the beacon state.  build_final_circuit can be
\* proved where mapper, balances and state are consistent and nowhere else,
\* and then says the root of the state and the sum of the balances, at the
\* epoch of its slot, of the active validators with the credentials.
FinalIffConsistent ==
  /\ refused => ~IsConsistent(sample)
  /\ final # NoProof => /\ IsConsistent(sample)
                        /\ final.stateRoot = StateNode(sample, 1)
                        /\ Value(final.balanceSum) = ExpectedSum(sample)
                        /\ Value(final.withdrawalCredentials) = BitsValue(Credentials)

\* Commitment_Mapper.md: the SHA-256 tree of the validators "matches a
\* corresponding Poseidon Merkle tree of validators".  (The code has it so
\* for an even number of validators none of which is slashed.)
TreesMatch ==
  kind = "registry" /\ mapperLevel > RegistryDepth /\ IsEven(sample.mapped) =>
    /\ mapper[1].sha256 = ShaRoot(sample.mapped)
    /\ mapper[1].poseidon = PoseidonRoot(sample.mapped)
=============================================================================
