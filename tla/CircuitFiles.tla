----------------------------- MODULE CircuitFiles -----------------------------
(***************************************************************************)
(* What the programs of the circuits agree on without a type to hold them  *)
(* to it: the places of the public inputs in a proof, the order of the     *)
(* targets in a file and the levels there are files for.  The two programs *)
(* commitment_mapper_circuit_data_generation and                           *)
(* balance_verification_circuit_data_generation write the files; a step of *)
(* this module is one of their levels.                                     *)
(***************************************************************************)
EXTENDS Integers, Sequences, SequencesExt, TLC

CONSTANTS
  Levels,     \* bound: the values of the option --level that are tried
  AllLevels   \* its value "all"

ASSUME LevelsAssumption == Levels \subseteq Nat /\ AllLevels \notin Levels

VARIABLES
  program,  \* "mapper" or "balance"
  level,    \* the option --level
  built,    \* the circuits that have been built, each on the one before it
  files,    \* the circuit in the file of a level
  ended     \* the program is over

filesVars == <<program, level, built, files, ended>>

-----------------------------------------------------------------------------
(* Public inputs: <<name, number of elements>> in the order in which they   *)
(* are registered, and the ranges the getters take them from.               *)

\* Mutant: set_public_variables with the epoch before the commitment.
EpochBeforeCommitment ==
  <<<<"range_total_value", 2>>, <<"range_balances_root", 256>>, <<"withdrawal_credentials", 8>>,
    <<"current_epoch", 2>>, <<"range_validator_commitment", 4>>>>

\* set_public_variables.
BalanceInputs ==
  <<<<"range_total_value", 2>>, <<"range_balances_root", 256>>, <<"withdrawal_credentials", 8>>,
    <<"range_validator_commitment", 4>>, <<"current_epoch", 2>>>>

BalanceGetters ==
  [range_total_value |-> <<0, 2>>, range_balances_root |-> <<2, 2 + 256>>,
   withdrawal_credentials |-> <<258, 258 + 8>>,
   range_validator_commitment |-> <<266, 266 + 4>>, current_epoch |-> <<270, 270 + 2>>]

\* Both circuits of the mapper register the same.
MapperInputs == <<<<"poseidon_hash_tree_root", 4>>, <<"sha256_hash_tree_root", 256>>>>

MapperGetters ==
  [poseidon_hash_tree_root |-> <<0, 0 + 4>>, sha256_hash_tree_root |-> <<4, 4 + 256>>]

FinalInputs ==
  <<<<"state_root", 256>>, <<"withdrawal_credentials", 8>>, <<"balance_sum", 2>>>>

FinalGetters ==
  [state_root |-> <<0, 256>>, withdrawal_credentials |-> <<256, 264>>, balance_sum |-> <<264, 266>>]

\* register_public_inputs, one call after the other; the elements say what
\* they are.
Registered(inputs) ==
  FlattenSeq([i \in DOMAIN inputs |-> [k \in 1 .. inputs[i][2] |-> <<inputs[i][1], k>>]])

Got(inputs, range) == SubSeq(Registered(inputs), range[1] + 1, range[2])

-----------------------------------------------------------------------------
(* Targets in a file.  A target is written as one number, a vector as its   *)
(* length and its elements, a record as its fields.                         *)

Vec(v) == <<Len(v)>> \o v

WriteValidatorSha(t) ==
  Vec(t.pubkey) \o Vec(t.withdrawal_credentials) \o Vec(t.effective_balance) \o Vec(t.slashed)
    \o Vec(t.activation_eligibility_epoch) \o Vec(t.activation_epoch) \o Vec(t.exit_epoch)
    \o Vec(t.withdrawable_epoch)

WriteValidatorPoseidon(t) ==
  Vec(t.pubkey) \o Vec(t.withdrawal_credentials) \o Vec(t.effective_balance) \o t.slashed
    \o Vec(t.activation_eligibility_epoch) \o Vec(t.activation_epoch) \o Vec(t.exit_epoch)
    \o Vec(t.withdrawable_epoch)

WriteMapperFirst(t) ==
  WriteValidatorSha(t.validator) \o Vec(t.sha256_hash_tree_root) \o t.poseidon_hash_tree_root

WriteMapperInner(t) == t.proof1 \o t.proof2 \o t.verifier_circuit_target \o t.is_zero

WriteBalanceFirst(t) ==
  <<Len(t.validators)>> \o Vec(t.range_total_value) \o Vec(t.range_balances_root)
    \o t.range_validator_commitment
    \o FlattenSeq([i \in DOMAIN t.validators |-> WriteValidatorPoseidon(t.validators[i])])
    \o Vec(t.validator_is_zero) \o FlattenSeq([i \in DOMAIN t.balances |-> Vec(t.balances[i])])
    \o Vec(t.withdrawal_credentials) \o Vec(t.current_epoch)

WriteBalanceInner(t) == t.proof1 \o t.proof2 \o t.verifier_circuit_target

\* A reader takes from the front: what it read and what is left.
ReadVec(data) ==
  [got |-> SubSeq(data, 2, data[1] + 1), left |-> SubSeq(data, data[1] + 2, Len(data))]

ReadSome(data, n) == [got |-> SubSeq(data, 1, n), left |-> SubSeq(data, n + 1, Len(data))]

\* Fields one after the other: <<name, 0>> is a vector, <<name, n>> a field
\* of n numbers.
ReadFields(fields, data) ==
  FoldLeft(LAMBDA s, f :
             LET r == IF f[2] = 0 THEN ReadVec(s.left) ELSE ReadSome(s.left, f[2])
             IN  [got |-> s.got @@ (f[1] :> r.got), left |-> r.left],
           [got |-> <<>>, left |-> data], fields)

ReadValidatorSha(data) ==
  ReadFields(<<<<"pubkey", 0>>, <<"withdrawal_credentials", 0>>, <<"effective_balance", 0>>,
               <<"slashed", 0>>, <<"activation_eligibility_epoch", 0>>, <<"activation_epoch", 0>>,
               <<"exit_epoch", 0>>, <<"withdrawable_epoch", 0>>>>, data)

ReadValidatorPoseidon(data) ==
  ReadFields(<<<<"pubkey", 0>>, <<"withdrawal_credentials", 0>>, <<"effective_balance", 0>>,
               <<"slashed", 1>>, <<"activation_eligibility_epoch", 0>>, <<"activation_epoch", 0>>,
               <<"exit_epoch", 0>>, <<"withdrawable_epoch", 0>>>>, data)

ReadMapperFirst(data) ==
  LET v == ReadValidatorSha(data)
      r == ReadFields(<<<<"sha256_hash_tree_root", 0>>, <<"poseidon_hash_tree_root", 4>>>>, v.left)
  IN  ("validator" :> v.got) @@ r.got

\* So many validators, and so many chunks of balances.
ReadValidators(n, data) ==
  FoldLeft(LAMBDA s, i : LET r == ReadValidatorPoseidon(s.left)
                         IN  [got |-> Append(s.got, r.got), left |-> r.left],
           [got |-> <<>>, left |-> data], [i \in 1 .. n |-> i])

ReadChunks(n, data) ==
  FoldLeft(LAMBDA s, i : LET r == ReadVec(s.left)
                         IN  [got |-> Append(s.got, r.got), left |-> r.left],
           [got |-> <<>>, left |-> data], [i \in 1 .. n |-> i])

\* A proof and a verifier are one number here.
ReadMapperInner(data) ==
  ReadFields(<<<<"proof1", 1>>, <<"proof2", 1>>, <<"verifier_circuit_target", 1>>,
               <<"is_zero", 1>>>>, data).got

ReadBalanceFirst(data) ==
  LET count == data[1]
      head == ReadFields(<<<<"range_total_value", 0>>, <<"range_balances_root", 0>>,
                           <<"range_validator_commitment", 4>>>>, Tail(data))
      each == ReadValidators(count, head.left)
      zeros == ReadVec(each.left)
      chunks == ReadChunks(count \div 4, zeros.left)
      last == ReadFields(<<<<"withdrawal_credentials", 0>>, <<"current_epoch", 0>>>>, chunks.left)
  IN  head.got @@ ("validators" :> each.got) @@ ("validator_is_zero" :> zeros.got)
        @@ ("balances" :> chunks.got) @@ last.got

ReadBalanceInner(data) ==
  ReadFields(<<<<"proof1", 1>>, <<"proof2", 1>>, <<"verifier_circuit_target", 1>>>>, data).got

-----------------------------------------------------------------------------
(* The files *)

\* build_validator_balance_circuit is asked for so many validators.
CircuitSize == 8

\* The last level of a program.
LastLevel(p) == IF p = "mapper" THEN 40 ELSE 37

FilesInit ==
  /\ program \in {"mapper", "balance"}
  /\ level \in Levels \cup {AllLevels}
  /\ built = 0
  /\ files = <<>>
  /\ ended = FALSE

IsWanted(i) == level \in {AllLevels, i}

\* Level i: the circuit on the one before it, and its file if it is asked for.
WriteLevel(i) ==
  /\ files' = IF IsWanted(i) THEN files @@ (i :> built + 1) ELSE files
  /\ built' = built + 1
  /\ ended' = (level = i \/ i = LastLevel(program))
  /\ UNCHANGED <<program, level>>

\* The circuit of level 0 is built in any case.
FirstLevel == ~ended /\ built = 0 /\ WriteLevel(0)

InnerLevel == ~ended /\ built > 0 /\ WriteLevel(built)

FilesNext == FirstLevel \/ InnerLevel

\* The levels whose files a program loads: the mapper all of them, a balance
\* worker its own and the one below, the final layer the last two.
LoadedByMapper == 0 .. 40

LoadedByBalance(l) == IF l = 0 THEN {0} ELSE {l - 1, l}

LoadedByFinalLayer == [mapper |-> 40, balance |-> 37]
===============================================================================
