---------------------------- MODULE MerkleCircuits ----------------------------
(***************************************************************************)
(* Merkle trees and branches in a circuit.  A hash is the term of what was *)
(* hashed, between brackets: different terms are different hashes.  What   *)
(* make_circuits computes with bits is in Sha256Circuit.                   *)
(***************************************************************************)
EXTENDS CircuitNumbers

Sha256(message) == <<-1>> \o message \o <<-2>>

ShaNode(left, right) == Sha256(left \o right)

\* hash_n_to_hash_no_pad: elements that are not given are zero in the state
\* of eight, so that it hashes <<v>> and <<v, 0>> to the same.
Poseidon(elements) ==
  <<-3>> \o (IF Len(elements) < 8 THEN PaddedTo(elements, 8) ELSE elements) \o <<-4>>

PoseidonNode(left, right) == Poseidon(left \o right)

\* POSEIDON_HASH_SIZE elements.
ZeroPoseidon == Zeros(4)

ZeroSha == Zeros(HashBits)

\* hash_tree_root: the hasher i of the list takes the nodes 2 i - 1 and 2 i,
\* leaves first and hashers after them.
HashTreeRoot(leaves) ==
  Last(FoldLeft(LAMBDA nodes, i : Append(nodes, ShaNode(nodes[2 * i - 1], nodes[2 * i])),
                leaves, [i \in 1 .. Len(leaves) - 1 |-> i]))

\* hash_tree_root_poseidon, in the same order.
HashTreeRootPoseidon(leaves) ==
  Last(FoldLeft(LAMBDA nodes, i : Append(nodes, PoseidonNode(nodes[2 * i - 1], nodes[2 * i])),
                leaves, [i \in 1 .. Len(leaves) - 1 |-> i]))

\* is_valid_merkle_branch: the root that a leaf, a branch and an index give;
\* the highest bit of the index is split off and not used.
BranchRoot(leaf, branch, index) ==
  FoldLeft(LAMBDA current, i :
             IF (index \div 2 ^ (i - 1)) % 2 = 1 THEN ShaNode(branch[i], current)
                                                 ELSE ShaNode(current, branch[i]),
           leaf, [i \in 1 .. Len(branch) |-> i])

\* create_and_connect_merkle_branch, with five levels.
IsOnBranch(index, leaf, branch, root) ==
  /\ Len(branch) = 5 /\ index < 2 ^ 6
  /\ BranchRoot(leaf, branch, index) = root
=============================================================================
