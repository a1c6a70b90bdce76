---------------------------- MODULE MerkleTrees ----------------------------
(***************************************************************************)
(* The binary Merkle trees of the bridge.  The pallet merkle-proof commits *)
(* the messages of a block and proves them to the relayer; the relayer's   *)
(* own Tree (crypto/merkle/merkle.go) rebuilds the tree of parachain heads *)
(* that the relay chain committed with the same construction; OpenZeppelin *)
(* MerkleProof folds the proofs on Ethereum.  An odd last node is promoted *)
(* to the row above, and the hash of two nodes does not depend on their    *)
(* order since they are sorted first.                                      *)
(***************************************************************************)
EXTENDS Naturals, Sequences

CONSTANT MaxTreeLeaves           \* bound on the number of leaves

VARIABLES
    leaves,                  \* number of leaves
    position                 \* 0-based index of the leaf to prove

Leaf(i) == [leaf |-> i]
Hash(x, y) == [children |-> {x, y}]

NoProof == [root |-> 0, proof |-> <<>>]

Leaves == [i \in 1 .. leaves |-> Leaf(i - 1)]

----------------------------------------------------------------------------
(* basic-channel/merkle-proof/src/lib.rs                                   *)

\* One row: pairs are hashed, an odd item is promoted.
merkelize_row(row) ==
    [k \in 1 .. (Len(row) + 1) \div 2 |->
        IF 2 * k <= Len(row) THEN Hash(row[2 * k - 1], row[2 * k]) ELSE row[2 * k - 1]]

\* Mutant: the neighbour on the left is not collected.
visit_right(row, pos) == IF pos + 2 <= Len(row) THEN <<row[pos + 2]>> ELSE <<>>

\* ProofCollection.visit: the neighbour of the item at 0-based pos, if it has one.
visit(row, pos) ==
    LET index == pos - (pos % 2)
    IN  IF pos = index
        THEN IF index + 2 <= Len(row) THEN <<row[index + 2]>> ELSE <<>>
        ELSE <<row[index + 1]>>

\* A turn of the loop: the row is visited, and the visitor moves up with it.
move_up(v) ==
    [row |-> merkelize_row(v.row), position |-> v.position \div 2,
     proof |-> v.proof \o visit(v.row, v.position)]

turns(row, pos) ==
    LET v[k \in 0 .. Len(row)] ==
            IF k = 0 THEN [row |-> row, position |-> pos, proof |-> <<>>] ELSE move_up(v[k - 1])
    IN  v

\* The loop returns at the first row of one item; there is none without leaves.
merkelize(row, pos) ==
    LET v == turns(row, pos)
        last == CHOOSE k \in 0 .. Len(row) :
                    Len(v[k].row) = 1 /\ \A j \in 0 .. k - 1 : Len(v[j].row) # 1
    IN  IF Len(row) = 0 THEN NoProof ELSE [root |-> v[last].row[1], proof |-> v[last].proof]

merkle_root(row) == merkelize(row, 0).root
merkle_proof(row, leaf_index) == merkelize(row, leaf_index)

\* The RPC basicOutboundChannel_getMerkleProof: the leaves that the pallet stored
\* off-chain under their root, if it did, and the proof of one of them.
get_merkle_proof(storage, commitment_hash, leaf_index) ==
    LET row == storage[commitment_hash]
    IN  IF commitment_hash \notin DOMAIN storage \/ leaf_index >= Len(row) THEN NoProof
        ELSE merkle_proof(row, leaf_index)

\* OpenZeppelin MerkleProof.processProof, verify_proof and the relayer's Prove.
processProof(proof, leaf) ==
    LET hash[i \in 0 .. Len(proof)] == IF i = 0 THEN leaf ELSE Hash(hash[i - 1], proof[i])
    IN  hash[Len(proof)]

verify_proof(root, proof, number_of_leaves, leaf_index, leaf) ==
    leaf_index < number_of_leaves /\ root = processProof(proof, leaf)

----------------------------------------------------------------------------
(* relayer/crypto/merkle/merkle.go                                         *)

\* The logarithm of n to base 2, rounded up.
depth(n) ==
    LET twoTo[d \in 0 .. n] == IF d = 0 THEN 1 ELSE 2 * twoTo[d - 1]
    IN  CHOOSE d \in 0 .. n : n <= twoTo[d] /\ \A e \in 0 .. d - 1 : twoTo[e] < n

nextLevel(level) ==
    LET pairs == Len(level) \div 2
    IN  [k \in 1 .. pairs + (Len(level) % 2) |->
            IF k <= pairs THEN Hash(level[2 * k - 1], level[2 * k]) ELSE level[Len(level)]]

\* levels[1] is the root's level, the last one the leaves'.
Tree(preLeaves) ==
    LET d == depth(Len(preLeaves))
        up[k \in 0 .. d] == IF k = 0 THEN preLeaves ELSE nextLevel(up[k - 1])
    IN  [i \in 1 .. d + 1 |-> up[d + 1 - i]]

Root(levels) == levels[1][1]

Depth(levels) == Len(levels) - 1

\* The 0-based place of the first item that equals leaf.
findIndex(levels, leaf) ==
    LET level == levels[Depth(levels) + 1]
    IN  CHOOSE i \in 0 .. Len(level) - 1 :
            level[i + 1] = leaf /\ \A j \in 0 .. i - 1 : level[j + 1] # leaf

\* Mutant: an odd last item is proved with itself.
sibling_self(level, index) ==
    IF index % 2 # 0 THEN <<level[index]>>
    ELSE <<level[IF index + 2 <= Len(level) THEN index + 2 ELSE index + 1]>>

\* What a level adds to the path: nothing where it promotes the item.
sibling(level, index) ==
    IF index = Len(level) - 1 /\ Len(level) % 2 # 0 THEN <<>>
    ELSE IF index % 2 # 0 THEN <<level[index]>> ELSE <<level[index + 2]>>

climb(level, at) ==
    [index |-> at.index \div 2, path |-> at.path \o sibling(level, at.index)]

\* From the leaves, where leaf is one of them, to the root.
MerklePath(levels, leaf) ==
    LET d == Depth(levels)
        at[k \in 0 .. d] == IF k = 0 THEN [index |-> findIndex(levels, leaf), path |-> <<>>]
                            ELSE climb(levels[d + 2 - k], at[k - 1])
    IN  at[d].path

----------------------------------------------------------------------------
TreeInit == leaves = 1 /\ position = 0

\* The trees of every size up to MaxTreeLeaves, and every leaf of each.
TreeNext ==
    \/ position + 1 < leaves /\ position' = position + 1 /\ UNCHANGED leaves
    \/ leaves < MaxTreeLeaves /\ leaves' = leaves + 1 /\ position' = 0

TreeSpec == TreeInit /\ [][TreeNext]_<<leaves, position>>

\* A message proof made by the parachain's node for the relayer is one with which
\* BasicInboundChannel.submit computes the commitment in the block's header; there is
\* none beyond the last leaf.
PalletProofVerifies ==
    LET root == merkle_root(Leaves)
        stored == [r \in {root} |-> Leaves]
    IN  /\ verify_proof(root, get_merkle_proof(stored, root, position).proof,
                        leaves, position, Leaf(position))
        /\ get_merkle_proof(stored, root, leaves) = NoProof

\* The relayer's tree of parachain heads has the root the relay chain committed (its
\* tree is built as the pallet's) and its path leads there on Ethereum: the equality
\* that generateProof checks before a task is sent always holds.
RelayerTreeAgrees ==
    /\ Root(Tree(Leaves)) = merkle_root(Leaves)
    /\ processProof(MerklePath(Tree(Leaves), Leaf(position)), Leaf(position))
           = merkle_root(Leaves)

\* Both trees serve: a message's proof and a parachain head's lead to the root that the
\* other side holds, whatever the number of leaves.
TreeProofsVerify == PalletProofVerifies /\ RelayerTreeAgrees
=============================================================================
