---------------------------- MODULE EthashProof ----------------------------
(***************************************************************************)
(* Ethash with Merkle proofs (primitives/ethereum/src/ethashproof.rs): the *)
(* proof-of-work client does not hold an epoch's DAG, it holds the root of *)
(* a tree over it, and a header arrives with the pairs of DAG nodes that   *)
(* hashimoto reads and a proof of each.                                    *)
(*                                                                         *)
(* A node of the DAG is <<epoch, offset>>, and any other pair of numbers   *)
(* is data that is not in the DAG.  The pages that hashimoto reads depend  *)
(* on the header and on the data read before.                              *)
(***************************************************************************)
EXTENDS Naturals, Sequences, SequencesExt

CONSTANTS
    TreeDepth,               \* an epoch's DAG has 2 ^ TreeDepth pairs of nodes
    Epochs,                  \* number of epochs in DAGS_MERKLE_ROOTS
    EPOCH_LENGTH,
    ACCESSES,                \* pages that hashimoto reads
    IndexBits                \* width of the index of a page

VARIABLES
    header_number, seed,     \* the header to check, and what its hash and nonce select
    nodes                    \* the nodes with proofs given with it

Pages == 0 .. 2 ^ TreeDepth - 1
MIXHASHES == 2
epochOf(number) == number \div EPOCH_LENGTH

\* The two hashes, of a pair of nodes (128 bytes) and of two hashes (64 bytes).
leafHash(dag_nodes) == <<"leaf", dag_nodes[1], dag_nodes[2]>>
hash_h128(l, r) == <<l, r>>

----------------------------------------------------------------------------
(* The DAG of an epoch and the tree over its pairs.                        *)

Pair(epoch, page) == << <<epoch, 2 * page>>, <<epoch, 2 * page + 1>> >>

RECURSIVE Subtree(_, _, _)
Subtree(epoch, height, i) ==
    IF height = 0 THEN leafHash(Pair(epoch, i))
    ELSE hash_h128(Subtree(epoch, height - 1, 2 * i), Subtree(epoch, height - 1, 2 * i + 1))

\* The proof of a page: the siblings from its leaf to the root.
ProofOf(epoch, page) ==
    [k \in 1 .. TreeDepth |->
        LET i == page \div 2 ^ (k - 1)
        IN  Subtree(epoch, k - 1, IF i % 2 = 0 THEN i + 1 ELSE i - 1)]

Proven(epoch, page) == [dag_nodes |-> Pair(epoch, page), proof |-> ProofOf(epoch, page)]

\* The page that hashimoto reads after seen, a sequence of DAG nodes.
PageRead(s, seen) ==
    (s + FoldLeft(LAMBDA acc, node : 3 * acc + node[2], 0, seen)) % 2 ^ TreeDepth

\* hashimoto with the whole DAG: the data it reads, of which its result is a hash.
RECURSIVE hashimoto(_, _, _)
hashimoto(s, epoch, seen) ==
    IF Len(seen) = MIXHASHES * ACCESSES THEN seen
    ELSE hashimoto(s, epoch, seen \o Pair(epoch, PageRead(s, seen)))

----------------------------------------------------------------------------
(* DoubleNodeWithMerkleProof and EthashProver                              *)

BadIndex == <<>>

apply_merkle_proof(node, index) ==
    LET up[i \in 0 .. Len(node.proof)] ==
            IF i = 0 THEN leafHash(node.dag_nodes)
            ELSE IF (index \div 2 ^ (i - 1)) % 2 = 0
            THEN hash_h128(up[i - 1], node.proof[i])
            ELSE hash_h128(node.proof[i], up[i - 1])
    IN  IF Len(node.proof) > IndexBits THEN BadIndex ELSE up[Len(node.proof)]

dag_merkle_root(epoch) == Subtree(epoch, TreeDepth, 0)

\* What the closure has returned after idx calls: the given nodes, proven or not.
dataOf(given, idx) == [i \in 1 .. idx |-> given[(i + 1) \div 2].dag_nodes[2 - (i % 2)]]

\* Mutant: the flag takes the outcome of the last check, not of all of them.
proofsHold_last(s, given, merkle_root) ==
    LET k == Len(given)
    IN  apply_merkle_proof(given[k], PageRead(s, dataOf(given, 2 * (k - 1)))) = merkle_root

\* The flag success: every pair is proven at the page that was read.
proofsHold(s, given, merkle_root) ==
    \A k \in 1 .. Len(given) :
        apply_merkle_proof(given[k], PageRead(s, dataOf(given, 2 * (k - 1)))) = merkle_root

hashimoto_merkle(s, number, given) ==
    IF Len(given) # (MIXHASHES * ACCESSES) \div 2 THEN [error |-> "UnexpectedNumberOfNodes"]
    ELSE IF epochOf(number) >= Epochs THEN [error |-> "EpochOutOfRange"]
    ELSE IF ~proofsHold(s, given, dag_merkle_root(epochOf(number)))
    THEN [error |-> "InvalidMerkleProof"]
    ELSE [data |-> dataOf(given, MIXHASHES * ACCESSES)]

----------------------------------------------------------------------------
\* What may be given for a page: its proof, the nodes in the wrong order, data that is
\* not in the DAG, a proof cut short or one too long.
Given(epoch, page) ==
    LET node == Proven(epoch, page)
        other == Proven((epoch + 1) % Epochs, page)
    IN  {node, other,
         [node EXCEPT !.dag_nodes = Reverse(@)],
         [node EXCEPT !.dag_nodes = << <<Epochs, 2 * page>>, @[2]>>],
         [node EXCEPT !.proof = Tail(@)],
         [node EXCEPT !.proof = @ \o @]}

Init == header_number = 0 /\ seed = 0 /\ nodes = <<>>

SubmitNode ==
    /\ header_number \in {e * EPOCH_LENGTH : e \in 0 .. Epochs}
    /\ Len(nodes) < ACCESSES
    /\ \E page \in Pages :
        \E node \in Given(epochOf(header_number) % Epochs, page) : nodes' = Append(nodes, node)
    /\ UNCHANGED <<header_number, seed>>

NextHeader ==
    /\ nodes = <<>>
    /\ \E e \in 0 .. Epochs : header_number' = e * EPOCH_LENGTH
    /\ seed' \in Pages
    /\ UNCHANGED nodes

\* A header's proof is accepted exactly when the given pairs are those that hashimoto
\* reads in the DAG of the header's epoch, each with its proof; then the result is
\* hashimoto's over that DAG.  Anything else is an error.
EthashProofExact ==
    LET epoch == epochOf(header_number)
        result == hashimoto_merkle(seed, header_number, nodes)
        read == hashimoto(seed, epoch, <<>>)
        honest == [k \in 1 .. ACCESSES |-> Proven(epoch, PageRead(seed, SubSeq(read, 1, 2 * k - 2)))]
    IN  /\ "data" \in DOMAIN result <=> epoch < Epochs /\ nodes = honest
        /\ "data" \in DOMAIN result => result.data = read
=============================================================================
