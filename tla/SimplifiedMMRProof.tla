------------------------- MODULE SimplifiedMMRProof -------------------------
(***************************************************************************)
(* The relayer turns the proof that a Substrate node makes for a leaf of   *)
(* the relay chain's Merkle mountain range (MMR) into a list of hashes and *)
(* a bitfield of sides (relayer/crypto/merkle/simplified_mmr_proof.go),    *)
(* which BeefyClient folds into a root (utils/MMRProof.sol).               *)
(*                                                                         *)
(* The MMR grows by one leaf per block.  Hashes are free: a leaf's hash is *)
(* <<its index>>, a node's hash the pair of its children's.  Positions     *)
(* number the nodes in the order they are created, from 0.                 *)
(***************************************************************************)
EXTENDS Naturals, Sequences, SequencesExt

CONSTANT MaxLeaves           \* bound on the length of the relay chain

VARIABLE
    mmr                      \* nodes in the order of creation: [height, hash]

----------------------------------------------------------------------------
(* The mountain range itself: the MMR pallet and its library, external.    *)

Hash(x, y) == <<x, y>>

LeafCount == Len(SelectSeq(mmr, LAMBDA node : node.height = 0))

\* Positions, from 1, of the peaks that nodes 1 .. n have, from left to right.
RECURSIVE PeaksOf(_)
PeaksOf(n) ==
    IF n = 0 THEN <<>>
    ELSE Append(PeaksOf(n - (2 ^ (mmr[n].height + 1) - 1)), n)

\* A new leaf, then one parent for each pair of peaks of equal height.
RECURSIVE Merge(_, _)
Merge(nodes, peaks) ==
    LET right == nodes[Last(peaks)]
        left  == nodes[Last(Front(peaks))]
    IN  IF Len(peaks) < 2 \/ left.height # right.height THEN nodes
        ELSE Merge(Append(nodes, [height |-> left.height + 1,
                                  hash   |-> Hash(left.hash, right.hash)]),
                   Append(Front(Front(peaks)), Len(nodes) + 1))

AppendLeaf ==
    mmr' = LET leaf == [height |-> 0, hash |-> <<LeafCount>>]
           IN  Merge(Append(mmr, leaf), Append(PeaksOf(Len(mmr)), Len(mmr) + 1))

\* The peaks are bagged from the right, each new one as the second argument.
Bag(peaks) ==
    FoldLeft(LAMBDA bag, peak : Hash(bag, mmr[peak].hash),
             mmr[Last(peaks)].hash, Reverse(Front(peaks)))

\* The proof items of the leaf at 1-based position pos below the node at top.
RECURSIVE Path(_, _)
Path(pos, top) ==
    LET right == top - 1
        left  == top - 2 ^ mmr[top].height
    IN  IF pos = top THEN <<>>
        ELSE IF pos <= left THEN Append(Path(pos, left), mmr[right].hash)
        ELSE Append(Path(pos, right), mmr[left].hash)

Position(leaf) ==
    CHOOSE p \in 1 .. Len(mmr) : mmr[p].height = 0 /\ mmr[p].hash = <<leaf>>

\* mmr_generateProof: left peaks, the path to the leaf's peak, the other peaks bagged.
GenerateProof(leaf) ==
    LET peaks == PeaksOf(Len(mmr))
        pos   == Position(leaf)
        k     == CHOOSE i \in DOMAIN peaks :
                     pos <= peaks[i] /\ \A j \in 1 .. i - 1 : peaks[j] < pos
        right == SubSeq(peaks, k + 1, Len(peaks))
    IN  [i \in 1 .. k - 1 |-> mmr[peaks[i]].hash] \o Path(pos, peaks[k])
            \o IF right = <<>> THEN <<>> ELSE <<Bag(right)>>

----------------------------------------------------------------------------
(* The conversion.  Positions are 0-based here, as in the code.            *)

parentOffset(height) == 2 * 2 ^ height
siblingOffset(height) == 2 * 2 ^ height - 1
getPeakPosByHeight(height) == 2 ^ (height + 1) - 2

RECURSIVE OnesCount64(_)
OnesCount64(n) == IF n = 0 THEN 0 ELSE (n % 2) + OnesCount64(n \div 2)

RECURSIVE TrailingZeros64(_)
TrailingZeros64(n) == IF n % 2 = 1 THEN 0 ELSE 1 + TrailingZeros64(n \div 2)

RECURSIVE BitLength(_)
BitLength(n) == IF n = 0 THEN 0 ELSE 1 + BitLength(n \div 2)

leafCountToMMRSize(leavesCount) == 2 * leavesCount - OnesCount64(leavesCount)

\* Mutant: the position of the last node that the leaf brings with it.
leafIndexToPosition_last(index) == leafCountToMMRSize(index + 1) - 1

leafIndexToPosition(index) ==
    leafCountToMMRSize(index + 1) - TrailingZeros64(index + 1) - 1

RECURSIVE leftPeakHeightPos(_, _)
leftPeakHeightPos(mmrSize, height) ==
    IF getPeakPosByHeight(height) < mmrSize THEN leftPeakHeightPos(mmrSize, height + 1)
    ELSE [height   |-> height - 1,
          position |-> IF height = 1 THEN 0 ELSE getPeakPosByHeight(height - 1)]

\* Down from the right sibling of a peak to the first node that exists.
RECURSIVE descend(_, _, _)
descend(height, position, mmrSize) ==
    IF position <= mmrSize - 1 THEN <<[height |-> height, position |-> position]>>
    ELSE IF height = 0 THEN <<>>
    ELSE descend(height - 1, position - parentOffset(height - 1), mmrSize)

getRightPeak(peak, mmrSize) ==
    descend(peak.height, peak.position + siblingOffset(peak.height), mmrSize)

RECURSIVE rightPeaks(_, _)
rightPeaks(peak, mmrSize) ==
    LET next == getRightPeak(peak, mmrSize)
    IN  IF peak.height = 0 \/ next = <<>> THEN <<peak.position>>
        ELSE <<peak.position>> \o rightPeaks(next[1], mmrSize)

getPeaks(mmrSize) == rightPeaks(leftPeakHeightPos(mmrSize, 1), mmrSize)

\* The height of a node is found by jumping left to the leftmost node of its height.
RECURSIVE jumpLeft(_)
jumpLeft(position) ==
    IF position = 2 ^ BitLength(position) - 1 THEN BitLength(position) - 1
    ELSE jumpLeft(position - (2 ^ (BitLength(position) - 1) - 1))

heightInTree(position) == jumpLeft(position + 1)

\* One bit for each proof item on the way up: 1 when the sibling is on the left.
RECURSIVE calculateMerkleProofOrder(_, _, _)
calculateMerkleProofOrder(position, height, items) ==
    LET isSiblingLeft == heightInTree(position + 1) > height
        sibling == IF isSiblingLeft THEN position - siblingOffset(height)
                                    ELSE position + siblingOffset(height)
        parent  == IF isSiblingLeft THEN sibling + parentOffset(height) ELSE sibling + 1
    IN  IF items = 0 THEN <<>>
        ELSE <<IF isSiblingLeft THEN 1 ELSE 0>>
                \o calculateMerkleProofOrder(parent, height + 1, items - 1)

\* Mutant: the bagged peaks on the right are hashed on the right.
ConvertToSimplifiedMMRProof_swapped(leafIndex, leafCount, proofItems) ==
    LET leafPos == leafIndexToPosition(leafIndex)
        peaks   == getPeaks(leafCountToMMRSize(leafCount))
        k       == CHOOSE i \in DOMAIN peaks :
                       (i = 1 \/ leafPos > peaks[i - 1]) /\ leafPos <= peaks[i]
        bagged  == IF k = Len(peaks) THEN <<>> ELSE <<Last(proofItems)>>
        path    == SubSeq(proofItems, k, Len(proofItems) - Len(bagged))
        local   == IF k = 1 THEN leafPos ELSE leafPos - peaks[k - 1] - 1
    IN  [items |-> path \o bagged \o Reverse(SubSeq(proofItems, 1, k - 1)),
         order |-> calculateMerkleProofOrder(local, 0, Len(path))
                      \o [i \in DOMAIN bagged |-> 0] \o [i \in 1 .. k - 1 |-> 0]]

\* The path inside the leaf's mountain, then the peaks on its right, which were
\* bagged into one hash, then the peaks on its left from right to left.
ConvertToSimplifiedMMRProof(leafIndex, leafCount, proofItems) ==
    LET leafPos == leafIndexToPosition(leafIndex)
        peaks   == getPeaks(leafCountToMMRSize(leafCount))
        k       == CHOOSE i \in DOMAIN peaks :
                       (i = 1 \/ leafPos > peaks[i - 1]) /\ leafPos <= peaks[i]
        bagged  == IF k = Len(peaks) THEN <<>> ELSE <<Last(proofItems)>>
        path    == SubSeq(proofItems, k, Len(proofItems) - Len(bagged))
        local   == IF k = 1 THEN leafPos ELSE leafPos - peaks[k - 1] - 1
    IN  [items |-> path \o bagged \o Reverse(SubSeq(proofItems, 1, k - 1)),
         order |-> calculateMerkleProofOrder(local, 0, Len(path))
                      \o [i \in DOMAIN bagged |-> 1] \o [i \in 1 .. k - 1 |-> 0]]

hashPairs(x, y, order) == IF order = 0 THEN Hash(x, y) ELSE Hash(y, x)

\* BeefyClient.verifyMMRLeafProof, and CalculateMerkleRoot in the relayer.
verifyLeafProof(root, leafHash, proof) ==
    root = FoldLeftDomain(LAMBDA acc, i : hashPairs(acc, proof.items[i], proof.order[i]),
                          leafHash, proof.items)

----------------------------------------------------------------------------
Init == mmr = <<[height |-> 0, hash |-> <<0>>]>>

Next == LeafCount < MaxLeaves /\ AppendLeaf

Spec == Init /\ [][Next]_mmr

\* At every length of the relay chain the simplified proof of every leaf is one that
\* MMRProof.verifyLeafProof accepts for the chain's MMR root.
ConvertedProofVerifies ==
    \A leaf \in 0 .. LeafCount - 1 :
        verifyLeafProof(Bag(PeaksOf(Len(mmr))), <<leaf>>,
            ConvertToSimplifiedMMRProof(leaf, LeafCount, GenerateProof(leaf)))
=============================================================================
