---------------------------- MODULE MCAlgorithms ----------------------------
(***************************************************************************)
(* The bridge's pure algorithms, ledgers and proof-of-work client over     *)
(* bounded inputs, one at a time: the variable algorithm says which one a  *)
(* behaviour steps through, the others stay as they begin.                 *)
(***************************************************************************)
EXTENDS DifficultyRule, EthashCache, ThresholdOfSize, MerkleTrees, ReserveTransfer, NativeTokens,
        MCEthereumLightClient

CONSTANTS
    MaxLeaves,               \* leaves of the mountain range
    LogBits, Lengths,        \* word size and lengths of bitfields
    ReceiptCounts, ProofLength, MixedCounts,                \* of ReceiptProof
    TreeDepth, Epochs, ACCESSES, IndexBits,                 \* of EthashProof
    BLOCK_ROOT_AT_INDEX_PROOF_DEPTH, SYNC_COMMITTEE_SIZE,   \* of SszProof
    ByteBits, MaxBytes, MaxSlot, SLOTS_PER_EPOCH

VARIABLES algorithm, mmr, prior, n, length, bitfield, found,
          receipts, header_number, seed, nodes, asked, place, bits_hex

treeVars == <<leaves, position>>
drawVars == <<prior, n, length, bitfield, found>>
proofVars == <<header_number, seed, nodes>>
sszVars == <<asked, place, bits_hex>>
ruleVars == <<parent, time>>
mcVars == <<algorithm, validatorSetLen, mmr, treeVars, drawVars, proofVars, cacheVars,
            sszVars, receipts, ruleVars, transferVars, tokenVars, vars>>

MMR == INSTANCE SimplifiedMMRProof
Bits == INSTANCE Bitfield
Mpt == INSTANCE ReceiptProof
Ethash == INSTANCE EthashProof
Ssz == INSTANCE SszProof WITH ForkVersions <- [altair |-> 4, bellatrix |-> 6]

ASSUME InstanceAssumption ==
    TransferAssumption /\ TokenAssumption /\ RuleAssumption /\ CacheAssumption

\* A DifficultyConfig whose forks come early enough for the bomb to stay small.
MCConfig == [byzantium_fork_block |-> 3200000, constantinople_fork_block |-> 5200000,
             muir_glacier_fork_block |-> 7500000, london_fork_block |-> 10200000]

\* Parents around the forks and around the blocks where the bomb doubles.
MCParents ==
    [number : {MCConfig[f] - d : f \in DOMAIN MCConfig, d \in 0 .. 2}
                  \cup {9000000 + k * EXP_DIFFICULTY_PERIOD - d : k \in 1 .. 3, d \in 0 .. 2},
     timestamp : {100}, has_ommers : BOOLEAN, difficulty : {131072, 140000, 2 ^ 29 + 2047}]

\* Times of the next block, around the limits of EIP-100.
MCTimes == {99, 100, 108, 109, 117, 118, 126, 127, 991, 1000, 1009, 2000}

Algorithms == {"threshold", "mmr", "trees", "bitfield", "receipts", "ethash", "cache",
               "ssz", "difficulty", "transfer", "tokens", "pow"}

MCInit ==
    /\ algorithm \in Algorithms
    /\ SizeInit
    /\ MMR!Init
    /\ TreeInit
    /\ IF algorithm = "bitfield" THEN Bits!Init
       ELSE prior = <<0>> /\ n = 0 /\ length = 1 /\ bitfield = <<0>> /\ found = 0
    /\ IF algorithm = "receipts" THEN Mpt!Init ELSE receipts = 1
    /\ Ethash!Init
    /\ CacheInit
    /\ IF algorithm = "ssz" THEN Ssz!Init
       ELSE asked = [kind |-> "block_root", slot |-> MaxSlot] /\ place = 0 /\ bits_hex = <<>>
    /\ IF algorithm = "difficulty" THEN RuleInit
       ELSE time = 0 /\ parent = [number |-> 0, timestamp |-> 0, has_ommers |-> FALSE,
                                  difficulty |-> 0]
    /\ TransferInit
    /\ TokenInit
    /\ Init

Threshold ==
    /\ algorithm = "threshold"
    /\ SizeNext
    /\ UNCHANGED <<algorithm, mmr, treeVars, drawVars, proofVars, cacheVars, sszVars,
                   receipts, ruleVars, transferVars, tokenVars, vars>>

GrowMMR ==
    /\ algorithm = "mmr"
    /\ MMR!Next
    /\ UNCHANGED <<algorithm, validatorSetLen, treeVars, drawVars, proofVars, cacheVars,
                   sszVars, receipts, ruleVars, transferVars, tokenVars, vars>>

GrowTree ==
    /\ algorithm = "trees"
    /\ TreeNext
    /\ UNCHANGED <<algorithm, validatorSetLen, mmr, drawVars, proofVars, cacheVars,
                   sszVars, receipts, ruleVars, transferVars, tokenVars, vars>>

DrawBit ==
    /\ algorithm = "bitfield"
    /\ Bits!Next
    /\ UNCHANGED <<algorithm, validatorSetLen, mmr, treeVars, proofVars, cacheVars,
                   sszVars, receipts, ruleVars, transferVars, tokenVars, vars>>

GiveDagNodes ==
    /\ algorithm = "ethash"
    /\ Ethash!NextHeader \/ Ethash!SubmitNode
    /\ UNCHANGED <<algorithm, validatorSetLen, mmr, treeVars, drawVars, cacheVars, sszVars,
                   receipts, ruleVars, transferVars, tokenVars, vars>>

UseCache ==
    /\ algorithm = "cache"
    /\ hashimoto_light
    /\ UNCHANGED <<algorithm, validatorSetLen, mmr, treeVars, drawVars, proofVars, sszVars,
                   receipts, ruleVars, transferVars, tokenVars, vars>>

MoveLeaf ==
    /\ algorithm = "ssz"
    /\ Ssz!Next
    /\ UNCHANGED <<algorithm, validatorSetLen, mmr, treeVars, drawVars, proofVars, cacheVars,
                   receipts, ruleVars, transferVars, tokenVars, vars>>

OtherTime ==
    /\ algorithm = "difficulty"
    /\ RuleNext
    /\ UNCHANGED <<algorithm, validatorSetLen, mmr, treeVars, drawVars, proofVars, cacheVars,
                   sszVars, receipts, transferVars, tokenVars, vars>>

Transfer ==
    /\ algorithm = "transfer"
    /\ TransferNext
    /\ UNCHANGED <<algorithm, validatorSetLen, mmr, treeVars, drawVars, proofVars, cacheVars,
                   sszVars, receipts, ruleVars, tokenVars, vars>>

MoveTokens ==
    /\ algorithm = "tokens"
    /\ TokenNext
    /\ UNCHANGED <<algorithm, validatorSetLen, mmr, treeVars, drawVars, proofVars, cacheVars,
                   sszVars, receipts, ruleVars, transferVars, vars>>

FollowHeaders ==
    /\ algorithm = "pow"
    /\ Next
    /\ UNCHANGED <<algorithm, validatorSetLen, mmr, treeVars, drawVars, proofVars, cacheVars,
                   sszVars, receipts, ruleVars, transferVars, tokenVars>>

MCNext ==
    \/ Threshold \/ GrowMMR \/ GrowTree \/ DrawBit
    \/ GiveDagNodes \/ UseCache \/ MoveLeaf \/ OtherTime \/ Transfer \/ MoveTokens
    \/ FollowHeaders

MCSpec == MCInit /\ [][MCNext]_mcVars /\ Bits!Fairness

----------------------------------------------------------------------------
\* ConvertToSimplifiedMMRProof yields proofs that MMRProof.sol accepts.
ConvertedProofVerifies == algorithm = "mmr" => MMR!ConvertedProofVerifies

\* Bitfield.countSetBits is exact.
CountIsExact == algorithm = "bitfield" => Bits!CountIsExact

\* The loop of randomNBitsWithPriorCheck ends, with n bits of prior.
DrawEnds == Bits!DrawEnds

\* check_receipt_proof accepts the proof of every receipt of a block and yields no other.
ReceiptProofExact == algorithm = "receipts" => Mpt!ReceiptProofExact

\* hashimoto_merkle accepts exactly the pages that hashimoto reads.
EthashProofExact == algorithm = "ethash" => Ethash!EthashProofExact

\* The beacon client reads branches, aggregates and signatures as they were written.
ReadsExactly == algorithm = "ssz" => Ssz!ReadsExactly
=============================================================================
