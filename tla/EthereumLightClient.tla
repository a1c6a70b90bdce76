------------------------ MODULE EthereumLightClient -------------------------
(***************************************************************************)
(* The proof-of-work light client (pallets/ethereum-light-client/          *)
(* src/lib.rs).  It imports headers of every fork that grows from its      *)
(* finalized block, follows the heaviest one, finalizes the block that has *)
(* DescendantsUntilFinalized descendants on it, prunes what is old, and    *)
(* verifies messages against finalized headers only.                       *)
(*                                                                         *)
(* Header is the tree of all headers that anybody may submit, by hash.     *)
(* well_formed abstracts the bounds on gas, gas limit and extra data,      *)
(* sealed the mix hash and nonce that hashimoto_merkle checks.  Both calls *)
(* are #[transactional]: one that fails changes nothing.                   *)
(***************************************************************************)
EXTENDS Difficulty, Sequences, FiniteSets, Functions

CONSTANTS
    Header,                  \* hash -> header
    InitialHeader,           \* the hash of the genesis config's header
    InitialDifficulty,
    DescendantsUntilFinalized,
    VerifyPoW,
    DifficultyConfig,
    MaxHeadersForNumber,
    FINALIZED_HEADERS_TO_KEEP,
    HEADERS_TO_PRUNE_IN_SINGLE_IMPORT,
    MaxResets                \* bound on calls of force_reset_to_fork

Hashes == DOMAIN Header

Numbers == {Header[h].number : h \in Hashes}

\* An Option or Result that holds no hash.
NoHash == "None"

ASSUME ConfigAssumption ==
    /\ InitialDifficulty \in Nat /\ DescendantsUntilFinalized \in Nat /\ MaxResets \in Nat
    /\ VerifyPoW \in BOOLEAN
    /\ MaxHeadersForNumber \in Nat \ {0}
    /\ FINALIZED_HEADERS_TO_KEEP \in Nat
    /\ HEADERS_TO_PRUNE_IN_SINGLE_IMPORT \in Nat \ {0}

ASSUME HeaderAssumption ==
    /\ InitialHeader \in Hashes /\ NoHash \notin Hashes
    /\ \A h \in Hashes :
        /\ Header[h].number \in Nat /\ Header[h].timestamp \in Nat /\ Header[h].difficulty \in Nat
        /\ {Header[h].has_ommers, Header[h].well_formed, Header[h].sealed} \subseteq BOOLEAN

VARIABLES
    BestBlock,               \* [hash, total_difficulty]
    BlocksToPrune,           \* [oldest_unpruned_block, oldest_block_to_keep]
    FinalizedBlock,          \* a hash
    Headers,                 \* hash -> [total_difficulty, finalized], of the stored ones
    HeadersByNumber,         \* number -> the stored hashes, in order of import
    resets                   \* number of calls of force_reset_to_fork

vars == <<BestBlock, BlocksToPrune, FinalizedBlock, Headers, HeadersByNumber, resets>>

StoredHeader == [total_difficulty : Nat, finalized : BOOLEAN]

number(h) == Header[h].number

----------------------------------------------------------------------------
\* The hashes from hash to its oldest stored ancestor.
ancestry(stored, hash) ==
    LET from[h \in Hashes \cup {NoHash}] ==
            IF h \notin DOMAIN stored THEN <<>>
            ELSE LET parent == Header[h].parent_hash
                 IN  <<h>> \o (IF parent \in Hashes THEN from[parent] ELSE <<>>)
    IN  from[hash]

\* Mutant: one descendant too few.
find_finalized_ancestor_late(stored, hash, required_descendants) ==
    LET line == ancestry(stored, hash)
    IN  IF Len(line) >= required_descendants /\ required_descendants > 0 THEN line[required_descendants]
        ELSE NoHash

\* The ancestor that has required_descendants descendants on the way to hash.
find_finalized_ancestor(stored, hash, required_descendants) ==
    LET line == ancestry(stored, hash)
    IN  IF Len(line) > required_descendants THEN line[required_descendants + 1] ELSE NoHash

\* NoHash is the error Unknown.
get_best_finalized_header(stored, best) ==
    LET ancestor == find_finalized_ancestor(stored, best, DescendantsUntilFinalized)
    IN  IF ancestor = NoHash THEN FinalizedBlock
        ELSE IF number(ancestor) > number(FinalizedBlock) THEN ancestor
        ELSE IF ancestor = FinalizedBlock THEN FinalizedBlock
        ELSE NoHash

----------------------------------------------------------------------------
hashes_at(lists, n) == IF n \in DOMAIN lists THEN lists[n] ELSE <<>>

\* blocks_pruned when the loop reaches number n.
pruned_before(lists, start, n) ==
    Cardinality({at \in (start .. n - 1) \X (1 .. MaxHeadersForNumber) :
                    at[2] \in DOMAIN hashes_at(lists, at[1])})

\* How many hashes the loop removes at number n, from the front of its list.
pruned_at(lists, start, n) ==
    LET left == HEADERS_TO_PRUNE_IN_SINGLE_IMPORT - pruned_before(lists, start, n)
        hashes == Len(hashes_at(lists, n))
    IN  IF left <= 0 THEN 0 ELSE IF left < hashes THEN left ELSE hashes

\* Mutant: a number is left behind with hashes remaining.
cleared_unread(lists, start, n) ==
    pruned_before(lists, start, n) < HEADERS_TO_PRUNE_IN_SINGLE_IMPORT

\* The loop leaves number n behind: it came here and no hash remains.
cleared(lists, start, n) ==
    /\ pruned_before(lists, start, n) < HEADERS_TO_PRUNE_IN_SINGLE_IMPORT
    /\ pruned_at(lists, start, n) = Len(hashes_at(lists, n))

\* Mutant: the hashes are dropped from the end of the list.
prune_header_range_front(lists, prune_end) ==
    LET start == BlocksToPrune.oldest_unpruned_block
        end == larger(BlocksToPrune.oldest_block_to_keep, prune_end)
        dropped(n) == IF n \in start .. end - 1 THEN pruned_at(lists, start, n) ELSE 0
    IN  [removed |-> {lists[at[1]][at[2]] : at \in
                        {at \in (DOMAIN lists) \X (1 .. MaxHeadersForNumber) :
                            at[2] <= dropped(at[1])}},
         lists |-> [n \in DOMAIN lists |-> SubSeq(lists[n], 1, Len(lists[n]) - dropped(n))],
         range |-> [oldest_unpruned_block |-> start, oldest_block_to_keep |-> end]]

prune_header_range(lists, prune_end) ==
    LET start == BlocksToPrune.oldest_unpruned_block
        end == larger(BlocksToPrune.oldest_block_to_keep, prune_end)
        dropped(n) == IF n \in start .. end - 1 THEN pruned_at(lists, start, n) ELSE 0
    IN  [removed |-> {lists[at[1]][at[2]] : at \in
                        {at \in (DOMAIN lists) \X (1 .. MaxHeadersForNumber) :
                            at[2] <= dropped(at[1])}},
         lists |-> [n \in DOMAIN lists |-> SubSeq(lists[n], dropped(n) + 1, Len(lists[n]))],
         range |-> [oldest_unpruned_block |->
                        CHOOSE n \in start .. larger(start, end) :
                            /\ n >= end \/ ~cleared(lists, start, n)
                            /\ \A m \in start .. n - 1 : cleared(lists, start, m),
                    oldest_block_to_keep |-> end]]

----------------------------------------------------------------------------
\* See YellowPaper formula (50) in section 4.3.4, the difficulty and the seal.
valid_proof_of_work(h) ==
    LET header == Header[h]
        parent == Header[header.parent_hash]
    IN  /\ header.well_formed
        /\ header.timestamp > parent.timestamp
        /\ header.number = parent.number + 1
        /\ header.difficulty = calc_difficulty(DifficultyConfig, header.timestamp, parent)
        /\ header.sealed

\* Mutant: a header on a stale fork is let in.
validate_header_to_import_fork(h) ==
    LET parent_hash == Header[h].parent_hash
        line == ancestry(Headers, parent_hash)
        at_finalized_number == {i \in DOMAIN line : number(line[i]) = number(FinalizedBlock)}
    IN  IF h \in DOMAIN Headers THEN "DuplicateHeader"
        ELSE IF parent_hash \notin DOMAIN Headers THEN "MissingParentHeader"
        ELSE IF number(h) <= number(FinalizedBlock) THEN "AncientHeader"
        ELSE IF at_finalized_number = {} THEN "Unknown"
        ELSE IF VerifyPoW /\ ~valid_proof_of_work(h) THEN "InvalidHeader"
        ELSE "Ok"

\* The error that import_header returns before it writes, in the order of the checks.
validate_header_to_import(h) ==
    LET parent_hash == Header[h].parent_hash
        line == ancestry(Headers, parent_hash)
        at_finalized_number == {i \in DOMAIN line : number(line[i]) = number(FinalizedBlock)}
    IN  IF h \in DOMAIN Headers THEN "DuplicateHeader"
        ELSE IF parent_hash \notin DOMAIN Headers THEN "MissingParentHeader"
        ELSE IF number(h) <= number(FinalizedBlock) THEN "AncientHeader"
        ELSE IF at_finalized_number = {} THEN "Unknown"
        ELSE IF line[CHOOSE i \in at_finalized_number : \A j \in at_finalized_number : i <= j]
                # FinalizedBlock THEN "HeaderOnStaleFork"
        ELSE IF VerifyPoW /\ ~valid_proof_of_work(h) THEN "InvalidHeader"
        ELSE "Ok"

total_difficulty(h) == Headers[Header[h].parent_hash].total_difficulty + Header[h].difficulty

stored_with(h) ==
    [x \in DOMAIN Headers \cup {h} |->
        IF x = h THEN [total_difficulty |-> total_difficulty(h), finalized |-> FALSE]
        ELSE Headers[x]]

listed_with(h) == [HeadersByNumber EXCEPT ![number(h)] = Append(@, h)]

\* Mutant: the longest chain is followed.
becomes_best_longest(h) == number(h) > number(BestBlock.hash)

\* The header is the tip of a new highest difficulty chain.
becomes_best(h) ==
    \/ total_difficulty(h) > BestBlock.total_difficulty
    \/ ~VerifyPoW /\ total_difficulty(h) = 0

\* What import_header(h) returns.
import_result(h) ==
    IF validate_header_to_import(h) # "Ok" THEN validate_header_to_import(h)
    ELSE IF Len(HeadersByNumber[number(h)]) = MaxHeadersForNumber THEN "AtMaxHeadersForNumber"
    ELSE IF becomes_best(h) /\ get_best_finalized_header(stored_with(h), h) \notin DOMAIN stored_with(h)
         THEN "Unknown"
    ELSE "Ok"

\* The new best block is recorded, its ancestor finalized and flagged, and old headers pruned.
follow_best(h) ==
    LET final == get_best_finalized_header(stored_with(h), h)
        flagged == IF final = FinalizedBlock THEN stored_with(h)
                   ELSE [stored_with(h) EXCEPT ![final].finalized = TRUE]
        pruned == prune_header_range(listed_with(h),
                                     larger(number(final) - FINALIZED_HEADERS_TO_KEEP, 0))
    IN  /\ BestBlock' = [hash |-> h, total_difficulty |-> total_difficulty(h)]
        /\ FinalizedBlock' = final
        /\ Headers' = [x \in DOMAIN flagged \ pruned.removed |-> flagged[x]]
        /\ HeadersByNumber' = pruned.lists
        /\ BlocksToPrune' = pruned.range

import_validated_header(h) ==
    IF becomes_best(h) THEN follow_best(h)
    ELSE /\ Headers' = stored_with(h)
         /\ HeadersByNumber' = listed_with(h)
         /\ UNCHANGED <<BestBlock, FinalizedBlock, BlocksToPrune>>

import_header(h) ==
    /\ import_result(h) = "Ok"
    /\ import_validated_header(h)
    /\ UNCHANGED resets

\* Root moves the client back to a finalized header; what is stored, flagged and due for
\* pruning stays as it is.
force_reset_to_fork(forked_at) ==
    LET final == find_finalized_ancestor(Headers, forked_at, DescendantsUntilFinalized)
    IN  /\ resets < MaxResets
        /\ forked_at \in DOMAIN Headers
        /\ Headers[forked_at].finalized
        /\ number(forked_at) < number(FinalizedBlock)
        /\ final # NoHash
        /\ FinalizedBlock' = final
        /\ BestBlock' = [hash |-> forked_at,
                         total_difficulty |-> Headers[forked_at].total_difficulty]
        /\ resets' = resets + 1
        /\ UNCHANGED <<BlocksToPrune, Headers, HeadersByNumber>>

\* The inbound channel accepts a log of this block, given a receipt proof.
verify(hash) == hash \in DOMAIN Headers /\ Headers[hash].finalized

----------------------------------------------------------------------------
\* GenesisConfig::build passes initialize_storage one header and no required descendants.
initialize_storage ==
    /\ Headers = [h \in {InitialHeader} |->
                    [total_difficulty |-> InitialDifficulty, finalized |-> TRUE]]
    /\ HeadersByNumber = [n \in Numbers |-> IF n = number(InitialHeader) THEN <<InitialHeader>>
                                            ELSE <<>>]
    /\ BestBlock = [hash |-> InitialHeader, total_difficulty |-> InitialDifficulty]
    /\ FinalizedBlock = InitialHeader

Init ==
    /\ initialize_storage
    /\ BlocksToPrune = [oldest_unpruned_block |-> number(InitialHeader),
                        oldest_block_to_keep |-> number(InitialHeader)]
    /\ resets = 0

Next == \E h \in Hashes : import_header(h) \/ force_reset_to_fork(h)

Spec == Init /\ [][Next]_vars

----------------------------------------------------------------------------
\* HeadersByNumber, which pruning works from, lists exactly the headers of each number that
\* Headers holds, each once, though a list may be pruned in several calls.
IndexAgrees ==
    \A n \in Numbers :
        /\ Range(HeadersByNumber[n]) = {h \in DOMAIN Headers : number(h) = n}
        /\ IsInjective(HeadersByNumber[n])

\* BlocksToPrune leaves nothing behind: no stored header is older than oldest_unpruned_block.
PruneFollows ==
    \A h \in DOMAIN Headers : number(h) >= BlocksToPrune.oldest_unpruned_block

\* Whatever fork took over in between, the blocks that verify accepts messages from are on
\* the chain of the finalized block, unless root reset the client.
OneFinalChain ==
    resets = 0 => {h \in Hashes : verify(h)} \subseteq Range(ancestry(Header, FinalizedBlock))

\* With proof of work verified, the best block is a heaviest header that the client holds,
\* unless root reset the client.
BestIsHeaviest ==
    VerifyPoW /\ resets = 0 => \A h \in DOMAIN Headers :
                    Headers[h].total_difficulty <= BestBlock.total_difficulty

\* Root did not move the finalized block into the range that is due for pruning.
NotResetIntoPruned ==
    resets = 0 \/ number(FinalizedBlock) >= BlocksToPrune.oldest_block_to_keep

\* "The number of descendants, in the highest difficulty chain, a block needs to have in order
\* to be considered final": the finalized block is the ancestor of the best block at that
\* depth, and the headers in between are kept; a younger chain has its first header final.
FinalIsDeep ==
    NotResetIntoPruned =>
        LET line == ancestry(Headers, BestBlock.hash)
        IN  \/ /\ Len(line) > DescendantsUntilFinalized
               /\ line[DescendantsUntilFinalized + 1] = FinalizedBlock
            \/ /\ line[Len(line)] = InitialHeader
               /\ FinalizedBlock = InitialHeader
=============================================================================
