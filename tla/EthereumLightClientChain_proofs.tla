------------------ MODULE EthereumLightClientChain_proofs -------------------
(***************************************************************************)
(* The finalized blocks of the proof-of-work light client, for every tree  *)
(* of headers without a cycle, through every change of fork and every      *)
(* pruning: they are on one chain, and the last one is as deep below the   *)
(* best block as DescendantsUntilFinalized says.                           *)
(***************************************************************************)
EXTENDS EthereumLightClient_proofs

\* Leaves are for Zenon; SMTT marks those that need arithmetic, sequences or records. A prover
\* may work a minute on a leaf, so that a busy machine checks the same proofs: few take seconds.
USE ZenonT(60)

\* The inductive invariant for the chain of final blocks: numbers count along the lines of
\* the stored headers, so that the finalized block, which validate_header_to_import finds on
\* a new header's line, is below any block of that line with a higher number.
ChainInv(depth) ==
    /\ StoreInv
    /\ FinalizedBlock \in Hashes
    /\ Grown(depth, DOMAIN Headers)
    /\ OneFinalChain

\* validate_header_to_import finds the finalized block on the line of the new header's parent.
LEMMA Validated ==
    ASSUME NEW depth, HashChain(depth), StoreInv, NEW h \in Hashes, import_result(h) = "Ok"
    PROVE  /\ h \notin DOMAIN Headers /\ parent_of[h] \in DOMAIN Headers
           /\ ~(number(h) <= number(FinalizedBlock))
           /\ VerifyPoW => number(h) = number(parent_of[h]) + 1 /\ valid_proof_of_work(h)
           /\ \E i \in 1 .. Len(ancestry(Headers, parent_of[h])) :
                  ancestry(Headers, parent_of[h])[i] = FinalizedBlock
<1> DEFINE line == ancestry(Headers, parent_of[h])
           at == {i \in DOMAIN line : number(line[i]) = number(FinalizedBlock)}
           first == CHOOSE i \in at : \A j \in at : i <= j
<1>1. h \notin DOMAIN Headers /\ parent_of[h] \in DOMAIN Headers /\ DOMAIN Headers \subseteq Hashes
      /\ parent_of[h] = Header[h].parent_hash
      /\ (VerifyPoW => number(h) = number(parent_of[h]) + 1)
  BY Accepted DEF parent_of, StoreInv, StoreTypes
<1>2. validate_header_to_import(h) = "Ok"
  BY DEF import_result
<1>3. ~(number(h) <= number(FinalizedBlock)) /\ (VerifyPoW => valid_proof_of_work(h))
      /\ at # {} /\ line[first] = FinalizedBlock
  <2>1. parent_of[h] = Header[h].parent_hash
    BY <1>1
  <2>2. QED  BY <1>2, <2>1 DEF validate_header_to_import
<1>4. IsLine(parent_of, DOMAIN Headers, line, parent_of[h])
  BY <1>1, AncestryIsLine
<1> HIDE DEF line
<1>5. DOMAIN line = 1 .. Len(line) /\ at \in SUBSET Nat
  BY <1>4, SMTT(60) DEF IsLine
<1> HIDE DEF at
<1>6. first \in at
  BY <1>3, <1>5, LeastNatural
<1>7. first \in 1 .. Len(line)
  BY <1>5, <1>6 DEF at
<1>8. QED  BY <1>1, <1>3, <1>7 DEF line

\* What import_header does with a header that becomes the best block, as far as the headers
\* go: the finalized block moves, nothing that is due to be kept is removed, total
\* difficulties stay, and the new finalized block is the only one that may get flagged.
LEMMA Followed ==
    ASSUME StoreInv, NEW h \in Hashes, import_header(h), becomes_best(h)
    PROVE  LET final == get_best_finalized_header(stored_with(h), h)
           IN  /\ final \in DOMAIN Headers \cup {h} /\ FinalizedBlock' = final
               /\ BestBlock' = [hash |-> h, total_difficulty |-> total_difficulty(h)]
               /\ BlocksToPrune'.oldest_block_to_keep
                    = larger(BlocksToPrune.oldest_block_to_keep,
                             larger(number(final) - FINALIZED_HEADERS_TO_KEEP, 0))
               /\ DOMAIN Headers' \subseteq DOMAIN Headers \cup {h}
               /\ \A x \in DOMAIN Headers \cup {h} :
                      number(x) >= BlocksToPrune'.oldest_block_to_keep => x \in DOMAIN Headers'
               /\ \A x \in DOMAIN Headers' :
                      /\ Headers'[x].total_difficulty = stored_with(h)[x].total_difficulty
                      /\ Headers'[x].finalized =>
                            x = final \/ (x \in DOMAIN Headers /\ Headers[x].finalized)
<1> DEFINE final == get_best_finalized_header(stored_with(h), h)
           flagged == IF final = FinalizedBlock THEN stored_with(h)
                      ELSE [stored_with(h) EXCEPT ![final].finalized = TRUE]
           lists == listed_with(h)
           prune_end == larger(number(final) - FINALIZED_HEADERS_TO_KEEP, 0)
           pruned == prune_header_range(lists, prune_end)
           headers == DOMAIN Headers \cup {h}
<1>1. /\ import_result(h) = "Ok" /\ FinalizedBlock' = final
      /\ BestBlock' = [hash |-> h, total_difficulty |-> total_difficulty(h)]
      /\ Headers' = [x \in DOMAIN flagged \ pruned.removed |-> flagged[x]]
      /\ BlocksToPrune' = pruned.range
  BY DEF import_header, import_validated_header, follow_best
<1>2. /\ stored_with(h) \in [headers -> StoredHeader] /\ headers \subseteq Hashes
      /\ ListTypes(lists)
      /\ Listed(headers, lists)
  BY <1>1, Accepted, Storing DEF StoreInv, StoreTypes
<1>3. final \in headers
  BY <1>1, <1>2, Accepted
<1>4. prune_end \in Nat
  BY <1>2, <1>3, NumberType, ConfigAssumption, SMTT(60) DEF larger
<1>5. /\ flagged \in [headers -> StoredHeader]
      /\ \A x \in headers : flagged[x].total_difficulty = stored_with(h)[x].total_difficulty
  BY <1>2, <1>3 DEF StoredHeader
<1>6. \A x \in headers : flagged[x].finalized => x = final \/ stored_with(h)[x].finalized
  BY <1>2, <1>3
<1>7. \A x \in headers : stored_with(h)[x].finalized => x \in DOMAIN Headers /\ Headers[x].finalized
  BY DEF stored_with
<1> HIDE DEF final, flagged, prune_end
<1>8. PICK d :
        /\ CutBy(d, lists, pruned.lists, pruned.removed)
        /\ \A n \in Numbers : n >= pruned.range.oldest_block_to_keep => d[n] = 0
        /\ pruned.range.oldest_block_to_keep = larger(BlocksToPrune.oldest_block_to_keep, prune_end)
  <2>1. BlocksToPrune \in [oldest_unpruned_block : Nat, oldest_block_to_keep : Nat]
    BY DEF StoreInv, StoreTypes
  <2>2. QED  BY <1>2, <1>4, <2>1, Pruning, SMTT(60)
<1> HIDE DEF lists, pruned
<1>9. DOMAIN Headers' = headers \ pruned.removed /\ \A x \in DOMAIN Headers' : Headers'[x] = flagged[x]
  BY <1>1, <1>5
<1>10. ASSUME NEW x \in headers, number(x) >= BlocksToPrune'.oldest_block_to_keep
       PROVE  x \in DOMAIN Headers'
  <2>1. SUFFICES ASSUME x \in pruned.removed PROVE FALSE
    BY <1>9
  <2>2. PICK n \in Numbers : \E k \in 1 .. d[n] : x = lists[n][k]
    <3>1. \A y : y \in pruned.removed <=> \E n \in Numbers : \E k \in 1 .. d[n] : y = lists[n][k]
      BY <1>8 DEF CutBy
    <3>2. QED  BY <2>1, <3>1
  <2>3. PICK k \in 1 .. d[n] : x = lists[n][k]
    BY <2>2
  <2>4. d[n] \in Nat /\ d[n] <= Len(lists[n]) /\ Len(lists[n]) \in Nat
    BY <1>2, <1>8, SMTT(60) DEF CutBy, ListTypes
  <2>5. k \in 1 .. Len(lists[n]) /\ d[n] # 0
    BY <2>4, SMTT(60)
  <2>6. number(x) = n
    BY <1>2, <2>3, <2>5 DEF Listed
  <2>7. d[n] = 0
    BY <1>1, <1>8, <1>10, <2>6
  <2>8. QED  BY <2>5, <2>7
<1>11. QED
  BY <1>1, <1>3, <1>5, <1>6, <1>7, <1>8, <1>9, <1>10 DEF final, prune_end

\* A new header descends from the initial one like those stored before.
LEMMA StillGrown ==
    ASSUME NEW depth, HashChain(depth), VerifyPoW, StoreInv, Grown(depth, DOMAIN Headers),
           NEW h \in Hashes, import_result(h) = "Ok"
    PROVE  Grown(depth, DOMAIN Headers \cup {h})
<1>1. parent_of[h] \in DOMAIN Headers /\ number(h) = number(parent_of[h]) + 1
      /\ DOMAIN Headers \subseteq Hashes
  BY Validated DEF StoreInv, StoreTypes
<1>2. depth[parent_of[h]] < depth[h] /\ depth[h] \in Nat /\ depth[parent_of[h]] \in Nat
      /\ depth[InitialHeader] \in Nat
  BY <1>1, HeaderAssumption DEF HashChain, Forest
<1>3. depth[h] >= depth[InitialHeader]
  <2>1. depth[parent_of[h]] >= depth[InitialHeader]
    BY <1>1 DEF Grown
  <2>2. QED  BY <1>2, <2>1, SMTT(60)
<1>4. QED  BY <1>1, <1>3 DEF Grown

\* The block that a new best block finalizes has the finalized block among its ancestors.
LEMMA FinalOnLine ==
    ASSUME NEW depth, HashChain(depth), VerifyPoW, ChainInv(depth),
           NEW h \in Hashes, import_result(h) = "Ok", becomes_best(h)
    PROVE  LET final == get_best_finalized_header(stored_with(h), h)
           IN  final \in Hashes /\ FinalizedBlock \in Range(ancestry(Header, final))
<1> DEFINE D == DescendantsUntilFinalized
           line == ancestry(Headers, parent_of[h])
           new == ancestry(stored_with(h), h)
           ancestor == find_finalized_ancestor(stored_with(h), h, D)
           final == get_best_finalized_header(stored_with(h), h)
           all == DOMAIN Headers \cup {h}
<1>1. StoreInv /\ FinalizedBlock \in Hashes /\ Grown(depth, DOMAIN Headers) /\ DOMAIN Headers \subseteq Hashes
      /\ D \in Nat /\ all \in SUBSET Hashes /\ h \in all
  BY ConfigAssumption DEF ChainInv, StoreInv, StoreTypes
<1>2. /\ h \notin DOMAIN Headers /\ parent_of[h] \in DOMAIN Headers
      /\ \E i \in 1 .. Len(line) : line[i] = FinalizedBlock
  BY <1>1, Validated
<1>3. IsLine(parent_of, DOMAIN Headers, line, parent_of[h]) /\ IsLine(parent_of, all, new, h)
      /\ new = <<h>> \o line
  BY <1>1, <1>2, NewLine
<1>4. ancestor = IF Len(new) > D THEN new[D + 1] ELSE NoHash
  BY DEF find_finalized_ancestor
<1>5. final = IF ancestor = NoHash THEN FinalizedBlock
              ELSE IF number(ancestor) > number(FinalizedBlock) THEN ancestor
              ELSE IF ancestor = FinalizedBlock THEN FinalizedBlock ELSE NoHash
  BY DEF get_best_finalized_header
<1>6. final \in all
  <2>1. final \in DOMAIN stored_with(h)
    BY <1>1, Accepted
  <2>2. QED  BY <2>1 DEF stored_with
<1> HIDE DEF line, new, ancestor, final
<1>7. CASE final = FinalizedBlock
  BY <1>1, <1>7, AncestorsAreClosed DEF final
<1>8. CASE final # FinalizedBlock
  <2>1. ancestor # NoHash /\ final = ancestor /\ number(ancestor) > number(FinalizedBlock)
    BY <1>1, <1>5, <1>6, <1>8, HeaderAssumption
  <2>2. Len(new) > D /\ final = new[D + 1]
    BY <1>4, <2>1
  <2>3. PICK i \in 1 .. Len(line) : line[i] = FinalizedBlock
    BY <1>2
  <2>4. /\ line \in Seq(Hashes) /\ Len(line) \in Nat /\ Len(new) = Len(line) + 1
        /\ new[i + 1] = FinalizedBlock /\ i + 1 \in 1 .. Len(new) /\ D + 1 \in 1 .. Len(new)
    <3>1. line \in Seq(Hashes)
      BY <1>1, <1>3, SMTT(60) DEF IsLine
    <3>2. QED  BY <1>1, <1>3, <2>2, <2>3, <3>1, SMTT(60)
  <2>5. /\ number(new[i + 1]) = number(h) - ((i + 1) - 1)
        /\ number(new[D + 1]) = number(h) - ((D + 1) - 1)
    <3>1. Grown(depth, all)
      BY <1>1, StillGrown
    <3>2. \A j \in 1 .. Len(new) : number(new[j]) = number(h) - (j - 1)
      BY <1>1, <1>3, <3>1, LineNumbers
    <3>3. QED  BY <2>4, <3>2
  <2>6. i + 1 \in D + 1 .. Len(new)
    <3>1. number(h) \in Nat
      BY NumberType
    <3>2. QED  BY <1>1, <2>1, <2>2, <2>4, <2>5, <3>1, SMTT(60)
  <2> DEFINE T == Range(ancestry(Header, final))
  <2>7. final \in T /\ \A y \in T : parent_of[y] \in Hashes => parent_of[y] \in T
    BY <1>1, <1>6, AncestorsAreClosed
  <2> HIDE DEF T
  <2>8. \A y \in T : parent_of[y] \in all => parent_of[y] \in T
    BY <1>1, <2>7
  <2>9. new[i + 1] \in T
    <3>1. new[D + 1] \in T
      BY <2>2, <2>7
    <3>2. QED  BY <1>3, <2>4, <2>6, <2>8, <3>1, LineStaysIn
  <2>10. FinalizedBlock \in T
    BY <2>4, <2>9
  <2>11. QED  BY <1>1, <1>6, <2>10 DEF T, final
<1>9. QED  BY <1>7, <1>8

\* Importing a header keeps what verify accepts on the chain of the finalized block.
LEMMA ChainStep ==
    ASSUME NEW depth, HashChain(depth), VerifyPoW, ChainInv(depth), StoreInv',
           NEW h \in Hashes, import_header(h)
    PROVE  ChainInv(depth)'
<1> DEFINE final == get_best_finalized_header(stored_with(h), h)
<1>1. import_result(h) = "Ok" /\ resets' = resets /\ StoreInv /\ FinalizedBlock \in Hashes
      /\ Grown(depth, DOMAIN Headers) /\ OneFinalChain /\ DOMAIN Headers \subseteq Hashes
  BY DEF import_header, ChainInv, StoreInv, StoreTypes
<1>2. Grown(depth, DOMAIN Headers \cup {h})
  BY <1>1, StillGrown
<1>3. CASE ~becomes_best(h)
  <2>1. Headers' = stored_with(h) /\ FinalizedBlock' = FinalizedBlock
    BY <1>3 DEF import_header, import_validated_header
  <2>2. DOMAIN Headers' = DOMAIN Headers \cup {h}
    BY <2>1 DEF stored_with
  <2>3. \A x \in Hashes : verify(x)' => verify(x)
    BY <2>1 DEF verify, stored_with
  <2>4. OneFinalChain'
    BY <1>1, <2>1, <2>3 DEF OneFinalChain
  <2>5. Grown(depth, DOMAIN Headers')
    BY <1>2, <2>2
  <2>6. QED  BY <1>1, <2>1, <2>4, <2>5 DEF ChainInv, Grown
<1>4. CASE becomes_best(h)
  <2>1. /\ FinalizedBlock' = final /\ DOMAIN Headers' \subseteq DOMAIN Headers \cup {h}
        /\ \A x \in DOMAIN Headers' :
               Headers'[x].finalized => x = final \/ (x \in DOMAIN Headers /\ Headers[x].finalized)
    BY <1>1, <1>4, Followed
  <2>2. final \in Hashes /\ FinalizedBlock \in Range(ancestry(Header, final))
    BY <1>1, <1>4, FinalOnLine
  <2> HIDE DEF final
  <2>3. Grown(depth, DOMAIN Headers')
    BY <1>2, <2>1 DEF Grown
  <2>4. ASSUME resets = 0, NEW x \in Hashes, verify(x)' PROVE x \in Range(ancestry(Header, final))
    <3> DEFINE T == Range(ancestry(Header, final))
    <3>1. final \in T /\ \A y \in T : parent_of[y] \in Hashes => parent_of[y] \in T
      BY <2>2, AncestorsAreClosed
    <3>2. Range(ancestry(Header, FinalizedBlock)) \subseteq T
      BY <1>1, <2>2, <3>1, AncestorsAreLeast
    <3> HIDE DEF T
    <3>3. x = final \/ verify(x)
      BY <2>1, <2>4 DEF verify
    <3>4. verify(x) => x \in T
      BY <1>1, <2>4, <3>2 DEF OneFinalChain
    <3>5. x \in T
      BY <3>1, <3>3, <3>4
    <3>6. QED  BY <3>5 DEF T
  <2>5. OneFinalChain'
    BY <1>1, <2>1, <2>4 DEF OneFinalChain
  <2>6. QED  BY <1>1, <2>1, <2>2, <2>3, <2>5 DEF ChainInv, Grown
<1>5. QED  BY <1>3, <1>4

\* Whatever forks overtake one another, the blocks that verify accepts messages from are on
\* the chain of the finalized block as long as root does not reset the client: for every
\* tree of headers without a cycle and every configuration that verifies proof of work,
\* which is where the client compares a header's number with its parent's.
THEOREM FinalChainIsOne ==
    ASSUME NEW depth, HashChain(depth), VerifyPoW
    PROVE  Spec => []OneFinalChain
<1>1. Init => ChainInv(depth)
  <2>1. SUFFICES ASSUME Init PROVE ChainInv(depth)
    OBVIOUS
  <2>2. DOMAIN Headers = {InitialHeader} /\ FinalizedBlock = InitialHeader /\ InitialHeader \in Hashes
    BY <2>1, HeaderAssumption DEF Init, initialize_storage
  <2>3. Grown(depth, DOMAIN Headers)
    <3>1. depth[InitialHeader] \in Nat
      BY <2>2 DEF HashChain, Forest
    <3>2. QED  BY <2>2, <3>1, SMTT(60) DEF Grown
  <2>4. InitialHeader \in Range(ancestry(Header, InitialHeader))
    BY <2>2, AncestorsAreClosed
  <2>5. OneFinalChain
    BY <2>2, <2>4 DEF OneFinalChain, verify
  <2>6. QED  BY <2>1, <2>2, <2>3, <2>5, StoreInit DEF ChainInv
<1>2. ChainInv(depth) /\ StoreInv' /\ [Next]_vars => ChainInv(depth)'
  <2>1. SUFFICES ASSUME ChainInv(depth), StoreInv', [Next]_vars PROVE ChainInv(depth)'
    OBVIOUS
  <2>2. ASSUME NEW h \in Hashes, import_header(h) PROVE ChainInv(depth)'
    BY <2>1, <2>2, ChainStep
  <2>3. ASSUME NEW h \in Hashes, force_reset_to_fork(h) PROVE ChainInv(depth)'
    <3> DEFINE final == find_finalized_ancestor(Headers, h, DescendantsUntilFinalized)
               line == ancestry(Headers, h)
    <3>1. /\ resets' = resets + 1 /\ Headers' = Headers /\ FinalizedBlock' = final /\ final # NoHash
          /\ h \in DOMAIN Headers
      BY <2>3 DEF force_reset_to_fork
    <3>2. DOMAIN Headers \subseteq Hashes /\ resets \in Nat /\ DescendantsUntilFinalized \in Nat
      BY <2>1, ConfigAssumption DEF ChainInv, StoreInv, StoreTypes
    <3>3. Len(line) > DescendantsUntilFinalized /\ final = line[DescendantsUntilFinalized + 1]
      BY <3>1 DEF find_finalized_ancestor
    <3>4. IsLine(parent_of, DOMAIN Headers, line, h)
      BY <3>2, AncestryIsLine
    <3> HIDE DEF line, final
    <3>5. line \in Seq(Hashes)
      BY <3>2, <3>4, SMTT(60) DEF IsLine
    <3>6. final \in Hashes
      BY <3>2, <3>3, <3>5, SMTT(60)
    <3>7. resets' # 0
      BY <3>1, <3>2, SMTT(60)
    <3>8. QED  BY <2>1, <3>1, <3>6, <3>7 DEF ChainInv, Grown, OneFinalChain
  <2>4. CASE UNCHANGED vars
    BY <2>1, <2>4 DEF vars, ChainInv, Grown, OneFinalChain, verify
  <2>5. QED  BY <2>1, <2>2, <2>3, <2>4 DEF Next
<1>3. ChainInv(depth) => OneFinalChain
  BY DEF ChainInv
<1>4. QED  BY <1>1, <1>2, <1>3, StoreInvariant, PTL DEF Spec

----------------------------------------------------------------------------
\* The oldest number that is not due for pruning.
keep == BlocksToPrune.oldest_block_to_keep

\* valid holds the headers that pass the checks one on top of the other from the initial
\* header on, and weight is their total difficulty.
ValidHeaders(valid, weight) ==
    /\ valid \subseteq Hashes /\ InitialHeader \in valid
    /\ \A h \in Hashes : parent_of[h] \in valid /\ valid_proof_of_work(h) => h \in valid
    /\ weight \in [valid -> Nat] /\ weight[InitialHeader] = InitialDifficulty
    /\ \A h \in valid : h # InitialHeader /\ parent_of[h] \in valid =>
           weight[h] = weight[parent_of[h]] + Header[h].difficulty

\* A chain too young to finalize a block does not outweigh one that has finalized one.
YoungIsLighter(valid, weight) ==
    \A g, h \in valid :
        /\ number(h) < number(InitialHeader) + DescendantsUntilFinalized
        /\ number(g) > number(InitialHeader) + DescendantsUntilFinalized
        => weight[h] <= weight[g]

\* A set of stored headers of which those numbered above oldest have their parents in it.
ParentsKept(stored, oldest) ==
    \A h \in stored :
        /\ h # InitialHeader => number(h) > number(InitialHeader)
        /\ h # InitialHeader /\ number(h) > oldest => parent_of[h] \in stored

\* What holds of the stored headers, also after resets.
KeptInv(depth, valid, weight) ==
    /\ StoreInv /\ Grown(depth, DOMAIN Headers)
    /\ DOMAIN Headers \subseteq valid
    /\ \A h \in DOMAIN Headers : Headers[h].total_difficulty = weight[h]
    /\ ParentsKept(DOMAIN Headers, keep)

\* FinalIsDeep of a best block's line.
Deep(line, final) ==
    \/ Len(line) > DescendantsUntilFinalized /\ line[DescendantsUntilFinalized + 1] = final
    \/ line[Len(line)] = InitialHeader /\ final = InitialHeader

\* What is kept below the finalized block, as long as root does not reset the client.
DeepInv(weight) ==
    /\ BestBlock.hash \in DOMAIN Headers /\ FinalizedBlock \in DOMAIN Headers
    /\ BestBlock.total_difficulty = weight[BestBlock.hash]
    /\ keep <= number(FinalizedBlock)
    /\ \/ keep <= number(InitialHeader)
       \/ keep + FINALIZED_HEADERS_TO_KEEP <= number(FinalizedBlock)
    /\ FinalizedBlock # InitialHeader =>
           number(BestBlock.hash) > number(InitialHeader) + DescendantsUntilFinalized
    /\ Deep(ancestry(Headers, BestBlock.hash), FinalizedBlock)

\* What the headers and their parents make of a new header.
LEMMA Weighed ==
    ASSUME NEW depth, HashChain(depth), NEW valid, NEW weight, ValidHeaders(valid, weight), VerifyPoW,
           KeptInv(depth, valid, weight), NEW h \in Hashes, import_result(h) = "Ok"
    PROVE  /\ h \notin DOMAIN Headers /\ h # InitialHeader /\ h \in valid
           /\ total_difficulty(h) = weight[h]
           /\ \A x \in DOMAIN Headers \cup {h} : stored_with(h)[x].total_difficulty = weight[x]
           /\ ParentsKept(DOMAIN Headers \cup {h}, keep)
<1>1. StoreInv /\ Grown(depth, DOMAIN Headers) /\ DOMAIN Headers \subseteq Hashes
      /\ DOMAIN Headers \subseteq valid /\ ParentsKept(DOMAIN Headers, keep)
      /\ \A x \in DOMAIN Headers : Headers[x].total_difficulty = weight[x]
  BY DEF KeptInv, StoreInv, StoreTypes
<1>2. /\ h \notin DOMAIN Headers /\ parent_of[h] \in DOMAIN Headers
      /\ number(h) = number(parent_of[h]) + 1 /\ valid_proof_of_work(h)
  BY <1>1, Validated
<1>3. h # InitialHeader
  <2>1. depth[parent_of[h]] >= depth[InitialHeader]
    BY <1>1, <1>2 DEF Grown
  <2>2. depth[parent_of[h]] < depth[h] /\ depth[parent_of[h]] \in Nat /\ depth[h] \in Nat
    BY <1>1, <1>2 DEF HashChain, Forest
  <2>3. QED  BY <2>1, <2>2, SMTT(60)
<1>4. h \in valid
  BY <1>1, <1>2 DEF ValidHeaders
<1>5. total_difficulty(h) = weight[h]
  <2>1. weight[h] = weight[parent_of[h]] + Header[h].difficulty
    BY <1>1, <1>2, <1>3, <1>4 DEF ValidHeaders
  <2>2. Headers[parent_of[h]].total_difficulty = weight[parent_of[h]]
    BY <1>1, <1>2
  <2>3. parent_of[h] = Header[h].parent_hash
    BY DEF parent_of
  <2>4. QED  BY <2>1, <2>2, <2>3 DEF total_difficulty
<1>6. \A x \in DOMAIN Headers \cup {h} : stored_with(h)[x].total_difficulty = weight[x]
  BY <1>1, <1>5 DEF stored_with
<1>7. number(h) > number(InitialHeader)
  <2>1. number(parent_of[h]) \in Nat /\ number(InitialHeader) \in Nat
    BY <1>1, <1>2, NumberType, HeaderAssumption
  <2>2. number(parent_of[h]) >= number(InitialHeader)
    BY <1>1, <1>2, <2>1, SMTT(60) DEF ParentsKept
  <2>3. QED  BY <1>2, <2>1, <2>2, SMTT(60)
<1>8. ParentsKept(DOMAIN Headers \cup {h}, keep)
  BY <1>1, <1>2, <1>7 DEF ParentsKept
<1>9. QED  BY <1>2, <1>3, <1>4, <1>5, <1>6, <1>8

\* Importing a header keeps the parents of the headers that are not due for pruning.
LEMMA KeptStep ==
    ASSUME NEW depth, HashChain(depth), NEW valid, NEW weight, ValidHeaders(valid, weight), VerifyPoW,
           KeptInv(depth, valid, weight), StoreInv', NEW h \in Hashes, import_header(h)
    PROVE  KeptInv(depth, valid, weight)'
<1> DEFINE all == DOMAIN Headers \cup {h}
<1>1. import_result(h) = "Ok" /\ StoreInv /\ DOMAIN Headers \subseteq Hashes /\ all \subseteq Hashes
      /\ Grown(depth, DOMAIN Headers) /\ DOMAIN Headers \subseteq valid
  BY DEF import_header, KeptInv, StoreInv, StoreTypes
<1>2. /\ h \notin DOMAIN Headers /\ h # InitialHeader /\ h \in valid
      /\ total_difficulty(h) = weight[h]
      /\ \A x \in all : stored_with(h)[x].total_difficulty = weight[x]
      /\ ParentsKept(all, keep)
  BY <1>1, Weighed
<1>3. Grown(depth, all)
  BY <1>1, StillGrown
<1>4. CASE ~becomes_best(h)
  <2>1. Headers' = stored_with(h) /\ BlocksToPrune' = BlocksToPrune
    BY <1>4 DEF import_header, import_validated_header
  <2>2. DOMAIN Headers' = all
    BY <2>1 DEF stored_with
  <2>3. Grown(depth, DOMAIN Headers') /\ ParentsKept(DOMAIN Headers', keep')
    BY <1>2, <1>3, <2>1, <2>2 DEF keep
  <2>4. DOMAIN Headers' \subseteq valid /\ \A x \in DOMAIN Headers' : Headers'[x].total_difficulty = weight[x]
    BY <1>1, <1>2, <2>1, <2>2
  <2>5. QED  BY <2>3, <2>4 DEF KeptInv, Grown, ParentsKept
<1>5. CASE becomes_best(h)
  <2>1. /\ keep' = larger(keep, larger(number(FinalizedBlock') - FINALIZED_HEADERS_TO_KEEP, 0))
        /\ FinalizedBlock' \in all
        /\ DOMAIN Headers' \subseteq all
        /\ \A x \in all : number(x) >= keep' => x \in DOMAIN Headers'
        /\ \A x \in DOMAIN Headers' : Headers'[x].total_difficulty = stored_with(h)[x].total_difficulty
    BY <1>1, <1>5, Followed DEF keep
  <2>2. keep \in Nat /\ keep' \in Nat /\ keep' >= keep
    <3>1. keep \in Nat /\ keep' \in Nat
      BY <1>1 DEF keep, StoreInv, StoreTypes
    <3>2. number(FinalizedBlock') \in Nat
      BY <1>1, <2>1, NumberType
    <3>3. QED  BY <2>1, <3>1, <3>2, ConfigAssumption, SMTT(60) DEF larger
  <2>3. ASSUME NEW x \in DOMAIN Headers', x # InitialHeader, number(x) > keep'
        PROVE  parent_of[x] \in DOMAIN Headers'
    <3>1. x \in all /\ x \in Hashes /\ number(x) \in Nat
      BY <1>1, <2>1, NumberType
    <3>2. number(x) > keep
      BY <2>2, <2>3, <3>1, SMTT(60)
    <3>3. parent_of[x] \in all /\ number(x) = number(parent_of[x]) + 1
      BY <1>2, <1>3, <2>3, <3>1, <3>2 DEF ParentsKept, Grown
    <3>4. number(parent_of[x]) \in Nat
      BY <1>1, <3>3, NumberType
    <3>5. number(parent_of[x]) >= keep'
      BY <2>2, <2>3, <3>3, <3>4, SMTT(60)
    <3>6. QED  BY <2>1, <3>3, <3>5
  <2>4. \A x \in DOMAIN Headers' : x # InitialHeader => number(x) > number(InitialHeader)
    BY <1>2, <2>1 DEF ParentsKept
  <2>5. Grown(depth, DOMAIN Headers')
    BY <1>3, <2>1 DEF Grown
  <2>6. DOMAIN Headers' \subseteq valid /\ \A x \in DOMAIN Headers' : Headers'[x].total_difficulty = weight[x]
    BY <1>1, <1>2, <2>1
  <2>7. QED  BY <2>3, <2>4, <2>5, <2>6 DEF KeptInv, Grown, ParentsKept
<1>6. QED  BY <1>4, <1>5

\* The block that a new best block finalizes is as deep as it has to be, and no older than
\* the finalized block: a line too short for it reaches the initial header, or more than
\* DescendantsUntilFinalized numbers below the finalized block are kept.
LEMMA DeepFinal ==
    ASSUME NEW depth, HashChain(depth), NEW valid, NEW weight, ValidHeaders(valid, weight),
           YoungIsLighter(valid, weight), VerifyPoW,
           DescendantsUntilFinalized <= FINALIZED_HEADERS_TO_KEEP,
           KeptInv(depth, valid, weight), DeepInv(weight),
           NEW h \in Hashes, import_result(h) = "Ok", becomes_best(h)
    PROVE  LET new == ancestry(stored_with(h), h)
               final == get_best_finalized_header(stored_with(h), h)
           IN  /\ Deep(new, final)
               /\ final = InitialHeader \/ number(h) = number(final) + DescendantsUntilFinalized
               /\ number(final) >= number(FinalizedBlock)
<1> DEFINE D == DescendantsUntilFinalized
           line == ancestry(Headers, parent_of[h])
           new == ancestry(stored_with(h), h)
           ancestor == find_finalized_ancestor(stored_with(h), h, D)
           final == get_best_finalized_header(stored_with(h), h)
           all == DOMAIN Headers \cup {h}
           last == new[Len(new)]
<1>1. /\ StoreInv /\ Grown(depth, DOMAIN Headers) /\ DOMAIN Headers \subseteq Hashes /\ h \in all
      /\ all \in SUBSET Hashes /\ DOMAIN Headers \subseteq valid
  BY DEF KeptInv, StoreInv, StoreTypes
<1>2. /\ FinalizedBlock \in DOMAIN Headers /\ BestBlock.hash \in DOMAIN Headers
      /\ BestBlock.total_difficulty = weight[BestBlock.hash]
      /\ keep <= number(InitialHeader) \/ keep + FINALIZED_HEADERS_TO_KEEP <= number(FinalizedBlock)
      /\ FinalizedBlock # InitialHeader => number(BestBlock.hash) > number(InitialHeader) + D
  BY DEF DeepInv
<1>3. /\ number(h) \in Nat /\ number(FinalizedBlock) \in Nat /\ number(InitialHeader) \in Nat
      /\ D \in Nat /\ FINALIZED_HEADERS_TO_KEEP \in Nat /\ D <= FINALIZED_HEADERS_TO_KEEP /\ keep \in Nat
  BY <1>1, <1>2, NumberType, HeaderAssumption, ConfigAssumption DEF keep, StoreInv, StoreTypes
<1>4. /\ h \notin DOMAIN Headers /\ parent_of[h] \in DOMAIN Headers
      /\ ~(number(h) <= number(FinalizedBlock))
  BY <1>1, Validated
<1>5. /\ h \notin DOMAIN Headers /\ h # InitialHeader /\ h \in valid
      /\ total_difficulty(h) = weight[h]
      /\ \A x \in all : stored_with(h)[x].total_difficulty = weight[x]
      /\ ParentsKept(all, keep)
  BY <1>1, Weighed
<1>6. IsLine(parent_of, all, new, h)
  BY <1>1, <1>4, NewLine
<1>7. ancestor = IF Len(new) > D THEN new[D + 1] ELSE NoHash
  BY DEF find_finalized_ancestor
<1>8. final = IF ancestor = NoHash THEN FinalizedBlock
              ELSE IF number(ancestor) > number(FinalizedBlock) THEN ancestor
              ELSE IF ancestor = FinalizedBlock THEN FinalizedBlock ELSE NoHash
  BY DEF get_best_finalized_header
<1>9. final \in all
  <2>1. final \in DOMAIN stored_with(h)
    BY <1>1, Accepted
  <2>2. QED  BY <2>1 DEF stored_with
<1> HIDE DEF new, ancestor, final
<1>10. /\ new \in Seq(all) /\ Len(new) \in Nat /\ Len(new) \in 1 .. Len(new)
       /\ parent_of[last] \notin all /\ last \in all
  BY <1>1, <1>6, SMTT(60) DEF IsLine
<1>11. \A j \in 1 .. Len(new) : number(new[j]) = number(h) - (j - 1)
  <2>1. Grown(depth, all)
    BY <1>1, StillGrown
  <2>2. QED  BY <1>1, <1>6, <2>1, LineNumbers
<1>12. CASE Len(new) > D
  <2>1. D + 1 \in 1 .. Len(new)
    BY <1>3, <1>10, <1>12, SMTT(60)
  <2>2. ancestor = new[D + 1] /\ ancestor \in all
    BY <1>7, <1>10, <1>12, <2>1, SMTT(60)
  <2>3. final = ancestor /\ number(final) >= number(FinalizedBlock)
    <3>1. NoHash \notin all /\ number(ancestor) \in Nat
      BY <1>1, <2>2, HeaderAssumption, NumberType
    <3>2. QED  BY <1>3, <1>8, <1>9, <2>2, <3>1, SMTT(60)
  <2>4. number(final) = number(h) - ((D + 1) - 1)
    BY <1>11, <2>1, <2>2, <2>3
  <2>5. number(h) = number(final) + D
    BY <1>3, <2>4, SMTT(60)
  <2>6. QED  BY <1>12, <2>2, <2>3, <2>5 DEF Deep, new, final
<1>13. CASE ~(Len(new) > D)
  <2>1. final = FinalizedBlock
    BY <1>7, <1>8, <1>13
  <2>2. number(last) = number(h) - (Len(new) - 1)
    BY <1>10, <1>11
  <2>3. number(last) > number(h) - D
    BY <1>3, <1>10, <1>13, <2>2, SMTT(60)
  <2>4. last = InitialHeader
    <3>1. SUFFICES ASSUME last # InitialHeader PROVE FALSE
      OBVIOUS
    <3>2. number(last) > number(InitialHeader) /\ ~(number(last) > keep)
      BY <1>5, <1>10, <3>1 DEF ParentsKept
    <3>3. number(last) \in Nat
      BY <1>1, <1>10, NumberType
    <3>4. QED  BY <1>2, <1>3, <1>4, <2>3, <3>2, <3>3, SMTT(60)
  <2>5. FinalizedBlock = InitialHeader
    <3>1. SUFFICES ASSUME FinalizedBlock # InitialHeader PROVE FALSE
      OBVIOUS
    <3>2. number(h) < number(InitialHeader) + D
      BY <1>3, <2>3, <2>4, SMTT(60)
    <3>3. weight[h] <= weight[BestBlock.hash]
      BY <1>1, <1>2, <1>5, <3>1, <3>2, SMTT(60) DEF YoungIsLighter
    <3>4. weight[h] > weight[BestBlock.hash]
      BY <1>2, <1>5 DEF becomes_best
    <3>5. weight[h] \in Nat /\ weight[BestBlock.hash] \in Nat
      BY <1>1, <1>2, <1>5 DEF ValidHeaders
    <3>6. QED  BY <3>3, <3>4, <3>5, SMTT(60)
  <2>6. QED  BY <1>3, <2>1, <2>4, <2>5, SMTT(60) DEF Deep, new, final
<1>14. QED  BY <1>12, <1>13

\* The new best block's line survives the pruning down to the finalized block.
LEMMA DeepBestStep ==
    ASSUME NEW depth, HashChain(depth), NEW valid, NEW weight, ValidHeaders(valid, weight),
           YoungIsLighter(valid, weight), VerifyPoW,
           DescendantsUntilFinalized <= FINALIZED_HEADERS_TO_KEEP,
           KeptInv(depth, valid, weight), DeepInv(weight), StoreInv',
           NEW h \in Hashes, import_header(h), becomes_best(h)
    PROVE  DeepInv(weight)'
<1> DEFINE D == DescendantsUntilFinalized
           new == ancestry(stored_with(h), h)
           line == ancestry(Headers', h)
           final == get_best_finalized_header(stored_with(h), h)
           all == DOMAIN Headers \cup {h}
<1>1. /\ import_result(h) = "Ok" /\ StoreInv /\ Grown(depth, DOMAIN Headers) /\ h \in all
      /\ DOMAIN Headers \subseteq Hashes /\ all \in SUBSET Hashes /\ DOMAIN Headers' \subseteq Hashes
  BY DEF import_header, KeptInv, StoreInv, StoreTypes
<1>2. /\ final \in all /\ FinalizedBlock' = final
      /\ BestBlock' = [hash |-> h, total_difficulty |-> total_difficulty(h)]
      /\ keep' = larger(keep, larger(number(final) - FINALIZED_HEADERS_TO_KEEP, 0))
      /\ DOMAIN Headers' \subseteq all
      /\ \A x \in all : number(x) >= keep' => x \in DOMAIN Headers'
  BY <1>1, Followed DEF keep
<1>3. /\ Deep(new, final)
      /\ final = InitialHeader \/ number(h) = number(final) + D
      /\ number(final) >= number(FinalizedBlock)
  BY <1>1, DeepFinal
<1>4. /\ h \notin DOMAIN Headers /\ h # InitialHeader /\ h \in valid
      /\ total_difficulty(h) = weight[h]
      /\ \A x \in all : stored_with(h)[x].total_difficulty = weight[x]
      /\ ParentsKept(all, keep)
  BY <1>1, Weighed
<1>5. /\ h \notin DOMAIN Headers /\ parent_of[h] \in DOMAIN Headers
      /\ ~(number(h) <= number(FinalizedBlock))
  BY <1>1, Validated
<1>6. IsLine(parent_of, all, new, h)
  BY <1>1, <1>5, NewLine
<1> HIDE DEF new, final
<1>7. /\ number(h) \in Nat /\ number(final) \in Nat /\ number(InitialHeader) \in Nat
      /\ number(FinalizedBlock) \in Nat /\ keep \in Nat /\ keep' \in Nat
      /\ D \in Nat /\ FINALIZED_HEADERS_TO_KEEP \in Nat
      /\ keep <= number(FinalizedBlock)
      /\ keep <= number(InitialHeader) \/ keep + FINALIZED_HEADERS_TO_KEEP <= number(FinalizedBlock)
  <2>1. /\ FinalizedBlock \in DOMAIN Headers /\ keep <= number(FinalizedBlock)
        /\ keep <= number(InitialHeader) \/ keep + FINALIZED_HEADERS_TO_KEEP <= number(FinalizedBlock)
    BY DEF DeepInv
  <2>2. keep \in Nat /\ keep' \in Nat
    BY <1>1 DEF keep, StoreInv, StoreTypes
  <2>3. QED  BY <1>1, <1>2, <2>1, <2>2, NumberType, HeaderAssumption, ConfigAssumption, SMTT(60)
<1>8. /\ keep' <= number(final)
      /\ keep' <= number(InitialHeader) \/ keep' + FINALIZED_HEADERS_TO_KEEP <= number(final)
  BY <1>2, <1>3, <1>7, SMTT(60) DEF larger
<1>9. final \in DOMAIN Headers' /\ final # InitialHeader => number(h) > number(InitialHeader) + D
  BY <1>2, <1>3, <1>4, <1>7, <1>8, SMTT(60) DEF ParentsKept
<1>10. final \in DOMAIN Headers' /\ h \in DOMAIN Headers'
  <2>0. number(h) > number(InitialHeader)
    BY <1>1, <1>4 DEF ParentsKept
  <2>1. number(h) >= keep'
    BY <1>3, <1>7, <1>8, <2>0, SMTT(60)
  <2>2. QED  BY <1>1, <1>2, <1>7, <1>8, <2>1
<1>11. IsLine(parent_of, DOMAIN Headers', line, h)
  BY <1>1, AncestryIsLine
<1>12. ASSUME Deep(line, final) PROVE DeepInv(weight)'
  <2>1. /\ BestBlock'.hash = h /\ BestBlock'.total_difficulty = weight[h]
        /\ FinalizedBlock' = final
    BY <1>2, <1>4
  <2>2. Deep(ancestry(Headers', BestBlock'.hash), FinalizedBlock')
    BY <1>12, <2>1
  <2>3. FinalizedBlock' # InitialHeader =>
            number(BestBlock'.hash) > number(InitialHeader) + DescendantsUntilFinalized
    BY <1>9, <1>10, <2>1
  <2> HIDE DEF line
  <2>4. BestBlock'.hash \in DOMAIN Headers' /\ FinalizedBlock' \in DOMAIN Headers'
    BY <1>10, <2>1
  <2>5. /\ keep' <= number(FinalizedBlock')
        /\ \/ keep' <= number(InitialHeader)
           \/ keep' + FINALIZED_HEADERS_TO_KEEP <= number(FinalizedBlock')
    BY <1>8, <2>1
  <2>6. BestBlock'.total_difficulty = weight[BestBlock'.hash]
    BY <2>1
  <2>7. QED  BY <2>2, <2>3, <2>4, <2>5, <2>6 DEF DeepInv
<1> HIDE DEF line
<1>13. CASE Len(new) > D /\ new[D + 1] = final
  <2>1. new \in Seq(all) /\ Len(new) \in Nat /\ D + 1 \in 1 .. Len(new) /\ D + 1 \in 0 .. Len(new)
    <3>1. new \in Seq(all)
      BY <1>6 DEF IsLine
    <3>2. Len(new) \in Nat
      BY <3>1, SMTT(60)
    <3>3. D + 1 \in 1 .. Len(new) /\ D + 1 \in 0 .. Len(new)
      BY <1>7, <1>13, <3>2, SMTT(60)
    <3>4. QED  BY <3>1, <3>2, <3>3
  <2>2. \A j \in 1 .. Len(new) : number(new[j]) = number(h) - (j - 1)
    <3>1. Grown(depth, all)
      BY <1>1, StillGrown
    <3>2. QED  BY <1>1, <1>6, <3>1, LineNumbers
  <2>3. ASSUME NEW i \in 1 .. D + 1 PROVE new[i] \in DOMAIN Headers'
    <3>1. i \in 1 .. Len(new)
      BY <1>7, <2>1, SMTT(60)
    <3>2. /\ number(new[i]) = number(h) - (i - 1) /\ new[i] \in all
          /\ number(final) = number(h) - ((D + 1) - 1)
      BY <1>13, <2>1, <2>2, <3>1, SMTT(60)
    <3>3. number(new[i]) \in Nat
      BY <1>1, <3>2, NumberType
    <3>4. number(new[i]) >= keep'
      BY <1>7, <1>8, <3>2, <3>3, SMTT(60)
    <3>5. QED  BY <1>2, <3>2, <3>4
  <2>4. D + 1 <= Len(line) /\ \A i \in 1 .. D + 1 : line[i] = new[i]
    <3>1. \A i \in 1 .. D + 1 : new[i] \in DOMAIN Headers'
      BY <2>3
    <3>2. QED  BY <1>6, <1>11, <2>1, <3>1, LineKept, SMTT(60)
  <2>5. Len(line) \in Nat /\ D + 1 \in 1 .. D + 1
    BY <1>7, <1>11, SMTT(60) DEF IsLine
  <2>6. Len(line) > D /\ line[D + 1] = final
    BY <1>7, <1>13, <2>4, <2>5, SMTT(60)
  <2>7. QED  BY <1>12, <2>6 DEF Deep
<1>14. CASE new[Len(new)] = InitialHeader /\ final = InitialHeader
  <2>1. ASSUME NEW x \in all PROVE number(x) >= number(InitialHeader) /\ number(x) \in Nat
    <3>1. x = InitialHeader \/ number(x) > number(InitialHeader)
      BY <1>4 DEF ParentsKept
    <3>2. number(x) \in Nat
      BY <1>1, NumberType
    <3>3. QED  BY <1>7, <3>1, <3>2, SMTT(60)
  <2>2. \A x \in all : number(x) >= keep'
    BY <1>7, <1>8, <1>14, <2>1, SMTT(60)
  <2>3. DOMAIN Headers' = all
    BY <1>2, <2>2
  <2>4. line = new
    BY <1>6, <1>11, <2>3, LineIsUnique
  <2>5. QED  BY <1>12, <1>14, <2>4 DEF Deep
<1>15. QED  BY <1>3, <1>13, <1>14 DEF Deep

\* A header that does not become the best block leaves the best block's line as it is.
LEMMA DeepSideStep ==
    ASSUME NEW depth, HashChain(depth), NEW valid, NEW weight, ValidHeaders(valid, weight), VerifyPoW,
           KeptInv(depth, valid, weight), DeepInv(weight), StoreInv',
           NEW h \in Hashes, import_header(h), ~becomes_best(h)
    PROVE  DeepInv(weight)'
<1> DEFINE D == DescendantsUntilFinalized
           best == BestBlock.hash
           old == ancestry(Headers, best)
           line == ancestry(Headers', best)
           all == DOMAIN Headers \cup {h}
<1>1. /\ import_result(h) = "Ok" /\ StoreInv /\ Grown(depth, DOMAIN Headers)
      /\ DOMAIN Headers \subseteq Hashes /\ all \in SUBSET Hashes /\ D \in Nat
  BY ConfigAssumption, SMTT(60) DEF import_header, KeptInv, StoreInv, StoreTypes
<1>2. /\ Headers' = stored_with(h) /\ BestBlock' = BestBlock
      /\ FinalizedBlock' = FinalizedBlock /\ BlocksToPrune' = BlocksToPrune
  BY DEF import_header, import_validated_header
<1>3. DOMAIN Headers' = all
  BY <1>2 DEF stored_with
<1>4. best \in DOMAIN Headers /\ Deep(old, FinalizedBlock)
  BY DEF DeepInv
<1>5. IsLine(parent_of, DOMAIN Headers, old, best)
  BY <1>1, <1>4, AncestryIsLine
<1>6. IsLine(parent_of, all, line, best)
  <2>1. IsLine(parent_of, DOMAIN Headers', line, best)
    BY <1>1, <1>3, <1>4, AncestryIsLine
  <2>2. QED  BY <1>3, <2>1
<1> HIDE DEF old, line
<1>7. old \in Seq(DOMAIN Headers) /\ Len(old) \in Nat /\ Len(old) \in 1 .. Len(old)
      /\ line \in Seq(all) /\ Len(line) \in Nat
  BY <1>4, <1>5, <1>6, SMTT(60) DEF IsLine
<1>8. Len(old) <= Len(line) /\ \A i \in 1 .. Len(old) : line[i] = old[i]
  <2>1. Len(old) \in 0 .. Len(old)
    BY <1>7, SMTT(60)
  <2>2. \A i \in 1 .. Len(old) : old[i] \in all
    BY <1>7, SMTT(60)
  <2>3. QED  BY <1>5, <1>6, <2>1, <2>2, LineKept, SMTT(60)
<1>9. Deep(line, FinalizedBlock)
  <2>1. CASE Len(old) > D /\ old[D + 1] = FinalizedBlock
    <3>1. D + 1 \in 1 .. Len(old) /\ Len(line) > D
      BY <1>1, <1>7, <1>8, <2>1, SMTT(60)
    <3>2. QED  BY <1>8, <2>1, <3>1 DEF Deep
  <2>2. CASE old[Len(old)] = InitialHeader /\ FinalizedBlock = InitialHeader
    <3>1. line[Len(old)] = InitialHeader
      BY <1>7, <1>8, <2>2
    <3>2. Len(line) = Len(old)
      <4>1. SUFFICES ASSUME Len(line) # Len(old) PROVE FALSE
        OBVIOUS
      <4>2. Len(old) \in 1 .. Len(line) - 1 /\ Len(old) + 1 \in 1 .. Len(line)
        BY <1>7, <1>8, <4>1, SMTT(60)
      <4>3. line[Len(old) + 1] = parent_of[InitialHeader] /\ line[Len(old) + 1] \in all
        BY <1>6, <1>7, <3>1, <4>2, SMTT(60) DEF IsLine
      <4>4. depth[parent_of[InitialHeader]] >= depth[InitialHeader]
        <5>1. Grown(depth, all)
          BY <1>1, StillGrown
        <5>2. QED  BY <4>3, <5>1 DEF Grown
      <4>5. /\ depth[parent_of[InitialHeader]] < depth[InitialHeader]
            /\ depth[parent_of[InitialHeader]] \in Nat /\ depth[InitialHeader] \in Nat
        BY <1>1, <4>3, HeaderAssumption DEF HashChain, Forest
      <4>6. QED  BY <4>4, <4>5, SMTT(60)
    <3>3. QED  BY <2>2, <3>1, <3>2 DEF Deep
  <2>3. QED  BY <1>4, <2>1, <2>2 DEF Deep
<1>10. Deep(ancestry(Headers', BestBlock'.hash), FinalizedBlock')
  BY <1>2, <1>9 DEF line
<1>11. /\ BestBlock'.hash \in DOMAIN Headers' /\ FinalizedBlock' \in DOMAIN Headers'
       /\ keep' = keep
  BY <1>2, <1>3 DEF DeepInv, keep
<1>12. QED  BY <1>2, <1>10, <1>11 DEF DeepInv, Deep

\* "The number of descendants, in the highest difficulty chain, a block needs to have in
\* order to be considered final" holds of the finalized block until root resets the client,
\* through every pruning and every change of fork, if the client keeps as many finalized
\* headers as a block needs descendants (it keeps 50000, and a u8 bounds the descendants) and
\* a fork shorter than that does not outweigh a chain that has finalized a block.
THEOREM FinalIsAlwaysDeep ==
    ASSUME NEW depth, HashChain(depth), NEW valid, NEW weight, ValidHeaders(valid, weight),
           YoungIsLighter(valid, weight), VerifyPoW,
           DescendantsUntilFinalized <= FINALIZED_HEADERS_TO_KEEP
    PROVE  Spec => [](resets = 0 => FinalIsDeep)
<1> DEFINE Inv == KeptInv(depth, valid, weight) /\ (resets = 0 => DeepInv(weight))
<1>1. Init => Inv
  <2>1. SUFFICES ASSUME Init PROVE Inv
    OBVIOUS
  <2>2. /\ DOMAIN Headers = {InitialHeader} /\ FinalizedBlock = InitialHeader
        /\ InitialHeader \in Hashes /\ Headers[InitialHeader].total_difficulty = InitialDifficulty
        /\ BestBlock = [hash |-> InitialHeader, total_difficulty |-> InitialDifficulty]
        /\ keep = number(InitialHeader) /\ InitialHeader \in valid
        /\ weight[InitialHeader] = InitialDifficulty
    BY <2>1, HeaderAssumption DEF Init, initialize_storage, keep, ValidHeaders
  <2>3. Grown(depth, DOMAIN Headers)
    <3>1. depth[InitialHeader] \in Nat
      BY <2>2 DEF HashChain, Forest
    <3>2. QED  BY <2>2, <3>1, SMTT(60) DEF Grown
  <2>4. number(InitialHeader) \in Nat
    BY <2>2, NumberType
  <2>5. KeptInv(depth, valid, weight)
    BY <2>1, <2>2, <2>3, StoreInit DEF KeptInv, ParentsKept
  <2>6. Deep(ancestry(Headers, InitialHeader), InitialHeader)
    <3> DEFINE line == ancestry(Headers, InitialHeader)
    <3>1. IsLine(parent_of, {InitialHeader}, line, InitialHeader)
      <4>1. DOMAIN Headers \subseteq Hashes
        BY <2>2
      <4>2. IsLine(parent_of, DOMAIN Headers, line, InitialHeader)
        BY <2>2, <4>1, AncestryIsLine
      <4>3. QED  BY <2>2, <4>2
    <3> HIDE DEF line
    <3>2. line \in Seq({InitialHeader}) /\ Len(line) \in 1 .. Len(line)
      BY <3>1, SMTT(60) DEF IsLine
    <3>3. line[Len(line)] = InitialHeader
      BY <3>2, SMTT(60)
    <3>4. QED  BY <3>3 DEF Deep, line
  <2>7. DeepInv(weight)
    BY <2>2, <2>4, <2>6, SMTT(60) DEF DeepInv
  <2>8. QED  BY <2>5, <2>7
<1>2. Inv /\ StoreInv' /\ [Next]_vars => Inv'
  <2>1. SUFFICES ASSUME Inv, StoreInv', [Next]_vars PROVE Inv'
    OBVIOUS
  <2>2. ASSUME NEW h \in Hashes, import_header(h) PROVE Inv'
    <3>1. resets' = resets
      BY <2>2 DEF import_header
    <3>2. KeptInv(depth, valid, weight)'
      BY <2>1, <2>2, KeptStep
    <3>3. resets = 0 => DeepInv(weight)'
      BY <2>1, <2>2, DeepBestStep, DeepSideStep
    <3>4. QED  BY <3>1, <3>2, <3>3
  <2>3. ASSUME NEW h \in Hashes, force_reset_to_fork(h) PROVE Inv'
    <3>1. resets' = resets + 1 /\ Headers' = Headers /\ BlocksToPrune' = BlocksToPrune
      BY <2>3 DEF force_reset_to_fork
    <3>2. resets \in Nat
      BY <2>1 DEF KeptInv, StoreInv, StoreTypes
    <3>3. resets' # 0
      BY <3>1, <3>2, SMTT(60)
    <3>4. KeptInv(depth, valid, weight)'
      BY <2>1, <3>1 DEF KeptInv, Grown, ParentsKept, keep
    <3>5. QED  BY <3>3, <3>4
  <2>4. CASE UNCHANGED vars
    BY <2>1, <2>4 DEF vars, KeptInv, Grown, ParentsKept, keep, DeepInv, Deep
  <2>5. QED  BY <2>1, <2>2, <2>3, <2>4 DEF Next
<1>3. Inv => (resets = 0 => FinalIsDeep)
  BY DEF DeepInv, Deep, FinalIsDeep
<1>4. QED  BY <1>1, <1>2, <1>3, StoreInvariant, PTL DEF Spec
=============================================================================
