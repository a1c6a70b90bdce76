------------------------------ MODULE SszProof ------------------------------
(***************************************************************************)
(* How the beacon client reads the beacon chain's data (pallets/           *)
(* ethereum-beacon-client: merkleization.rs, ssz.rs, config.rs and the     *)
(* helpers of lib.rs): SSZ hash tree roots, Merkle branches at the indices *)
(* of config.rs, and the bits of a sync aggregate with the keys they       *)
(* select.  BeaconClient abstracts from all this: there a valid branch is  *)
(* the value that a state commits to, and an aggregate a number of bits.   *)
(***************************************************************************)
EXTENDS Naturals, Sequences, SequencesExt, FiniteSets

CONSTANTS
    BLOCK_ROOT_AT_INDEX_PROOF_DEPTH,
    SYNC_COMMITTEE_SIZE,
    ByteBits,                \* bits of a byte
    MaxBytes,                \* bound on the length of a bit string
    MaxSlot,                 \* bound on the slots of block roots
    SLOTS_PER_EPOCH,
    ForkVersions             \* the epochs in which altair and bellatrix start

VARIABLES
    asked, place,            \* the proof the client asks for, and where the leaf given is
    bits_hex                 \* bytes of sync_committee_bits

SLOTS_PER_HISTORICAL_ROOT == 2 ^ BLOCK_ROOT_AT_INDEX_PROOF_DEPTH

CURRENT_SYNC_COMMITTEE_INDEX == 22
CURRENT_SYNC_COMMITTEE_DEPTH == 5
NEXT_SYNC_COMMITTEE_INDEX == 23
NEXT_SYNC_COMMITTEE_DEPTH == 5
FINALIZED_ROOT_INDEX == 41
FINALIZED_ROOT_DEPTH == 6
BLOCK_ROOTS_INDEX == 5
BLOCK_ROOTS_DEPTH == 5
EXECUTION_HEADER_INDEX == 9
EXECUTION_HEADER_DEPTH == 4

----------------------------------------------------------------------------
(* SSZ merkleization and the containers of the consensus layer.            *)

sha2_256(l, r) == [left |-> l, right |-> r]
Zero == [field |-> "zero"]

parents(row) == [k \in 1 .. Len(row) \div 2 |-> sha2_256(row[2 * k - 1], row[2 * k])]

\* A row of 2 ^ depth chunks, the last ones zero.
padded(row, depth) == row \o [k \in 1 .. 2 ^ depth - Len(row) |-> Zero]

RECURSIVE merkleize(_)
merkleize(row) == IF Len(row) = 1 THEN row[1] ELSE merkleize(parents(row))

RECURSIVE branchAt(_, _)
branchAt(row, i) ==
    IF Len(row) = 1 THEN <<>>
    ELSE <<row[IF i % 2 = 0 THEN i + 2 ELSE i]>> \o branchAt(parents(row), i \div 2)

BeaconState == <<
    "genesis_time", "genesis_validators_root", "slot", "fork", "latest_block_header",
    "block_roots", "state_roots", "historical_roots", "eth1_data", "eth1_data_votes",
    "eth1_deposit_index", "validators", "balances", "randao_mixes", "slashings",
    "previous_epoch_participation", "current_epoch_participation", "justification_bits",
    "previous_justified_checkpoint", "current_justified_checkpoint", "finalized_checkpoint",
    "inactivity_scores", "current_sync_committee", "next_sync_committee",
    "latest_execution_payload_header">>

BeaconBlockBody == <<
    "randao_reveal", "eth1_data", "graffiti", "proposer_slashings", "attester_slashings",
    "attestations", "deposits", "voluntary_exits", "sync_aggregate", "execution_payload">>

Field(name) == [field |-> name]

\* A state one level below its fields: a checkpoint is an epoch and a root.
StateHalves ==
    padded([k \in 1 .. 2 * Len(BeaconState) |->
               [field |-> BeaconState[(k + 1) \div 2], half |-> (k + 1) % 2]], 6)

StateRow == parents(StateHalves)
BodyRow == padded([k \in 1 .. Len(BeaconBlockBody) |-> Field(BeaconBlockBody[k])], 4)

\* The ring of block roots in the state of slot MaxSlot + 1.
BlockRootsRow ==
    [k \in 1 .. SLOTS_PER_HISTORICAL_ROOT |->
        [block |-> CHOOSE s \in 0 .. MaxSlot :
            /\ s % SLOTS_PER_HISTORICAL_ROOT = k - 1
            /\ s + SLOTS_PER_HISTORICAL_ROOT > MaxSlot]]

\* 0-based position of a field.
position(container, name) == (CHOOSE k \in DOMAIN container : container[k] = name) - 1

----------------------------------------------------------------------------
(* lib.rs                                                                  *)

\* Mutant: the sides of a node are exchanged.
hash_pair_swapped(value, sibling, is_left) ==
    IF is_left THEN sha2_256(sibling, value) ELSE sha2_256(value, sibling)

hash_pair(value, sibling, is_left) ==
    IF is_left THEN sha2_256(value, sibling) ELSE sha2_256(sibling, value)

is_valid_merkle_branch(leaf, branch, depth, index, root) ==
    LET value[i \in 0 .. depth] ==
            IF i = 0 THEN leaf
            ELSE hash_pair(value[i - 1], branch[i], (index \div 2 ^ (i - 1)) % 2 = 0)
    IN  Len(branch) = depth /\ value[depth] = root

\* The proofs that the extrinsics ask for: the chunks of the container, the depth and
\* index they pass, and the positions that hold what they want. The two extrinsics with a
\* proof of the block roots pass the index as the depth and the depth as the index.
proofs(slot) == [
    current_sync_committee |->
        [row |-> StateRow, depth |-> CURRENT_SYNC_COMMITTEE_DEPTH,
         index |-> CURRENT_SYNC_COMMITTEE_INDEX,
         wanted |-> {position(BeaconState, "current_sync_committee")}],
    next_sync_committee |->
        [row |-> StateRow, depth |-> NEXT_SYNC_COMMITTEE_DEPTH,
         index |-> NEXT_SYNC_COMMITTEE_INDEX,
         wanted |-> {position(BeaconState, "next_sync_committee")}],
    finality |->
        [row |-> StateHalves, depth |-> FINALIZED_ROOT_DEPTH, index |-> FINALIZED_ROOT_INDEX,
         wanted |-> {2 * position(BeaconState, "finalized_checkpoint") + 1}],
    block_roots |->
        [row |-> StateRow, depth |-> BLOCK_ROOTS_INDEX, index |-> BLOCK_ROOTS_DEPTH,
         wanted |-> {position(BeaconState, "block_roots")}],
    execution_payload |->
        [row |-> BodyRow, depth |-> EXECUTION_HEADER_DEPTH, index |-> EXECUTION_HEADER_INDEX,
         wanted |-> {position(BeaconBlockBody, "execution_payload")}],
    block_root |->
        [row |-> BlockRootsRow, depth |-> BLOCK_ROOT_AT_INDEX_PROOF_DEPTH,
         index |-> SLOTS_PER_HISTORICAL_ROOT + (slot % SLOTS_PER_HISTORICAL_ROOT),
         wanted |-> {p \in 0 .. SLOTS_PER_HISTORICAL_ROOT - 1 :
                        BlockRootsRow[p + 1].block = slot}]]

\* Mutant: the first bit of a byte is its most significant one.
bit_of_msb(bytes, i) == (bytes[i \div ByteBits + 1] \div 2 ^ (ByteBits - 1 - (i % ByteBits))) % 2

\* Bit i of a bit vector, which starts at the least significant bit of the first byte.
bit_of(bytes, i) == (bytes[i \div ByteBits + 1] \div 2 ^ (i % ByteBits)) % 2

InvalidBits == <<>>

\* Bitvector::deserialize wants the exact number of bytes and no bit beyond the size.
get_sync_committee_bits(bytes) ==
    LET bits == ByteBits * Len(bytes)
    IN  IF Len(bytes) # (SYNC_COMMITTEE_SIZE + ByteBits - 1) \div ByteBits
           \/ \E i \in SYNC_COMMITTEE_SIZE .. bits - 1 : bit_of(bytes, i) = 1
        THEN InvalidBits
        ELSE [i \in 1 .. SYNC_COMMITTEE_SIZE |-> bit_of(bytes, i - 1)]

get_sync_committee_sum(sync_committee_bits) == FoldLeft(+, 0, sync_committee_bits)

sync_committee_participation_is_supermajority(sync_committee_bits) ==
    get_sync_committee_sum(sync_committee_bits) * 3 >= Len(sync_committee_bits) * 2

\* The keys whose signatures verify_signed_header aggregates.
participant_pubkeys(sync_committee_bits, pubkeys) ==
    {pubkeys[i] : i \in {j \in DOMAIN sync_committee_bits : sync_committee_bits[j] = 1}}

\* Mutant: altair is looked at first.
compute_fork_version_altair(epoch) ==
    IF epoch >= ForkVersions.altair THEN "altair"
    ELSE IF epoch >= ForkVersions.bellatrix THEN "bellatrix"
    ELSE "genesis"

compute_fork_version(epoch) ==
    IF epoch >= ForkVersions.bellatrix THEN "bellatrix"
    ELSE IF epoch >= ForkVersions.altair THEN "altair"
    ELSE "genesis"

compute_epoch_at_slot(signature_slot) == signature_slot \div SLOTS_PER_EPOCH

hash_tree_root_beacon_header(h) ==
    merkleize(padded(<<[slot |-> h.slot], [proposer_index |-> h.proposer_index],
                       h.parent_root, h.state_root, h.body_root>>, 3))

hash_tree_root_fork_data(version, validators_root) ==
    merkleize(<<[version |-> version], validators_root>>)

\* Four bytes of the type and 28 of the root, which stand for the whole root.
compute_domain(fork_version, validators_root) ==
    [type |-> "DOMAIN_SYNC_COMMITTEE",
     root |-> hash_tree_root_fork_data(fork_version, validators_root)]

compute_signing_root(header, domain) == merkleize(<<hash_tree_root_beacon_header(header), domain>>)

\* The message that verify_signed_header has the aggregate signature checked against.
signing_root(header, validators_root, signature_slot) ==
    compute_signing_root(header,
        compute_domain(compute_fork_version(compute_epoch_at_slot(signature_slot)),
                       validators_root))

----------------------------------------------------------------------------
Bytes == 0 .. 2 ^ ByteBits - 1
Asked == {[kind |-> k, slot |-> 0] : k \in DOMAIN proofs(0) \ {"block_root"}}
             \cup [kind : {"block_root"},
                   slot : (MaxSlot + 1 - SLOTS_PER_HISTORICAL_ROOT) .. MaxSlot]

Init ==
    \/ asked \in Asked /\ place = 0 /\ bits_hex = <<>>
    \/ asked = [kind |-> "finality", slot |-> 0] /\ place = 0
       /\ bits_hex \in UNION {[1 .. l -> Bytes] : l \in 1 .. MaxBytes}

Next ==
    /\ bits_hex = <<>>
    /\ place + 1 < Len(proofs(asked.slot)[asked.kind].row)
    /\ place' = place + 1
    /\ UNCHANGED <<asked, bits_hex>>

\* With the depths and indices of config.rs a branch proves the one item that the
\* extrinsic takes from it (a committee, the finalized root, the block roots, the
\* execution payload, the root at the slot of a header) and nothing else: not the item at
\* another place of the container, not another leaf, not from a branch cut short.
BranchExact ==
    LET p == proofs(asked.slot)[asked.kind]
        branch == branchAt(p.row, place)
        valid(leaf, b) == is_valid_merkle_branch(leaf, b, p.depth, p.index, merkleize(p.row))
    IN  /\ valid(p.row[place + 1], branch) <=> place \in p.wanted
        /\ ~valid(Field("forged"), branch)
        /\ ~valid(sha2_256(p.row[place + 1], branch[1]), Tail(branch))

\* A byte string is refused, or its bits, their sum and the aggregated keys agree with
\* the members it names, the n-th bit counted from the least significant one of the
\* first byte: participation passes exactly with two thirds of the committee.
ParticipantsExact ==
    LET bits == get_sync_committee_bits(bits_hex)
        pubkeys == [i \in 1 .. SYNC_COMMITTEE_SIZE |-> i]
        signers == participant_pubkeys(bits, pubkeys)
        number == FoldLeft(LAMBDA acc, byte : acc * 2 ^ ByteBits + byte, 0, Reverse(bits_hex))
        members == {i \in 1 .. SYNC_COMMITTEE_SIZE : (number \div 2 ^ (i - 1)) % 2 = 1}
        wellFormed == /\ Len(bits_hex) = (SYNC_COMMITTEE_SIZE + ByteBits - 1) \div ByteBits
                      /\ number < 2 ^ SYNC_COMMITTEE_SIZE
    IN  /\ bits # InvalidBits <=> wellFormed
        /\ wellFormed =>
               /\ signers = members
               /\ sync_committee_participation_is_supermajority(bits)
                      <=> 3 * Cardinality(signers) >= 2 * SYNC_COMMITTEE_SIZE

\* What a signature is checked against pins down every field of the header, the chain
\* (by its validators root) and the fork, which is the last one to have started in the
\* epoch of the signature's slot: a signature for one is none for another, on either side
\* of a fork's first slot.
SigningRootExact ==
    LET headers == [slot : {asked.slot, 0}, proposer_index : 0 .. 1, parent_root : {Field("p"), Zero},
                    state_root : {Field("s"), Zero}, body_root : {Field("b"), Zero}]
        starts == [genesis |-> 0, altair |-> SLOTS_PER_EPOCH * ForkVersions.altair,
                   bellatrix |-> SLOTS_PER_EPOCH * ForkVersions.bellatrix]
        started(slot) == {f \in DOMAIN starts : starts[f] <= slot}
    IN  bits_hex = <<>> /\ place = 0 /\ asked.kind = "block_root" =>
            \A g, h \in headers, u, v \in {Field("main"), Field("test")}, slot \in 0 .. MaxSlot :
                signing_root(g, u, asked.slot) = signing_root(h, v, slot)
                    <=> g = h /\ u = v /\ started(asked.slot) = started(slot)

\* What the client reads from a branch, from the bits of an aggregate and from a signature
\* is what the beacon chain wrote, and nothing else passes for it.
ReadsExactly == BranchExact /\ ParticipantsExact /\ SigningRootExact
=============================================================================
