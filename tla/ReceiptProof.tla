---------------------------- MODULE ReceiptProof ----------------------------
(***************************************************************************)
(* Receipt proofs (primitives/ethereum/src/header.rs, mpt.rs, receipt.rs,  *)
(* log.rs, and the copy of check_receipt_proof in primitives/beacon): both *)
(* light clients accept an event when a list of trie nodes leads from the  *)
(* header's receipts root to a receipt that contains the event's log.      *)
(*                                                                         *)
(* The trie is Ethereum's Merkle Patricia trie of a block's receipts, with *)
(* the RLP of a transaction's index as key.  Receipts are longer than 32   *)
(* bytes, so that every child is referred to by its hash.                  *)
(***************************************************************************)
EXTENDS Naturals, Sequences, SequencesExt, FiniteSets

CONSTANTS
    ReceiptCounts,           \* numbers of receipts in a block
    ProofLength,             \* bound on the proofs made of arbitrary nodes
    MixedCounts              \* counts for which those are tried

VARIABLE receipts            \* number of receipts in the block

Nibbles == 0 .. 15

\* The bytes of a node and their hash; a hash is 32 bytes, Empty none.
keccak_256(bytes) == [hash |-> bytes]
Empty == [empty |-> TRUE]

ShortNode(key, value) == [items |-> 2, key |-> key, value |-> value]
FullNode(children) == [items |-> 17, children |-> children]

----------------------------------------------------------------------------
(* The trie of a block.                                                    *)

\* A block's i-th receipt: legacy or typed (EIP-2930, EIP-1559), or of a type that
\* Receipt.decode does not know.
Receipt(i, forged) ==
    [type |-> IF i % 5 = 4 THEN 3 ELSE i % 3, logs |-> IF forged THEN <<>> ELSE <<i>>]

\* rlp(i), in nibbles.
KeyOf(i) ==
    IF i = 0 THEN <<8, 0>>
    ELSE IF i < 128 THEN <<i \div 16, i % 16>>
    ELSE <<8, 1, i \div 16, i % 16>>

\* The node for items, a set of keys with values, with the keys' first d nibbles left out.
RECURSIVE Trie(_, _)
Trie(items, d) ==
    LET item == CHOOSE x \in items : TRUE
        at(n) == {x \in items : x.key[d + 1] = n}
        shared == CHOOSE e \in 0 .. Len(item.key) - d :
            /\ \A x \in items : SubSeq(x.key, d + 1, d + e) = SubSeq(item.key, d + 1, d + e)
            /\ e = Len(item.key) - d
               \/ \E x \in items : x.key[d + e + 1] # item.key[d + e + 1]
    IN  IF Cardinality(items) = 1
        THEN ShortNode(SubSeq(item.key, d + 1, Len(item.key)), item.value)
        ELSE IF shared > 0
        THEN ShortNode(SubSeq(item.key, d + 1, d + shared), keccak_256(Trie(items, d + shared)))
        ELSE FullNode([n \in Nibbles |->
                          IF at(n) = {} THEN Empty ELSE keccak_256(Trie(at(n), d + 1))])

Items(count, forged) == {[key |-> KeyOf(i), value |-> Receipt(i, i = forged)] : i \in 0 .. count - 1}

\* The nodes from a node to the item with the given rest of its key.
RECURSIVE PathTo(_, _)
PathTo(node, rest) ==
    IF node.items = 17
    THEN <<node>> \o PathTo(node.children[rest[1]].hash, Tail(rest))
    ELSE IF node.key = rest THEN <<node>>
    ELSE <<node>> \o PathTo(node.value.hash, SubSeq(rest, Len(node.key) + 1, Len(rest)))

----------------------------------------------------------------------------
(* mpt.rs, header.rs and receipt.rs                                        *)

\* Mutant: a short node holds no hash.
contains_hash_full(node, hash) == node.items = 17 /\ \E n \in Nibbles : node.children[n] = hash

contains_hash(node, hash) ==
    \/ node.items = 17 /\ \E n \in Nibbles : node.children[n] = hash
    \/ node.items = 2 /\ node.value = hash

None == [none |-> TRUE]

\* Mutant: a node may follow any other.
linked_loose(bytes, expected_hash) == TRUE

linked(bytes, expected_hash) == contains_hash(bytes, expected_hash)

\* ShortNode.decode takes the first two items of any list for a key and a value: of a full
\* node, its first two children.
decode_value(node) == IF node.items = 2 THEN node.value ELSE node.children[1]

\* From the last node, decoded as a short one, up to the first.
apply_merkle_proof(proof) ==
    LET item_to_prove == Last(proof)
    IN  IF proof = <<>> THEN None
        ELSE IF \E k \in 1 .. Len(proof) - 1 : ~linked(proof[k], keccak_256(proof[k + 1]))
        THEN None
        ELSE [root |-> keccak_256(proof[1]), data |-> decode_value(item_to_prove)]

\* rlp::decode of a receipt: a list, or a list after the byte 1 or 2.  A hash is neither.
decode_receipt(data) ==
    IF "type" \in DOMAIN data /\ data.type \in {0, 1, 2} THEN data ELSE None

check_receipt_proof(receipts_root, proof) ==
    LET applied == apply_merkle_proof(proof)
    IN  IF applied = None \/ applied.root # receipts_root THEN None
        ELSE decode_receipt(applied.data)

contains_log(receipt, log) == \E i \in DOMAIN receipt.logs : receipt.logs[i] = log

----------------------------------------------------------------------------
Init == receipts \in ReceiptCounts

\* The proof that the relayer sends for each receipt of the block, whatever the shape
\* of the trie, yields that receipt and its log; only a receipt of an unknown type
\* cannot be decoded.
ReceiptProofComplete ==
    LET trie == Trie(Items(receipts, receipts), 0)
    IN  \A i \in 0 .. receipts - 1 :
            LET receipt == Receipt(i, FALSE)
                checked == check_receipt_proof(keccak_256(trie), PathTo(trie, KeyOf(i)))
            IN  IF receipt.type = 3 THEN checked = None
                ELSE checked = receipt /\ contains_log(checked, i)

\* Whatever list of nodes is sent, of this block's trie or of another one, a receipt
\* that check_receipt_proof yields is a receipt of the block.
ReceiptProofSound ==
    LET trie == Trie(Items(receipts, receipts), 0)
        other == Trie(Items(receipts, receipts - 1), 0)
        ends == {0, receipts - 1}
        known == UNION {Range(PathTo(t, KeyOf(i))) : t \in {trie, other}, i \in ends}
    IN  receipts \in MixedCounts =>
            \A proof \in UNION {[1 .. l -> known] : l \in 0 .. ProofLength} :
                LET checked == check_receipt_proof(keccak_256(trie), proof)
                IN  checked = None \/ \E i \in 0 .. receipts - 1 : checked = Receipt(i, FALSE)

\* A proof yields the receipts of the block and no others.
ReceiptProofExact == ReceiptProofComplete /\ ReceiptProofSound
=============================================================================
