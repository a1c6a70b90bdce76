------------------------ MODULE BasicOutboundChannel ------------------------
(***************************************************************************)
(* The parachain's outbound channel (basic-channel/src/outbound/mod.rs).   *)
(* Messages queue up during a block; when the block has weight left,       *)
(* on_idle commits the whole queue in the block's header digest.           *)
(* A message's payload is a function of its source and nonce.              *)
(***************************************************************************)
EXTENDS Naturals, Sequences, FiniteSets

CONSTANTS
    Sources,                 \* accounts that send messages
    MaxMessagesPerCommit,
    MaxNonce,                \* u64::MAX
    MaxMessages,             \* bound on the messages of all sources
    MaxParaBlocks            \* bound on the parachain's height

VARIABLES
    sourceToken,             \* ethabi's token of a source id in a leaf, see into
    messageQueue,
    paraNonce,               \* Nonce: source -> next nonce
    paraBlocks               \* history: what each block committed, and Nonce after it

Message == [source : Sources, nonce : 0 .. MaxNonce]

\* A message's leaf in the tree of its commitment.  The code has Token::Bytes for the source
\* id, a string of bytes with an offset and a length before it.
into(m) == [source |-> <<sourceToken, m.source>>, nonce |-> m.nonce]

OutboundInit ==
    /\ messageQueue = <<>>
    /\ paraNonce = [s \in Sources |-> 0]
    /\ paraBlocks = <<>>

\* The message carries the nonce read before the increment.  The chain being bounded, only
\* what a block is left to commit is of interest.
submit(s) ==
    /\ Len(paraBlocks) < MaxParaBlocks
    /\ Cardinality({m \in Message : m.nonce < paraNonce[m.source]}) < MaxMessages
    /\ Len(messageQueue) < MaxMessagesPerCommit
    /\ paraNonce[s] < MaxNonce
    /\ messageQueue' = Append(messageQueue, [source |-> s, nonce |-> paraNonce[s]])
    /\ paraNonce' = [paraNonce EXCEPT ![s] = @ + 1]
    /\ UNCHANGED paraBlocks

sealBlock(committed) ==
    /\ Len(paraBlocks) < MaxParaBlocks
    /\ paraBlocks' = Append(paraBlocks, [messages |-> committed, nonce |-> paraNonce])

\* An empty queue leaves no digest item in the header.
commit ==
    /\ sealBlock(messageQueue)
    /\ messageQueue' = <<>>
    /\ UNCHANGED paraNonce

\* The block ends with too little weight left for a commitment.
skipCommit ==
    /\ messageQueue # <<>>
    /\ sealBlock(<<>>)
    /\ UNCHANGED <<messageQueue, paraNonce>>

on_idle == commit \/ skipCommit
=============================================================================
