------------------------ MODULE BasicInboundChannel ------------------------
(***************************************************************************)
(* The inbound channel on Ethereum (BasicInboundChannel.sol).  provable is *)
(* the set of leaves whose proof and header proof lead to the MMR root     *)
(* stored in BeefyClient (ParachainClient.verifyCommitment).  A call is    *)
(* taken to come with enough gas (line 39).                                *)
(***************************************************************************)
EXTENDS Naturals, Sequences

CONSTANT Sources

VARIABLES
    ethNonce,                \* nonce: source -> last nonce dispatched
    dispatched               \* history: MessageDispatched events of each source

InboundInit ==
    /\ ethNonce = [s \in Sources |-> 0]
    /\ dispatched = [s \in Sources |-> <<>>]

\* abi.encode(message): sourceID is a bytes32, the word itself.
leaf(message) == [source |-> <<"FixedBytes", message.source>>, nonce |-> message.nonce]

accepts(message, provable) ==
    /\ leaf(message) \in provable
    /\ message.nonce = ethNonce[message.source] + 1

\* The event names the source and the nonce.
dispatch(message) ==
    dispatched' = [dispatched EXCEPT ![message.source] =
                       Append(@, [source |-> message.source, nonce |-> message.nonce])]

\* Mutant: any unused nonce is accepted.
submit_gaps(message, provable) ==
    /\ leaf(message) \in provable
    /\ message.nonce > ethNonce[message.source]
    /\ ethNonce' = [ethNonce EXCEPT ![message.source] = message.nonce]
    /\ dispatch(message)

submit(message, provable) ==
    /\ accepts(message, provable)
    /\ ethNonce' = [ethNonce EXCEPT ![message.source] = @ + 1]
    /\ dispatch(message)
=============================================================================
