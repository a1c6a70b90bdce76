-------------------------- MODULE EthereumChannel --------------------------
(***************************************************************************)
(* The two ends of the basic channel from Ethereum to the parachain: the   *)
(* contract BasicOutboundChannel, which numbers the messages of each       *)
(* account, and the inbound pallet, which takes a message that is in a     *)
(* block whose execution header the beacon light client has stored.        *)
(*                                                                         *)
(* A message is the log entry of its event.  Its proof is the block it is  *)
(* in: receipts are a function of the block.  Only finalized blocks        *)
(* matter, so the Ethereum chain has no forks here.                        *)
(***************************************************************************)
EXTENDS Integers, Sequences, FiniteSets

CONSTANTS
    Accounts,
    MaxMessages,             \* bound on events
    MaxBlock,                \* last block that may hold an event
    MaxGap,                  \* execution headers that may be passed over at a time
    payload                  \* message id -> what the dispatch pallet makes of the payload

MessageId == Accounts \X (1 .. MaxMessages)

Payloads == {"undecodable", "filtered", "failing", "succeeding"}

ASSUME ChannelAssumption == MaxMessages \in Nat /\ MaxBlock \in Nat /\ MaxGap \in Nat

ASSUME PayloadAssumption == payload \in [MessageId -> Payloads]

Message == [account : Accounts, nonce : Nat, block : Nat]

VARIABLES
    block,                   \* number of the block being built
    log,                     \* Message events of the contract, oldest first
    outNonce,                \* the contract's nonce
    ExecutionHeaders,        \* numbers of the blocks whose header is stored
    LatestExecutionHeader,
    Nonce,                   \* the pallet's nonce
    LatestVerifiedBlockNumber,
    dispatched,              \* account -> messages given to the dispatch pallet
    dispatchEvents           \* account -> the dispatch pallet's events

ethereumVars == <<block, log, outNonce>>
clientVars == <<ExecutionHeaders, LatestExecutionHeader>>
palletVars == <<Nonce, LatestVerifiedBlockNumber, dispatched, dispatchEvents>>
channelVars == <<ethereumVars, clientVars, palletVars>>

ChannelInit ==
    /\ block = 1 /\ log = <<>> /\ outNonce = [a \in Accounts |-> 0]
    /\ ExecutionHeaders = {} /\ LatestExecutionHeader = 0
    /\ Nonce = [a \in Accounts |-> 0] /\ LatestVerifiedBlockNumber = 0
    /\ dispatched = [a \in Accounts |-> <<>>]
    /\ dispatchEvents = [a \in Accounts |-> <<>>]

Emitted == {log[i] : i \in DOMAIN log}

\* BasicOutboundChannel.submit, by an operator of the account.
submit(a) ==
    /\ block <= MaxBlock /\ Len(log) < MaxMessages
    /\ outNonce' = [outNonce EXCEPT ![a] = @ + 1]
    /\ log' = Append(log, [account |-> a, nonce |-> outNonce[a] + 1, block |-> block])
    /\ UNCHANGED <<block, clientVars, palletVars>>

sealBlock ==
    /\ block <= MaxBlock
    /\ block' = block + 1
    /\ UNCHANGED <<log, outNonce, clientVars, palletVars>>

\* The light client stores the header of a later block; it does not ask for every one.
import_execution_header(n) ==
    /\ n < block
    /\ n > LatestExecutionHeader /\ n - LatestExecutionHeader <= MaxGap + 1
    /\ ExecutionHeaders' = ExecutionHeaders \cup {n}
    /\ LatestExecutionHeader' = n
    /\ UNCHANGED <<ethereumVars, palletVars>>

verify(m) == m \in Emitted /\ m.block \in ExecutionHeaders

\* Mutant: a message may come again.
acceptable_again(m) == verify(m) /\ m.nonce <= Nonce[m.account] + 1

acceptable(m) == verify(m) /\ m.nonce = Nonce[m.account] + 1

\* Mutant: the filter is not asked.
outcome_unfiltered(id) ==
    IF payload[id] = "undecodable" THEN "MessageDecodeFailed"
    ELSE IF payload[id] = "failing" THEN "MessageDispatched(Err)"
    ELSE "MessageDispatched(Ok)"

\* The event of the dispatch pallet for a message.
outcome(id) ==
    IF payload[id] = "undecodable" THEN "MessageDecodeFailed"
    ELSE IF payload[id] = "filtered" THEN "MessageRejected"
    ELSE IF payload[id] = "failing" THEN "MessageDispatched(Err)"
    ELSE "MessageDispatched(Ok)"

dispatch(m) ==
    LET id == <<m.account, m.nonce>>
    IN  /\ dispatched' = [dispatched EXCEPT ![m.account] = Append(@, m)]
        /\ dispatchEvents' = [dispatchEvents EXCEPT ![m.account] =
                                  Append(@, [id |-> id, event |-> outcome(id)])]

\* The inbound pallet's submit: what the dispatched call returns is not looked at.
inboundSubmit(m) ==
    IF acceptable(m)
    THEN /\ Nonce' = [Nonce EXCEPT ![m.account] = @ + 1]
         /\ dispatch(m)
         /\ LatestVerifiedBlockNumber' = m.block
    ELSE UNCHANGED palletVars
=============================================================================
