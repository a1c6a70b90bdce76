--------------------------- MODULE ExecutionRelay ---------------------------
(***************************************************************************)
(* The execution relay (relays/execution) and its parachain writer, any    *)
(* number of them, on top of EthereumChannel.  A relay serves the accounts *)
(* it is configured with.  At start it reads how far the pallet is, sends  *)
(* what is left of that block, and then follows LatestExecutionHeader.  It *)
(* sends one message at a time, waits until the extrinsic is in a block    *)
(* and compares the pallet's nonce with the message's; any error ends the  *)
(* process, which a script starts again.  All of its state is volatile.    *)
(***************************************************************************)
EXTENDS EthereumChannel

CONSTANTS
    Relays,
    addresses,               \* relay -> accounts it is configured with
    MaxCrashes, MaxDrops

ASSUME RelayAssumption == addresses \in [Relays -> SUBSET Accounts]

VARIABLES
    pc,                      \* "down", "resume", "write", "watch", "check" or "poll"
    lastSyncedBasicBlock,
    end,                     \* last block of the messages being written
    todo,                    \* messages to write
    pool,                    \* relay's account -> its extrinsics not yet in a block
    nonceBehind,             \* an extrinsic of an earlier process used the writer's nonce
    crashes, drops

relayVars == <<pc, lastSyncedBasicBlock, end, todo>>
poolVars == <<pool, nonceBehind>>
vars == <<channelVars, relayVars, poolVars, crashes, drops>>

Init ==
    /\ ChannelInit
    /\ pc = [r \in Relays |-> "down"]
    /\ lastSyncedBasicBlock = [r \in Relays |-> 0]
    /\ end = [r \in Relays |-> 0]
    /\ todo = [r \in Relays |-> <<>>]
    /\ pool = [r \in Relays |-> <<>>]
    /\ nonceBehind = [r \in Relays |-> FALSE]
    /\ crashes = 0 /\ drops = 0

\* SelectSeq with the test given as a set.
Select(s, S) ==
    LET chosen[i \in 0 .. Len(s)] ==
            IF i = 0 THEN <<>>
            ELSE IF s[i] \in S THEN Append(chosen[i - 1], s[i]) ELSE chosen[i - 1]
    IN  chosen[Len(s)]

\* Events of the accounts in the set, of blocks first to last.
ProcessBasicEvents(first, last, accounts) ==
    Select(log, {m \in Emitted : m.account \in accounts /\ m.block \in first .. last})

filterMessagesByLastNonces(messages) ==
    Select(messages, {m \in Emitted : m.nonce > Nonce[m.account]})

\* The process ends; what it sent stays in the pool.
terminate(r) ==
    /\ pc' = [pc EXCEPT ![r] = "down"]
    /\ lastSyncedBasicBlock' = [lastSyncedBasicBlock EXCEPT ![r] = 0]
    /\ end' = [end EXCEPT ![r] = 0]
    /\ todo' = [todo EXCEPT ![r] = <<>>]

\* writeBasicMessages: the messages left to write, then back to polling.
write(r, messages, last) ==
    /\ todo' = [todo EXCEPT ![r] = messages]
    /\ IF messages = <<>>
       THEN /\ pc' = [pc EXCEPT ![r] = "poll"]
            /\ lastSyncedBasicBlock' = [lastSyncedBasicBlock EXCEPT ![r] = last]
            /\ end' = [end EXCEPT ![r] = 0]
       ELSE /\ pc' = [pc EXCEPT ![r] = "write"]
            /\ end' = [end EXCEPT ![r] = last]
            /\ UNCHANGED lastSyncedBasicBlock

\* Mutant: the writer goes on with the nonce of the earlier process.
Start_stale(r) ==
    /\ pc[r] = "down"
    /\ pc' = [pc EXCEPT ![r] = "resume"]
    /\ end' = [end EXCEPT ![r] = LatestVerifiedBlockNumber]
    /\ UNCHANGED <<channelVars, lastSyncedBasicBlock, todo, poolVars, crashes, drops>>

\* The writer reads the account's nonce, the relay LatestVerifiedBlockNumber.
Start(r) ==
    /\ pc[r] = "down"
    /\ pc' = [pc EXCEPT ![r] = "resume"]
    /\ end' = [end EXCEPT ![r] = LatestVerifiedBlockNumber]
    /\ nonceBehind' = [nonceBehind EXCEPT ![r] = FALSE]
    /\ UNCHANGED <<channelVars, lastSyncedBasicBlock, todo, pool, crashes, drops>>

\* The pallet's nonces are read, and the block read above is looked at again.
syncUnprocessedBasicMessages(r) ==
    LET known == {a \in addresses[r] : Nonce[a] # 0}
    IN  /\ pc[r] = "resume"
        /\ write(r, filterMessagesByLastNonces(ProcessBasicEvents(end[r], end[r], known)), end[r])
        /\ UNCHANGED <<channelVars, poolVars, crashes, drops>>

syncBasic(r) ==
    /\ pc[r] = "poll"
    /\ LatestExecutionHeader > lastSyncedBasicBlock[r]
    /\ write(r, ProcessBasicEvents(lastSyncedBasicBlock[r] + 1, LatestExecutionHeader,
                                   addresses[r]),
                LatestExecutionHeader)
    /\ UNCHANGED <<channelVars, poolVars, crashes, drops>>

\* The node refuses an extrinsic whose nonce is used, or taken by one in the pool.
WriteToParachainAndWatch(r) ==
    /\ pc[r] = "write"
    /\ IF pool[r] = <<>> /\ ~nonceBehind[r]
       THEN /\ pool' = [pool EXCEPT ![r] = <<Head(todo[r])>>]
            /\ pc' = [pc EXCEPT ![r] = "watch"]
            /\ UNCHANGED <<lastSyncedBasicBlock, end, todo>>
       ELSE terminate(r) /\ UNCHANGED pool
    /\ UNCHANGED <<channelVars, nonceBehind, crashes, drops>>

\* Mutant: the extrinsic's failure is taken for success.
checkMessageVerificationResult_never(r) ==
    /\ pc[r] = "check"
    /\ write(r, Tail(todo[r]), end[r])
    /\ UNCHANGED <<channelVars, poolVars, crashes, drops>>

checkMessageVerificationResult(r) ==
    /\ pc[r] = "check"
    /\ IF Nonce[Head(todo[r]).account] = Head(todo[r]).nonce
       THEN write(r, Tail(todo[r]), end[r])
       ELSE terminate(r)
    /\ UNCHANGED <<channelVars, poolVars, crashes, drops>>

\* A parachain block has the extrinsic.
include(r) ==
    /\ pool[r] # <<>>
    /\ inboundSubmit(Head(pool[r]))
    /\ pool' = [pool EXCEPT ![r] = <<>>]
    /\ IF pc[r] = "watch"
       THEN pc' = [pc EXCEPT ![r] = "check"] /\ UNCHANGED nonceBehind
       ELSE nonceBehind' = [nonceBehind EXCEPT ![r] = TRUE] /\ UNCHANGED pc
    /\ UNCHANGED <<ethereumVars, clientVars, lastSyncedBasicBlock, end, todo, crashes, drops>>

\* The node drops the extrinsic from its pool.
drop(r) ==
    /\ drops < MaxDrops /\ pool[r] # <<>>
    /\ pool' = [pool EXCEPT ![r] = <<>>]
    /\ drops' = drops + 1
    /\ IF pc[r] = "watch" THEN terminate(r) ELSE UNCHANGED relayVars
    /\ UNCHANGED <<channelVars, nonceBehind, crashes>>

crash(r) ==
    /\ crashes < MaxCrashes /\ pc[r] # "down"
    /\ crashes' = crashes + 1
    /\ terminate(r)
    /\ UNCHANGED <<channelVars, poolVars, drops>>

\* What happens on the two chains whatever the relays do.
Chains ==
    /\ \/ \E a \in Accounts : submit(a)
       \/ sealBlock
       \/ \E n \in 1 .. MaxBlock : import_execution_header(n)
    /\ UNCHANGED <<relayVars, poolVars, crashes, drops>>

Relay(r) ==
    \/ Start(r) \/ syncUnprocessedBasicMessages(r) \/ syncBasic(r)
    \/ WriteToParachainAndWatch(r) \/ checkMessageVerificationResult(r)

Next ==
    \/ Chains
    \/ \E r \in Relays : Relay(r) \/ include(r) \/ drop(r) \/ crash(r)

Spec == Init /\ [][Next]_vars

\* Blocks are produced and headers imported; a relay that is up goes on and one that
\* is down is started again; an extrinsic that is not dropped gets into a block.
LiveSpec ==
    /\ Spec
    /\ WF_vars(sealBlock /\ UNCHANGED <<relayVars, poolVars, crashes, drops>>)
    /\ WF_vars((\E n \in 1 .. MaxBlock : import_execution_header(n))
                   /\ UNCHANGED <<relayVars, poolVars, crashes, drops>>)
    /\ \A r \in Relays : WF_vars(Relay(r)) /\ WF_vars(include(r))

----------------------------------------------------------------------------
\* Whatever relays crash, repeat or overtake one another, what the pallet dispatches for
\* an account is the contract's messages for it, each once, in the order of their
\* nonces, and each from a block whose header was stored.
DispatchedOnceInOrder ==
    \A a \in Accounts :
        /\ Len(dispatched[a]) = Nonce[a] /\ Nonce[a] <= outNonce[a]
        /\ \A i \in 1 .. Len(dispatched[a]) :
               /\ dispatched[a][i].account = a /\ dispatched[a][i].nonce = i
               /\ verify(dispatched[a][i])

\* Whatever becomes of its call, every message that the pallet takes is answered by one
\* event with its id, in the order of the nonces: a call that cannot be decoded, is
\* filtered or fails is none that succeeded, and holds up no message after it.
AnsweredInOrder ==
    \A a \in Accounts :
        /\ Len(dispatchEvents[a]) = Nonce[a]
        /\ \A i \in DOMAIN dispatchEvents[a] :
               /\ dispatchEvents[a][i].id = <<a, i>>
               /\ dispatchEvents[a][i].event = "MessageDispatched(Ok)"
                      <=> payload[<<a, i>>] = "succeeding"

\* A relay that polls from block n on has left nothing behind: the messages of its
\* accounts up to block n have been accepted by the pallet.
SyncedIsDispatched ==
    \A r \in Relays :
        pc[r] = "poll" =>
            \A m \in Emitted :
                m.account \in addresses[r] /\ m.block <= lastSyncedBasicBlock[r]
                    => m.nonce <= Nonce[m.account]

\* The light client has passed over the block of one of the account's first n messages.
PassedOver(a, n) ==
    \E m \in Emitted :
        /\ m.account = a /\ m.nonce <= n
        /\ m.block < LatestExecutionHeader /\ m.block \notin ExecutionHeaders

\* docs/architecture/overview.md:33: "so long as someone is willing to run the software
\* to relay the message and pay gas fees, it will be processed successfully and go
\* through", unless no header proves it or one before it.  (Each part of it that holds once
\* holds from then on: a message emitted is dispatched in the end.)
EmittedIsDispatched ==
    []<>(\A a \in UNION {addresses[r] : r \in Relays} : \A n \in 1 .. outNonce[a] :
             Nonce[a] >= n \/ PassedOver(a, n))
=============================================================================
