------------------------ MODULE ParachainToEthereum ------------------------
(***************************************************************************)
(* Messages from the parachain to Ethereum: the outbound pallet, the       *)
(* parachain relay and the inbound contract, with BEEFY roots arriving in  *)
(* BeefyClient at any time (their safety is the subject of BeefyClient).   *)
(* A root at which parachain block h is included makes the commitments of  *)
(* blocks 1 .. h provable and every older proof useless, since             *)
(* verifyMMRLeafProof looks at the latest root only.                       *)
(***************************************************************************)
EXTENDS ParachainRelay

CONSTANTS
    MaxMessagesPerCommit, MaxNonce, MaxMessages, MaxParaBlocks,
    SourceTokens,            \* encodings of a source id to look at: the pallet has Bytes, the
                             \* contract reads what FixedBytes writes
    MaxEvents,               \* NewMMRRoot events waiting for the listener
    MaxRaces,                \* roots that overtake a proof in flight
    MaxStops                 \* crashes of the relay

VARIABLES messageQueue, paraNonce, dispatched, races, stops

Out == INSTANCE BasicOutboundChannel
In == INSTANCE BasicInboundChannel

outVars == <<sourceToken, messageQueue, paraNonce, paraBlocks>>
inVars == <<ethNonce, dispatched>>
vars == <<outVars, inVars, relayVars, estimatesGas, beefyHead, races, stops>>

Init ==
    /\ sourceToken \in SourceTokens
    /\ Out!OutboundInit
    /\ In!InboundInit
    /\ RelayInit
    /\ estimatesGas \in BOOLEAN
    /\ beefyHead = 0
    /\ races = 0 /\ stops = 0

\* The messages whose proofs lead to a root at which block head is included.
Committed(head) ==
    {m \in Out!Message :
        \E i \in 1 .. head : \E j \in DOMAIN paraBlocks[i].messages :
            m = paraBlocks[i].messages[j]}

provable(tx) == IF tx.fresh THEN {Out!into(m) : m \in Committed(beefyHead)} ELSE {}

Parachain ==
    /\ \/ \E s \in Sources : Out!submit(s)
       \/ Out!on_idle
    /\ UNCHANGED <<sourceToken, inVars, relayVars, beefyHead, races, stops>>

ListenerStep ==
    /\ \/ startScan \/ subscribe \/ handleNewMMRRoot
       \/ generateProof \/ emitTask
    /\ UNCHANGED <<outVars, inVars, beefyHead, races, stops>>

WriterStep ==
    /\ takeTask \/ WriteBasicChannel \/ writeFails
    /\ UNCHANGED <<outVars, inVars, beefyHead, races, stops>>

Crash ==
    /\ stops < MaxStops
    /\ stop
    /\ stops' = stops + 1
    /\ UNCHANGED <<outVars, inVars, beefyHead, races>>

Restart ==
    /\ restart
    /\ UNCHANGED <<outVars, inVars, beefyHead, races, stops>>

Stale(inFlight) == [i \in DOMAIN inFlight |-> [inFlight[i] EXCEPT !.fresh = FALSE]]

FreshInFlight ==
    \E inFlight \in {proven, tasks, writing, mempool} :
        \E i \in DOMAIN inFlight : inFlight[i].fresh

\* BeefyClient accepts a commitment: NewMMRRoot.
NewMMRRoot(head) ==
    /\ head \in beefyHead .. Len(paraBlocks)
    /\ FreshInFlight => races < MaxRaces
    /\ races' = IF FreshInFlight THEN races + 1 ELSE races
    /\ beefyHead' = head
    /\ IF listener = "subscribed"
       THEN Len(events) < MaxEvents /\ events' = Append(events, head)
       ELSE UNCHANGED events
    /\ proven' = Stale(proven) /\ tasks' = Stale(tasks)
    /\ writing' = Stale(writing) /\ mempool' = Stale(mempool)
    /\ UNCHANGED <<outVars, inVars, listener, todo, stops>>

\* Transactions of one account are included in the order of their nonces.
IncludeTx ==
    /\ mempool # <<>>
    /\ mempool' = Tail(mempool)
    /\ LET tx == Head(mempool)
       IN  \/ In!submit(tx.message, provable(tx))
           \/ ~In!accepts(tx.message, provable(tx)) /\ UNCHANGED inVars
    /\ UNCHANGED <<outVars, listenerVars, writerVars, beefyHead, races, stops>>

Next ==
    /\ \/ Parachain \/ ListenerStep \/ WriterStep \/ Crash \/ Restart \/ IncludeTx
       \/ \E head \in 0 .. MaxParaBlocks : NewMMRRoot(head)
    /\ UNCHANGED estimatesGas

Spec == Init /\ [][Next]_vars

\* When the steps that fairness is stated for can be taken.
listenerReady ==
    \/ listener = "start"
    \/ listener = "scanned" /\ idle
    \/ listener = "subscribed" /\ idle /\ events # <<>>
    \/ todo # <<>> /\ proven = <<>>
    \/ proven # <<>> /\ Len(tasks) < TaskCapacity

writerReady == tasks # <<>> \/ writing # <<>>

rootDue ==
    /\ FreshInFlight => races < MaxRaces
    /\ listener = "subscribed" => Len(events) < MaxEvents
    /\ FreshInFlight \/ listener = "subscribed" \/ beefyHead # Len(paraBlocks)

\* Both goroutines and Ethereum keep running, a stopped relay is started again
\* (start-relayer.sh) and BEEFY keeps finalizing what the parachain produces.
\* The bounds on waiting events and races disable roots now and then, hence
\* strong fairness for them.
Fairness ==
    /\ []<>~listenerReady \/ []<><<ListenerStep>>_listenerVars
    /\ []<>~writerReady \/ []<><<WriterStep>>_writing
    /\ []<>(listener # "down") \/ []<><<Restart>>_listener
    /\ []<>(mempool = <<>>) \/ []<><<IncludeTx>>_mempool
    /\ <>[]~rootDue \/ []<><<NewMMRRoot(Len(paraBlocks))>>_vars

LiveSpec == Spec /\ Fairness

----------------------------------------------------------------------------
\* What Ethereum dispatches for a source are messages that the parachain really
\* committed, in blocks that BEEFY finalized, each once and in nonce order, with
\* stale proofs, repeated submissions and restarts of the relay in between.
DispatchedOnceInOrder ==
    \A s \in Sources :
        /\ Len(dispatched[s]) = ethNonce[s]
        /\ \A i \in DOMAIN dispatched[s] :
               /\ dispatched[s][i] = [source |-> s, nonce |-> i]
               /\ dispatched[s][i] \in Committed(beefyHead)

\* No commitment holds two messages of one source: the scan would miss one of them.
SingleMessages ==
    \A i \in DOMAIN paraBlocks : \A j, k \in DOMAIN paraBlocks[i].messages :
        paraBlocks[i].messages[j].source = paraBlocks[i].messages[k].source => j = k

\* The contract runs, or a node simulates, a call with the message that it wants next of some
\* source and a proof of the root that is stored, and refuses it.
WantedIsRefused ==
    \E m \in Committed(beefyHead) :
        LET tx == [message |-> m, fresh |-> TRUE]
        IN  /\ \/ mempool # <<>> /\ Head(mempool) = tx
               \/ estimatesGas /\ writing # <<>> /\ Head(writing) = tx
            /\ m.nonce = ethNonce[m.source] + 1
            /\ ~In!accepts(m, provable(tx))

\* Again and again all that sources have committed from nonce 1 on has been dispatched, so that
\* no message waits for ever (the chain being bounded, it ends so): however often roots overtake
\* proofs and the relay crashes, as long as no commitment holds two messages of one source, and
\* unless the contract refuses the very messages it wants.  It is the encoding of leaves that
\* keeps messages back, and nothing that the relay does.
CommittedIsDispatched ==
    []<>(\/ \A m \in Committed(Len(paraBlocks)) :
                m.nonce > 0 => \E i \in DOMAIN dispatched[m.source] : dispatched[m.source][i] = m
         \/ WantedIsRefused
         \/ ~SingleMessages)

\* basic-channel.md:3: "messages from user Alice will be delivered in the order they were
\* sent", and delivery is for anyone to bring about ("guaranteed deliverability"): the oldest
\* finalized message of a source that has not been dispatched is one that the contract
\* accepts with a proof of the root that is stored.
OldestIsDeliverable ==
    \A m \in Committed(beefyHead) :
        m.nonce = Len(dispatched[m.source]) =>
            In!accepts(m, provable([message |-> m, fresh |-> TRUE]))

\* scanner.go:33: the scanner "Scans for all parachain message commitments that
\* need to be relayed": of a finalized block's messages it misses none that the
\* contract has not seen.
ScanFindsAll ==
    \A m \in Committed(beefyHead) :
        m.nonce > pendingNonce[m.source] =>
            LET found == Scan(beefyHead)
            IN  \E i \in DOMAIN found : \E j \in DOMAIN found[i] : found[i][j] = m
=============================================================================
