--------------------------- MODULE ParachainRelay ---------------------------
(***************************************************************************)
(* The parachain relay (relayer/relays/parachain): the listener scans the  *)
(* parachain backwards for messages that Ethereum has not seen, proves     *)
(* them against the latest BEEFY root and passes them through a channel of *)
(* capacity one to the writer, which sends one transaction per message.    *)
(* A message in flight carries fresh: its proof leads to the root that     *)
(* BeefyClient stores now.  The relay is one process of two goroutines; an *)
(* error in either ends both, and the service script starts it again.      *)
(***************************************************************************)
EXTENDS Naturals, Sequences

CONSTANTS
    Sources                  \* config: the source ids to relay for

VARIABLES
    sourceToken,             \* how the pallet's leaves encode a source id, read only
    paraBlocks,              \* the parachain, read only
    ethNonce,                \* BasicInboundChannel.nonce, read only
    beefyHead,               \* last parachain block provable with BeefyClient's root
    estimatesGas,            \* config: no gas limit, so transactions are simulated first
    listener,                \* "start", "scanned", "subscribed" or "down"
    events,                  \* NewMMRRoot events not handled yet: parachain heads
    todo,                    \* tasks found by the scan, each a sequence of messages
    proven,                  \* the task being sent, if any, with its proof
    tasks,                   \* chan *Task
    writing,                 \* what is left of the task the writer has taken
    mempool                  \* transactions not included yet, in sending order

listenerVars == <<listener, events, todo, proven>>
writerVars == <<tasks, writing>>
relayVars == <<listenerVars, writerVars, mempool>>

TaskCapacity == 1

RelayInit ==
    /\ listener = "start"
    /\ events = <<>> /\ todo = <<>> /\ proven = <<>>
    /\ tasks = <<>> /\ writing = <<>>
    /\ mempool = <<>>

\* BasicInboundChannel.submit on a state with these nonces.  A fresh proof leads from the
\* pallet's leaf to the root; it is of use if the contract hashes the same leaf.
wouldAccept(tx, nonce) ==
    /\ tx.fresh /\ sourceToken = "FixedBytes"
    /\ tx.message.nonce = nonce[tx.message.source] + 1

\* The contract's nonces in the pending block: the mempool applied to its state.
pendingNonce ==
    LET after[i \in 0 .. Len(mempool)] ==
            IF i = 0 THEN ethNonce
            ELSE LET nonce == after[i - 1]
                     tx == mempool[i]
                 IN  IF wouldAccept(tx, nonce) THEN [nonce EXCEPT ![tx.message.source] = @ + 1]
                     ELSE nonce
    IN  after[Len(mempool)]

\* Mutant: the wanted nonce itself is left out.
see_exclusive(found, m, nonceToFind) ==
    LET checked == m.source \in found.scanning
    IN  [proofs   |-> IF checked /\ m.nonce > nonceToFind[m.source]
                      THEN Append(found.proofs, m) ELSE found.proofs,
         scanning |-> IF checked /\ m.nonce <= nonceToFind[m.source]
                      THEN found.scanning \ {m.source} ELSE found.scanning]

\* One message.  A source is done as soon as a nonce at or below the wanted one is seen.
see(found, m, nonceToFind) ==
    LET checked == m.source \in found.scanning
    IN  [proofs   |-> IF checked /\ m.nonce >= nonceToFind[m.source]
                      THEN Append(found.proofs, m) ELSE found.proofs,
         scanning |-> IF checked /\ m.nonce <= nonceToFind[m.source]
                      THEN found.scanning \ {m.source} ELSE found.scanning]

\* One commitment: messages are visited in the order they were queued.
scanForBasicChannelProofs(messages, nonceToFind, scanning) ==
    LET found[i \in 0 .. Len(messages)] ==
            IF i = 0 THEN [proofs |-> <<>>, scanning |-> scanning]
            ELSE see(found[i - 1], messages[i], nonceToFind)
    IN  found[Len(messages)]

\* From block head backwards until every source is done; tasks ascend by block.
findTasksImpl(head, nonceToFind) ==
    LET visit(block, acc) ==
            LET found == scanForBasicChannelProofs(block.messages, nonceToFind, acc.scanning)
            IN  [tasks    |-> IF found.proofs = <<>> THEN acc.tasks
                              ELSE <<found.proofs>> \o acc.tasks,
                 scanning |-> found.scanning]
        back[k \in 0 .. head] ==
            IF k = 0 THEN [tasks |-> <<>>, scanning |-> DOMAIN nonceToFind]
            ELSE visit(paraBlocks[head + 1 - k], back[k - 1])
    IN  back[head].tasks

\* An error of gatherProofInputs is dropped; it shows when generateProof finds no input, and
\* the process ends as in any crash.
findTasks(head) ==
    LET behind == {s \in Sources : paraBlocks[head].nonce[s] > pendingNonce[s]}
    IN  findTasksImpl(head, [s \in behind |-> pendingNonce[s] + 1])

Scan(head) == IF head = 0 THEN <<>> ELSE findTasks(head)

idle == todo = <<>> /\ proven = <<>>

\* The first scan precedes the subscription.
startScan ==
    /\ listener = "start"
    /\ listener' = "scanned"
    /\ todo' = Scan(beefyHead)
    /\ UNCHANGED <<events, proven, writerVars, mempool>>

subscribe ==
    /\ listener = "scanned" /\ idle
    /\ listener' = "subscribed"
    /\ UNCHANGED <<events, todo, proven, writerVars, mempool>>

handleNewMMRRoot ==
    /\ listener = "subscribed" /\ idle
    /\ events # <<>>
    /\ todo' = Scan(Head(events))
    /\ events' = Tail(events)
    /\ UNCHANGED <<listener, proven, writerVars, mempool>>

\* The proof is made against the root stored now, before the send blocks.
generateProof ==
    /\ todo # <<>> /\ proven = <<>>
    /\ proven' = <<[messages |-> Head(todo), fresh |-> TRUE]>>
    /\ todo' = Tail(todo)
    /\ UNCHANGED <<listener, events, writerVars, mempool>>

emitTask ==
    /\ proven # <<>>
    /\ Len(tasks) < TaskCapacity
    /\ tasks' = Append(tasks, proven[1])
    /\ proven' = <<>>
    /\ UNCHANGED <<listener, events, todo, writing, mempool>>

takeTask ==
    /\ writing = <<>> /\ tasks # <<>>
    /\ writing' = [i \in DOMAIN tasks[1].messages |->
                      [message |-> tasks[1].messages[i], fresh |-> tasks[1].fresh]]
    /\ tasks' = Tail(tasks)
    /\ UNCHANGED <<listenerVars, mempool>>

\* What the simulation of Submit answers.
wouldRevert(tx) == ~wouldAccept(tx, pendingNonce)

\* The writer does not wait for the transaction to be included.
WriteBasicChannel ==
    /\ writing # <<>>
    /\ ~(estimatesGas /\ wouldRevert(Head(writing)))
    /\ mempool' = Append(mempool, Head(writing))
    /\ writing' = Tail(writing)
    /\ UNCHANGED <<listenerVars, tasks>>

stop ==
    /\ listener # "down"
    /\ listener' = "down"
    /\ events' = <<>> /\ todo' = <<>> /\ proven' = <<>>
    /\ tasks' = <<>> /\ writing' = <<>>
    /\ UNCHANGED mempool

\* The simulation of a transaction fails: write message loop returns the error.
writeFails ==
    /\ writing # <<>>
    /\ estimatesGas /\ wouldRevert(Head(writing))
    /\ stop

restart ==
    /\ listener = "down"
    /\ listener' = "start"
    /\ UNCHANGED <<events, todo, proven, writerVars, mempool>>
=============================================================================
