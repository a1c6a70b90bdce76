----------------------------- MODULE BeefyRelay -----------------------------
(***************************************************************************)
(* The BEEFY relay (relayer/relays/beefy) on top of BeefyClient.  Three    *)
(* goroutines scan the relay chain for commitments; the listener decides   *)
(* which of them to pass on, and the writer takes each through the three   *)
(* calls of the contract.  The listener waits for the writer with a        *)
(* handover and drops any other commitment that the writer is not ready    *)
(* for.  An error in any of them ends the process, which a script starts   *)
(* again; its state is volatile, but what it sent stays with Ethereum.     *)
(*                                                                         *)
(* Other relayers show as what BeefyClient implements: the view moves.     *)
(***************************************************************************)
EXTENDS BeefyClient

CONSTANTS
    Self,                    \* the relay's Ethereum account
    Justified,               \* commitments stored as justifications of their blocks
    leafNext,                \* the set that the leaf proved for a commitment announces,
                             \* or NoSet when the proof does not lead to the stored root
    FastForwardDepth,
    MaxCrashes, MaxDrops, MaxOthers, MaxDelays

VARIABLES
    beefyHead,               \* the relay chain's latest BEEFY block
    pc,                      \* "down", "reading" or "up"
    current,                 \* next block to scan
    currentSet,              \* the listener's currentValidatorSet
    results,                 \* scanned and not yet looked at: [c, recent]
    offer,                   \* the handover that the listener waits to pass on
    writer,                  \* "starting", "idle", or the call it is at
    request,                 \* what the writer works on: [c, handover]
    sent,                    \* the transaction of that call has been sent
    receipt,                 \* and is in a block: [block, status]
    mempool,                 \* transactions not yet in a block
    crashes, drops, others, delays

ScanAhead == 3               \* each scanning goroutine holds one result

listenerVars == <<current, currentSet, results, offer>>
writerVars == <<writer, request, sent, receipt>>
relayVars == <<pc, listenerVars, writerVars, mempool>>
bounds == <<crashes, drops, others, delays>>
allVars == <<vars, beefyHead, relayVars, bounds>>

\* The bits that the writer claims: those who signed.
initialBitfield(c) ==
    LET members == Authorities[c.validatorSetID]
    IN  {i \in DOMAIN members : members[i] \in SignedBy[c]}

ASSUME RelayAssumption ==
    /\ Self \in Relayers
    /\ Justified \subseteq Commitments
    /\ \A c, d \in Justified : c.blockNumber = d.blockNumber => c = d
    /\ \A c \in Justified :
           /\ Cardinality(initialBitfield(c)) >= minimumClaims(Len(Authorities[c.validatorSetID]))
           /\ initialBitfield(c) \in Bitfields
           /\ leafNext[c] \in c.leaves \cup {NoSet}
           /\ c.leaves \subseteq {ValidatorSet(id) : id \in SetIDs}

\* A session does not come back, and the contract is initialised with one that the
\* relay chain has reached.
ASSUME SessionAssumption ==
    /\ \A c, d \in Justified :
           c.blockNumber <= d.blockNumber => c.validatorSetID <= d.validatorSetID
    /\ \A c \in Justified : c.blockNumber <= InitialBlock => c.validatorSetID <= InitialSetID

\* The contract has been initialised and the relay not yet been started.
RelayInit ==
    /\ ethBlock = DeployedAt
    /\ latestMMRRoot = NoRoot
    /\ latestBeefyBlock = InitialBlock
    /\ currentValidatorSet = ValidatorSet(InitialSetID)
    /\ nextValidatorSet = ValidatorSet(InitialSetID + 1)
    /\ tasks = [t \in TaskIDs |-> NoTask]
    /\ capturedAt = [t \in TaskIDs |-> 0]
    /\ beefyHead = InitialBlock
    /\ pc = "down"
    /\ current = 0 /\ currentSet = 0 /\ results = <<>> /\ offer = <<>>
    /\ writer = "starting" /\ request = <<>> /\ sent = FALSE /\ receipt = <<>>
    /\ mempool = <<>>
    /\ crashes = 0 /\ drops = 0 /\ others = 0 /\ delays = 0

\* The process ends; nobody waits for its transactions any more.
terminate ==
    /\ pc' = "down"
    /\ current' = 0 /\ currentSet' = 0 /\ results' = <<>> /\ offer' = <<>>
    /\ writer' = "starting" /\ request' = <<>> /\ sent' = FALSE /\ receipt' = <<>>
    /\ mempool' = [i \in DOMAIN mempool |-> [mempool[i] EXCEPT !.awaited = FALSE]]

----------------------------------------------------------------------------
\* Mutant: the block after the latest one is skipped.
readLatestBeefyBlock_skip ==
    /\ pc = "down"
    /\ pc' = "reading"
    /\ current' = latestBeefyBlock + 2
    /\ UNCHANGED <<currentSet, results, offer, writerVars, mempool>>

\* getInitialState makes two calls to the contract.
readLatestBeefyBlock ==
    /\ pc = "down"
    /\ pc' = "reading"
    /\ current' = latestBeefyBlock + 1
    /\ UNCHANGED <<currentSet, results, offer, writerVars, mempool>>

readCurrentValidatorSet ==
    /\ pc = "reading"
    /\ pc' = "up"
    /\ currentSet' = currentValidatorSet.id
    /\ UNCHANGED <<current, results, offer, writerVars, mempool>>

\* The writer is started after the listener.
writerStart ==
    /\ pc = "up" /\ writer = "starting"
    /\ writer' = "idle"
    /\ UNCHANGED <<pc, listenerVars, request, sent, receipt, mempool>>

\* scanBlocks, scanCommitments and scanSafeCommitments: one block.
scan ==
    /\ pc = "up"
    /\ Len(results) < ScanAhead
    /\ current <= beefyHead
    /\ LET safe == {c \in Justified : c.blockNumber = current /\ leafNext[c] # NoSet}
       IN  results' = IF safe = {} THEN results
                      ELSE Append(results, [c |-> CHOOSE c \in safe : TRUE,
                                            recent |-> beefyHead - current <= FastForwardDepth])
    /\ current' = current + 1
    /\ UNCHANGED <<pc, currentSet, offer, writerVars, mempool>>

listening == pc = "up" /\ offer = <<>> /\ results # <<>>

\* The leaf of a handover must announce the set after the new one.
announcesNext(c) == leafNext[c].id = c.validatorSetID + 1

accept(c, handover) ==
    /\ writer = "idle"
    /\ writer' = "initial"
    /\ request' = <<[c |-> c, handover |-> handover]>>
    /\ UNCHANGED <<sent, receipt>>

\* Mutant: handovers too are passed on only when they are recent.
scanCommitments_recentOnly ==
    /\ listening
    /\ results' = Tail(results)
    /\ LET c == Head(results).c
           recent == Head(results).recent
       IN  \/ /\ c.validatorSetID = currentSet + 1 /\ announcesNext(c) /\ recent
              /\ currentSet' = currentSet + 1
              /\ offer' = <<c>>
              /\ UNCHANGED writerVars
           \/ /\ c.validatorSetID = currentSet /\ recent /\ writer = "idle"
              /\ accept(c, FALSE)
              /\ UNCHANGED <<currentSet, offer>>
           \/ /\ \/ c.validatorSetID = currentSet + 1 /\ ~(announcesNext(c) /\ recent)
                 \/ c.validatorSetID = currentSet /\ ~(recent /\ writer = "idle")
              /\ UNCHANGED <<currentSet, offer, writerVars>>
    /\ UNCHANGED <<pc, current, mempool>>

\* The listener looks at one commitment: a handover moves its own validator set
\* on at once and is offered to the writer; a recent one of the same set is
\* passed on if the writer waits for it; the others are discarded.
scanCommitments ==
    /\ listening
    /\ results' = Tail(results)
    /\ LET c == Head(results).c
           recent == Head(results).recent
       IN  \/ /\ c.validatorSetID = currentSet + 1 /\ announcesNext(c)
              /\ currentSet' = currentSet + 1
              /\ offer' = <<c>>
              /\ UNCHANGED writerVars
           \/ /\ c.validatorSetID = currentSet /\ recent
              /\ accept(c, FALSE)
              /\ UNCHANGED <<currentSet, offer>>
           \/ /\ \/ c.validatorSetID = currentSet + 1 /\ ~announcesNext(c)
                 \/ c.validatorSetID = currentSet /\ ~(recent /\ writer = "idle")
              /\ UNCHANGED <<currentSet, offer, writerVars>>
    /\ UNCHANGED <<pc, current, mempool>>

unexpectedSet ==
    /\ listening
    /\ Head(results).c.validatorSetID \notin {currentSet, currentSet + 1}
    /\ terminate

passHandover ==
    /\ offer # <<>>
    /\ accept(offer[1], TRUE)
    /\ offer' = <<>>
    /\ UNCHANGED <<pc, current, currentSet, results, mempool>>

----------------------------------------------------------------------------
\* doSubmitInitial, CommitPrevRandao or doSubmitFinal sends its transaction.
send ==
    /\ request # <<>> /\ ~sent
    /\ mempool' = Append(mempool, [call |-> writer, c |-> request[1].c,
                                   handover |-> request[1].handover, awaited |-> TRUE])
    /\ sent' = TRUE
    /\ UNCHANGED <<pc, listenerVars, writer, request, receipt>>

\* Mutant: no waiting between the first call and the second.
confirmations_none(call) == 0

\* The blocks that submit waits for on top of the transaction's.
confirmations(call) ==
    CASE call = "initial" -> randaoCommitDelay + 1
      [] call = "commit" -> 1
      [] call = "final" -> 0

\* pollTransaction: the latest block is the one before that being built.
confirmed == receipt # <<>> /\ ethBlock - 1 >= receipt[1].block + confirmations(writer)

nextCall(call) == CASE call = "initial" -> "commit"
                    [] call = "commit" -> "final"
                    [] call = "final" -> "idle"

proceed ==
    /\ writer' = nextCall(writer)
    /\ request' = IF writer = "final" THEN <<>> ELSE request
    /\ sent' = FALSE /\ receipt' = <<>>
    /\ UNCHANGED <<pc, listenerVars, mempool>>

\* Mutant: the writer gives up on a request that failed and takes the next.
waitForTransaction_goOn ==
    /\ confirmed
    /\ IF receipt[1].status THEN proceed
       ELSE /\ writer' = "idle" /\ request' = <<>> /\ sent' = FALSE /\ receipt' = <<>>
            /\ UNCHANGED <<pc, listenerVars, mempool>>

\* The call is done; one that was reverted ends the relay.
waitForTransaction ==
    /\ confirmed
    /\ IF receipt[1].status THEN proceed ELSE terminate

----------------------------------------------------------------------------
judgedBy(tx) == IF tx.handover THEN nextValidatorSet ELSE currentValidatorSet

\* The relay proves a seat of the commitment's own validator set, so that the
\* contract must hold that set's root.
initialAccepted(tx) ==
    /\ judgedBy(tx).members = Authorities[tx.c.validatorSetID]
    /\ initialChecks(tx.c, initialBitfield(tx.c), judgedBy(tx))

finalAccepted(tx) ==
    /\ finalChecks(Self, tx.c, judgedBy(tx))
    /\ verifyCommitment(tasks[<<Self, tx.c>>], tx.c, judgedBy(tx))
    /\ tx.handover => leafNext[tx.c].id = nextValidatorSet.id + 1

accepted(tx) ==
    CASE tx.call = "initial" -> initialAccepted(tx)
      [] tx.call = "commit" -> commitChecks(Self, tx.c)
      [] tx.call = "final" -> finalAccepted(tx)

execute(tx) ==
    \/ /\ tx.call = "initial" /\ ~tx.handover
       /\ submitInitial(Self, tx.c, initialBitfield(tx.c))
    \/ /\ tx.call = "initial" /\ tx.handover
       /\ submitInitialWithHandover(Self, tx.c, initialBitfield(tx.c))
    \/ /\ tx.call = "commit"
       /\ \E difficulty \in Seeds : commitPrevRandao(Self, tx.c, difficulty)
    \/ /\ tx.call = "final" /\ ~tx.handover
       /\ submitFinal(Self, tx.c)
    \/ /\ tx.call = "final" /\ tx.handover
       /\ submitFinalWithHandover(Self, tx.c, leafNext[tx.c])

\* The block being built takes the account's next transaction; one that is
\* reverted is in the block all the same.
include ==
    /\ mempool # <<>>
    /\ mempool' = Tail(mempool)
    /\ LET tx == Head(mempool)
       IN  /\ IF accepted(tx) THEN execute(tx) ELSE UNCHANGED vars
           /\ receipt' = IF tx.awaited THEN <<[block |-> ethBlock, status |-> accepted(tx)]>>
                         ELSE receipt
    /\ UNCHANGED <<beefyHead, pc, listenerVars, writer, request, sent, bounds>>

\* Ethereum's nodes lose the account's transactions.
drop ==
    /\ drops < MaxDrops /\ mempool # <<>>
    /\ drops' = drops + 1
    /\ mempool' = <<>>
    /\ UNCHANGED <<vars, beefyHead, pc, listenerVars, writerVars, crashes, others, delays>>

crash ==
    /\ crashes < MaxCrashes /\ pc # "down"
    /\ crashes' = crashes + 1
    /\ terminate
    /\ UNCHANGED <<vars, beefyHead, drops, others, delays>>

\* The next block with a justification is final.
finalize ==
    /\ \E c \in Justified :
           /\ c.blockNumber > beefyHead
           /\ \A d \in Justified : d.blockNumber > beefyHead => d.blockNumber >= c.blockNumber
           /\ beefyHead' = c.blockNumber
    /\ UNCHANGED <<vars, relayVars, bounds>>

\* Another relayer's final submission.
otherSubmitFinal(c) ==
    /\ others < MaxOthers
    /\ others' = others + 1
    /\ c.blockNumber \in latestBeefyBlock + 1 .. beefyHead
    /\ \/ /\ c.validatorSetID = currentValidatorSet.id
          /\ UNCHANGED <<currentValidatorSet, nextValidatorSet>>
       \/ /\ c.validatorSetID = nextValidatorSet.id
          /\ \E leaf \in c.leaves :
                 /\ leaf.id = nextValidatorSet.id + 1
                 /\ nextValidatorSet' = leaf
          /\ currentValidatorSet' = nextValidatorSet
    /\ latestMMRRoot' = c
    /\ latestBeefyBlock' = c.blockNumber
    /\ UNCHANGED <<ethBlock, tasks, capturedAt, beefyHead, relayVars, crashes, drops, delays>>

\* Blocks are counted where they make a difference: those that the writer waits
\* for, and those that pass while the call for the seed is on its way, until the
\* window has closed.
mine ==
    /\ receipt # <<>> /\ ~confirmed
    /\ mineBlock
    /\ UNCHANGED <<beefyHead, relayVars, bounds>>

delay ==
    /\ delays < MaxDelays
    /\ \E i \in DOMAIN mempool : mempool[i].call = "commit" /\ commitChecks(Self, mempool[i].c)
    /\ delays' = delays + 1
    /\ mineBlock
    /\ UNCHANGED <<beefyHead, relayVars, crashes, drops, others>>

Relay ==
    /\ \/ readLatestBeefyBlock \/ readCurrentValidatorSet \/ writerStart
       \/ scan \/ scanCommitments \/ unexpectedSet \/ passHandover
       \/ send \/ waitForTransaction
    /\ UNCHANGED <<vars, beefyHead, bounds>>

RelayNext ==
    \/ Relay \/ include \/ mine \/ delay \/ drop \/ crash \/ finalize
    \/ \E c \in Justified : otherSubmitFinal(c)

\* When the relay, or with a goroutine of its own the writer, can take a step.
relayReady ==
    \/ pc # "up"
    \/ Len(results) < ScanAhead /\ current <= beefyHead
    \/ offer = <<>> /\ results # <<>>

writerReady ==
    \/ writer = "starting" /\ pc = "up"
    \/ writer = "idle" /\ offer # <<>>
    \/ request # <<>> /\ ~sent
    \/ confirmed

\* A goroutine that can go on does, a relay that is down is started again, what
\* was sent is included, and Ethereum produces the blocks that the writer waits
\* for.
RelaySpec ==
    /\ RelayInit /\ [][RelayNext]_allVars
    /\ []<>~relayReady \/ []<><<Relay>>_<<pc, listenerVars>>
    /\ []<>~writerReady \/ []<><<Relay>>_<<pc, writerVars>>
    /\ []<>(mempool = <<>>) \/ []<><<include>>_mempool
    /\ []<>(receipt = <<>> \/ confirmed) \/ []<><<mine>>_ethBlock

----------------------------------------------------------------------------
handoversUnderWay ==
    Len(offer) + (IF request # <<>> /\ request[1].handover THEN 1 ELSE 0)

\* The listener's validator set is ahead of the contract's only by the handovers
\* that it waits to pass on and that the writer works on: it may drop other
\* commitments, but never a handover, or it would judge all that follows by a
\* set that the contract has not reached (polkadot-listener.go:92-109).
NeverAhead ==
    pc = "up" => currentSet <= currentValidatorSet.id + handoversUnderWay

\* The writer never asks for the seed before the contract's delay is over, with
\* calls of an earlier process for the same commitment still under way
\* (ethereum-writer.go:134).
NeverEarly ==
    \A i \in DOMAIN mempool :
        mempool[i].call = "commit" =>
            ethBlock >= tasks[<<Self, mempool[i].c>>].blockNumber + randaoCommitDelay

handovers == {c \in Justified : announcesNext(c)}

\* A relay that has nothing left to do has brought the contract to the validator
\* set of every handover that is final, whatever it and others did before.
IdleIsCaughtUp ==
    pc = "up" /\ writer = "idle" /\ offer = <<>> /\ results = <<>> /\ current > beefyHead =>
        \A c \in handovers :
            c.blockNumber <= beefyHead => c.validatorSetID <= currentValidatorSet.id

\* The writer waits for a transaction that is lost: it has no timeout.
hangs == sent /\ receipt = <<>> /\ \A i \in DOMAIN mempool : ~mempool[i].awaited

\* Every validator set that takes over on the relay chain takes over in the
\* contract, through crashes, expired windows and other relayers, unless a
\* transaction is lost.
SessionsAreHandedOver ==
    \A c \in handovers :
        c.blockNumber <= beefyHead ~>
            \/ currentValidatorSet.id >= c.validatorSetID
            \/ hangs
=============================================================================
