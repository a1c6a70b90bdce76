# A verification of Snowbridge in TLA+

Snowbridge connects Polkadot and Ethereum in both directions without trusted
parties. Each side runs a light client of the other, and a channel that numbers
messages and accepts them in order; off-chain relays carry headers, proofs and
messages. The modules in this directory model those parts from the source, TLC
checks them on small instances, and TLAPS proves the main safety properties for
every value of the constants.

Paths below are relative to the repository: `contracts/` is
`core/packages/contracts/contracts/`, `pallets/` is `parachain/pallets/`,
`relays/` is `relayer/relays/`.

## The system and its models

| Part | Source | Modules | State of the work |
|---|---|---|---|
| BEEFY light client (Ethereum) | `contracts/BeefyClient.sol` | `BeefyClient`, `FinalizedView`, `SignatureThreshold`, `ThresholdOfSize`, `Bitfield` | modelled, proved |
| BEEFY relay | `relays/beefy/` | `BeefyRelay` | modelled, proved |
| Outbound channel (parachain) | `pallets/basic-channel/src/outbound/` | `BasicOutboundChannel` | modelled, proved |
| Inbound channel (Ethereum) | `contracts/BasicInboundChannel.sol`, `ParachainClient.sol` | `BasicInboundChannel` | modelled, proved |
| Parachain relay | `relays/parachain/` | `ParachainRelay`, composed in `ParachainToEthereum` | modelled |
| MMR and Merkle proofs | `contracts/utils/`, `relayer/crypto/merkle/`, `pallets/basic-channel/merkle-proof/` | `SimplifiedMMRProof`, `MerkleTrees` | modelled, trees proved |
| Beacon light client (parachain) | `pallets/ethereum-beacon-client/` | `BeaconClient`; `SszProof` for what it reads | modelled, proved; SSZ partly |
| Beacon relay | `relays/beacon/`, `relayer/chain/parachain/` | `BeaconRelay` | modelled |
| Outbound channel, tokens and vault (Ethereum) | `contracts/BasicOutboundChannel.sol`, `ChannelAccess.sol`, `NativeTokens.sol`, `ERC20Vault.sol` | `EthereumChannel`, `NativeTokens` | modelled, proved |
| Inbound channel, dispatch (parachain) | `pallets/basic-channel/src/inbound/`, `pallets/dispatch/` | `EthereumChannel` | modelled, proved |
| Execution relay, parachain writer | `relays/execution/`, `relayer/chain/parachain/writer.go` | `ExecutionRelay` | modelled, proved |
| Receipt proofs | `parachain/primitives/ethereum/src/` | `ReceiptProof` | modelled |
| XCM support | `pallets/xcm-support/` | `ReserveTransfer` | modelled, proved |
| Proof-of-work light client | `pallets/ethereum-light-client/`, `parachain/primitives/ethereum/src/` | `EthereumLightClient`, `Difficulty`, `EthashProof`, `EthashCache` | modelled, proved in part |
| Proof-of-work relay, header caches, runtimes, node, byte layouts, bindings, tools | | | not modelled |

How they interact:

```
 Polkadot relay chain --BEEFY commitments--> BeefyClient ---root---+
 parachain: outbound pallet --messages--> parachain relay --proofs-+-> BasicInboundChannel
 Ethereum:  BasicOutboundChannel --events--> execution relay --proofs-+-> inbound pallet -> dispatch
 Beacon chain --headers, committees--> BeaconClient --execution headers-+
```

### BeefyClient

The variables are the contract's storage: `latestMMRRoot`, `latestBeefyBlock`, the
two validator sets and `tasks`; `ethBlock` is `block.number`. There is an action for
`initialize`, `submitInitial` and `submitInitialWithHandover` (both
`doSubmitInitial`), `commitPrevRandao`, `submitFinal` and
`submitFinalWithHandover`. A call that reverts has no effect and is not an action;
in particular the deletion of an expired task in `commitPrevRandao` is undone by
the revert that follows it. `capturedAt` is a history variable.

Abstractions. A commitment's hash is the commitment. A validator's signature is
membership in `SignedBy`. A Merkle proof shows that an account is in the set, and no
more: neither `isValidatorInSet` nor `verifyCommitment` ties the account to the drawn
index of the same proof, so that `verifyCommitment` asks for each drawn bit that some
member of the set has signed (finding 1). A commitment carries the leaves that its MMR
root proves, and a leaf any set, whose members nothing ties to its id; a handover takes
the leaf's. The draw is the constant operator `Draw`, assumed to meet the contract stated in `Bitfield.sol`; the
loop itself is checked against that contract in `Bitfield`. `initialize` is called
once, as its comment says, although the owner could repeat it before giving up
ownership.

`FinalizedView` is a view of the relay chain that only moves forward, by one validator
set at a time. It says nothing of who signed. `BeefyClient` implements it through the
mapping `View`. What the contract makes sure of beyond it is `RootInForce`: the stored
root is a commitment of the set in force with a signature from that set. How many of the
set signed is up to the relayer that builds the proofs.

### BeefyRelay

`BeefyRelay` extends `BeefyClient`, so that the relay's transactions meet the
contract's own checks. `readLatestBeefyBlock` and `readCurrentValidatorSet` are the
two calls of `getInitialState`; `scan` stands for the three scanning goroutines, each
of which holds one result; `scanCommitments`, `passHandover` and `unexpectedSet` are
the listener, which waits for the writer with a handover and drops any other
commitment that the writer is not ready for. `send` and `waitForTransaction` take the
writer through `submitInitial`, `commitPrevRandao` and `submitFinal` with the
confirmations that `submit` asks for. An error in any goroutine ends the process
(`terminate`); what it sent stays in `mempool`. Other relayers show as moves of the
contract's view (`otherSubmitFinal`), which is all that `FinalizedView` lets them do.
Ethereum's blocks are counted where they matter: while the writer waits for
confirmations (`mine`) and while the call for the seed is on its way (`delay`).

### Algorithms

`SignatureThreshold` is the decision tree of `minimumSignatureThreshold`, which
`ThresholdOfSize` goes through by the size of the set. The comment on the function gives
two values for up to 10 validators: `x * (2/3)` at `BeefyClient.sol:394` and "minimum
2/3 + 1 validators" at 401. They differ (2 and 3 of 3, 6 and 7 of 9); the code has the
second, and `ThresholdIsLeast` is stated for that one.
`SimplifiedMMRProof` has the relayer's position arithmetic, its conversion of a
Substrate MMR proof, and the contract's check of the result; the reference is the
mountain range itself. `MerkleTrees` has the pallet's tree, built row by row with the
visitor that collects a proof, and the relayer's, built level by level from its depth.
`Bitfield` has the population count and, step by step, the draw. `ReceiptProof` has
`check_receipt_proof` and the search for the log; the reference is the Merkle Patricia
trie of a block's receipts. A last node is read as `ShortNode::decode` reads it, the
first two items of a list of any length. `SszProof` has the branches at the depths and indices of
`config.rs`, the bits of a sync aggregate, and signing roots with the choice of the
fork version; hashing is an injective constructor. `Difficulty` is `calc_difficulty`,
which `DifficultyRule` puts beside the rule of the EIPs, and `EthashProof` is
`hashimoto_merkle` with its proofs of DAG nodes. `MCAlgorithms` steps through their
inputs, and also runs the state machines that stand alone, `EthereumLightClient` (below)
and three small ones:

- `EthashCache`: `get`, as `hashimoto_light` calls it with a header's number for the
  timestamp; `sort` is what `Vec::sort` promises.
- `ReserveTransfer`: `reserve_transfer` inside its storage transaction, with an XCM
  program that may fail at each instruction.
- `NativeTokens`: `create`, `lock` and `doUnlock` with the vault, tokens sent to the
  vault past the contract, and the operators that
  `ChannelAccess` lets accounts authorize. A call that reverts is no step.

Both hold their books against a log of events; `AmountsMoved` has the sum of what the
events say was moved.

### ParachainToEthereum

`BasicOutboundChannel` has the message queue (of at most `MaxMessagesPerCommit`), the
nonces and `on_idle`, which commits the whole queue or, without weight, nothing.
Its leaves are those of `into` and `encode`: the source id is a `Token::Bytes`, encoded
with an offset and a length. `BasicInboundChannel` has `submit`, which computes the leaf
anew, with the source id as a `bytes32`. The two differ, so that nothing committed can be
proved (finding 2). `SourceTokens` names the encodings that the initial state may choose
from: `Bytes` is the pallet's, and `FixedBytes` what it would have to be. What lies
behind the encoding, nonces, scans, stale proofs and restarts, is checked with both; the
findings' runs have the pallet's only. `ParachainRelay` has the two goroutines: the
listener (first scan, subscription, scan per `NewMMRRoot`, proof, hand-over through a
channel of capacity one) and the writer (one transaction per message; where
`estimatesGas` holds, which the initial state leaves open, a transaction that would
revert is refused before it is sent). An error in either ends both. The error that
`findTasks` drops at `scanner.go:145` is not modelled. `ParachainToEthereum` composes them with a BEEFY root
that may move at any time: a proof is good only for the root that is stored when its
transaction is executed, so a message in flight carries `fresh`.

### BeaconClient

The variables are the pallet's storage; the actions are
`sync_committee_period_update`, `import_finalized_header` (accepted, or refused for
being late), `import_execution_header` and `unblock_bridge`, with a clock for the
weak subjectivity period. All calls are transactional: an error leaves nothing
behind. The chain is given by constants: for every header its slot, what its state
commits to and which aggregates exist. Branch and signature checks are the
corresponding relations. The committee looked up for a signature is that of the
signed header's period, as in `verify_signed_header`, not that of the signature slot.

Trust. `TrustAssumption` says that a supermajority of the committee elected for a
period signs no header of that period that is off the canonical chain.
`import_execution_header` does not ask for a supermajority; its safety rests on the
ancestry proof alone.

### BeaconRelay

`BeaconRelay` extends `BeaconClient`. A round of the relay syncs the committees up to
the current period, fills in the execution headers that lag behind, polls for the
latest finality update, imports its header, and sends the execution headers between
the last two finalized ones. `Start` reads the account's nonce for the writer, and
`Sync`, a step of its own, the client's state. `relay` holds the cache (`AddCheckPoint` with its limit,
`lastSynced`, `lastAttempted`) and the job at hand, `pool` the extrinsics on their way.
The relay waits for a committee or a finalized header and asks the client for it; of
the execution headers it only limits how many are watched. An extrinsic of a process
that died stays in the pool; when the node drops one, those behind it go too. `skipped`
is a history variable: the headers that the relay went past because the client refused a
finalized header, or had been taken back by a committee update.

The beacon node serves `Updates`. That a state is not there yet
(`ErrBeaconStateAvailableYet`) ends a polling round before anything has changed, where a
finality update is asked for; `stateNotAvailable` is the round that ends in the middle of
its committee updates. In `syncLaggingExecutionHeaders` it is waited for, and in `Sync`
it ends the process, like a crash. Left out by assumption is
`populateFinalizedCheckpoint` (`header.go:474`), which ignores the error and would cache
a checkpoint without a tree. The committee sync inside the loop of `SyncHeaders`
(`header.go:313-320`) is never reached: the committees up to the period of the last
header to fill in have been synced before the loop begins. A place in the writer's queue
is taken as free once the extrinsic is in a block; the code waits for that block to be
final, and so sends no faster.

### EthereumChannel and ExecutionRelay

`EthereumChannel` has the contract's `submit`, the light client's store of execution
headers (in ascending order, with up to `MaxGap` blocks passed over, since the pallet
does not ask for every one), the pallet's `submit`, and the dispatch pallet, which
answers each message with one event: it cannot be decoded, is filtered, fails or
succeeds. `ExecutionRelay` adds any number of relay processes, each with
the accounts it is configured for: the two reads at start
(`LatestVerifiedBlockNumber`, then the nonces), the remainder of that block, the
polling loop, one extrinsic at a time, the comparison of nonces after it, and the
exit on any error. The transaction pool keeps an extrinsic of a process that died;
while it waits, or once it has used the account nonce that the new process read, the
node refuses the next extrinsic.

### EthereumLightClient

The variables are the pallet's storage: `Headers`, the index `HeadersByNumber`,
`BestBlock`, `FinalizedBlock` and `BlocksToPrune`. `import_header` is the whole
extrinsic: the checks (with `Difficulty`), the bounded list of a number's headers, the
choice of the best header, finalization by depth, and pruning, which may stop in the
middle of a list. `force_reset_to_fork` is root's call. The tree of all headers that
anybody may submit is a constant; the bounds on gas and extra data are one flag and
the seal, which `EthashProof` is about, another.

## Runs

| Run | Instance | What it shows |
|---|---|---|
| `beefy_sessions` | one relayer; sets of 2, 4 and 2 seats; three commitments of two sessions, one signed by a later set only, two with leaves that announce different successors | `ConsecutiveSets`, `RootInForce`, `SeedAfterClaims`, `SeedIsFinal`, and that the contract implements `FinalizedView` (`ImplementsView`) |
| `beefy_signers` | the same | finding 1 |
| `beefy_relay` | sets of 2 and 3 seats; three sessions, the second with a first commitment that cannot hand over; a crash, a lost and a delayed transaction, another relayer | the relay never runs ahead of the contract by a handover that nobody works on (`NeverAhead`), never asks for the seed too early (`NeverEarly`), is caught up when it has nothing to do (`IdleIsCaughtUp`), and brings the contract to every session (`SessionsAreHandedOver`) |
| `algorithms` | up to 21845 validators, 130 MMR leaves, 20 tree leaves, bitfields of one and two 8-bit words, tries of up to 130 receipts, DAGs and committees of a few entries; for the proof-of-work client a tree of 25 headers with forks and three invalid headers, lists of two, one header pruned per call, one reset | the algorithms agree with their reference definitions; the draw ends with the bits asked for; a transfer takes effect as a whole (`ReservesMatch`); the vault's book matches (`VaultMatches`); `IndexAgrees`, `PruneFollows`, `OneFinalChain`, `BestIsHeaviest`, `FinalIsDeep` |
| `para_to_eth` | two sources, three blocks, up to two messages to a commitment, a race, a stop, with and without gas estimation, both encodings | `DispatchedOnceInOrder`, `CommittedIsDispatched` |
| `para_to_eth_deliver` | one source, the pallet's encoding | findings 2 and 3 |
| `para_scan_complete` | the same | finding 4 |
| `beacon_relay` | slots up to 11, six to a period, one missed and forked, minority and foreign signatures; called by the relay, with four finality updates, one of them refused, two crashes and a drop, or by anyone in any order | `RelayLeavesNoGap`, `PolledIsSynced`, `RelayBackfills`; of the client `CommitteesAreElected`, `FinalizedIsCanonical`, `ExecutionIsFinalized`, `SlotsTrackHeaders`, `NeverWedged` |
| `beacon_late_update` | slots 0 to 9, three to a period | finding 5 |
| `beacon_relay_refused` | as `beacon_relay` | finding 6 |
| `eth_to_para` | two relays, one account, four messages that cannot be decoded, are filtered, fail and succeed, two blocks, a header passed over, two crashes, a drop | `DispatchedOnceInOrder`, `AnsweredInOrder`, `SyncedIsDispatched`, `EmittedIsDispatched` |
| `eth_to_para_resume` | one relay, two accounts, a crash | finding 7 |

Why the bounds are enough to be interesting. Validator sets differ in size so that
a task opened for one meets the other, and 4 seats is the least size at which not
all need to sign. In `beefy_relay` the fast-forward depth is 0, so that a commitment
is recent or not depending on how far the chain is; `MaxEthBlock` is never reached.
130 leaves pass two powers of two and the longest carry between
them; 21845 is the largest set that the comment of `minimumSignatureThreshold` provides
for; 128 receipts is where the RLP of an index grows to two bytes. Three
parachain blocks allow a commitment before, in and after a scan, and two messages to a
commitment are of one source or of two; one race and one
stop are enough for a stale proof at each stage. Twelve slots hold two periods, a
finalized header on either side of the end of the first, and a ring of block
roots that wraps round; a list of two finalized slots overflows. The update that
attests to slot 5, the last of the first period, is signed by the next committee and
refused. In `eth_to_para` a block holds several messages, so that a
crash can fall between them. In the proof-of-work client one header pruned per call is
less than a list holds, so that pruning stops inside a list.

Deadlock is not checked: every instance ends when its bounds on messages, slots,
blocks or time are used up, and then there is nothing left to do.

### Fairness

The relays' runs (`beefy_relay`, `para_to_eth`, `beacon_relay`, `eth_to_para`) assume
that a goroutine or relay that is up and can go on does, and that a relay that is down
is started again: the loops in `core/packages/test/scripts/start-relayer.sh` do that.
They assume that transactions and extrinsics that are not dropped are included, that
Ethereum produces blocks and that headers arrive. `NewMMRRoot` has strong fairness
because the bound on waiting events disables it from time to time; BEEFY itself goes
on for ever. Crashes, drops, delays and overtaken proofs are bounded, not fair: the
properties hold however they fall. All but `eth_to_para` spell weak fairness out as
`[]<>~ready \/ []<><<A>>_v` with a predicate that says when the step is possible.
The draw loop of `Bitfield` has weak fairness for each bit: the hashes of ever new
counters are taken to reach every index again and again.

## Findings

1. `BeefyClient.sol:474` says "Ensure no validator can appear more than once". The line
   below it clears the index, and the account of a proof is not tied to its index: one
   member's signature passes for every drawn bit. (`beefy_signers`)
2. The outbound pallet encodes the source id of a leaf as dynamic bytes, the inbound
   contract as a word: no committed message can be proved. (`para_to_eth_deliver`)
3. The outbound pallet starts its nonces at 0, the inbound contract at 1: the first
   message of each source is never delivered. (`para_to_eth_deliver`)
4. The scan of the parachain relay marks a source as done at a message below the nonce
   it looks for, and skips the wanted message behind it in the same commitment.
   (`para_scan_complete`)
5. A late finalized header is meant to block the bridge, but the call that sets
   `Blocked` returns an error and is rolled back. (`beacon_late_update`)
6. The beacon relay's `LastSyncedHash` is meant for headers that were imported, but is
   set before the relay looks; after a refused update the relay goes on from a header
   that the client does not have. (`beacon_relay_refused`)
7. After a restart in the middle of a block the execution relay skips the messages of
   accounts that the pallet has no nonce for yet. (`eth_to_para_resume`)

`PROJECT.json` quotes the lines these disagree with. The properties that hold are stated
around them:

- `CommittedIsDispatched` is about nonces from 1 on and commitments with one message of
  a source, and excepts the state in which the contract refuses the message it wants,
  which with the pallet's encoding is reached as soon as there is one. With gas
  estimation such a message also holds up those of other sources behind it.
- `RelayLeavesNoGap`, `PolledIsSynced` and `RelayBackfills` except the headers in
  `skipped`, `RelayBackfills` also `outOfReach` (below).
- `NeverWedged` says that an unblocked client can take the next committee. That a late
  update ought to block it is finding 5.
- `EmittedIsDispatched` holds in the instance with one account, for messages whose
  block, and those of the messages before them, the light client did not pass over.

### Observations

What the models show about the limits of the properties above; no run is kept for
these.

- **Draw.** `Bitfield.sol:36` asks that no more bits are drawn than are set. A task
  opened under one validator set and finalised under a larger one does not meet this;
  the loop does not end and the call runs out of gas.
- **BEEFY relay.** `waitForTransaction` has no timeout: the writer waits for a lost
  transaction until the process is ended from outside. `SessionsAreHandedOver` excepts
  that state (`hangs`). The error of `CommitPrevRandao` is overwritten before it is
  looked at. The wait of `randaoCommitDelay + 1` confirmations fits the contract's
  window only if `randaoCommitExpiration` is at least 2.
- **Beacon relay.** Three ways to lose execution headers. A finality update attested in
  the last slot of a period is refused, since the next committee signed it, yet the relay
  goes on behind it (finding 6). A committee update after a restart may move the client's
  latest finalized header back after the relay has read it; the lagging headers above it
  are then refused. Both are in `skipped`. And a checkpoint proves the headers of one
  period: where the client's finalized slots leave a longer gap above its latest
  execution header (`outOfReach`), `syncLaggingExecutionHeaders` fails at each start and
  the relay never gets further. The last
  block of each period cannot be imported at all, hence `importable` in the
  properties. `NoEmptyEpoch` excludes an epoch without blocks, after which the
  relay's search for a block gives up.
- **Beacon client.** Two extrinsics pass `BLOCK_ROOTS_INDEX` for the depth of the proof
  and `BLOCK_ROOTS_DEPTH` for its index (`lib.rs:457`, `545`), as does `proofs` in
  `SszProof`; both are 5.
- **Execution relay.** Two relays with an account each show the loss of finding 7,
  because `LatestVerifiedBlockNumber` is shared by all accounts.
- **Proof-of-work client.** A heavier but shorter fork makes an import fail with an
  unknown ancestor. Finality can pass over headers, which then stay unflagged and
  cannot be used by `verify`. `force_reset_to_fork` can move the finalized block into
  the range that is due for pruning; `FinalIsDeep` excepts that.

## Theorems

| Module | Theorems |
|---|---|
| `BeefyClient_proofs` | `TypeCorrect`, `SetsAreConsecutive`, `RootIsInForce`, `SeedFollowsClaims`, `SeedNeverReplaced`, `BeefyImplementsView`, `ThresholdAlwaysLeast` |
| `BeefyRelay_proofs` | `ListenerIsNeverAhead`, `WriterIsNeverEarly`, `IdleRelayIsCaughtUp` |
| `ParachainToEthereum_proofs` | `DispatchIsOnceInOrder`, `EveryTreeProofVerifies`, `TreeProofsAlwaysVerify` |
| `EthereumClients_proofs` | beacon client: `TypeCorrect`, `CommitteesElected`, `FinalizedCanonical`, `ExecutionFinalized`, `SlotsTracked`, `ExecutionOrder`, `UpdateAlwaysPasses`; proof-of-work client: `DifficultyIsEIP649`, `CacheAlwaysAgrees` |
| `ExecutionRelay_proofs` | `DispatchIsOnceInOrder`, `AnswersAreInOrder`, `PollingLeavesNothing` |
| `EthereumLightClient_proofs` | `IndexAlwaysAgrees`, `BestAlwaysHeaviest`, `PruningIsComplete` |
| `EthereumLightClientChain_proofs` | `FinalChainIsOne`, `FinalIsAlwaysDeep` |
| `Ledger_proofs` | `VaultAlwaysMatches`, `ReservesAlwaysMatch` |

**BeefyClient.** The inductive invariant `IInv` is the type invariant, the
consecutive sets, the root in force, the seed windows, and that nothing is stored
before `initialize`. `RootInForce` needs the sets: a root of the next set becomes one
of the current set only because the handover makes that set current. That a member of
the set signed rests on the draw having at least one bit: `DrawAssumption`, and the lemma
that the threshold lies between 1 and the size of the set. It cannot be more than one
member (finding 1). `ConsecutiveSets` holds for any leaves: the sets that they announce
need not be those of the relay chain. The refinement maps each accepted final submission to a step of
`FinalizedView` and everything else to a stutter.

`ThresholdAlwaysLeast` goes through the branches of `minimumSignatureThreshold` and
holds each constant against the powers of two on either side of `3 x`. It reaches to
43690 validators, twice what the comment provides for: beyond that the last constant is
too small.

**BeefyRelay.** `RelayInv` has a part for each party. `ContractInv`: the contract's
sets are consecutive ones of the relay chain, and no block up to the latest is of a
later set. `WriterInv`: the writer waits for the last transaction in the pool, and what
an earlier process left there is gone by the time its first call is confirmed; without
it a receipt could be taken for another call's. `SeedInv` follows the task from the
receipt of `submitInitial` to `commitPrevRandao`, `AheadInv` a handover from the
listener to the contract, and `ScanInv` says that the listener has looked at the
handovers it has scanned or has them in `results`. `SessionAssumption` is what the relay
chain guarantees: session ids go up with block numbers.

**ParachainToEthereum.** The invariant says that what was dispatched for a source is
the sequence of nonces from 1 on, all from blocks up to the finalized head. It needs
that committed blocks never change, that the head never moves back, and of the
constants only that `MaxNonce` is a natural number. The relay's
variables do not occur in it: safety does not depend on the relay.

**Merkle trees.** The relay's proofs are only as good as the two trees, and these are
proved for any number of leaves. `EveryTreeProofVerifies` does not ask what the leaves
are: they need not even differ. Its core is the predicate `Leads`: the hash folded from
the proof collected so far is the item at the visitor's position of the current row. It
holds before the first turn and a turn keeps it, the promoted odd item included, so that
it holds in the row of one item, which is the root. That there is such a row follows from
rows halving: the recursion on rows, the fold of a proof and the powers of two in `depth`
are shown to be defined, and then followed, by induction on sets of numbers (lemma
`UpTo`). For the relayer's tree, `depth` is shown to be the number of turns of the
pallet's loop and each level to be one of its rows; the path then is the pallet's proof.
That step needs that the leaf occurs once, as heads of different parachains do, because
`findIndex` takes the first.

**EthereumClients.** Of the beacon client, `ClientInv` adds to the properties that the latest execution header
is the highest; without it the order of imports is not inductive. A stored committee
is the elected one, so a supermajority of it vouches for canonical headers only
(`TrustAssumption`); a canonical header's state names canonical checkpoints, not later
than itself, block roots and the elected next committee (`CanonicalAssumption`).
`UpdateAlwaysPasses` rests on the stored committees being those of the periods from the
initial one to the latest, without a gap: the committee of the latest period is there to
check the signatures, and that of the next is not stored yet.

`DifficultyIsEIP649` asks nothing of a `DifficultyConfig` but that forks are block
numbers: they need not ascend. `LatestDelay` shows that the chain of comparisons in
`bomb_delay` picks the greatest delay among the forks that include the block.
`BombIsQuarter` shows that leaving out the exponent below two periods, and taking
`k - 2` from there on, is the quarter of `2 ^ k` that the formula adds; the power is
written as the doubling that it is (`two_pow`), which `UpTo`, induction on a set of
numbers, can follow. Numbers are unbounded in it: the code's `U256` holds the power up to
257 periods of 100000 blocks after the delay.

`CacheAlwaysAgrees` needs only types beside the property (`CacheInv`): a timestamp is the
number of a header in its epoch, so that different epochs have different timestamps and
the order is strict. The rest is about `sort`. That pairs can be ordered at all is an
induction on their number (`OrderExists`), in which one more pair is put in its place;
what `sort` chooses then is an order of the same entries (`SortSorts`). A hit, a miss and
a miss that replaces the oldest entry have a lemma each. `CacheAssumption` asks for a
positive capacity, which `EthashCache::new` asserts, and a positive epoch length.

**ExecutionRelay.** The invariant of the first theorem adds to `DispatchedOnceInOrder`
that every event's nonce has been given out by the contract. The relays' variables do
not occur in it: the proof covers any number of relays with any accounts, and gaps in
the headers. `AnswersAreInOrder` adds that the pallet's answers grow with its nonces,
whatever the payloads are. `PollingLeavesNothing` follows a
relay through its states. A relay that resumes at a block has nothing left before it
(`Resumable`); one that writes has left nothing up to the block it is at but what it
still holds (`LeftTo`); hence one that polls has left nothing. It has the hypothesis
that all relays serve one account (`Serve`), as `set-env.sh` configures them; without
it the property is false (finding 7). `Select`, which filters a sequence, is a recursion
over numbers; the lemma `Recursion` shows that such a recursion is defined, by
well-founded induction on a set of numbers, which needs no operator parameter.

**EthereumLightClient.** `StoreInv` is the types of the stored items, that the index
lists exactly the stored headers, each once and within the bound of a list, that the
best header is a heaviest one, and, where proof of work is verified, that nothing
older than `oldest_unpruned_block` is left. The last needs the index: pruning walks
the lists, so that a header missing from them would stay for ever. It needs
`VerifyPoW` because only then are numbers checked to follow the parents'. The
pruning loop is written in closed form, by how many headers lie before each number.

**EthereumLightClientChain.** `ancestry` follows parents for as long as they are stored.
The lemmas about lines (`LineExists` to `LineStaysIn`) show that this recursion is
defined and unique where no header is its own ancestor (`HashChain`: hashes do not
cycle), and how a line changes as headers are added and pruned. `FinalChainIsOne` then
rests on `ChainInv`: numbers count along the lines, so that the finalized block which
`validate_header_to_import` finds on a new header's line is an ancestor of every later
block of that line. `FinalIsAlwaysDeep` needs two more. `KeptInv`: stored total
difficulties are sums along the line, and parents of headers that are not due for
pruning are stored. `DeepInv`: pruning stays `FINALIZED_HEADERS_TO_KEEP` behind the
finalized block. Its hypotheses:

- `ValidHeaders` names the headers that pass the checks from the initial one on, and
  their total difficulty. It restricts nothing: there is such a set and weight for
  every tree.
- `DescendantsUntilFinalized <= FINALIZED_HEADERS_TO_KEEP`; the code has a `u8` and
  50000.
- `YoungIsLighter`: a chain too short to finalize a block is not heavier than one that
  has finalized one. Otherwise it becomes the best chain with less than the required
  descendants, the finalized block stays, and the property is false. The instance that
  TLC checks satisfies it (`YoungForksAreLighter`).
- No reset by root. After one the property is only model-checked.

**Ledgers.** For `NativeTokens` and `ReserveTransfer` the lemmas about `Sum` come first:
appending to a log adds one term, and a count of entries grows by one where the entry is
of the kind that is counted. `VaultMatches` then needs only types beside itself: the
tokens an account holds and the vault's book are natural numbers and events carry natural
amounts, so that `withdraw`, which checks the book, cannot go below it. `ReservesMatch`
is inductive together with the types, the number of transfers being free: a transfer
either stores the outcome of the whole program, and both logs grow with it, or stores
nothing. What `TokenAssumption` and `TransferAssumption` ask of the constants is that the
contracts and accounts involved are different ones and that amounts are natural numbers;
TLC evaluates both for its instance (`InstanceAssumption`).

### Only model-checked

- Liveness, which the prover does not do: `CommittedIsDispatched`,
  `EmittedIsDispatched`, `RelayBackfills`, `SessionsAreHandedOver`, `DrawEnds`.
- `ConvertedProofVerifies`, `CountIsExact`, `ReceiptProofExact`, `EthashProofExact`
  and `ReadsExactly`. Their modules work on bits or descend trees with
  `RECURSIVE` operators, and the prover can use neither. `MerkleTrees` was open to proof
  because its recursions count rows.
- `RelayLeavesNoGap` and `PolledIsSynced` of the beacon relay: `include` asks with `ENABLED` whether
  the client takes a call, and the properties hold only where it does.
- `FinalIsDeep` after a reset.

## Not modelled

Cryptography (hashes are injective, signatures and aggregates are relations), the byte
layouts of SCALE, RLP, SSZ and ABI (but for the type of a leaf's source id), gas and fees, Ethereum and parachain
reorganisations (relays and clients act on finalized blocks; the parachain writer's
trust in a block that is not finalized yet is not modelled), RPC connections, and
tokens whose transfers do something else than move the amount or revert.

- The proof-of-work header relay: `EthereumLightClient` takes any header from anyone
  in any order, so that its safety does not depend on the relay. What is left is
  pacing and downloads.
- The header and receipt caches of `relayer/chain/ethereum/`: they answer as their
  source does.
- The runtimes and the collator node: configuration and start-up of library
  components, without state of their own.

By lines of Rust these modules cover a small share of the repository. Most of the Rust
lines have no behaviour to model: tables of test and benchmark data and of Ethash
roots, generated weights, mocks and tests, three runtimes that differ in
configuration, a test parachain, and the node template. The bridge's logic is in the
pallets and primitives listed above, and in the Solidity contracts and the Go relays.
