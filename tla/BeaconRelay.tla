---------------------------- MODULE BeaconRelay -----------------------------
(***************************************************************************)
(* The beacon relay (relays/beacon) with its cache and its parachain       *)
(* writer, on top of BeaconClient.  It brings the client the committee of  *)
(* each period, the latest finalized header, and then, one extrinsic each, *)
(* the execution headers between the last two finalized ones.  It waits    *)
(* until a committee or a finalized header is in a block and asks the      *)
(* client whether it has it; of the execution headers it only limits how   *)
(* many are on their way.  Any other error ends the process, which a       *)
(* script starts again.  All of its state is volatile.                     *)
(*                                                                         *)
(* The beacon node knows the canonical chain and has the state of every    *)
(* finalized header, so Checkpoints.Proofs, a cache of those states, is    *)
(* not part of the model; only the round of the polling loop that ends     *)
(* because a committee update's state is not there yet is.  The client     *)
(* takes calls of this relay only.                                         *)
(***************************************************************************)
EXTENDS BeaconClient, SequencesExt

CONSTANTS
    Updates,                 \* the aggregates of light_client/finality_update, in order
    SlotsInEpoch,
    FinalizedCheckpointsLimit,
    MaxWatchedExtrinsics,
    MaxCrashes,              \* bound on crashes, and on states that are not there yet
    MaxDrops

\* getNextBlockRootBySlot looks at one epoch of slots.
ASSUME NoEmptyEpoch ==
    \A h \in Canonical : slot[h] + SlotsInEpoch < Max({slot[g] : g \in Canonical}) =>
        \E g \in Canonical : slot[g] - slot[h] \in 1 .. SlotsInEpoch

ASSUME UpdatesAssumption ==
    /\ Range(Updates) \subseteq {a \in Aggregates : a.header \in Canonical}
    /\ \A i \in 1 .. Len(Updates) - 1 :
           slot[finalizedIn[Updates[i].header]] <= slot[finalizedIn[Updates[i + 1].header]]

VARIABLES
    served,                  \* the beacon node's latest of Updates
    relay,                   \* the process: see Down
    pool,                    \* the relay's extrinsics not yet in a block, by nonce
    older,                   \* how many of them an earlier process sent
    nonceBehind,             \* one of those was included since the writer read its nonce
    skipped,                 \* history: headers the relay went past while the client could
                             \* not take them
    crashes, drops

poolVars == <<pool, older, nonceBehind>>
relayVars == <<vars, served, relay, poolVars, skipped, crashes, drops>>

\* No process, or one that has just begun.
Down == [pc |-> "down",
         period |-> 0,              \* LastSyncedSyncCommitteePeriod
         slots |-> {},              \* Checkpoints.Slots
         lastSynced |-> NoHeader, lastAttempted |-> NoHeader,
         periods |-> <<>>,          \* committees to sync, then go on with
         next |-> "down",
         update |-> NoHeader,       \* the finalized header being synced
         headers |-> <<>>,          \* execution headers to send, then
         failed |-> FALSE]          \* end with an error

RelayInit ==
    /\ Init
    /\ served = 1 /\ relay = Down
    /\ pool = <<>> /\ older = 0 /\ nonceBehind = FALSE
    /\ skipped = {} /\ crashes = 0 /\ drops = 0

----------------------------------------------------------------------------
GetLatestFinalizedUpdate == Updates[served]

GetHeaderBySlot(s) == CHOOSE h \in Canonical : slot[h] = s

getNextBlockRootBySlot(s) ==
    GetHeaderBySlot(Min({slot[h] : h \in {g \in Canonical : slot[g] >= s}}))

GetSyncPeriodsToFetch(lastSyncedPeriod, currentSlot) ==
    [i \in 1 .. compute_current_sync_period(currentSlot) - lastSyncedPeriod + 1 |->
        lastSyncedPeriod + i - 1]

\* What the beacon node may answer for a period: an update of it whose finalized header is
\* in the period too, which is better than any other.
GetSyncCommitteePeriodUpdate(p) ==
    {a \in Aggregates :
        /\ a.header \in Canonical /\ a.signatureSlot <= GetLatestFinalizedUpdate.signatureSlot
        /\ period(a.header) = p /\ a.committee = committee[p]
        /\ period(finalizedIn[a.header]) = p}

\* addSlot and pruneOldCheckpoints.
AddCheckPoint(slots, s) ==
    LET all == slots \cup {s}
    IN  {t \in all : Cardinality({u \in all : u > t}) < FinalizedCheckpointsLimit}

\* Mutant: a checkpoint is not found for its own slot.
checkpointsFor_above(slots, s) == {t \in slots : t > s /\ t - SlotsPerPeriod < s}

\* The slots among which GetClosestCheckpoint finds the least.
checkpointsFor(slots, s) == {t \in slots : t >= s /\ t - SlotsPerPeriod < s}

\* The header whose block roots prove h, or h itself: the branch is empty where h is the
\* checkpoint, and where the proof could not be made.
GetHeaderUpdateWithAncestryProof(slots, s, h) ==
    LET checkpoint == GetHeaderBySlot(Min(checkpointsFor(slots, s)))
    IN  IF rootAt[checkpoint][slot[h] % MaxSlotsPerHistoricalRoot] = h THEN checkpoint ELSE h

\* The call for h, with the aggregate of block next, which may be one for another header.
header_update(h, via, next) ==
    [call |-> "import_execution_header", via |-> via,
     aggregates |-> {a \in Aggregates : a.header = h /\ a.signatureSlot = slot[next]}]

\* Mutant: the first slot after from is left out.
firstSlot_next(h) == slot[h] + 2

\* Start syncing at next block after last synced block.
firstSlot(h) == slot[h] + 1

\* The calls that SyncHeaders makes and whether it then fails.  The loop begins at the
\* first slot, has a block there or not, and goes on from block to block.  It looks up each
\* header's checkpoint one turn earlier, and sends what it collected at the start of an
\* epoch and at the end.  (Its own committee sync never has work: the committees up to the
\* period of the update, or of the header that Sync read, are there by now.)
SyncHeaders[slots \in SUBSET Nat, from \in Canonical, to \in Canonical] ==
    LET first == firstSlot(from)
        currentSlots == {s \in first .. slot[to] : s = first \/ \E h \in Canonical : slot[h] = s}
        currentSlot == [i \in 1 .. Cardinality(currentSlots) |->
            CHOOSE s \in currentSlots : Cardinality({t \in currentSlots : t < s}) = i - 1]
        wanted(i) == IF i = 1 THEN first ELSE currentSlot[i - 1] + 1
        update(i) ==
            LET h == getNextBlockRootBySlot(wanted(i))
            IN  header_update(h, GetHeaderUpdateWithAncestryProof(slots, wanted(i), h),
                              getNextBlockRootBySlot(currentSlot[i] + 1))
        fails == {i \in 1 .. Max({1, Len(currentSlot)}) : checkpointsFor(slots, wanted(i)) = {}}
        epochs == {i \in 1 .. Min(fails) - 1 : currentSlot[i] % SlotsInEpoch = 0}
        count == IF fails = {} THEN Len(currentSlot) ELSE Max(epochs \cup {1}) - 1
    IN  [sent |-> [i \in 1 .. count |-> update(i)], failed |-> fails # {}]

----------------------------------------------------------------------------
\* The process ends; what it sent stays in the pool.
terminate == relay' = Down

\* syncLaggingSyncCommitteePeriods, then step next.
syncCommittees(r, periods, next) ==
    relay' = [r EXCEPT !.periods = periods, !.next = next,
                       !.pc = IF periods = <<>> THEN next ELSE "committee"]

\* SyncHeaders from header from to header to, then back to polling.
backfill(r, from, to) ==
    LET todo == SyncHeaders[r.slots, from, to]
    IN  IF todo.sent = <<>> /\ todo.failed THEN terminate
        ELSE relay' = [r EXCEPT !.headers = todo.sent, !.failed = todo.failed, !.update = NoHeader,
                                !.pc = IF todo.sent = <<>> THEN "poll" ELSE "send"]

\* The node refuses an extrinsic whose nonce is used, or taken by one in the pool.
submit(extrinsic, r) ==
    IF older = 0 /\ ~nonceBehind
    THEN pool' = Append(pool, extrinsic) /\ relay' = r
    ELSE terminate /\ UNCHANGED pool

\* The headers above h up to header to.
between(h, to) == {g \in Canonical : slot[h] < slot[g] /\ slot[g] <= slot[to]}

\* The script starts the relay; its writer reads the account's nonce.
Start ==
    /\ relay.pc = "down"
    /\ relay' = [Down EXCEPT !.pc = "started"]
    /\ older' = Len(pool) /\ nonceBehind' = FALSE
    /\ UNCHANGED <<vars, served, pool, skipped, crashes, drops>>

\* Sync reads the client's state.
Sync ==
    /\ relay.pc = "started"
    /\ LET final == LatestFinalizedHeaderState.header
       IN  syncCommittees([Down EXCEPT !.period = LatestSyncCommitteePeriod,
                                       !.slots = Range(FinalizedBeaconHeaderSlots),
                                       !.lastSynced = final, !.lastAttempted = final],
                          GetSyncPeriodsToFetch(LatestSyncCommitteePeriod,
                              slot[finalizedIn[GetLatestFinalizedUpdate.header]]),
                          "lagging")
    /\ UNCHANGED <<vars, served, poolVars, skipped, crashes, drops>>

SyncCommitteePeriodUpdate ==
    /\ relay.pc = "committee"
    /\ LET updates == GetSyncCommitteePeriodUpdate(Head(relay.periods))
       IN  IF updates = {} THEN terminate /\ UNCHANGED pool
           ELSE \E a \in updates :
               submit([call |-> "sync_committee_period_update", via |-> NoHeader, aggregates |-> {a}],
                      [relay EXCEPT !.pc = "committeeSent",
                                    !.slots = AddCheckPoint(@, slot[finalizedIn[a.header]])])
    /\ UNCHANGED <<vars, served, older, nonceBehind, skipped, crashes, drops>>

\* ErrBeaconStateAvailableYet: the polling loop tries again, and begins with the period it
\* had synced last.
stateNotAvailable ==
    /\ relay.pc = "committee" /\ relay.next = "finalize"
    /\ crashes < MaxCrashes /\ crashes' = crashes + 1
    /\ relay' = [relay EXCEPT !.pc = "poll", !.periods = <<>>, !.update = NoHeader]
    /\ UNCHANGED <<vars, served, poolVars, skipped, drops>>

\* The update is in a block: the client is asked for its latest period.
committeeSynced ==
    /\ relay.pc = "committeeSent" /\ pool = <<>>
    /\ LET p == Head(relay.periods)
       IN  IF LatestSyncCommitteePeriod # p + 1 THEN terminate
           ELSE syncCommittees([relay EXCEPT !.period = IF p > @ THEN p ELSE @],
                               Tail(relay.periods), relay.next)
    /\ UNCHANGED <<vars, served, poolVars, skipped, crashes, drops>>

\* Mutant: what an earlier process left unsent is not looked for.
syncLaggingExecutionHeaders_never ==
    /\ relay.pc = "lagging"
    /\ relay' = [relay EXCEPT !.slots = AddCheckPoint(@, slot[relay.lastSynced]), !.pc = "poll"]
    /\ skipped' = skipped \cup between(LatestFinalizedHeaderState.header, relay.lastSynced)
    /\ UNCHANGED <<vars, served, poolVars, crashes, drops>>

\* From the latest execution header to the finalized header that Sync read.  The committees
\* synced since may have taken the client's latest finalized header back below that one.
syncLaggingExecutionHeaders ==
    /\ relay.pc = "lagging"
    /\ LET r == [relay EXCEPT !.slots = AddCheckPoint(@, slot[relay.lastSynced]), !.pc = "poll"]
       IN  IF LatestExecutionHeader = NoHeader THEN relay' = r
           ELSE IF slot[LatestExecutionHeader] >= slot[relay.lastSynced] THEN relay' = r
           ELSE backfill(r, LatestExecutionHeader, relay.lastSynced)
    /\ skipped' = skipped \cup between(LatestFinalizedHeaderState.header, relay.lastSynced)
    /\ UNCHANGED <<vars, served, poolVars, crashes, drops>>

\* A round of the polling loop, if the finalized header is another than in the last one.
SyncHeadersFromFinalized ==
    LET a == GetLatestFinalizedUpdate
    IN  /\ relay.pc = "poll"
        /\ finalizedIn[a.header] # relay.lastAttempted
        /\ syncCommittees([relay EXCEPT !.update = a],
                          IF relay.period < period(a.header)
                          THEN GetSyncPeriodsToFetch(relay.period, slot[a.header]) ELSE <<>>,
                          "finalize")
        /\ UNCHANGED <<vars, served, poolVars, skipped, crashes, drops>>

SyncFinalizedHeader ==
    /\ relay.pc = "finalize"
    /\ submit([call |-> "import_finalized_header", via |-> NoHeader, aggregates |-> {relay.update}],
              [relay EXCEPT !.pc = "finalizedSent"])
    /\ UNCHANGED <<vars, served, older, nonceBehind, skipped, crashes, drops>>

\* The update is in a block: the client is asked for its latest finalized header.  Where
\* that is another, the update was refused, and LastSyncedHash moves on all the same.
finalizedSynced ==
    /\ relay.pc = "finalizedSent" /\ pool = <<>>
    /\ LET final == finalizedIn[relay.update.header]
           r == [relay EXCEPT !.slots = AddCheckPoint(@, slot[final]), !.lastAttempted = final,
                              !.lastSynced = final, !.update = NoHeader, !.pc = "poll"]
       IN  IF LatestFinalizedHeaderState.header # final
           THEN relay' = r /\ skipped' = skipped \cup between(relay.lastSynced, final)
           ELSE backfill(r, relay.lastSynced, final) /\ UNCHANGED skipped
    /\ UNCHANGED <<vars, served, poolVars, crashes, drops>>

\* WriteToParachainAndRateLimit: nobody looks at what becomes of the call.  Its place in
\* the writer's queue is taken as free once it is in a block; the code waits until that
\* block is final, and sends no faster.
SyncHeader ==
    /\ relay.pc = "send" /\ Len(pool) < MaxWatchedExtrinsics
    /\ LET left == Tail(relay.headers)
           r == [relay EXCEPT !.headers = left, !.failed = IF left = <<>> THEN FALSE ELSE @,
                              !.pc = IF left = <<>> THEN "poll" ELSE "send"]
       IN  submit(Head(relay.headers), IF left = <<>> /\ relay.failed THEN Down ELSE r)
    /\ UNCHANGED <<vars, served, older, nonceBehind, skipped, crashes, drops>>

----------------------------------------------------------------------------
\* The ancestry proof that a call carries holds for the client.
proves(extrinsic, h) ==
    IF extrinsic.via = h THEN h \in FinalizedBeaconHeaders
    ELSE /\ extrinsic.via \in FinalizedBeaconHeadersBlockRoot
         /\ rootAt[extrinsic.via][slot[h] % MaxSlotsPerHistoricalRoot] = h

call(extrinsic) ==
    \E a \in extrinsic.aggregates :
        \/ extrinsic.call = "sync_committee_period_update" /\ sync_committee_period_update(a)
        \/ extrinsic.call = "import_finalized_header" /\ import_finalized_header(a)
        \/ /\ extrinsic.call = "import_execution_header"
           /\ proves(extrinsic, a.header)
           /\ import_execution_header(a)

\* A parachain block has the next extrinsic; a call that fails changes nothing.
include ==
    /\ pool # <<>>
    /\ IF ENABLED call(Head(pool)) THEN call(Head(pool)) ELSE UNCHANGED vars
    /\ pool' = Tail(pool)
    /\ older' = IF older = 0 THEN 0 ELSE older - 1
    /\ nonceBehind' = (nonceBehind \/ older # 0)
    /\ UNCHANGED <<served, relay, skipped, crashes, drops>>

\* The node drops an extrinsic with those that depend on it; a watcher's error ends the relay.
drop ==
    /\ drops < MaxDrops /\ drops' = drops + 1
    /\ \E i \in DOMAIN pool :
           /\ pool' = SubSeq(pool, 1, i - 1)
           /\ older' = IF older < i THEN older ELSE i - 1
           /\ IF Len(pool) > older THEN terminate ELSE UNCHANGED relay
    /\ UNCHANGED <<vars, served, nonceBehind, skipped, crashes>>

crash ==
    /\ crashes < MaxCrashes /\ relay.pc # "down"
    /\ crashes' = crashes + 1
    /\ terminate
    /\ UNCHANGED <<vars, served, poolVars, skipped, drops>>

\* The beacon chain finalizes more.
finalize ==
    /\ served < Len(Updates) /\ served' = served + 1
    /\ UNCHANGED <<vars, relay, poolVars, skipped, crashes, drops>>

Relay ==
    \/ Start \/ Sync \/ SyncCommitteePeriodUpdate \/ committeeSynced \/ syncLaggingExecutionHeaders
    \/ SyncHeadersFromFinalized \/ SyncFinalizedHeader \/ finalizedSynced \/ SyncHeader

RelayNext == Relay \/ stateNotAvailable \/ include \/ drop \/ crash \/ finalize

\* When Relay is enabled.
ready ==
    \/ relay.pc \in {"down", "started", "committee", "lagging", "finalize"}
    \/ relay.pc \in {"committeeSent", "finalizedSent"} /\ pool = <<>>
    \/ relay.pc = "poll" /\ finalizedIn[GetLatestFinalizedUpdate.header] # relay.lastAttempted
    \/ relay.pc = "send" /\ Len(pool) < MaxWatchedExtrinsics

\* The relay goes on and is started again, and extrinsics that are not dropped get into
\* blocks: weak fairness of Relay and of include.
RelayFairness ==
    /\ []<>~ready \/ []<><<Relay>>_relay
    /\ []<>(pool = <<>>) \/ []<><<include>>_pool

RelaySpec == RelayInit /\ [][RelayNext]_relayVars /\ RelayFairness

----------------------------------------------------------------------------
\* The headers that the client can take: not the last of a period, which the committee of
\* the next period attests to.
importable ==
    {h \in Canonical : \E a \in Aggregates : a.header = h /\ a.committee = committee[period(h)]}

\* Though nobody looks at the result of a call, and whatever is dropped, missed or
\* interrupted in between, the relay leaves no gap in the execution headers that it did not
\* go past itself, when the client refused a finalized header or had been taken back
\* (skipped).  A gap stays: import_execution_header takes nothing older than the latest.
NoGap ==
    \A h \in importable \ (ExecutionHeaders \cup skipped) : \A f, g \in ExecutionHeaders :
        ~(slot[f] < slot[h] /\ slot[h] < slot[g])

\* A relay that polls has done its work: once its extrinsics are included, the client has
\* the execution headers up to the last synced finalized header, from the first it took,
\* but for those skipped.  (Where an earlier process's extrinsic came in between, the next
\* submission fails, and the relay begins again.)
PolledIsSynced ==
    relay.pc = "poll" /\ pool = <<>> /\ ~nonceBehind =>
        \A h \in importable \ skipped :
            /\ slot[h] <= slot[relay.lastSynced]
            /\ \E f \in ExecutionHeaders : slot[f] < slot[h]
            => h \in ExecutionHeaders

\* A relay that began while an extrinsic of an earlier one was on its way, and has nothing
\* to send: its next submission will fail, and it will begin again.
awaitsFinality ==
    /\ relay.pc = "poll" /\ nonceBehind
    /\ finalizedIn[GetLatestFinalizedUpdate.header] = relay.lastAttempted

\* No checkpoint that a relay finds after a restart is near enough to prove the next
\* execution header: the client took a finalized header more than a period further on.
\* Every relay from now on ends in syncLaggingExecutionHeaders.
outOfReach ==
    /\ LatestExecutionHeader # NoHeader
    /\ LET latest == slot[LatestExecutionHeader]
       IN  /\ latest < slot[LatestFinalizedHeaderState.header]
           /\ latest + 1 .. latest + SlotsPerPeriod \cap Range(FinalizedBeaconHeaderSlots) = {}

\* Every finalized block after the first has its execution header stored in the end,
\* through crashes and lost extrinsics, at the latest when the chain has finalized more,
\* unless the relay went past it while the client could not take it, or the next header
\* to store is out of reach of the client's checkpoints.
FinalizedIsBackfilled ==
    \A h \in importable :
        /\ slot[h] <= slot[finalizedIn[GetLatestFinalizedUpdate.header]]
        /\ \E f \in ExecutionHeaders : slot[f] < slot[h]
        ~> h \in ExecutionHeaders \cup skipped \/ awaitsFinality \/ outOfReach

\* header.go:217: "If the finalized header import succeeded, we add it to this cache.": the
\* finalized header that a polling relay takes for synced, and back-fills from, is one that
\* the client has.
LastSyncedIsImported == relay.pc = "poll" => relay.lastSynced \in FinalizedBeaconHeaders
=============================================================================
