---------------------------- MODULE BeaconClient ----------------------------
(***************************************************************************)
(* The beacon chain light client of the parachain (pallets/                *)
(* ethereum-beacon-client/src/lib.rs).  It follows the sync committees     *)
(* from period to period, imports finalized beacon headers that a          *)
(* committee attested to, and execution headers that are ancestors of      *)
(* them.                                                                   *)
(*                                                                         *)
(* A header stands for its hash tree root.  What its state commits to      *)
(* (checkpoint, next committee, block roots) is a function of the header,  *)
(* so a valid Merkle branch is the value of that function.  An extrinsic   *)
(* that fails changes nothing: every call is #[transactional].             *)
(***************************************************************************)
EXTENDS Integers, Sequences, FiniteSets

CONSTANTS
    Headers,                 \* beacon block headers of every fork
    Canonical,               \* those of the chain that validators finalize
    NoHeader,                \* the zero hash
    slot,                    \* header -> slot
    number,                  \* header -> number of its execution block
    finalizedIn,             \* header -> finalized checkpoint in its state
    nextCommitteeIn,         \* header -> next sync committee in its state
    rootAt,                  \* header -> block_roots in its state, by index
    Committees,
    committee,               \* period -> the committee that the chain elected
    Aggregates,              \* [header, signatureSlot, committee, bits] that are valid
    InitialHeader,           \* checkpoint of the genesis config
    SlotsPerPeriod,          \* SLOTS_PER_EPOCH * EPOCHS_PER_SYNC_COMMITTEE_PERIOD
    CommitteeSize,
    MaxSlotsPerHistoricalRoot,
    MaxFinalizedHeaderSlotArray,
    WeakSubjectivityPeriod,
    MaxTime                  \* bound on the clock

compute_current_sync_period(s) == s \div SlotsPerPeriod

period(h) == compute_current_sync_period(slot[h])

sync_committee_participation_is_supermajority(bits) == bits * 3 >= CommitteeSize * 2

Periods == DOMAIN committee

ASSUME ConstantAssumption ==
    /\ SlotsPerPeriod \in Nat \ {0}
    /\ MaxSlotsPerHistoricalRoot \in Nat \ {0}
    /\ MaxFinalizedHeaderSlotArray \in Nat \ {0}
    /\ WeakSubjectivityPeriod \in Nat /\ MaxTime \in Nat
    /\ CommitteeSize \in Nat

ASSUME ChainAssumption ==
    /\ Canonical \subseteq Headers /\ InitialHeader \in Canonical /\ NoHeader \notin Headers
    /\ slot \in [Headers -> Nat] /\ number \in [Headers -> Nat]
    /\ committee \in [Periods -> Committees]
    /\ finalizedIn \in [Headers -> Headers]
    /\ nextCommitteeIn \in [Headers -> Committees]
    /\ rootAt \in [Headers -> [0 .. MaxSlotsPerHistoricalRoot - 1 -> Headers \cup {NoHeader}]]
    /\ Aggregates \subseteq [header : Headers, signatureSlot : Nat,
                             committee : Committees, bits : 0 .. CommitteeSize]
    /\ \A h \in Headers : {period(h), period(h) + 1} \subseteq Periods \cap Nat

\* The chain extends itself: canonical states name canonical headers, older than
\* themselves, and the committee elected for the next period.
ASSUME CanonicalAssumption ==
    \A h \in Canonical :
        /\ finalizedIn[h] \in Canonical /\ slot[finalizedIn[h]] <= slot[h]
        /\ nextCommitteeIn[h] = committee[period(h) + 1]
        /\ \A i \in 0 .. MaxSlotsPerHistoricalRoot - 1 :
               rootAt[h][i] # NoHeader =>
                   rootAt[h][i] \in Canonical /\ slot[rootAt[h][i]] < slot[h]

\* The light client's trust: two thirds of an elected committee sign no header of its
\* period that is off the chain.
ASSUME TrustAssumption ==
    \A a \in Aggregates :
        /\ sync_committee_participation_is_supermajority(a.bits)
        /\ a.committee = committee[period(a.header)]
        => a.header \in Canonical

VARIABLES
    now,                     \* seconds
    SyncCommittees,          \* period -> committee, for the periods stored
    LatestSyncCommitteePeriod,
    FinalizedBeaconHeaders,
    FinalizedBeaconHeadersBlockRoot, \* headers whose block_roots are stored
    FinalizedBeaconHeaderSlots,
    LatestFinalizedHeaderState,      \* [header, importTime]
    ExecutionHeaders,        \* beacon headers whose execution header is stored
    LatestExecutionHeader,   \* header or NoHeader
    Blocked,
    refused                  \* history: an update came after the weak subjectivity period

committeeVars == <<SyncCommittees, LatestSyncCommitteePeriod>>
finalizedVars == <<FinalizedBeaconHeaders, FinalizedBeaconHeadersBlockRoot,
                   FinalizedBeaconHeaderSlots, LatestFinalizedHeaderState>>
executionVars == <<ExecutionHeaders, LatestExecutionHeader>>
vars == <<now, committeeVars, finalizedVars, executionVars, Blocked, refused>>

\* process_initial_sync, from the genesis config.
Init ==
    /\ now = 0
    /\ SyncCommittees = [p \in {period(InitialHeader)} |-> committee[p]]
    /\ LatestSyncCommitteePeriod = period(InitialHeader)
    /\ FinalizedBeaconHeaders = {InitialHeader}
    /\ FinalizedBeaconHeadersBlockRoot = {}
    /\ FinalizedBeaconHeaderSlots = <<slot[InitialHeader]>>
    /\ LatestFinalizedHeaderState = [header |-> InitialHeader, importTime |-> 0]
    /\ ExecutionHeaders = {} /\ LatestExecutionHeader = NoHeader
    /\ Blocked = FALSE /\ refused = FALSE

latestNumber ==
    IF LatestExecutionHeader = NoHeader THEN 0 ELSE number[LatestExecutionHeader]

\* Mutant: any committee's signature will do.
verify_signed_header_anyone(a) == period(a.header) \in DOMAIN SyncCommittees

\* The committee is that of the period of the signed header, not of signatureSlot.
verify_signed_header(a) ==
    /\ period(a.header) \in DOMAIN SyncCommittees
    /\ a.committee = SyncCommittees[period(a.header)]

\* Mutant: the latest period is left as it was.
store_sync_committee_only(p, c) ==
    /\ SyncCommittees' = [q \in DOMAIN SyncCommittees \cup {p} |->
                             IF q = p THEN c ELSE SyncCommittees[q]]
    /\ UNCHANGED LatestSyncCommitteePeriod

store_sync_committee(p, c) ==
    /\ SyncCommittees' = [q \in DOMAIN SyncCommittees \cup {p} |->
                             IF q = p THEN c ELSE SyncCommittees[q]]
    /\ LatestSyncCommitteePeriod' = p

\* Mutant: the oldest slot is not dropped in time.
add_finalized_header_slot_late(s) ==
    FinalizedBeaconHeaderSlots' =
        IF Len(FinalizedBeaconHeaderSlots) > MaxFinalizedHeaderSlotArray
        THEN Append(Tail(FinalizedBeaconHeaderSlots), s)
        ELSE Append(FinalizedBeaconHeaderSlots, s)

add_finalized_header_slot(s) ==
    FinalizedBeaconHeaderSlots' =
        IF Len(FinalizedBeaconHeaderSlots) = MaxFinalizedHeaderSlotArray
        THEN Append(Tail(FinalizedBeaconHeaderSlots), s)
        ELSE Append(FinalizedBeaconHeaderSlots, s)

\* store_block_root and store_finalized_header.
store_finalized_header(h) ==
    /\ FinalizedBeaconHeadersBlockRoot' = FinalizedBeaconHeadersBlockRoot \cup {h}
    /\ FinalizedBeaconHeaders' = FinalizedBeaconHeaders \cup {h}
    /\ add_finalized_header_slot(slot[h])
    /\ LatestFinalizedHeaderState' = [header |-> h, importTime |-> now]

\* What a committee update is checked for.
period_update_checks(a) ==
    /\ ~Blocked
    /\ a.signatureSlot > slot[a.header]
    /\ slot[a.header] >= slot[finalizedIn[a.header]]
    /\ sync_committee_participation_is_supermajority(a.bits)
    /\ period(a.header) + 1 \notin DOMAIN SyncCommittees
    /\ period(a.header) = LatestSyncCommitteePeriod
    /\ verify_signed_header(a)

\* The next committee may come with a finalized header older than the latest one.
sync_committee_period_update(a) ==
    /\ period_update_checks(a)
    /\ store_sync_committee(period(a.header) + 1, nextCommitteeIn[a.header])
    /\ store_finalized_header(finalizedIn[a.header])
    /\ UNCHANGED <<now, executionVars, Blocked, refused>>

finalized_header_slots(a) ==
    /\ a.signatureSlot > slot[a.header]
    /\ slot[a.header] >= slot[finalizedIn[a.header]]
    /\ slot[finalizedIn[a.header]] > slot[LatestFinalizedHeaderState.header]

weak_subjectivity_exceeded ==
    now > LatestFinalizedHeaderState.importTime + WeakSubjectivityPeriod

\* Mutant: participation is not checked.
import_finalized_header_minority(a) ==
    /\ ~Blocked
    /\ finalized_header_slots(a)
    /\ ~weak_subjectivity_exceeded
    /\ period(a.header) - period(LatestFinalizedHeaderState.header) \in {0, 1}
    /\ verify_signed_header(a)
    /\ store_finalized_header(finalizedIn[a.header])
    /\ UNCHANGED <<now, committeeVars, executionVars, Blocked, refused>>

import_finalized_header(a) ==
    /\ ~Blocked
    /\ finalized_header_slots(a)
    /\ ~weak_subjectivity_exceeded
    /\ sync_committee_participation_is_supermajority(a.bits)
    /\ period(a.header) - period(LatestFinalizedHeaderState.header) \in {0, 1}
    /\ verify_signed_header(a)
    /\ store_finalized_header(finalizedIn[a.header])
    /\ UNCHANGED <<now, committeeVars, executionVars, Blocked, refused>>

\* The call writes Blocked and returns an error, which takes the write back.
import_finalized_header_late(a) ==
    /\ ~Blocked
    /\ finalized_header_slots(a)
    /\ weak_subjectivity_exceeded
    /\ refused' = TRUE
    /\ UNCHANGED <<now, committeeVars, finalizedVars, executionVars, Blocked>>

\* Mutant: the header needs no proof of ancestry.
ancestry_proof_any(h) == FinalizedBeaconHeaders # {}

\* The header is itself finalized, or in the block roots of a finalized header.
ancestry_proof(h) ==
    \/ h \in FinalizedBeaconHeaders
    \/ \E f \in FinalizedBeaconHeadersBlockRoot :
           rootAt[f][slot[h] % MaxSlotsPerHistoricalRoot] = h

store_execution_header(h) ==
    /\ ExecutionHeaders' = ExecutionHeaders \cup {h}
    /\ LatestExecutionHeader' = h

import_execution_header(a) ==
    /\ ~Blocked
    /\ slot[a.header] <= slot[LatestFinalizedHeaderState.header]
    /\ number[a.header] > latestNumber
    /\ ancestry_proof(a.header)
    /\ verify_signed_header(a)
    /\ store_execution_header(a.header)
    /\ UNCHANGED <<now, committeeVars, finalizedVars, Blocked, refused>>

unblock_bridge ==
    /\ Blocked' = FALSE
    /\ refused' = FALSE
    /\ UNCHANGED <<now, committeeVars, finalizedVars, executionVars>>

tick ==
    /\ now < MaxTime
    /\ now' = now + 1
    /\ UNCHANGED <<committeeVars, finalizedVars, executionVars, Blocked, refused>>

Next ==
    \/ \E a \in Aggregates :
           \/ sync_committee_period_update(a)
           \/ import_finalized_header(a) \/ import_finalized_header_late(a)
           \/ import_execution_header(a)
    \/ unblock_bridge
    \/ tick

Spec == Init /\ [][Next]_vars

----------------------------------------------------------------------------
\* Every storage item has its type.
TypeOK ==
    /\ now \in 0 .. MaxTime
    /\ DOMAIN SyncCommittees \subseteq Periods
    /\ SyncCommittees \in [DOMAIN SyncCommittees -> Committees]
    /\ LatestSyncCommitteePeriod \in DOMAIN SyncCommittees
    /\ FinalizedBeaconHeaders \subseteq Headers
    /\ FinalizedBeaconHeadersBlockRoot \subseteq FinalizedBeaconHeaders
    /\ FinalizedBeaconHeaderSlots \in Seq(Nat)
    /\ LatestFinalizedHeaderState \in [header : FinalizedBeaconHeaders, importTime : 0 .. now]
    /\ ExecutionHeaders \subseteq Headers
    /\ LatestExecutionHeader \in ExecutionHeaders \cup {NoHeader}
    /\ Blocked \in BOOLEAN /\ refused \in BOOLEAN

\* The committees stored are those that the chain elected, for every period from the
\* checkpoint's to the latest one: whatever updates arrive in whatever order,
\* sync_committee_period_update neither skips a period nor takes a foreign committee.
CommitteesAreElected ==
    /\ DOMAIN SyncCommittees = period(InitialHeader) .. LatestSyncCommitteePeriod
    /\ \A p \in DOMAIN SyncCommittees : SyncCommittees[p] = committee[p]

\* A header is stored as finalized only if it is on the canonical chain.
FinalizedIsCanonical == FinalizedBeaconHeaders \subseteq Canonical

\* An execution header is stored (and can be used by Verifier::verify) only if its
\* beacon block is canonical and not younger than some stored finalized header, though
\* import_execution_header asks for no supermajority.
ExecutionIsFinalized ==
    \A h \in ExecutionHeaders :
        h \in Canonical /\ \E f \in FinalizedBeaconHeaders : slot[h] <= slot[f]

\* FinalizedBeaconHeaderSlots, from which the relay chooses checkpoints after a restart,
\* holds slots of stored headers, ends with the latest one and keeps its bound.
SlotsTrackHeaders ==
    /\ Len(FinalizedBeaconHeaderSlots) \in 1 .. MaxFinalizedHeaderSlotArray
    /\ \A i \in DOMAIN FinalizedBeaconHeaderSlots :
           \E h \in FinalizedBeaconHeaders : slot[h] = FinalizedBeaconHeaderSlots[i]
    /\ FinalizedBeaconHeaderSlots[Len(FinalizedBeaconHeaderSlots)]
           = slot[LatestFinalizedHeaderState.header]

\* Execution headers are imported in ascending order of their block numbers.
ExecutionAscends ==
    [][\A h \in ExecutionHeaders' \ ExecutionHeaders, g \in ExecutionHeaders :
           number[g] < number[h]]_vars

\* No sequence of calls wedges the client: unless the bridge is blocked, the update that
\* the chain's own committee signs within the latest period passes all checks.
NeverWedged ==
    ~Blocked => \A a \in Aggregates :
        /\ a.header \in Canonical
        /\ period(a.header) = LatestSyncCommitteePeriod
        /\ a.committee = committee[period(a.header)]
        /\ a.signatureSlot > slot[a.header]
        /\ sync_committee_participation_is_supermajority(a.bits)
        => period_update_checks(a)

\* lib.rs:499: "Weak subjectivity period exceeded, blocking bridge.": after an update
\* that came too late the bridge is blocked until governance unblocks it.
LateUpdateBlocks == refused => Blocked
=============================================================================
