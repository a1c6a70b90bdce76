SPECIFICATION MCSpec
CONSTANTS
    Headers <- Headers_
    Canonical <- Canonical_
    None = None
    NoHeader = None
    slot <- slot_
    number <- number_
    finalizedIn <- finalizedIn_
    nextCommitteeIn <- nextCommitteeIn_
    rootAt <- rootAt_
    Committees <- MCCommittees
    committee <- committee_
    Aggregates <- Aggregates_
    InitialHeader <- MCInitialHeader
    Updates <- Updates_
    Attested <- MCAttested
    MaxSlot = 11
    Checkpoint = 0
    SlotsPerPeriod = 6
    CommitteeSize = 3
    MaxSlotsPerHistoricalRoot = 6
    MaxFinalizedHeaderSlotArray = 2
    WeakSubjectivityPeriod = 0
    MaxTime = 1
    SlotsInEpoch = 2
    FinalizedCheckpointsLimit = 2
    MaxWatchedExtrinsics = 2
    MaxCrashes = 2
    MaxDrops = 1
CHECK_DEADLOCK FALSE
INVARIANTS
    RelayLeavesNoGap
    PolledIsSynced
    CommitteesAreElected
    FinalizedIsCanonical
    ExecutionIsFinalized
    SlotsTrackHeaders
    NeverWedged
PROPERTY
    RelayBackfills
