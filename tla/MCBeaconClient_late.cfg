SPECIFICATION Spec
CONSTANTS
    Headers <- MCHeaders
    Canonical <- MCCanonical
    None = None
    NoHeader = None
    slot <- MCslot
    number <- MCnumber
    finalizedIn <- MCfinalizedIn
    nextCommitteeIn <- MCnextCommitteeIn
    rootAt <- MCrootAt
    Committees <- MCCommittees
    committee <- MCcommittee
    Aggregates <- MCAggregates
    InitialHeader <- MCInitialHeader
    MaxSlot = 9
    Checkpoint = 1
    SlotsPerPeriod = 3
    CommitteeSize = 3
    MaxSlotsPerHistoricalRoot = 4
    MaxFinalizedHeaderSlotArray = 2
    WeakSubjectivityPeriod = 1
    MaxTime = 3
INVARIANT
    LateUpdateBlocks
CHECK_DEADLOCK FALSE
