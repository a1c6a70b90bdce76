SPECIFICATION RelaySpec
CONSTANTS
    v1 = v1  v2 = v2  v3 = v3  relayer = relayer
    Relayers <- MCRelayers
    Validators <- MCValidators
    SetIDs <- MCSetIDs
    Authorities <- MCAuthorities
    Commitments <- MCCommitments
    SignedBy <- MCSignedBy
    InitialBlock = 3
    InitialSetID = 1
    MaxSeats = 3
    Bitfields <- MCBitfields
    Seeds <- MCSeeds
    Draw <- MCDraw
    randaoCommitDelay = 2
    randaoCommitExpiration = 2
    DeployedAt = 1
    MaxEthBlock = 60
    Self = relayer
    Justified <- MCCommitments
    leafNext <- MCleafNext
    FastForwardDepth = 0
    MaxCrashes = 1
    MaxDrops = 1
    MaxOthers = 1
    MaxDelays = 1
CHECK_DEADLOCK FALSE
INVARIANTS
    NeverAhead
    NeverEarly
    IdleIsCaughtUp
PROPERTY
    SessionsAreHandedOver
