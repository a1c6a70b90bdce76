SPECIFICATION Spec
CONSTANTS
    r1 = r1  v1 = v1  v2 = v2  v3 = v3  v4 = v4
    Relayers <- OneRelayer
    Validators <- MCValidators
    SetIDs <- MCSetIDs
    Authorities <- MCAuthorities
    Commitments <- SessionCommitments
    SignedBy <- MCSignedBy
    InitialBlock = 3
    InitialSetID = 1
    MaxSeats = 4
    Bitfields <- FullBitfields
    Seeds = {1, 2}
    Draw <- MCDraw
    randaoCommitDelay = 1
    randaoCommitExpiration = 0
    DeployedAt = 2
    MaxEthBlock = 4
CHECK_DEADLOCK FALSE
INVARIANT
    SignersAreDistinct
