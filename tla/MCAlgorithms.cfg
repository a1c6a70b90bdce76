SPECIFICATION MCSpec
CONSTANTS
    MaxValidators = 21845
    MaxLeaves = 130
    MaxTreeLeaves = 20
    LogBits = 3
    Lengths = {5, 9}
    ReceiptCounts = {1, 2, 3, 4, 15, 16, 17, 18, 20, 127, 128, 129, 130}
    ProofLength = 5
    MixedCounts = {1, 2, 3, 20, 130}
    TreeDepth = 2
    Epochs = 2
    EPOCH_LENGTH = 2
    ACCESSES = 2
    IndexBits = 3
    max_capacity = 2
    MaxHeaderNumber = 9
    Config <- MCConfig
    Parents <- MCParents
    Times <- MCTimes
    BLOCK_ROOT_AT_INDEX_PROOF_DEPTH = 3
    SYNC_COMMITTEE_SIZE = 5
    ByteBits = 3
    MaxBytes = 3
    MaxSlot = 13
    SLOTS_PER_EPOCH = 2
    Recipients = {"r"}
    Parachains = {"p", "q"}
    RELAY = "relay"
    AssetIds = {"x"}
    MaxAmount = 2
    InitialBalance = 3
    MaxTransfers = 3
    Users = {"u", "v"}
    Tokens = {"t"}
    App = "app"
    Vault = "vault"
    MaxLock = 2
    Funds = 1
    MaxCalls = 3
    Header <- ForkedTree
    InitialHeader = "m0"
    InitialDifficulty = 1000
    DescendantsUntilFinalized = 2
    VerifyPoW = TRUE
    DifficultyConfig <- mainnet
    MaxHeadersForNumber = 2
    FINALIZED_HEADERS_TO_KEEP = 3
    HEADERS_TO_PRUNE_IN_SINGLE_IMPORT = 1
    MaxResets = 1
CHECK_DEADLOCK FALSE
INVARIANTS
    ThresholdIsLeast
    ConvertedProofVerifies
    TreeProofsVerify
    CountIsExact
    ReceiptProofExact
    EthashProofExact
    CacheAgrees
    ReadsExactly
    ReservesMatch
    VaultMatches
    DifficultyAsEIP649
    IndexAgrees
    PruneFollows
    OneFinalChain
    BestIsHeaviest
    FinalIsDeep
PROPERTY
    DrawEnds
