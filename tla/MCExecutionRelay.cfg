SPECIFICATION LiveSpec
CONSTANTS
    alice = alice  bob = bob  r1 = r1  r2 = r2
    Accounts <- OneAccount
    Relays <- TwoRelays
    addresses <- EveryAccount
    MaxMessages = 4
    payload <- MixedPayloads
    MaxBlock = 2
    MaxGap = 1
    MaxCrashes = 2
    MaxDrops = 1
CHECK_DEADLOCK FALSE
INVARIANTS
    DispatchedOnceInOrder
    AnsweredInOrder
    SyncedIsDispatched
PROPERTY
    EmittedIsDispatched
