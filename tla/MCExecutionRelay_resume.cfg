SPECIFICATION LiveSpec
CONSTANTS
    alice = alice  bob = bob  r1 = r1  r2 = r2
    Accounts <- TwoAccounts
    Relays <- OneRelay
    addresses <- EveryAccount
    MaxMessages = 2
    payload <- UndecodablePayloads
    MaxBlock = 2
    MaxGap = 0
    MaxCrashes = 1
    MaxDrops = 0
CHECK_DEADLOCK FALSE
PROPERTY
    EmittedIsDispatched
