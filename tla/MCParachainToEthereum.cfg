SPECIFICATION LiveSpec
CONSTANTS
    a = a  b = b
    Sources <- MCSources
    SourceTokens = {"Bytes", "FixedBytes"}
    MaxMessagesPerCommit = 2
    MaxNonce = 3
    MaxMessages = 4
    MaxParaBlocks = 3
    MaxEvents = 1
    MaxRaces = 1
    MaxStops = 1
CHECK_DEADLOCK FALSE
INVARIANTS
    DispatchedOnceInOrder
PROPERTY
    CommittedIsDispatched
