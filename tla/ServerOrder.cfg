SPECIFICATION FairSpec
CONSTANTS
    Chunks = 3
    MaxStreams = 2
    WriteCap = 1
    ShutCalls = 3
    ShutStreams = 1
    Events = {"reply", "eof", "dial", "write", "slow", "shutdown"}
INVARIANTS TypeOK NeverReordered WithoutGap FinComplete TellsClient OneBackend
PROPERTY Reaped
CHECK_DEADLOCK FALSE
