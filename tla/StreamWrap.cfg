SPECIFICATION Spec
CONSTANTS
    MaxSend <- Upload9
    HalfSpace = 4
    InitialCwnd = 2
    MinCwnd = 2
    MaxCwnd = 2
    DefaultSsthresh = 2
    MaxFaults = 0
    MaxRetries = 0
    FastRetransmitCount = 2
    AckEveryN = 2
    MaxSackBlocks = 1
    MaxOutOfOrderBuffer = 2
    AckReorder = TRUE
    Closers = {"client"}
INVARIANTS TypeOK InOrderDelivery ReorderBufferHasRoom StreamInv BaseNotAhead
PROPERTIES NeverBackwards ImplementsChannel OnlyStaleAcksForget
CHECK_DEADLOCK FALSE
