SPECIFICATION FairSpec
CONSTANTS
    MaxSend <- Upload3
    HalfSpace = 8
    InitialCwnd = 2
    MinCwnd = 1
    MaxCwnd = 3
    DefaultSsthresh = 2
    MaxFaults = 2
    MaxRetries = 1
    FastRetransmitCount = 2
    AckEveryN = 2
    MaxSackBlocks = 1
    MaxOutOfOrderBuffer = 3
    AckReorder = FALSE
    Closers = {}
INVARIANTS SackedIsHeld NothingForgotten
PROPERTY EventualDelivery
CHECK_DEADLOCK FALSE
