SPECIFICATION FairSpec
CONSTANTS
    Data = 2
    Sends = 2
    MaxCwnd = 2
    AckEveryN = 3
    Callbacks = {c1}
    MaxLosses = 1
INVARIANTS TypeOK NoLostWakeup
PROPERTIES EventuallyAcked SendReturns
CHECK_DEADLOCK FALSE
