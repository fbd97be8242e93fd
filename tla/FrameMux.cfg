SPECIFICATION FairSpec
CONSTANTS
    MaxDials = 1
    MaxFrames = 2
    ReadCap = 1
    AcceptCap = 1
    ReadSize = 3
    Readers = {"server"}
    Writers = {"client"}
    Stops = {"server"}
    MaxFaults = 1
INVARIANTS TypeOK ClosedOnce ReadAsDelivered DialReachesPeer
PROPERTY ReadReturns
CHECK_DEADLOCK FALSE
